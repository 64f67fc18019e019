------------------------ MODULE ChainManager_proofs ------------------------
(***************************************************************************)
(* Proofs about ChainManager, for every tree of blocks and transactions,   *)
(* and for both behaviours of a Computation that is bound twice.           *)
(*                                                                         *)
(* The types alone are not inductive: reorg indexes main and forks with    *)
(* values it computed steps before.  ReorgShape says where these point     *)
(* while reorg runs, and DiffCovers that no stored difficulty is too small *)
(* for the headers it stands for, so that subtracting the difficulty of a  *)
(* trimmed part does not wrap.                                             *)
(*                                                                         *)
(* The theorems about the forks hold for every tree of blocks, in which a  *)
(* block has a height (Heights), and those about the ledger for every such *)
(* tree in which no transaction is on a chain twice (TransactionsDiffer).  *)
(* Both are hypotheses of each theorem and no assumptions of a module.     *)
(***************************************************************************)
EXTENDS ChainManager, TLAPS, WellFoundedInduction

\* Where a running reorg stands.
ReorgShape ==
  /\ pc \in {"idle", "rewind"} => idx = 0
  /\ pc # "idle" => /\ target \in DOMAIN forks
                    /\ Winner.src = old.src
                    /\ idx <= Len(Winner.chain)
                    /\ old.src < Len(main)
  /\ pc \in {"rewind", "undo"} => cursor \in old.src + 1..Len(main)
  /\ pc = "apply" => Len(main) = old.src + 1 + idx

\* A difficulty is at least the number of headers from genesis to the tip.
DiffCovers ==
  /\ mainDiff >= Len(main)
  /\ \A i \in DOMAIN forks :
       forks[i].diff >= forks[i].src + 1 + Len(forks[i].chain)
  /\ pc # "idle" => old.diff >= old.src + 1 + Len(old.chain)

IndInv == TypeOK /\ ReorgShape /\ DiffCovers

\* While reorg runs, the old fork still fits where it was cut off, and what
\* is restored of it is restored in its order.
OldFits ==
  pc # "idle" =>
    /\ \A i \in DOMAIN old.chain :
         Parent[old.chain[i]] = IF i = 1 THEN main[old.src + 1]
                                         ELSE old.chain[i - 1]
    /\ pc = "restore" =>
         \A i \in 1..Restored : /\ i \in DOMAIN old.chain
                                /\ main[old.src + 1 + i] = old.chain[i]

\* The header an old fork is going to name is in the store, too.
StoreInv == StoreHasChains /\ {Genesis, old.header} \subseteq store

-----------------------------------------------------------------------------
\* What the constants say of one block.
LEMMA BlockTypes ==
  ASSUME NEW b \in Block
  PROVE  /\ Created(b) \subseteq OutPoint
         /\ Consumed(b) \subseteq OutPoint
         /\ Parent[b] \in Block
         /\ Timestamp[b] \in Nat
BY BlockTreeAssumption DEF Created, Consumed

\* Fork::append_block gives a fork, one block and its difficulty longer.
LEMMA GrownFork ==
  ASSUME NEW f \in Fork, NEW b \in Block
  PROVE  /\ Grown(f, b) \in Fork
         /\ Grown(f, b).src = f.src
         /\ Grown(f, b).header = f.header
         /\ Grown(f, b).diff = f.diff + 1
         /\ Grown(f, b).chain = Append(f.chain, b)
         /\ Len(Grown(f, b).chain) = Len(f.chain) + 1
BY DEF Grown, Fork

\* Removing an element of a sequence leaves the others.
LEMMA RemoveAtProperties ==
  ASSUME NEW S, NEW s \in Seq(S), NEW i \in DOMAIN s
  PROVE  /\ RemoveAt(s, i) \in Seq(S)
         /\ Len(RemoveAt(s, i)) = Len(s) - 1
         /\ \A j \in 1..Len(s) - 1 :
              RemoveAt(s, i)[j] = IF j < i THEN s[j] ELSE s[j + 1]
<1> DEFINE p == SubSeq(s, 1, i - 1)
           q == SubSeq(s, i + 1, Len(s))
<1>0. i \in 1..Len(s)
  OBVIOUS
<1>1. p \in Seq(S) /\ Len(p) = i - 1 /\ \A j \in 1..i - 1 : p[j] = s[j]
  OBVIOUS
<1>2. q \in Seq(S) /\ Len(q) = Len(s) - i /\ \A j \in 1..Len(s) - i : q[j] = s[i + j]
  OBVIOUS
<1>3. RemoveAt(s, i) = p \o q
  BY DEF RemoveAt
<1> HIDE DEF p, q
<1>4. p \o q \in Seq(S) /\ Len(p \o q) = Len(s) - 1
  BY <1>1, <1>2
<1>5. ASSUME NEW j \in 1..Len(s) - 1
      PROVE  (p \o q)[j] = IF j < i THEN s[j] ELSE s[j + 1]
  <2>1. CASE j < i
    BY <1>1, <1>2, <2>1
  <2>2. CASE j >= i
    <3>1. (p \o q)[j] = q[j - (i - 1)]
      BY SMTT(30), <1>1, <1>2, <2>2
    <3>2. j - (i - 1) \in 1..Len(s) - i /\ i + (j - (i - 1)) = j + 1
      BY <2>2
    <3>3. QED
      BY SMTT(30), <1>2, <2>2, <3>1, <3>2
  <2>3. j < i \/ j >= i
    BY <1>0
  <2>4. QED
    BY <2>1, <2>2, <2>3
<1>6. QED
  BY <1>3, <1>4, <1>5

\* The forks after a reorg: all but the adopted one, and the old main chain.
LEMMA AdoptedForks ==
  ASSUME NEW i \in DOMAIN forks, forks \in Seq(Fork), NEW f \in Fork
  PROVE  LET fs == Append(RemoveAt(forks, i), f) IN
         /\ fs \in Seq(Fork)
         /\ \A j \in DOMAIN fs : fs[j] = f \/ \E k \in DOMAIN forks : fs[j] = forks[k]
<1> DEFINE r  == RemoveAt(forks, i)
           fs == Append(r, f)
<1>1. /\ r \in Seq(Fork)
      /\ Len(r) = Len(forks) - 1
      /\ \A j \in 1..Len(forks) - 1 :
           r[j] = IF j < i THEN forks[j] ELSE forks[j + 1]
  BY RemoveAtProperties
<1> HIDE DEF r
<1>2. fs \in Seq(Fork) /\ Len(fs) = Len(forks)
  BY <1>1
<1>3. ASSUME NEW j \in DOMAIN fs
      PROVE  fs[j] = f \/ \E k \in DOMAIN forks : fs[j] = forks[k]
  <2>1. CASE j = Len(forks)
    BY <1>1, <2>1
  <2>2. CASE j < Len(forks)
    <3>1. fs[j] = r[j]
      BY <1>1, <2>2, <1>2
    <3>2. j \in DOMAIN forks /\ j + 1 \in DOMAIN forks
      BY <1>2, <2>2
    <3>3. QED
      BY <1>1, <1>2, <2>2, <3>1, <3>2
  <2>3. QED
    BY <1>2, <2>1, <2>2
<1>4. QED
  BY <1>2, <1>3 DEF r

-----------------------------------------------------------------------------
\* Appending a block keeps the types of all that append_block changes.
LEMMA ExtendMainTypes ==
  ASSUME TypeOK, NEW b \in Block, ExtendMain(b)
  PROVE  /\ main' \in Seq(Block) /\ Len(main') = Len(main) + 1
         /\ main' = Append(main, b)
         /\ \A i \in 1..Len(main) : main'[i] = main[i]
         /\ mainDiff' = mainDiff + 1 /\ mainDiff' \in Nat
         /\ store' \subseteq Block
         /\ unspent' \subseteq OutPoint
         /\ spent' \subseteq OutPoint
         /\ altered' \subseteq OutPoint
<1>1. main \in Seq(Block) /\ mainDiff \in Nat
  BY DEF TypeOK
<1>2. main' = Append(main, b) /\ mainDiff' = mainDiff + 1 /\ store' = store \cup {b}
  BY DEF ExtendMain
<1>3. unspent' \subseteq OutPoint /\ spent' \subseteq OutPoint /\ altered' \subseteq OutPoint
  BY BlockTypes DEF TypeOK, ExtendMain, ChainstateAdd
<1>4. QED
  BY <1>1, <1>2, <1>3 DEF TypeOK

\* add_block of a block that extends the main chain.
LEMMA AttachToMainInv ==
  ASSUME IndInv, NEW b \in Block, NEW own \in BOOLEAN, AttachToMain(b, own)
  PROVE  IndInv'
<1>1. pc = "idle" /\ pc' = "idle" /\ UNCHANGED <<forks, target, old, cursor, idx, status, cut>>
  BY DEF AttachToMain, Receivable, reorgVars
<1>2. ExtendMain(b) /\ coins' \subseteq OutPoint /\ reply' = "added"
  BY BlockTypes, BlockTreeAssumption DEF AttachToMain, IndInv, TypeOK, WalletAdd
<1>3. TypeOK /\ main' \in Seq(Block) /\ Len(main') = Len(main) + 1 /\ mainDiff' = mainDiff + 1
  BY <1>2, ExtendMainTypes DEF IndInv
<1>4. TypeOK'
  BY <1>1, <1>2, <1>3, ExtendMainTypes DEF TypeOK, Reply
<1>5. ReorgShape' /\ DiffCovers'
  BY <1>1, <1>3 DEF IndInv, ReorgShape, DiffCovers, TypeOK
<1>6. QED
  BY <1>4, <1>5 DEF IndInv

\* add_block of a block that starts a fork, on a block of the main chain.
LEMMA StartForkInv ==
  ASSUME IndInv, NEW b \in Block, StartFork(b)
  PROVE  IndInv'
<1> DEFINE f == [src |-> SourceIndex(b), header |-> Parent[b],
                 chain |-> <<b>>, diff |-> SourceIndex(b) + 2]
<1>1. /\ pc = "idle" /\ forks' = Append(forks, f) /\ store' = store \cup {b}
      /\ reply' = "added"
      /\ UNCHANGED <<main, mainDiff, unspent, spent, altered, coins, pc,
                     target, old, cursor, idx, status, cut>>
  BY DEF StartFork, Receivable, reorgVars
<1>2. TypeOK
  BY DEF IndInv
<1>3. \E i \in DOMAIN main : main[i] = Parent[b]
  BY DEF StartFork, ToSet
<1>4. (CHOOSE i \in DOMAIN main : main[i] = Parent[b]) \in 1..Len(main)
  BY <1>2, <1>3 DEF TypeOK
<1>5. SourceIndex(b) \in Nat
  BY <1>2, <1>4 DEF SourceIndex, TypeOK
<1>6. f \in Fork /\ f.diff >= f.src + 1 + Len(f.chain)
  BY <1>5, BlockTypes DEF Fork
<1> HIDE DEF f
<1>7. /\ forks' \in Seq(Fork) /\ Len(forks') = Len(forks) + 1
      /\ \A i \in DOMAIN forks' : forks'[i] = IF i = Len(forks) + 1 THEN f ELSE forks[i]
      /\ DOMAIN forks' = 1..Len(forks) + 1 /\ DOMAIN forks = 1..Len(forks)
  BY <1>1, <1>2, <1>6 DEF TypeOK
<1>8. TypeOK'
  BY <1>1, <1>2, <1>7 DEF TypeOK, Reply
<1>9. ReorgShape'
  BY <1>1 DEF IndInv, ReorgShape
<1>10. ASSUME NEW i \in DOMAIN forks'
       PROVE  forks'[i].diff >= forks'[i].src + 1 + Len(forks'[i].chain)
  <2>1. CASE i = Len(forks) + 1
    BY <1>6, <1>7, <2>1
  <2>2. CASE i # Len(forks) + 1
    BY <1>7, <2>2 DEF IndInv, DiffCovers
  <2>3. QED
    BY <2>1, <2>2
<1>11. DiffCovers'
  BY <1>1, <1>10 DEF IndInv, DiffCovers
<1>12. QED
  BY <1>8, <1>9, <1>11 DEF IndInv

\* The fields of a fork.
LEMMA ForkTypes ==
  ASSUME TypeOK, NEW i \in DOMAIN forks
  PROVE  /\ forks[i] \in Fork
         /\ forks[i].src \in Nat
         /\ forks[i].header \in Block
         /\ forks[i].chain \in Seq(Block)
         /\ forks[i].diff \in Nat
<1>1. forks[i] \in Fork
  BY DEF TypeOK
<1>2. QED
  BY <1>1 DEF Fork

\* One fork changes, the others stay.
LEMMA ForkReplaced ==
  ASSUME TypeOK, NEW i \in DOMAIN forks, NEW f \in Fork,
         forks' = [forks EXCEPT ![i] = f]
  PROVE  /\ forks' \in Seq(Fork)
         /\ DOMAIN forks' = DOMAIN forks
         /\ forks'[i] = f
         /\ \A j \in DOMAIN forks : j # i => forks'[j] = forks[j]
BY DEF TypeOK

\* add_block of a block that extends a fork, without a reorg.
LEMMA ExtendForkInv ==
  ASSUME IndInv, NEW b \in Block, ExtendFork(b)
  PROVE  IndInv'
<1>1. /\ pc = "idle" /\ store' = store \cup {b} /\ reply' = "added"
      /\ UNCHANGED <<main, mainDiff, unspent, spent, altered, coins, pc,
                     target, old, cursor, idx, status, cut>>
  BY DEF ExtendFork, Receivable, reorgVars
<1>2. TypeOK
  BY DEF IndInv
<1>3. PICK i \in DOMAIN forks : forks' = [forks EXCEPT ![i] = Grown(forks[i], b)]
  BY DEF ExtendFork, FirstFork, Attachable
<1>4. forks[i] \in Fork /\ forks[i].chain \in Seq(Block)
  BY <1>2, ForkTypes
<1>5. Grown(forks[i], b) \in Fork
  BY <1>4, GrownFork
<1>6. /\ forks' \in Seq(Fork) /\ DOMAIN forks' = DOMAIN forks
      /\ forks'[i] = Grown(forks[i], b)
      /\ \A j \in DOMAIN forks : j # i => forks'[j] = forks[j]
  BY <1>2, <1>3, <1>5, ForkReplaced
<1>7. TypeOK'
  BY <1>1, <1>2, <1>6 DEF TypeOK, Reply
<1>8. ReorgShape'
  BY <1>1 DEF IndInv, ReorgShape
<1>9. DiffCovers'
  <2>1. forks'[i].diff >= forks'[i].src + 1 + Len(forks'[i].chain)
    BY SMTT(30), <1>4, <1>6, GrownFork DEF IndInv, DiffCovers, Fork
  <2>2. QED
    BY <1>1, <1>6, <2>1 DEF IndInv, DiffCovers
<1>10. QED
  BY <1>7, <1>8, <1>9 DEF IndInv

\* The old main chain as a fork, when the source index lies on it.
LEMMA OldMainFork ==
  ASSUME TypeOK, NEW f \in Fork, f.src < Len(main)
  PROVE  /\ OldMain(f) \in Fork
         /\ OldMain(f).src = f.src
         /\ OldMain(f).header = main[f.src + 1]
         /\ OldMain(f).diff = mainDiff
         /\ Len(OldMain(f).chain) = Len(main) - (f.src + 1)
         /\ DOMAIN OldMain(f).chain = 1..Len(main) - (f.src + 1)
         /\ \A i \in 1..Len(main) - (f.src + 1) :
              OldMain(f).chain[i] = main[f.src + 1 + i]
<1>1. main \in Seq(Block) /\ mainDiff \in Nat /\ f.src \in Nat
  BY DEF TypeOK, Fork
<1> DEFINE c == SubSeq(main, f.src + 2, Len(main))
<1>2. /\ c \in Seq(Block) /\ Len(c) = Len(main) - (f.src + 1)
      /\ DOMAIN c = 1..Len(main) - (f.src + 1)
      /\ \A i \in 1..Len(main) - (f.src + 1) : c[i] = main[f.src + 1 + i]
  BY SMTT(30), <1>1
<1>3. main[f.src + 1] \in Block
  BY <1>1
<1> HIDE DEF c
<1>4. OldMain(f) = [src |-> f.src, header |-> main[f.src + 1], chain |-> c,
                    diff |-> mainDiff]
  BY DEF OldMain, c
<1>5. QED
  BY <1>1, <1>2, <1>3, <1>4 DEF Fork

\* add_block of a block that makes a fork heavier than main.
LEMMA StartReorgInv ==
  ASSUME IndInv, NEW b \in Block, StartReorg(b)
  PROVE  IndInv'
<1>1. /\ pc = "idle" /\ store' = store \cup {b}
      /\ UNCHANGED <<main, mainDiff, unspent, spent, altered, coins, idx, reply,
                     cut>>
  BY DEF StartReorg, Receivable
<1>2. TypeOK /\ idx = 0
  BY <1>1 DEF IndInv, ReorgShape
<1>3. PICK i \in DOMAIN forks :
        /\ forks' = [forks EXCEPT ![i] = Grown(forks[i], b)]
        /\ \/ /\ forks[i].src < Len(main) /\ pc' = "rewind" /\ target' = i
              /\ old' = OldMain(forks[i]) /\ cursor' = Len(main)
              /\ UNCHANGED status
           \/ /\ status' = "undefined"
              /\ UNCHANGED <<pc, target, old, cursor>>
  BY DEF StartReorg, FirstFork, Attachable
<1>4. forks[i] \in Fork /\ forks[i].chain \in Seq(Block) /\ forks[i].src \in Nat
  BY <1>2, ForkTypes
<1>5. Grown(forks[i], b) \in Fork
  BY <1>4, GrownFork
<1>6. /\ forks' \in Seq(Fork) /\ DOMAIN forks' = DOMAIN forks
      /\ forks'[i] = Grown(forks[i], b)
      /\ \A j \in DOMAIN forks : j # i => forks'[j] = forks[j]
  BY <1>2, <1>3, <1>5, ForkReplaced
<1>7. \A j \in DOMAIN forks' :
        forks'[j].diff >= forks'[j].src + 1 + Len(forks'[j].chain)
  <2>1. forks'[i].diff >= forks'[i].src + 1 + Len(forks'[i].chain)
    BY SMTT(30), <1>4, <1>6, GrownFork DEF IndInv, DiffCovers, Fork
  <2>2. QED
    BY <1>6, <2>1 DEF IndInv, DiffCovers
<1>8. CASE /\ forks[i].src < Len(main) /\ pc' = "rewind" /\ target' = i
           /\ old' = OldMain(forks[i]) /\ cursor' = Len(main)
           /\ UNCHANGED status
  <2>1. TypeOK'
    BY <1>1, <1>2, <1>4, <1>6, <1>8, OldMainFork DEF TypeOK, Phase
  <2>2. ReorgShape'
    <3>1. Winner' = Grown(forks[i], b)
      BY <1>6, <1>8 DEF Winner
    <3>2. Winner'.src = old'.src /\ old'.src = forks[i].src /\ Len(Winner'.chain) \in Nat
      BY SMTT(30), <1>2, <1>4, <1>5, <1>8, <3>1, GrownFork, OldMainFork DEF Fork
    <3>3. QED
      BY <1>1, <1>2, <1>4, <1>6, <1>8, <3>2 DEF ReorgShape, TypeOK
  <2>3. DiffCovers'
    BY SMTT(30), <1>1, <1>2, <1>4, <1>7, <1>8, OldMainFork DEF IndInv, DiffCovers, TypeOK
  <2>4. QED
    BY <2>1, <2>2, <2>3 DEF IndInv
<1>9. CASE /\ status' = "undefined"
           /\ UNCHANGED <<pc, target, old, cursor>>
  <2>1. TypeOK'
    BY <1>1, <1>2, <1>6, <1>9 DEF TypeOK, Status
  <2>2. ReorgShape' /\ DiffCovers'
    BY <1>1, <1>2, <1>7, <1>9 DEF IndInv, ReorgShape, DiffCovers
  <2>3. QED
    BY <2>1, <2>2 DEF IndInv
<1>10. QED
  BY <1>3, <1>8, <1>9

\* One block of main is rewound.
LEMMA RewindInv ==
  ASSUME IndInv, RewindMain \/ UndoFork
  PROVE  IndInv'
<1>1. TypeOK /\ RewindOne /\ pc \in {"rewind", "undo"}
  BY DEF IndInv, RewindMain, UndoFork
<1>2. UNCHANGED <<main, mainDiff, store, forks, coins, pc, target, old, idx, reply,
                  cut>>
  BY <1>1 DEF RewindOne
<1>3. cursor \in old.src + 1..Len(main) /\ cursor > old.src + 1 /\ old.src \in Nat
  BY <1>1 DEF IndInv, ReorgShape, RewindOne, TypeOK, Fork
<1>4. main[cursor] \in Block
  BY <1>1, <1>3 DEF TypeOK
<1>5. CASE ChainstateRewind(main[cursor]) /\ cursor' = cursor - 1 /\ UNCHANGED status
  <2>1. TypeOK'
    BY <1>1, <1>2, <1>3, <1>4, <1>5, BlockTypes DEF TypeOK, ChainstateRewind
  <2>2. cursor' \in old.src + 1..Len(main)
    BY <1>1, <1>3, <1>5 DEF TypeOK
  <2>3. ReorgShape' /\ DiffCovers'
    BY <1>1, <1>2, <2>2 DEF IndInv, ReorgShape, DiffCovers, Winner
  <2>4. QED
    BY <2>1, <2>3 DEF IndInv
<1>6. CASE status' = "aborted" /\ UNCHANGED <<unspent, spent, altered, cursor>>
  <2>1. TypeOK'
    BY <1>1, <1>2, <1>6 DEF TypeOK, Status
  <2>2. ReorgShape' /\ DiffCovers'
    BY <1>2, <1>6 DEF IndInv, ReorgShape, DiffCovers, Winner
  <2>3. QED
    BY <2>1, <2>2 DEF IndInv
<1>7. QED
  BY <1>1, <1>5, <1>6 DEF RewindOne

\* What is left of main after the cut.
LEMMA CutMainHeaders ==
  ASSUME IndInv, NEW p, CutMain(p), pc \in {"rewind", "undo"}
  PROVE  /\ main' \in Seq(Block) /\ main' # <<>>
         /\ Len(main') = old.src + 1
         /\ old.src + 1 <= Len(main)
         /\ \A i \in 1..old.src + 1 : main'[i] = main[i]
<1>1. cursor = old.src + 1 /\ main' = SubSeq(main, 1, old.src + 1)
  BY DEF CutMain
<1>2. main \in Seq(Block) /\ old.src \in Nat
  BY DEF IndInv, TypeOK, Fork
<1>3. old.src + 1 <= Len(main)
  BY <1>1, <1>2 DEF IndInv, ReorgShape
<1>4. QED
  BY <1>1, <1>2, <1>3

\* While a reorg runs, what it goes to and comes from are forks.
LEMMA ReorgTypes ==
  ASSUME IndInv, pc # "idle"
  PROVE  /\ TypeOK
         /\ target \in DOMAIN forks
         /\ Winner \in Fork /\ Winner.src = old.src
         /\ Winner.chain \in Seq(Block) /\ Winner.diff \in Nat
         /\ Winner.diff >= old.src + 1 + Len(Winner.chain)
         /\ old \in Fork /\ old.src \in Nat
         /\ old.header \in Block
         /\ old.chain \in Seq(Block) /\ old.diff \in Nat
         /\ idx \in Nat /\ idx <= Len(Winner.chain)
<1>1. TypeOK /\ target \in DOMAIN forks /\ Winner.src = old.src
      /\ idx <= Len(Winner.chain)
  BY DEF IndInv, ReorgShape
<1>2. old \in Fork /\ idx \in Nat
  BY <1>1 DEF TypeOK
<1>3. old.src \in Nat /\ old.chain \in Seq(Block) /\ old.diff \in Nat /\ old.header \in Block
  BY <1>2 DEF Fork
<1>4. Winner.diff >= old.src + 1 + Len(Winner.chain)
  BY <1>1 DEF IndInv, DiffCovers, Winner
<1>5. QED
  BY <1>1, <1>2, <1>3, <1>4, ForkTypes DEF Winner

\* header_chain_.resize after a rewinding loop.
LEMMA TruncateInv ==
  ASSUME IndInv, TruncateMain \/ TruncateFork
  PROVE  IndInv'
<1>1. TypeOK /\ pc \in {"rewind", "undo"}
  BY DEF IndInv, TruncateMain, TruncateFork
<1>2. \/ pc = "rewind" /\ pc' = "apply" /\ CutMain("apply")
      \/ pc = "undo" /\ pc' = "restore" /\ CutMain("restore")
  BY DEF TruncateMain, TruncateFork, CutMain
<1>3. UNCHANGED <<mainDiff, store, unspent, spent, altered, forks, coins,
                  target, old, cursor, idx, reply, status, cut>>
  BY <1>2 DEF CutMain, reorgVars
<1>4. /\ main' \in Seq(Block) /\ main' # <<>>
      /\ Len(main') = old.src + 1
      /\ old.src + 1 <= Len(main)
  BY <1>1, <1>2, CutMainHeaders
<1>5. TypeOK'
  BY <1>1, <1>2, <1>3, <1>4 DEF TypeOK, Phase
<1>6. ReorgShape'
  <2>0. pc # "idle" /\ (pc = "rewind" => idx = 0)
    BY <1>1 DEF IndInv, ReorgShape
  <2>1. /\ target \in DOMAIN forks /\ Winner.src = old.src /\ old.src \in Nat
        /\ idx \in Nat /\ idx <= Len(Winner.chain)
    BY <2>0, ReorgTypes
  <2>2. Winner' = Winner /\ old'.src < Len(main')
    BY <1>3, <1>4, <2>1 DEF Winner
  <2>3. pc' = "apply" => Len(main') = old'.src + 1 + idx'
    BY <1>2, <1>3, <1>4, <2>0, <2>1
  <2>4. QED
    BY <1>2, <1>3, <2>0, <2>1, <2>2, <2>3 DEF ReorgShape
<1>7. DiffCovers'
  BY <1>1, <1>3, <1>4 DEF IndInv, DiffCovers, TypeOK, Fork
<1>8. QED
  BY <1>5, <1>6, <1>7 DEF IndInv

\* append_block of the next block of the winning fork.
LEMMA ApplyBlockInv ==
  ASSUME IndInv, ApplyBlock
  PROVE  IndInv'
<1>1. pc = "apply" /\ idx < Len(Winner.chain) /\ ExtendMain(NextOfFork) /\ idx' = idx + 1
      /\ UNCHANGED <<forks, coins, pc, target, old, cursor, reply, status, cut>>
  BY DEF ApplyBlock, Applying
<1>2. TypeOK /\ NextOfFork \in Block /\ old.src \in Nat /\ Winner.chain \in Seq(Block)
  BY <1>1, ReorgTypes DEF NextOfFork
<1>3. TypeOK'
  BY <1>1, <1>2, ExtendMainTypes DEF TypeOK
<1>4. Len(main') = Len(main) + 1 /\ mainDiff' = mainDiff + 1
  BY <1>1, <1>2, ExtendMainTypes
<1>5. ReorgShape'
  <2>1. /\ target \in DOMAIN forks /\ Winner.src = old.src /\ old.src < Len(main)
        /\ Len(main) = old.src + 1 + idx /\ idx \in Nat /\ Len(main) \in Nat
    BY <1>1, <1>2, ReorgTypes DEF IndInv, ReorgShape, TypeOK
  <2>2. Winner' = Winner
    BY <1>1 DEF Winner
  <2>3. old'.src < Len(main') /\ Len(main') = old'.src + 1 + idx'
    <3>1. old'.src = old.src /\ idx' = idx + 1 /\ old.src \in Nat
      BY <1>1, <1>2
    <3>2. QED
      BY SMTT(30), <1>4, <2>1, <3>1
  <2>4. idx' <= Len(Winner'.chain)
    BY <1>1, <1>2, <2>1, <2>2
  <2>5. QED
    BY <1>1, <2>1, <2>2, <2>3, <2>4 DEF ReorgShape
<1>6. DiffCovers'
  BY <1>1, <1>2, <1>4 DEF IndInv, DiffCovers, TypeOK
<1>7. QED
  BY <1>3, <1>5, <1>6 DEF IndInv

\* append_block of the next block of the winning fork answers false.
LEMMA ApplyInvalidInv ==
  ASSUME IndInv, ApplyInvalid
  PROVE  IndInv'
<1>1. pc = "apply" /\ pc' = "undo" /\ cursor' = Len(main)
      /\ UNCHANGED <<main, mainDiff, store, unspent, spent, altered, forks,
                     coins, target, old, idx, reply, status, cut>>
  BY DEF ApplyInvalid, Applying, chainVars
<1>2. TypeOK /\ old.src \in Nat
  BY <1>1, ReorgTypes
<1>3. TypeOK'
  BY <1>1, <1>2 DEF TypeOK, Phase
<1>4. ReorgShape'
  BY <1>1, <1>2 DEF IndInv, ReorgShape, Winner, TypeOK
<1>5. DiffCovers'
  BY <1>1 DEF IndInv, DiffCovers
<1>6. QED
  BY <1>3, <1>4, <1>5 DEF IndInv

\* An exception of append_block leaves add_block.
LEMMA ApplyThrowsInv ==
  ASSUME IndInv, ApplyThrows
  PROVE  IndInv'
<1>1. /\ pc' = "idle" /\ target' = 0 /\ old' = NoFork /\ cursor' = 0 /\ idx' = 0
      /\ reply' = "thrown" /\ cut' = TRUE
      /\ UNCHANGED <<main, mainDiff, store, unspent, spent, altered, forks,
                     coins, status>>
  BY DEF ApplyThrows, Idle, chainVars
<1>2. NoFork \in Fork
  BY BlockTreeAssumption DEF NoFork, Fork
<1>3. TypeOK'
  BY <1>1, <1>2 DEF IndInv, TypeOK, Phase, Reply
<1>4. ReorgShape' /\ DiffCovers'
  BY <1>1 DEF IndInv, ReorgShape, DiffCovers
<1>5. QED
  BY <1>3, <1>4 DEF IndInv

\* The reorg succeeds.
LEMMA AdoptForkInv ==
  ASSUME IndInv, AdoptFork
  PROVE  IndInv'
<1>1. /\ pc = "apply" /\ idx = Len(Winner.chain)
      /\ forks' = Append(RemoveAt(forks, target), old)
      /\ mainDiff' = Winner.diff /\ coins' = Rescan(main) /\ reply' = "added"
      /\ pc' = "idle" /\ target' = 0 /\ old' = NoFork /\ cursor' = 0 /\ idx' = 0
      /\ UNCHANGED <<main, store, unspent, spent, altered, status, cut>>
  BY DEF AdoptFork, Idle
<1>2. NoFork \in Fork
  BY BlockTreeAssumption DEF NoFork, Fork
<1>3. /\ TypeOK /\ target \in DOMAIN forks /\ old \in Fork /\ forks \in Seq(Fork)
      /\ Winner.diff \in Nat /\ Winner.diff >= old.src + 1 + Len(Winner.chain)
  BY <1>1, ReorgTypes DEF TypeOK
<1>4. /\ forks' \in Seq(Fork)
      /\ \A j \in DOMAIN forks' :
           forks'[j] = old \/ \E k \in DOMAIN forks : forks'[j] = forks[k]
  BY <1>1, <1>3, AdoptedForks
<1>5. coins' \subseteq OutPoint
  BY <1>1, BlockTreeAssumption DEF Rescan
<1>6. TypeOK'
  BY <1>1, <1>2, <1>3, <1>4, <1>5 DEF TypeOK, Phase, Reply
<1>7. ReorgShape'
  BY <1>1 DEF ReorgShape
<1>8. DiffCovers'
  <2>1. mainDiff' >= Len(main')
    BY <1>1, <1>3 DEF IndInv, ReorgShape
  <2>2. \A j \in DOMAIN forks' :
          forks'[j].diff >= forks'[j].src + 1 + Len(forks'[j].chain)
    BY <1>1, <1>4 DEF IndInv, DiffCovers
  <2>3. QED
    BY <1>1, <2>1, <2>2 DEF DiffCovers
<1>9. QED
  BY <1>6, <1>7, <1>8 DEF IndInv

\* append_block of an old block, after an invalid fork block.
LEMMA RestoreBlockInv ==
  ASSUME IndInv, RestoreBlock
  PROVE  IndInv'
<1>1. pc = "restore" /\ Restored < Len(old.chain) /\ ExtendMain(NextOfOld)
      /\ UNCHANGED <<forks, coins, pc, target, old, cursor, idx, reply, status, cut>>
  BY DEF RestoreBlock, Restoring, reorgVars
<1>2. TypeOK /\ old.src \in Nat /\ old.chain \in Seq(Block) /\ old.src < Len(main)
      /\ main \in Seq(Block)
  BY <1>1, ReorgTypes DEF IndInv, ReorgShape, TypeOK
<1>3. NextOfOld \in Block
  BY <1>1, <1>2 DEF NextOfOld, Restored
<1>4. Len(main') = Len(main) + 1 /\ mainDiff' = mainDiff + 1 /\ Len(main) \in Nat
  BY <1>1, <1>2, <1>3, ExtendMainTypes
<1>5. TypeOK'
  BY <1>1, <1>2, <1>3, ExtendMainTypes DEF TypeOK
<1>6. ReorgShape'
  BY <1>1, <1>2, <1>4 DEF IndInv, ReorgShape, Winner
<1>7. DiffCovers'
  BY <1>1, <1>2, <1>4 DEF IndInv, DiffCovers, TypeOK
<1>8. QED
  BY <1>5, <1>6, <1>7 DEF IndInv

\* The old main chain is back, and the fork loses its invalid part.
LEMMA KeepMainInv ==
  ASSUME IndInv, KeepMain
  PROVE  IndInv'
<1>1. /\ pc = "restore" /\ Restored = Len(old.chain)
      /\ UNCHANGED <<main, store, unspent, spent, altered, cut>>
  BY DEF KeepMain
<1>2. NoFork \in Fork
  BY BlockTreeAssumption DEF NoFork, Fork
<1>3. CASE /\ status' = "undefined"
           /\ UNCHANGED <<forks, mainDiff, coins, pc, reorgVars, reply>>
  <2>1. TypeOK'
    BY <1>1, <1>3 DEF IndInv, TypeOK, Status, reorgVars
  <2>2. ReorgShape' /\ DiffCovers'
    BY <1>1, <1>3 DEF IndInv, ReorgShape, DiffCovers, Winner, reorgVars
  <2>3. QED
    BY <2>1, <2>2 DEF IndInv
<1>4. CASE /\ forks' = [forks EXCEPT ![target] = Trimmed(forks[target], idx)]
           /\ mainDiff' = old.diff /\ coins' = Rescan(main) /\ reply' = "added"
           /\ pc' = "idle" /\ target' = 0 /\ old' = NoFork /\ cursor' = 0
           /\ idx' = 0 /\ UNCHANGED status
  <2> DEFINE f == Trimmed(Winner, idx)
  <2>1. /\ TypeOK /\ target \in DOMAIN forks /\ old.diff \in Nat /\ old.src \in Nat
        /\ Winner \in Fork /\ Winner.src = old.src /\ Winner.chain \in Seq(Block)
        /\ Winner.header \in Block /\ Winner.diff \in Nat
        /\ Winner.diff >= old.src + 1 + Len(Winner.chain)
        /\ idx \in Nat /\ idx <= Len(Winner.chain)
    BY <1>1, ReorgTypes, ForkTypes DEF Winner
  <2>2. SubSeq(Winner.chain, 1, idx) \in Seq(Block)
        /\ Len(SubSeq(Winner.chain, 1, idx)) = idx
    BY <2>1
  <2>3. f \in Fork /\ f.diff >= f.src + 1 + Len(f.chain)
    BY SMTT(30), <2>1, <2>2 DEF Trimmed, Fork
  <2> HIDE DEF f
  <2>4. forks' = [forks EXCEPT ![target] = f]
    BY <1>4 DEF f, Winner
  <2>5. /\ forks' \in Seq(Fork) /\ DOMAIN forks' = DOMAIN forks
        /\ forks'[target] = f
        /\ \A j \in DOMAIN forks : j # target => forks'[j] = forks[j]
    BY <2>1, <2>3, <2>4, ForkReplaced
  <2>6. coins' \subseteq OutPoint
    BY <1>4, BlockTreeAssumption DEF Rescan
  <2>7. TypeOK'
    BY <1>1, <1>2, <1>4, <2>1, <2>5, <2>6 DEF TypeOK, Phase, Reply
  <2>8. ReorgShape'
    BY <1>4 DEF ReorgShape
  <2>9. mainDiff' >= Len(main')
    BY <1>1, <1>4, <2>1 DEF IndInv, DiffCovers, Restored, TypeOK
  <2>10. DiffCovers'
    BY <1>4, <2>3, <2>5, <2>9 DEF IndInv, DiffCovers
  <2>11. QED
    BY <2>7, <2>8, <2>10 DEF IndInv
<1>5. QED
  BY <1>3, <1>4 DEF KeepMain, Idle

\* Steps that change nothing the invariant is about.
LEMMA OtherStepsInv ==
  ASSUME IndInv, NEW b \in Block,
         Reject(b) \/ OwnBlockAborts(b) \/ OwnBlockThrows(b) \/ RestoreFails \/ UNCHANGED vars
  PROVE  IndInv'
<1>1. UNCHANGED <<main, mainDiff, store, unspent, spent, altered, forks, coins,
                  pc, target, old, cursor, idx, cut>>
  BY DEF Reject, OwnBlockAborts, OwnBlockThrows, RestoreFails, vars, chainVars, reorgVars
<1>2. reply' \in Reply /\ status' \in Status
  BY DEF IndInv, TypeOK, Reject, OwnBlockAborts, OwnBlockThrows, RestoreFails, vars, Reply, Status
<1>3. QED
  BY <1>1, <1>2 DEF IndInv, TypeOK, ReorgShape, DiffCovers, Winner

\* The initial state, with the genesis block.
LEMMA InitInv == Init => IndInv
<1> SUFFICES ASSUME Init PROVE IndInv
  OBVIOUS
<1>1. Created(Genesis) \subseteq OutPoint /\ NoFork \in Fork
  BY BlockTypes, BlockTreeAssumption DEF NoFork, Fork
<1>2. TypeOK
  <2>1. cut \in BOOLEAN
    BY DEF Init
  <2>2. Created(Genesis) \subseteq OutPoint /\ Genesis \in Block
    BY <1>1, BlockTreeAssumption
  <2>3. QED
    BY <1>1, <2>1, <2>2, SMTT(30) DEF Init, TypeOK, Phase, Reply, Status
<1>3. ReorgShape /\ DiffCovers
  BY DEF Init, ReorgShape, DiffCovers
<1>4. QED
  BY <1>2, <1>3 DEF IndInv

LEMMA StepInv == IndInv /\ [Next]_vars => IndInv'
<1> SUFFICES ASSUME IndInv, [Next]_vars PROVE IndInv'
  OBVIOUS
<1>1. ASSUME NEW b \in Block, NEW own \in BOOLEAN, AttachToMain(b, own)
      PROVE  IndInv'
  BY <1>1, AttachToMainInv
<1>2. ASSUME NEW b \in Block, StartFork(b)
      PROVE  IndInv'
  BY <1>2, StartForkInv
<1>3. ASSUME NEW b \in Block, ExtendFork(b)
      PROVE  IndInv'
  BY <1>3, ExtendForkInv
<1>4. ASSUME NEW b \in Block, Reject(b) \/ OwnBlockAborts(b) \/ OwnBlockThrows(b)
      PROVE  IndInv'
  BY <1>4, OtherStepsInv
<1>5. ASSUME NEW b \in Block, StartReorg(b)
      PROVE  IndInv'
  BY <1>5, StartReorgInv
<1>6. CASE ReorgStep
  BY <1>6, BlockTreeAssumption, RewindInv, TruncateInv, ApplyThrowsInv,
     ApplyBlockInv, ApplyInvalidInv, AdoptForkInv, RestoreBlockInv,
     OtherStepsInv, KeepMainInv DEF ReorgStep
<1>7. CASE UNCHANGED vars
  BY <1>7, BlockTreeAssumption, OtherStepsInv
<1>8. QED
  BY <1>1, <1>2, <1>3, <1>4, <1>5, <1>6, <1>7 DEF Next

\* The indices of reorg stay where they belong, in every interleaving of
\* accepted, rejected and reorganised blocks.
THEOREM InductiveInvariant == Spec => []IndInv
BY InitInv, StepInv, PTL DEF Spec

\* The types of the chain manager's variables: in particular no difficulty
\* becomes negative (wraps) when the invalid part of a fork is cut off.
THEOREM TypeCorrect == Spec => []TypeOK
<1>1. IndInv => TypeOK
  BY DEF IndInv
<1>2. QED
  BY <1>1, InductiveInvariant, PTL

-----------------------------------------------------------------------------
(* The main chain is a chain *)

ChainInv == MainIsChain /\ OldFits

\* A newer block on the tip keeps the chain a chain.
LEMMA ExtendedChain ==
  ASSUME IndInv, MainIsChain, NEW b \in Block, ExtendMain(b),
         Parent[b] = Last(main), Newer(b)
  PROVE  MainIsChain'
<1>1. /\ main \in Seq(Block) /\ main # <<>> /\ Len(main) \in Nat \ {0}
      /\ main' \in Seq(Block) /\ Len(main') = Len(main) + 1
      /\ main'[Len(main) + 1] = b
      /\ \A i \in 1..Len(main) : main'[i] = main[i]
  BY ExtendMainTypes DEF IndInv, TypeOK
<1>2. Parent[b] = main[Len(main)] /\ Timestamp[main[Len(main)]] < Timestamp[b]
  <2>1. Timestamp[b] \in Nat /\ Timestamp[main[Len(main)]] \in Nat
    BY <1>1, BlockTypes
  <2>2. QED
    BY <2>1 DEF Last, Newer
<1>3. main' # <<>> /\ main'[1] = Genesis
  BY <1>1 DEF MainIsChain, Rooted
<1>4. ASSUME NEW i \in 1..Len(main') - 1
      PROVE  Parent[main'[i + 1]] = main'[i] /\ Timestamp[main'[i]] < Timestamp[main'[i + 1]]
  <2>1. CASE i = Len(main)
    BY <1>1, <1>2, <2>1
  <2>2. CASE i # Len(main)
    <3>1. i \in 1..Len(main) - 1 /\ i \in 1..Len(main) /\ i + 1 \in 1..Len(main)
      BY <1>1, <2>2
    <3>2. Parent[main[i + 1]] = main[i] /\ Timestamp[main[i]] < Timestamp[main[i + 1]]
      BY <3>1 DEF MainIsChain, Rooted, Linked, TimeOrdered
    <3>3. QED
      BY <1>1, <3>1, <3>2
  <2>3. QED
    BY <2>1, <2>2
<1>5. QED
  BY <1>3, <1>4 DEF MainIsChain, Rooted, Linked, TimeOrdered

\* So does cutting headers off its end.
LEMMA CutChain ==
  ASSUME IndInv, MainIsChain, NEW p, CutMain(p), pc \in {"rewind", "undo"}
  PROVE  MainIsChain'
<1>1. /\ main' # <<>> /\ Len(main') = old.src + 1 /\ old.src + 1 <= Len(main)
      /\ \A i \in 1..old.src + 1 : main'[i] = main[i]
      /\ old.src \in Nat /\ Len(main) \in Nat
  BY SMTT(30), CutMainHeaders, ReorgTypes DEF IndInv, TypeOK
<1>2. main'[1] = Genesis
  BY <1>1 DEF MainIsChain, Rooted
<1>3. ASSUME NEW i \in 1..Len(main') - 1
      PROVE  Parent[main'[i + 1]] = main'[i] /\ Timestamp[main'[i]] < Timestamp[main'[i + 1]]
  <2>1. i \in 1..Len(main) - 1 /\ i \in 1..old.src + 1 /\ i + 1 \in 1..old.src + 1
    BY <1>1
  <2>2. Parent[main[i + 1]] = main[i] /\ Timestamp[main[i]] < Timestamp[main[i + 1]]
    BY <2>1 DEF MainIsChain, Rooted, Linked, TimeOrdered
  <2>3. QED
    BY <1>1, <2>1, <2>2
<1>4. QED
  BY <1>1, <1>2, <1>3 DEF MainIsChain, Rooted, Linked, TimeOrdered

\* The old main chain, when a reorg sets it aside, fits where it was.
LEMMA OldFitsAtStart ==
  ASSUME IndInv, MainIsChain, NEW b \in Block, StartReorg(b)
  PROVE  OldFits'
<1>1. pc = "idle" /\ main' = main /\ TypeOK
  BY DEF StartReorg, Receivable, IndInv
<1>2. SUFFICES ASSUME pc' # "idle"
               PROVE  OldFits'
  BY DEF OldFits
<1>3. PICK i \in DOMAIN forks : /\ forks[i].src < Len(main)
                                /\ pc' = "rewind" /\ old' = OldMain(forks[i])
  BY <1>1, <1>2 DEF StartReorg, FirstFork, Attachable
<1>4. forks[i] \in Fork /\ forks[i].src \in Nat /\ Len(main) \in Nat
  BY <1>1, ForkTypes DEF TypeOK
<1> DEFINE n == forks[i].src
<1>5. /\ old'.src = n
      /\ DOMAIN old'.chain = 1..Len(main) - (n + 1)
      /\ \A j \in 1..Len(main) - (n + 1) : old'.chain[j] = main[n + 1 + j]
  BY <1>1, <1>3, <1>4, OldMainFork
<1>6. n \in Nat
  BY <1>4
<1> HIDE DEF n
<1>7. ASSUME NEW j \in DOMAIN old'.chain
      PROVE  Parent[old'.chain[j]] = IF j = 1 THEN main[n + 1] ELSE old'.chain[j - 1]
  <2>1. j \in 1..Len(main) - (n + 1) /\ n + j \in 1..Len(main) - 1
    BY <1>4, <1>5, <1>6
  <2>2. Parent[main[n + j + 1]] = main[n + j]
    BY <2>1 DEF MainIsChain, Rooted, Linked
  <2>3. n + j + 1 = n + 1 + j
    BY <1>6, <2>1
  <2>4. Parent[old'.chain[j]] = main[n + j]
    BY <1>5, <2>1, <2>2, <2>3
  <2>5. CASE j = 1
    BY <2>4, <2>5
  <2>6. CASE j # 1
    <3>1. j - 1 \in 1..Len(main) - (n + 1) /\ n + 1 + (j - 1) = n + j
      BY <1>6, <2>1, <2>6
    <3>2. QED
      BY <1>5, <2>4, <2>6, <3>1
  <2>7. QED
    BY <2>5, <2>6
<1>8. QED
  BY <1>1, <1>3, <1>5, <1>7 DEF OldFits

\* What is appended to main changes nothing below it.
LEMMA OldFitsBelow ==
  ASSUME IndInv, OldFits, pc # "idle", NEW b \in Block, ExtendMain(b),
         UNCHANGED <<pc, old>>,
         pc = "restore" => /\ Restored + 1 \in DOMAIN old.chain
                           /\ b = NextOfOld
  PROVE  OldFits'
<1>1. /\ old.src \in Nat /\ old.src < Len(main) /\ Len(main) \in Nat
      /\ Len(main') = Len(main) + 1 /\ main' \in Seq(Block)
      /\ main'[Len(main) + 1] = b
      /\ \A i \in 1..Len(main) : main'[i] = main[i]
  BY SMTT(30), ExtendMainTypes, ReorgTypes DEF IndInv, ReorgShape, TypeOK
<1>1a. Restored' = Restored + 1 /\ Restored \in Nat
  <2>1. Restored' = Len(main') - (old.src + 1)
    BY DEF Restored
  <2>2. QED
    BY SMTT(30), <1>1, <2>1 DEF Restored
<1>2. main'[old.src + 1] = main[old.src + 1]
  BY <1>1
<1>3. \A i \in DOMAIN old'.chain :
        Parent[old'.chain[i]] = IF i = 1 THEN main'[old'.src + 1]
                                         ELSE old'.chain[i - 1]
  BY <1>2 DEF OldFits
<1>4. ASSUME pc' = "restore", NEW i \in 1..Restored'
      PROVE  i \in DOMAIN old'.chain /\ main'[old'.src + 1 + i] = old'.chain[i]
  <2>1. Restored' = Restored + 1 /\ Restored \in Nat
    BY <1>1a
  <2>2. CASE i = Restored + 1
    <3>1. old.src + 1 + i = Len(main) + 1
      BY <1>1, <2>2 DEF Restored
    <3>2. QED
      BY <1>1, <1>4, <2>2, <3>1 DEF NextOfOld
  <2>3. CASE i # Restored + 1
    <3>1. i \in 1..Restored /\ old.src + 1 + i \in 1..Len(main)
      BY SMTT(30), <1>1, <2>1, <2>3 DEF Restored
    <3>2. i \in DOMAIN old.chain /\ main[old.src + 1 + i] = old.chain[i]
      BY <1>4, <3>1 DEF OldFits
    <3>3. QED
      BY <1>1, <3>1, <3>2
  <2>4. QED
    BY <2>2, <2>3
<1>5. QED
  BY <1>3, <1>4 DEF OldFits

\* The next old block names the tip of main as its parent.
LEMMA RestoredLinks ==
  ASSUME IndInv, OldFits, RestoreBlock
  PROVE  /\ NextOfOld \in Block
         /\ Restored + 1 \in DOMAIN old.chain
         /\ Parent[NextOfOld] = Last(main)
<1>1. pc = "restore" /\ Restored < Len(old.chain)
  BY DEF RestoreBlock, Restoring
<1>2. /\ old.src \in Nat /\ old.chain \in Seq(Block) /\ old.src < Len(main)
      /\ Len(main) \in Nat
  BY <1>1, ReorgTypes DEF IndInv, ReorgShape, TypeOK
<1>3. Restored \in Nat /\ Restored + 1 \in DOMAIN old.chain
  BY <1>1, <1>2 DEF Restored
<1>4. NextOfOld \in Block
  BY <1>2, <1>3 DEF NextOfOld
<1>5. Parent[NextOfOld] = IF Restored + 1 = 1 THEN main[old.src + 1]
                                              ELSE old.chain[Restored + 1 - 1]
  BY <1>1, <1>3 DEF OldFits, NextOfOld
<1>6. CASE Restored = 0
  <2>1. Restored + 1 = 1 /\ Len(main) = old.src + 1
    BY <1>2, <1>6 DEF Restored
  <2>2. QED
    BY <1>3, <1>4, <1>5, <2>1 DEF Last
<1>7. CASE Restored # 0
  <2>1. Restored \in 1..Restored /\ Restored + 1 - 1 = Restored /\ Restored + 1 # 1
    BY <1>3, <1>7
  <2>2. main[old.src + 1 + Restored] = old.chain[Restored]
    BY <1>1, <2>1 DEF OldFits
  <2>3. old.src + 1 + Restored = Len(main)
    BY <1>2 DEF Restored
  <2>4. Parent[NextOfOld] = old.chain[Restored]
    BY <1>5, <2>1
  <2>5. QED
    BY <1>3, <1>4, <2>2, <2>3, <2>4 DEF Last
<1>8. QED
  BY <1>3, <1>4, <1>6, <1>7

\* No step of add_block or reorg breaks the chain, or what reorg keeps of it.
LEMMA ChainStep == IndInv /\ ChainInv /\ [Next]_vars => ChainInv'
<1> SUFFICES ASSUME IndInv, ChainInv, [Next]_vars PROVE ChainInv'
  OBVIOUS
<1> USE DEF ChainInv
<1>1. ASSUME NEW b \in Block, NEW own \in BOOLEAN, AttachToMain(b, own)
      PROVE  ChainInv'
  <2>1. ExtendMain(b) /\ Parent[b] = Last(main) /\ Newer(b)
        /\ pc = "idle" /\ pc' = pc
    BY <1>1 DEF AttachToMain, Receivable
  <2>2. MainIsChain'
    BY <2>1, ExtendedChain
  <2>3. OldFits'
    BY <2>1 DEF OldFits
  <2>4. QED
    BY <2>2, <2>3
<1>2. ASSUME NEW b \in Block,
             StartFork(b) \/ ExtendFork(b) \/ Reject(b) \/ OwnBlockAborts(b) \/ OwnBlockThrows(b)
      PROVE  ChainInv'
  <2>1. pc = "idle" /\ pc' = pc /\ main' = main
    BY <1>2 DEF StartFork, ExtendFork, Reject, OwnBlockAborts, OwnBlockThrows, Receivable, chainVars
  <2>2. QED
    BY <2>1 DEF MainIsChain, Rooted, Linked, TimeOrdered, OldFits
<1>3. ASSUME NEW b \in Block, StartReorg(b)
      PROVE  ChainInv'
  <2>1. OldFits'
    BY <1>3, OldFitsAtStart
  <2>2. MainIsChain'
    BY <1>3 DEF StartReorg, MainIsChain, Rooted, Linked, TimeOrdered
  <2>3. QED
    BY <2>1, <2>2
<1>4. CASE RewindMain \/ UndoFork
  <2>1. main' = main /\ old' = old /\ pc' = pc /\ pc \in {"rewind", "undo"}
    BY <1>4 DEF RewindMain, UndoFork, RewindOne
  <2>2. QED
    BY <2>1 DEF MainIsChain, Rooted, Linked, TimeOrdered, OldFits
<1>5. CASE TruncateMain \/ TruncateFork
  <2>1. PICK p : CutMain(p) /\ pc \in {"rewind", "undo"} /\ old' = old
    BY <1>5 DEF TruncateMain, TruncateFork, CutMain, reorgVars
  <2>2. MainIsChain'
    BY <2>1, CutChain
  <2>3. /\ Len(main') = old.src + 1 /\ old.src \in Nat
        /\ main'[old.src + 1] = main[old.src + 1]
    BY SMTT(30), <2>1, CutMainHeaders, ReorgTypes
  <2>4. Restored' = 0
    BY <2>1, <2>3 DEF Restored
  <2>5. OldFits'
    BY <2>1, <2>3, <2>4 DEF OldFits
  <2>6. QED
    BY <2>2, <2>5
<1>6. CASE ApplyBlock
  <2>1. /\ pc = "apply" /\ pc' = pc /\ old' = old /\ NextOfFork \in Block
        /\ ExtendMain(NextOfFork) /\ Parent[NextOfFork] = Last(main)
        /\ Newer(NextOfFork)
    BY <1>6, ReorgTypes DEF ApplyBlock, Applying, NextOfFork
  <2>2. QED
    BY <2>1, ExtendedChain, OldFitsBelow
<1>7. CASE RestoreBlock
  <2>1. /\ pc = "restore" /\ pc' = pc /\ old' = old
        /\ ExtendMain(NextOfOld) /\ Newer(NextOfOld)
    BY <1>7 DEF RestoreBlock, Restoring, reorgVars
  <2>2. QED
    BY <1>7, <2>1, RestoredLinks, ExtendedChain, OldFitsBelow
<1>8. CASE ApplyThrows \/ AdoptFork
  <2>1. main' = main /\ pc' = "idle"
    BY <1>8 DEF ApplyThrows, AdoptFork, Idle, chainVars
  <2>2. QED
    BY <2>1 DEF MainIsChain, Rooted, Linked, TimeOrdered, OldFits
<1>9. CASE ApplyInvalid
  <2>1. main' = main /\ old' = old /\ pc = "apply" /\ pc' = "undo"
    BY <1>9 DEF ApplyInvalid, Applying, chainVars
  <2>2. QED
    BY <2>1 DEF MainIsChain, Rooted, Linked, TimeOrdered, OldFits
<1>10. CASE KeepMain
  <2>1. main' = main /\ (pc' = "idle" \/ (pc' = pc /\ old' = old))
    BY <1>10 DEF KeepMain, Idle, reorgVars
  <2>2. QED
    BY <2>1 DEF MainIsChain, Rooted, Linked, TimeOrdered, OldFits, Restored
<1>11. CASE RestoreFails \/ UNCHANGED vars
  <2>1. main' = main /\ old' = old /\ pc' = pc
    BY <1>11 DEF RestoreFails, vars, chainVars, reorgVars
  <2>2. QED
    BY <2>1 DEF MainIsChain, Rooted, Linked, TimeOrdered, OldFits, Restored
<1>12. QED
  BY <1>1, <1>2, <1>3, <1>4, <1>5, <1>6, <1>7, <1>8, <1>9, <1>10, <1>11
     DEF Next, ReorgStep

LEMMA ChainInit == Init => ChainInv
BY DEF Init, ChainInv, MainIsChain, Rooted, Linked, TimeOrdered, OldFits

LEMMA ChainAlways == Spec => [](IndInv /\ ChainInv)
BY InitInv, StepInv, ChainInit, ChainStep, PTL DEF Spec

\* header_chain_ is a chain from genesis, every block newer than its parent,
\* in every state: during a reorg, after one that failed or that threw.
THEOREM MainChainIsChain == Spec => []MainIsChain
<1>1. ChainInv => MainIsChain
  BY DEF ChainInv
<1>2. QED
  BY <1>1, ChainAlways, PTL

-----------------------------------------------------------------------------
(* Every reorg comes to an end *)

\* How many steps a reorg may still take: each loop runs its chain down, and
\* the loops follow one another in the order of the code.
Rank ==
  LET N == Len(Winner.chain)
      M == Len(old.chain)
  IN  CASE pc = "rewind"  -> (cursor - (old.src + 1)) + 2 * N + M + 4
        [] pc = "apply"   -> (2 * N - idx) + M + 3
        [] pc = "undo"    -> (cursor - (old.src + 1)) + M + 2
        [] pc = "restore" -> (M - Restored) + 1
        [] OTHER          -> 0

\* A reorg comes nearer to its end.
Advances == Rank \in Nat /\ Rank' \in Nat /\ Rank' < Rank

LEMMA RankTypes ==
  ASSUME IndInv, ChainInv, pc # "idle"
  PROVE  /\ Len(Winner.chain) \in Nat /\ Len(old.chain) \in Nat
         /\ old.src \in Nat /\ idx \in Nat /\ idx <= Len(Winner.chain)
         /\ Len(main) \in Nat /\ old.src < Len(main)
         /\ pc \in {"rewind", "undo"} =>
              cursor \in Nat /\ cursor >= old.src + 1 /\ cursor <= Len(main)
         /\ pc = "apply" => Len(main) = old.src + 1 + idx
         /\ pc = "restore" => Restored \in 0..Len(old.chain)
<1>1. /\ Len(Winner.chain) \in Nat /\ Len(old.chain) \in Nat
      /\ DOMAIN old.chain = 1..Len(old.chain)
      /\ old.src \in Nat /\ idx \in Nat /\ idx <= Len(Winner.chain)
      /\ Len(main) \in Nat /\ old.src < Len(main)
  BY ReorgTypes DEF IndInv, ReorgShape, TypeOK
<1>2. pc \in {"rewind", "undo"} =>
        cursor \in Nat /\ cursor >= old.src + 1 /\ cursor <= Len(main)
  <2>1. pc \in {"rewind", "undo"} => cursor \in old.src + 1..Len(main)
    BY DEF IndInv, ReorgShape
  <2>2. QED
    BY <1>1, <2>1
<1>3. pc = "apply" => Len(main) = old.src + 1 + idx
  BY DEF IndInv, ReorgShape
<1>4. ASSUME pc = "restore"
      PROVE  Restored \in 0..Len(old.chain)
  <2>1. Restored \in Nat
    BY <1>1 DEF Restored
  <2>2. Restored # 0 => Restored \in DOMAIN old.chain
    BY <1>4, <2>1 DEF ChainInv, OldFits
  <2>3. QED
    BY <1>1, <2>1, <2>2
<1>5. QED
  BY <1>1, <1>2, <1>3, <1>4

LEMMA RankIsNat ==
  ASSUME IndInv, ChainInv
  PROVE  Rank \in Nat
<1>1. CASE pc = "idle"
  BY <1>1 DEF Rank
<1>2. CASE pc # "idle"
  <2> DEFINE N == Len(Winner.chain)
             M == Len(old.chain)
             p == old.src + 1
  <2>1. pc \in {"rewind", "apply", "undo", "restore"}
    BY <1>2 DEF IndInv, TypeOK, Phase
  <2>2. /\ N \in Nat /\ M \in Nat /\ p \in Nat /\ idx \in Nat /\ idx <= N
        /\ pc \in {"rewind", "undo"} => cursor \in Nat /\ cursor >= p
        /\ pc = "restore" => Restored \in 0..M
    BY <1>2, RankTypes
  <2>3. /\ pc = "rewind" => Rank = (cursor - p) + 2 * N + M + 4
        /\ pc = "apply" => Rank = (2 * N - idx) + M + 3
        /\ pc = "undo" => Rank = (cursor - p) + M + 2
        /\ pc = "restore" => Rank = (M - Restored) + 1
    BY DEF Rank
  <2> HIDE DEF N, M, p
  <2>4. QED
    BY <2>1, <2>2, <2>3, SMTT(30)
<1>3. QED
  BY <1>1, <1>2

\* One step of a reorg, whatever the tree.
LEMMA RankFalls ==
  ASSUME IndInv, ChainInv, pc # "idle", ReorgStep, status' = "running"
  PROVE  Rank' < Rank
<1> DEFINE N == Len(Winner.chain)
           M == Len(old.chain)
           p == old.src + 1
<1>1. /\ N \in Nat /\ M \in Nat /\ p \in Nat /\ idx \in Nat /\ idx <= N
      /\ Len(main) \in Nat /\ Rank \in Nat
      /\ pc \in {"rewind", "undo"} => cursor \in Nat /\ cursor >= p /\ cursor <= Len(main)
      /\ pc = "apply" => Len(main) = p + idx
      /\ pc = "restore" => Restored \in 0..M
  BY RankTypes, RankIsNat
<1>2. /\ pc = "rewind" => Rank = (cursor - p) + 2 * N + M + 4
      /\ pc = "apply" => Rank = (2 * N - idx) + M + 3
      /\ pc = "undo" => Rank = (cursor - p) + M + 2
      /\ pc = "restore" => Rank = (M - Restored) + 1
  BY DEF Rank
<1>3. ASSUME UNCHANGED <<forks, target, old>>
      PROVE  /\ pc' = "rewind" => Rank' = (cursor' - p) + 2 * N + M + 4
             /\ pc' = "apply" => Rank' = (2 * N - idx') + M + 3
             /\ pc' = "undo" => Rank' = (cursor' - p) + M + 2
             /\ pc' = "restore" => Rank' = (M - (Len(main') - p)) + 1
  BY <1>3 DEF Rank, Winner, Restored
<1>4. Restored = Len(main) - p
  BY DEF Restored
<1>5. pc' = "idle" => Rank' = 0
  BY DEF Rank
<1> HIDE DEF N, M, p
<1>6. CASE RewindMain \/ UndoFork
  <2>1. /\ pc \in {"rewind", "undo"} /\ cursor' = cursor - 1
        /\ UNCHANGED <<forks, target, old, pc, idx>>
    BY <1>6 DEF RewindMain, UndoFork, RewindOne
  <2>2. QED
    BY <1>1, <1>2, <1>3, <2>1, SMTT(30)
<1>7. CASE TruncateMain
  <2>1. /\ pc = "rewind" /\ pc' = "apply" /\ cursor = p
        /\ UNCHANGED <<forks, target, old, idx>>
    BY <1>7 DEF TruncateMain, CutMain, reorgVars, p
  <2>2. Rank = 2 * N + M + 4 /\ Rank' = (2 * N - idx) + M + 3
    BY <1>1, <1>2, <1>3, <2>1
  <2>3. QED
    BY <1>1, <2>2
<1>8. CASE TruncateFork
  <2>1. /\ pc = "undo" /\ pc' = "restore" /\ cursor = p
        /\ UNCHANGED <<forks, target, old>>
    BY <1>8 DEF TruncateFork, CutMain, reorgVars, p
  <2>2. Len(main') = p
    BY <1>8, CutMainHeaders DEF TruncateFork, p
  <2>3. Rank = M + 2 /\ Rank' = (M - (p - p)) + 1
    BY <1>1, <1>2, <1>3, <2>1, <2>2
  <2>4. QED
    BY <1>1, <2>3
<1>9. CASE ApplyThrows \/ AdoptFork
  <2>1. pc = "apply" /\ pc' = "idle"
    BY <1>9 DEF ApplyThrows, Applying, AdoptFork, Idle
  <2>2. QED
    BY <1>1, <1>2, <1>5, <2>1
<1>10. CASE ApplyBlock
  <2>1. /\ pc = "apply" /\ pc' = "apply" /\ idx' = idx + 1
        /\ UNCHANGED <<forks, target, old>>
    BY <1>10 DEF ApplyBlock, Applying
  <2>2. Rank = (2 * N - idx) + M + 3 /\ Rank' = (2 * N - (idx + 1)) + M + 3
    BY <1>2, <1>3, <2>1
  <2>3. QED
    BY <1>1, <2>2
<1>11. CASE ApplyInvalid
  <2>1. /\ pc = "apply" /\ pc' = "undo" /\ cursor' = Len(main) /\ idx < N
        /\ UNCHANGED <<forks, target, old>>
    BY <1>11 DEF ApplyInvalid, Applying, N
  <2>2. Rank = (2 * N - idx) + M + 3 /\ Rank' = (Len(main) - p) + M + 2
    BY <1>2, <1>3, <2>1
  <2>3. Len(main) - p = idx
    BY <1>1, <2>1
  <2>4. QED
    BY <1>1, <2>1, <2>2, <2>3
<1>12. CASE RestoreBlock
  <2>1. pc = "restore" /\ pc' = "restore" /\ UNCHANGED <<forks, target, old>>
    BY <1>12 DEF RestoreBlock, Restoring, reorgVars
  <2>2. Len(main') = Len(main) + 1
    BY <1>12, RestoredLinks, ExtendMainTypes DEF RestoreBlock, ChainInv, IndInv
  <2>3. Rank = (M - (Len(main) - p)) + 1 /\ Rank' = (M - ((Len(main) + 1) - p)) + 1
    BY <1>2, <1>3, <1>4, <2>1, <2>2
  <2>4. QED
    BY <1>1, <2>3
<1>13. CASE RestoreFails
  BY <1>13 DEF RestoreFails
<1>14. CASE KeepMain
  <2>1. pc = "restore" /\ pc' = "idle"
    BY <1>14 DEF KeepMain, Idle
  <2>2. QED
    BY <1>1, <1>2, <1>5, <2>1
<1>15. QED
  BY <1>6, <1>7, <1>8, <1>9, <1>10, <1>11, <1>12, <1>13, <1>14 DEF ReorgStep

\* No reorg goes on for ever, in any tree and with any outcome of its
\* validations: while it runs, nothing but its own steps is taken, and each
\* of them lowers a number that says how many may follow, until add_block
\* returns or the process ends.
THEOREM ReorgRunsDown == Spec => [][pc # "idle" => status' # "running" \/ Advances]_vars
<1>1. /\ IndInv /\ IndInv' /\ ChainInv /\ Rank \in Nat /\ (Rank \in Nat)' /\ [Next]_vars
      => [pc # "idle" => status' # "running" \/ Advances]_vars
  <2> SUFFICES ASSUME IndInv, ChainInv, Rank \in Nat, Rank' \in Nat, Next,
                      pc # "idle", status' = "running"
               PROVE  Rank' < Rank
    BY DEF Advances
  <2>1. ReorgStep
    BY DEF Next, AttachToMain, StartFork, ExtendFork, Reject, OwnBlockAborts, OwnBlockThrows, StartReorg,
           Receivable
  <2>2. QED
    BY <2>1, RankFalls
<1>2. IndInv /\ ChainInv => Rank \in Nat
  BY RankIsNat
<1>3. QED
  BY <1>1, <1>2, ChainAlways, PTL DEF Spec

-----------------------------------------------------------------------------
(* Every header of a chain has its block in the store *)

\* The elements of a sequence, and what is in a longer or a shorter one.
LEMMA ElementsOfAppend ==
  ASSUME NEW S, NEW c \in Seq(S), NEW b \in S
  PROVE  ToSet(Append(c, b)) = ToSet(c) \cup {b}
<1> DEFINE d == Append(c, b)
<1>1. /\ d \in Seq(S) /\ Len(d) = Len(c) + 1 /\ d[Len(c) + 1] = b
      /\ \A i \in 1..Len(c) : d[i] = c[i]
  OBVIOUS
<1> HIDE DEF d
<1>2. DOMAIN d = 1..Len(c) + 1 /\ DOMAIN c = 1..Len(c) /\ Len(c) \in Nat
  BY <1>1
<1>3. ASSUME NEW i \in DOMAIN d PROVE d[i] \in ToSet(c) \cup {b}
  <2>1. CASE i = Len(c) + 1
    BY <1>1, <2>1
  <2>2. CASE i # Len(c) + 1
    BY <1>1, <1>2, <2>2 DEF ToSet
  <2>3. QED
    BY <2>1, <2>2
<1>4. ASSUME NEW i \in DOMAIN c PROVE c[i] \in ToSet(d)
  BY <1>1, <1>2 DEF ToSet
<1>5. b \in ToSet(d)
  BY <1>1, <1>2 DEF ToSet
<1>6. QED
  BY <1>3, <1>4, <1>5 DEF ToSet, d

LEMMA ElementsOfSubSeq ==
  ASSUME NEW S, NEW c \in Seq(S), NEW m \in 1..Len(c) + 1, NEW n \in 0..Len(c)
  PROVE  ToSet(SubSeq(c, m, n)) \subseteq ToSet(c)
BY DEF ToSet

\* A step of reorg that appends b to main: its header is already stored.
LEMMA ExtendMainStored ==
  ASSUME TypeOK, StoreInv, NEW b \in Block, ExtendMain(b), UNCHANGED <<forks, old>>
  PROVE  StoreInv'
<1>1. main \in Seq(Block) /\ main' = Append(main, b) /\ store' = store \cup {b}
  BY DEF TypeOK, ExtendMain
<1>2. ToSet(main') = ToSet(main) \cup {b}
  BY <1>1, ElementsOfAppend
<1>3. QED
  BY <1>1, <1>2 DEF StoreInv, StoreHasChains

LEMMA StoreStep == IndInv /\ StoreInv /\ [Next]_vars => StoreInv'
<1> SUFFICES ASSUME IndInv, StoreInv, [Next]_vars PROVE StoreInv'
  OBVIOUS
<1>0. TypeOK /\ main \in Seq(Block) /\ forks \in Seq(Fork) /\ old \in Fork
      /\ main # <<>>
  BY DEF IndInv, TypeOK
<1> USE DEF StoreInv, StoreHasChains
<1>1. ASSUME NEW b \in Block, NEW own \in BOOLEAN, AttachToMain(b, own)
      PROVE  StoreInv'
  <2>1. ExtendMain(b) /\ UNCHANGED <<forks, old>>
    BY <1>1 DEF AttachToMain, reorgVars
  <2>2. QED
    BY <1>0, <2>1, ExtendMainStored
<1>2. ASSUME NEW b \in Block, StartFork(b)
      PROVE  StoreInv'
  <2> DEFINE f == [src |-> SourceIndex(b), header |-> Parent[b],
                   chain |-> <<b>>, diff |-> SourceIndex(b) + 2]
  <2>1. /\ forks' = Append(forks, f) /\ store' = store \cup {b}
        /\ UNCHANGED <<main, old>> /\ Parent[b] \in ToSet(main)
    BY <1>2 DEF StartFork, reorgVars
  <2>2. ToSet(f.chain) \cup {f.header} \subseteq store'
    BY <2>1 DEF ToSet
  <2> HIDE DEF f
  <2>3. \A i \in DOMAIN forks' : forks'[i] = f \/ (i \in DOMAIN forks /\ forks'[i] = forks[i])
    BY <1>0, <2>1
  <2>4. QED
    BY <2>1, <2>2, <2>3
<1>3. ASSUME NEW b \in Block, NEW i \in DOMAIN forks,
             forks' = [forks EXCEPT ![i] = Grown(forks[i], b)],
             store' = store \cup {b}
      PROVE  \A j \in DOMAIN forks' : ToSet(forks'[j].chain) \cup {forks'[j].header}
                                      \subseteq store'
  <2>1. /\ forks[i] \in Fork /\ forks[i].chain \in Seq(Block)
        /\ Grown(forks[i], b) \in Fork
        /\ Grown(forks[i], b).chain = Append(forks[i].chain, b)
        /\ Grown(forks[i], b).header = forks[i].header
    BY <1>0, ForkTypes, GrownFork
  <2>2. /\ DOMAIN forks' = DOMAIN forks /\ forks'[i] = Grown(forks[i], b)
        /\ \A j \in DOMAIN forks : j # i => forks'[j] = forks[j]
    BY <1>0, <1>3, <2>1, ForkReplaced
  <2>3. ToSet(Append(forks[i].chain, b)) = ToSet(forks[i].chain) \cup {b}
    BY <2>1, ElementsOfAppend
  <2>4. ToSet(forks'[i].chain) \cup {forks'[i].header} \subseteq store'
    BY <1>3, <2>1, <2>2, <2>3
  <2>5. QED
    BY <1>3, <2>2, <2>4
<1>4. ASSUME NEW b \in Block, ExtendFork(b)
      PROVE  StoreInv'
  <2>1. PICK i \in DOMAIN forks : forks' = [forks EXCEPT ![i] = Grown(forks[i], b)]
    BY <1>4 DEF ExtendFork, FirstFork, Attachable
  <2>2. store' = store \cup {b} /\ UNCHANGED <<main, old>>
    BY <1>4 DEF ExtendFork, reorgVars
  <2>3. QED
    BY <1>3, <2>1, <2>2
<1>5. ASSUME NEW b \in Block, StartReorg(b)
      PROVE  StoreInv'
  <2>1. PICK i \in DOMAIN forks :
          /\ forks' = [forks EXCEPT ![i] = Grown(forks[i], b)]
          /\ old' = old \/ (forks[i].src < Len(main) /\ old' = OldMain(forks[i]))
    BY <1>5 DEF StartReorg, FirstFork, Attachable
  <2>2. store' = store \cup {b} /\ main' = main
    BY <1>5 DEF StartReorg
  <2>3. ToSet(old'.chain) \subseteq store' /\ old'.header \in store'
    <3>1. CASE old' = old
      BY <2>2, <3>1
    <3>2. CASE forks[i].src < Len(main) /\ old' = OldMain(forks[i])
      <4>1. /\ forks[i].src \in Nat /\ Len(main) \in Nat
            /\ forks[i].src + 2 \in 1..Len(main) + 1 /\ Len(main) \in 0..Len(main)
        BY <1>0, <3>2, ForkTypes
      <4>2. ToSet(SubSeq(main, forks[i].src + 2, Len(main))) \subseteq ToSet(main)
        BY <1>0, <4>1, ElementsOfSubSeq
      <4>3. main[forks[i].src + 1] \in ToSet(main)
        BY <1>0, <3>2, <4>1 DEF ToSet
      <4>4. QED
        BY <2>2, <3>2, <4>2, <4>3 DEF OldMain
    <3>3. QED
      BY <2>1, <3>1, <3>2
  <2>4. QED
    BY <1>3, <2>1, <2>2, <2>3
<1>6. CASE TruncateMain \/ TruncateFork
  <2>1. pc \in {"rewind", "undo"} /\ UNCHANGED <<forks, old, store>>
        /\ main' = SubSeq(main, 1, old.src + 1) /\ cursor = old.src + 1
    BY <1>6 DEF TruncateMain, TruncateFork, CutMain, reorgVars
  <2>2. old.src + 1 \in 0..Len(main)
    BY SMTT(30), <1>0, <2>1, ReorgTypes DEF IndInv, ReorgShape
  <2>3. ToSet(main') \subseteq ToSet(main)
    BY <1>0, <2>1, <2>2, ElementsOfSubSeq
  <2>4. QED
    BY <2>1, <2>3
<1>7. CASE ApplyBlock
  <2>1. ExtendMain(NextOfFork) /\ UNCHANGED <<forks, old>> /\ NextOfFork \in Block
    BY <1>7, ReorgTypes DEF ApplyBlock, Applying, NextOfFork
  <2>2. QED
    BY <1>0, <2>1, ExtendMainStored
<1>8. CASE RestoreBlock
  <2>1. ExtendMain(NextOfOld) /\ UNCHANGED <<forks, old>> /\ pc = "restore"
        /\ Restored < Len(old.chain)
    BY <1>8 DEF RestoreBlock, Restoring, reorgVars
  <2>2. NextOfOld \in Block
    <3>1. old.src \in Nat /\ old.chain \in Seq(Block) /\ old.src < Len(main)
      BY <2>1, ReorgTypes DEF IndInv, ReorgShape
    <3>2. QED
      BY <1>0, <2>1, <3>1 DEF NextOfOld, Restored
  <2>3. QED
    BY <1>0, <2>1, <2>2, ExtendMainStored
<1>9. CASE ApplyThrows
  <2>1. UNCHANGED <<main, store, forks>> /\ old' = NoFork
    BY <1>9 DEF ApplyThrows, Idle, chainVars
  <2>2. QED
    BY <2>1 DEF NoFork, ToSet
<1>10. CASE AdoptFork
  <2>1. /\ forks' = Append(RemoveAt(forks, target), old) /\ old' = NoFork
        /\ UNCHANGED <<main, store>> /\ target \in DOMAIN forks
    BY <1>10, ReorgTypes DEF AdoptFork, Idle
  <2>2. \A j \in DOMAIN forks' :
          forks'[j] = old \/ \E k \in DOMAIN forks : forks'[j] = forks[k]
    BY <1>0, <2>1, AdoptedForks
  <2>3. ToSet(old'.chain) \subseteq store' /\ {Genesis, old'.header} \subseteq store'
    BY <2>1 DEF NoFork, ToSet
  <2>4. \A j \in DOMAIN forks' : ToSet(forks'[j].chain) \cup {forks'[j].header}
                                 \subseteq store'
    BY <2>1, <2>2
  <2>5. QED
    BY <2>1, <2>3, <2>4
<1>11. CASE KeepMain
  <2>1. UNCHANGED <<main, store>>
    BY <1>11 DEF KeepMain
  <2>2. CASE UNCHANGED <<forks, old>>
    BY <2>1, <2>2
  <2>3. CASE /\ old' = NoFork
             /\ forks' = [forks EXCEPT ![target] = Trimmed(forks[target], idx)]
    <3>1. /\ target \in DOMAIN forks /\ idx \in Nat /\ idx <= Len(Winner.chain)
          /\ Winner \in Fork /\ Winner.chain \in Seq(Block)
          /\ Trimmed(Winner, idx).chain = SubSeq(Winner.chain, 1, idx)
          /\ Trimmed(Winner, idx).header = Winner.header
      BY <1>11, ReorgTypes DEF KeepMain, Trimmed
    <3>2. ToSet(SubSeq(Winner.chain, 1, idx)) \subseteq ToSet(Winner.chain)
      BY <3>1, ElementsOfSubSeq
    <3>3. /\ DOMAIN forks' = DOMAIN forks /\ forks'[target] = Trimmed(Winner, idx)
          /\ \A j \in DOMAIN forks : j # target => forks'[j] = forks[j]
      BY <1>0, <2>3, <3>1 DEF Winner
    <3>4. ToSet(Winner.chain) \cup {Winner.header} \subseteq store
      BY <3>1 DEF Winner
    <3>5. \A j \in DOMAIN forks' : ToSet(forks'[j].chain) \cup {forks'[j].header}
                                   \subseteq store'
      BY <2>1, <3>1, <3>2, <3>3, <3>4
    <3>6. ToSet(old'.chain) \subseteq store' /\ {Genesis, old'.header} \subseteq store'
      BY <2>1, <2>3 DEF NoFork, ToSet
    <3>7. QED
      BY <2>1, <3>5, <3>6
  <2>4. QED
    BY <1>11, <2>2, <2>3 DEF KeepMain, Idle, reorgVars
<1>12. ASSUME UNCHANGED <<main, store, forks, old>>
       PROVE  StoreInv'
  BY <1>12
<1>13. ASSUME NEW b \in Block, Reject(b) \/ OwnBlockAborts(b) \/ OwnBlockThrows(b)
       PROVE  StoreInv'
  BY <1>12, <1>13 DEF Reject, OwnBlockAborts, OwnBlockThrows, chainVars, reorgVars
<1>14. CASE RewindMain \/ UndoFork \/ ApplyInvalid \/ RestoreFails \/ UNCHANGED vars
  BY <1>12, <1>14 DEF RewindMain, UndoFork, RewindOne, ApplyInvalid, RestoreFails,
                      vars, chainVars, reorgVars
<1>15. QED
  BY <1>1, <1>2, <1>4, <1>5, <1>6, <1>7, <1>8, <1>9, <1>10, <1>11, <1>13, <1>14
     DEF Next, ReorgStep

\* get_block never throws for a header of the main chain, of a fork, or of the
\* old main chain that a reorg may have to restore.
THEOREM ChainsAreStored == Spec => []StoreHasChains
<1>1. Init => StoreInv
  <2> SUFFICES ASSUME Init PROVE StoreInv
    OBVIOUS
  <2>1. main = <<Genesis>> /\ store = {Genesis} /\ forks = <<>> /\ old = NoFork
    BY DEF Init
  <2>2. QED
    BY <2>1 DEF StoreInv, StoreHasChains, NoFork, ToSet
<1>2. StoreInv => StoreHasChains
  BY DEF StoreInv
<1>3. QED
  BY <1>1, <1>2, StoreStep, InductiveInvariant, PTL DEF Spec

-----------------------------------------------------------------------------
(* The ledger and the forks *)

\* What the first n blocks of c create, and what they consume.
Pays(c, n)  == UNION {Created(c[i]) : i \in 1..n}
Takes(c, n) == UNION {Consumed(c[i]) : i \in 1..n}

\* A ledger: each block spends what the blocks before it have created and
\* left unspent, and creates what none of them has created.
Ledger(c) ==
  \A i \in 1..Len(c) :
    /\ ~SpendsTwice(c[i])
    /\ Consumed(c[i]) \subseteq Pays(c, i - 1) \ Takes(c, i - 1)
    /\ Created(c[i]) \cap Pays(c, i - 1) = {}

\* How many blocks of main are applied to the chainstate.
AppliedLen == IF pc \in {"rewind", "undo"} THEN cursor ELSE Len(main)

\* main is a ledger even while it is rewound; the chainstate and the undo
\* records are those of its applied blocks.
LedgerInv ==
  /\ Ledger(main)
  /\ status = "running" =>
       /\ unspent = Pays(main, AppliedLen) \ Takes(main, AppliedLen)
       /\ spent = Takes(main, AppliedLen)

-----------------------------------------------------------------------------
(* Induction, as the least counterexample *)

LEMMA LessIsWellFounded ==
  IsWellFoundedOn({ss \in Nat \X Nat : ss[1] < ss[2]}, Nat)
BY Zenon, NatLessThanWellFounded DEF OpToRel

LEMMA LeastElement ==
  ASSUME NEW T \in SUBSET Nat, T # {}
  PROVE  \E x \in T : \A y \in T : x <= y
<1> DEFINE R == {ss \in Nat \X Nat : ss[1] < ss[2]}
<1>1. IsWellFoundedOn(R, Nat)
  BY LessIsWellFounded
<1>2. \A x, y \in Nat : <<x, y>> \in R <=> x < y
  OBVIOUS
<1> HIDE DEF R
<1>3. PICK x \in T : \A y \in T : <<y, x>> \notin R
  BY <1>1, WFMin
<1>4. ASSUME NEW y \in T
      PROVE  x <= y
  <2>1. x \in Nat /\ y \in Nat /\ ~(y < x)
    BY <1>2, <1>3
  <2>2. QED
    BY <2>1
<1>5. QED
  BY <1>4

\* Along a chain, every block is newer than all before it.
LEMMA TimesRise ==
  ASSUME NEW c \in Seq(Block), TimeOrdered(c),
         NEW i \in 1..Len(c), NEW j \in 1..Len(c), i < j
  PROVE  Timestamp[c[i]] < Timestamp[c[j]]
<1> DEFINE T == {k \in Nat : /\ i < k /\ k <= Len(c)
                             /\ ~(Timestamp[c[i]] < Timestamp[c[k]])}
<1>1. SUFFICES ASSUME T # {} PROVE FALSE
  OBVIOUS
<1>2. PICK m \in T : \A k \in T : m <= k
  BY <1>1, LeastElement
<1>3. /\ m \in Nat /\ i < m /\ m <= Len(c) /\ ~(Timestamp[c[i]] < Timestamp[c[m]])
      /\ m - 1 \notin T
  BY <1>2
<1>4. /\ \A k \in 1..Len(c) : Timestamp[c[k]] \in Nat
      /\ m - 1 \in 1..Len(c) - 1 /\ m - 1 + 1 = m /\ i <= m - 1
  <2>1. \A k \in 1..Len(c) : Timestamp[c[k]] \in Nat
    BY BlockTypes
  <2>2. QED
    BY <1>3, <2>1
<1>5. Timestamp[c[m - 1]] < Timestamp[c[m]]
  BY <1>4 DEF TimeOrdered
<1>6. CASE i = m - 1
  BY <1>3, <1>5, <1>6
<1>7. CASE i < m - 1
  <2>1. Timestamp[c[i]] < Timestamp[c[m - 1]]
    BY <1>3, <1>4, <1>7
  <2>2. m \in 1..Len(c) /\ m - 1 \in 1..Len(c)
    BY <1>3, <1>4
  <2>3. QED
    BY <1>3, <1>4, <1>5, <2>1, <2>2
<1>8. QED
  BY <1>4, <1>6, <1>7

\* No block is twice on a chain.
LEMMA ChainIsInjective ==
  ASSUME NEW c \in Seq(Block), TimeOrdered(c),
         NEW i \in 1..Len(c), NEW j \in 1..Len(c), c[i] = c[j]
  PROVE  i = j
<1>1. Timestamp[c[i]] \in Nat
  BY BlockTypes
<1>2. ~(i < j) /\ ~(j < i)
  BY <1>1, TimesRise
<1>3. QED
  BY <1>2

\* Heights along a chain grow by one.
LEMMA HeightsOnChain ==
  ASSUME NEW h, Heights(h), NEW c \in Seq(Block), Rooted(c),
         TimeOrdered(c), NEW i \in 1..Len(c)
  PROVE  h[c[i]] = h[Genesis] + (i - 1)
<1> DEFINE T == {k \in Nat : k \in 1..Len(c) /\ h[c[k]] # h[Genesis] + (k - 1)}
<1>1. SUFFICES ASSUME T # {} PROVE FALSE
  OBVIOUS
<1>2. PICK m \in T : \A k \in T : m <= k
  BY <1>1, LeastElement
<1>3. m \in 1..Len(c) /\ h[c[m]] # h[Genesis] + (m - 1) /\ m - 1 \notin T
  BY <1>2
<1>4. h[Genesis] \in Nat /\ c[1] = Genesis
  BY BlockTreeAssumption DEF Heights, Rooted
<1>5. m # 1
  BY <1>3, <1>4
<1>6. m - 1 \in 1..Len(c) - 1 /\ m - 1 + 1 = m /\ m - 1 \in 1..Len(c) /\ 1 \in 1..Len(c)
  BY <1>3, <1>5
<1>7. Parent[c[m]] = c[m - 1]
  BY <1>6 DEF Rooted, Linked
<1>8. c[m] # Genesis
  BY <1>3, <1>4, <1>5, <1>6, ChainIsInjective
<1>9. h[c[m]] = h[c[m - 1]] + 1
  BY <1>3, <1>7, <1>8 DEF Heights
<1>10. h[c[m - 1]] = h[Genesis] + (m - 1 - 1)
  BY <1>3, <1>6
<1>11. QED
  BY SMTT(30), <1>3, <1>4, <1>6, <1>9, <1>10

-----------------------------------------------------------------------------
(* Prefixes of a ledger *)

LEMMA PrefixStep ==
  ASSUME NEW c, NEW n \in Nat
  PROVE  /\ Pays(c, n + 1) = Pays(c, n) \cup Created(c[n + 1])
         /\ Takes(c, n + 1) = Takes(c, n) \cup Consumed(c[n + 1])
<1>1. 1..n + 1 = (1..n) \cup {n + 1}
  OBVIOUS
<1>2. QED
  BY <1>1 DEF Pays, Takes

LEMMA PrefixEqual ==
  ASSUME NEW c, NEW d, NEW n \in Nat, \A i \in 1..n : c[i] = d[i]
  PROVE  Pays(c, n) = Pays(d, n) /\ Takes(c, n) = Takes(d, n)
BY DEF Pays, Takes

\* What a block of a prefix does is part of what the prefix does.
LEMMA PrefixCovers ==
  ASSUME NEW c, NEW n \in Nat, NEW i \in 1..n
  PROVE  Created(c[i]) \subseteq Pays(c, n) /\ Consumed(c[i]) \subseteq Takes(c, n)
BY DEF Pays, Takes

\* A prefix consumes no more than it has created.
LEMMA TakesOnlyPaid ==
  ASSUME NEW c, Ledger(c), NEW n \in Nat, n <= Len(c), Len(c) \in Nat
  PROVE  Takes(c, n) \subseteq Pays(c, n)
<1>1. SUFFICES ASSUME NEW i \in 1..n
               PROVE  Consumed(c[i]) \subseteq Pays(c, n)
  BY DEF Takes
<1>2. Consumed(c[i]) \subseteq Pays(c, i - 1)
  BY DEF Ledger
<1>3. 1..i - 1 \subseteq 1..n
  OBVIOUS
<1>4. Pays(c, i - 1) \subseteq Pays(c, n)
  BY <1>3 DEF Pays
<1>5. QED
  BY <1>2, <1>4

\* A part of a ledger from its start is one.
LEMMA LedgerPrefix ==
  ASSUME NEW c, NEW d, Ledger(c), Len(c) \in Nat, Len(d) \in Nat,
         Len(d) <= Len(c), \A i \in 1..Len(d) : d[i] = c[i]
  PROVE  Ledger(d)
<1>1. SUFFICES ASSUME NEW i \in 1..Len(d)
               PROVE  /\ ~SpendsTwice(d[i])
                      /\ Consumed(d[i]) \subseteq Pays(d, i - 1) \ Takes(d, i - 1)
                      /\ Created(d[i]) \cap Pays(d, i - 1) = {}
  BY DEF Ledger
<1>2. i \in 1..Len(c) /\ i - 1 \in Nat /\ d[i] = c[i]
      /\ \A k \in 1..i - 1 : d[k] = c[k]
  OBVIOUS
<1>3. Pays(d, i - 1) = Pays(c, i - 1) /\ Takes(d, i - 1) = Takes(c, i - 1)
  BY <1>2, PrefixEqual
<1>4. QED
  BY <1>2, <1>3 DEF Ledger

\* Unspent, in terms of prefixes.
LEMMA UnspentOfPrefix ==
  ASSUME NEW S, NEW c \in Seq(S), NEW n \in 0..Len(c)
  PROVE  Unspent(SubSeq(c, 1, n)) = Pays(c, n) \ Takes(c, n)
<1> DEFINE d == SubSeq(c, 1, n)
<1>1. d \in Seq(S) /\ Len(d) = n /\ DOMAIN d = 1..n /\ \A i \in 1..n : d[i] = c[i]
  OBVIOUS
<1> HIDE DEF d
<1>2. Unspent(d) = Pays(d, n) \ Takes(d, n)
  BY <1>1 DEF Unspent, Pays, Takes
<1>3. Pays(d, n) = Pays(c, n) /\ Takes(d, n) = Takes(c, n)
  BY <1>1, PrefixEqual
<1>4. QED
  BY <1>2, <1>3 DEF d

LEMMA UnspentOfChain ==
  ASSUME NEW S, NEW c \in Seq(S)
  PROVE  Unspent(c) = Pays(c, Len(c)) \ Takes(c, Len(c))
BY DEF Unspent, Pays, Takes

-----------------------------------------------------------------------------
(* The chainstate *)

\* append_block on the tip: what the new block creates is new to the chain,
\* because its transactions are.
LEMMA CreatedIsFresh ==
  ASSUME NEW h, TransactionsDiffer(h), NEW c \in Seq(Block), c # <<>>,
         Rooted(c), TimeOrdered(c), NEW b \in Block, Parent[b] = Last(c),
         Timestamp[b] > Timestamp[Last(c)],
         Consumed(b) \cap Takes(c, Len(c)) = {}
  PROVE  Created(b) \cap Pays(c, Len(c)) = {}
<1>1. Len(c) \in Nat \ {0} /\ Len(c) \in 1..Len(c) /\ Last(c) = c[Len(c)] /\ 1 \in 1..Len(c)
  BY DEF Last
<1>2. b # Genesis
  <2>1. c[1] = Genesis /\ Timestamp[Genesis] \in Nat /\ Timestamp[c[Len(c)]] \in Nat
    BY <1>1, BlockTypes, BlockTreeAssumption DEF Rooted
  <2>2. ASSUME 1 < Len(c)
        PROVE  Timestamp[c[1]] < Timestamp[c[Len(c)]]
    BY <1>1, <2>2, TimesRise
  <2>3. QED
    BY <1>1, <2>1, <2>2
<1>2a. h[Genesis] \in Nat
  BY BlockTreeAssumption DEF TransactionsDiffer, Heights
<1>3. h[b] = h[Genesis] + Len(c)
  <2>1. h[b] = h[c[Len(c)]] + 1
    BY <1>1, <1>2 DEF TransactionsDiffer, Heights
  <2>2. h[c[Len(c)]] = h[Genesis] + (Len(c) - 1)
    BY <1>1, HeightsOnChain DEF TransactionsDiffer
  <2>3. QED
    BY <1>1, <1>2a, <2>1, <2>2
<1>4. SUFFICES ASSUME NEW o, o \in Created(b), NEW i \in 1..Len(c), o \in Created(c[i])
               PROVE  FALSE
  BY DEF Pays
<1>5. c[i] \in Block /\ h[c[i]] = h[Genesis] + (i - 1)
  BY HeightsOnChain DEF TransactionsDiffer
<1>6. h[b] # h[c[i]]
  BY <1>1, <1>2a, <1>3, <1>5
<1>7. PICK t \in Body[b] \cup {Coinbase[b]} : o \in Outputs[t]
  BY <1>4 DEF Created
<1>8. PICK u \in Body[c[i]] \cup {Coinbase[c[i]]} : o \in Outputs[u]
  BY <1>4 DEF Created
<1>9. t \in Tx /\ u \in Tx
  BY <1>5, BlockTreeAssumption
<1>10. t = u
  BY <1>7, <1>8, <1>9, OutputAssumption
<1>11. t \in Body[b] /\ t \in Body[c[i]]
  BY <1>5, <1>6, <1>10 DEF TransactionsDiffer
<1>12. Inputs[t] # {} /\ Inputs[t] \subseteq Consumed(b) /\ Inputs[t] \subseteq Consumed(c[i])
  BY <1>11 DEF TransactionsDiffer, Consumed
<1>13. Consumed(c[i]) \subseteq Takes(c, Len(c))
  BY <1>1, PrefixCovers
<1>14. QED
  BY <1>12, <1>13

\* A ledger stays one with a block that spends what the ledger has unspent.
LEMMA LedgerAppend ==
  ASSUME NEW c \in Seq(Block), NEW d \in Seq(Block), NEW b \in Block,
         Len(d) = Len(c) + 1, d[Len(c) + 1] = b,
         \A i \in 1..Len(c) : d[i] = c[i],
         Ledger(c), ~SpendsTwice(b),
         Consumed(b) \subseteq Pays(c, Len(c)) \ Takes(c, Len(c)),
         Created(b) \cap Pays(c, Len(c)) = {}
  PROVE  /\ Ledger(d)
         /\ Pays(d, Len(d)) = Pays(c, Len(c)) \cup Created(b)
         /\ Takes(d, Len(d)) = Takes(c, Len(c)) \cup Consumed(b)
<1>1. Len(c) \in Nat
  OBVIOUS
<1>2. Pays(d, Len(c)) = Pays(c, Len(c)) /\ Takes(d, Len(c)) = Takes(c, Len(c))
  BY <1>1, PrefixEqual
<1>3. /\ Pays(d, Len(d)) = Pays(c, Len(c)) \cup Created(b)
      /\ Takes(d, Len(d)) = Takes(c, Len(c)) \cup Consumed(b)
  BY <1>1, <1>2, PrefixStep
<1>4. ASSUME NEW i \in 1..Len(d)
      PROVE  /\ ~SpendsTwice(d[i])
             /\ Consumed(d[i]) \subseteq Pays(d, i - 1) \ Takes(d, i - 1)
             /\ Created(d[i]) \cap Pays(d, i - 1) = {}
  <2>1. CASE i = Len(c) + 1
    <3>1. d[i] = b /\ i - 1 = Len(c)
      BY <1>1, <2>1
    <3>2. QED
      BY <1>2, <3>1
  <2>2. CASE i # Len(c) + 1
    <3>1. i \in 1..Len(c) /\ i - 1 \in Nat /\ d[i] = c[i]
          /\ \A k \in 1..i - 1 : d[k] = c[k]
      BY <1>1, <2>2
    <3>2. Pays(d, i - 1) = Pays(c, i - 1) /\ Takes(d, i - 1) = Takes(c, i - 1)
      BY <3>1, PrefixEqual
    <3>3. QED
      BY <3>1, <3>2 DEF Ledger
  <2>3. QED
    BY <2>1, <2>2
<1>5. QED
  BY <1>3, <1>4 DEF Ledger

\* append_block on the tip of main, of a block that validate_block accepts.
LEMMA ExtendMainLedger ==
  ASSUME NEW h, TransactionsDiffer(h), IndInv, MainIsChain, LedgerInv,
         status = "running", pc \notin {"rewind", "undo"}, UNCHANGED pc,
         NEW b \in Block, ExtendMain(b), Parent[b] = Last(main), Newer(b),
         Spendable(b)
  PROVE  LedgerInv'
<1>1. /\ main \in Seq(Block) /\ main # <<>> /\ Len(main) \in Nat
      /\ main' \in Seq(Block) /\ Len(main') = Len(main) + 1
      /\ main'[Len(main) + 1] = b
      /\ \A i \in 1..Len(main) : main'[i] = main[i]
  BY SMTT(30), ExtendMainTypes DEF IndInv, TypeOK
<1>2. /\ Ledger(main)
      /\ unspent = Pays(main, Len(main)) \ Takes(main, Len(main))
      /\ spent = Takes(main, Len(main))
  BY DEF LedgerInv, AppliedLen
<1>3. Consumed(b) \subseteq unspent /\ ~SpendsTwice(b)
  BY DEF Spendable
<1>4. Timestamp[b] > Timestamp[Last(main)]
  BY DEF Newer
<1>5. Created(b) \cap Pays(main, Len(main)) = {}
  BY <1>1, <1>2, <1>3, <1>4, CreatedIsFresh DEF MainIsChain
<1>6. /\ Ledger(main')
      /\ Pays(main', Len(main')) = Pays(main, Len(main)) \cup Created(b)
      /\ Takes(main', Len(main')) = Takes(main, Len(main)) \cup Consumed(b)
  BY <1>1, <1>2, <1>3, <1>5, LedgerAppend
<1>7. Takes(main, Len(main)) \subseteq Pays(main, Len(main))
  BY <1>1, <1>2, TakesOnlyPaid
<1>8. /\ unspent' = (unspent \cup Created(b)) \ Consumed(b)
      /\ spent' = spent \cup Consumed(b)
  BY DEF ExtendMain, ChainstateAdd
<1>9. unspent' = Pays(main', Len(main')) \ Takes(main', Len(main'))
  BY <1>2, <1>5, <1>6, <1>7, <1>8
<1>10. spent' = Takes(main', Len(main'))
  BY <1>2, <1>6, <1>8
<1>11. AppliedLen' = Len(main')
  BY DEF AppliedLen
<1>12. QED
  BY <1>6, <1>9, <1>10, <1>11 DEF LedgerInv

\* validate_block accepts only what the chainstate has unspent.
LEMMA AcceptedIsSpendable ==
  ASSUME NEW b, TRUE \in BodyVerdicts(b)
  PROVE  Spendable(b)
BY DEF BodyVerdicts

\* rewind_block of the last applied block undoes its add_block.
LEMMA RewindLedger ==
  ASSUME IndInv, LedgerInv, RewindMain \/ UndoFork
  PROVE  LedgerInv'
<1>1. /\ status = "running" /\ pc \in {"rewind", "undo"} /\ RewindOne
      /\ UNCHANGED <<main, pc>>
  BY DEF RewindMain, UndoFork, RewindOne
<1>2. SUFFICES ASSUME status' = "running"
               PROVE  LedgerInv'
  BY <1>1 DEF LedgerInv
<1>3. ChainstateRewind(main[cursor]) /\ cursor' = cursor - 1
  BY <1>1, <1>2 DEF RewindOne
<1>4. /\ main \in Seq(Block) /\ Len(main) \in Nat /\ cursor \in 1..Len(main)
      /\ cursor - 1 \in Nat
  BY SMTT(30), <1>1, ReorgTypes DEF IndInv, ReorgShape, TypeOK
<1> DEFINE n == cursor - 1
           b == main[cursor]
<1>5. /\ Pays(main, cursor) = Pays(main, n) \cup Created(b)
      /\ Takes(main, cursor) = Takes(main, n) \cup Consumed(b)
  <2>1. n \in Nat /\ cursor = n + 1
    BY <1>4
  <2>2. QED
    BY <2>1, PrefixStep
<1>6. /\ Consumed(b) \subseteq Pays(main, n) \ Takes(main, n)
      /\ Created(b) \cap Pays(main, n) = {}
  BY <1>4 DEF LedgerInv, Ledger
<1>7. Takes(main, n) \subseteq Pays(main, n)
  BY <1>4, TakesOnlyPaid DEF LedgerInv
<1>8. /\ unspent = Pays(main, cursor) \ Takes(main, cursor)
      /\ spent = Takes(main, cursor)
  BY <1>1 DEF LedgerInv, AppliedLen
<1>9. /\ unspent' = (unspent \ Created(b)) \cup Consumed(b)
      /\ spent' = spent \ Consumed(b)
  BY <1>3 DEF ChainstateRewind
<1> HIDE DEF n, b
<1>10. unspent' = Pays(main, n) \ Takes(main, n) /\ spent' = Takes(main, n)
  BY <1>5, <1>6, <1>7, <1>8, <1>9
<1>11. AppliedLen' = n /\ main' = main
  BY <1>1, <1>3 DEF AppliedLen, n
<1>12. QED
  BY <1>10, <1>11 DEF LedgerInv

\* The headers that are cut off are those of the rewound blocks.
LEMMA TruncateLedger ==
  ASSUME IndInv, LedgerInv, TruncateMain \/ TruncateFork
  PROVE  LedgerInv'
<1>1. /\ pc \in {"rewind", "undo"} /\ pc' \in {"apply", "restore"}
      /\ cursor = old.src + 1
      /\ UNCHANGED <<unspent, spent, status, cut>>
      /\ \E p : CutMain(p)
  BY DEF TruncateMain, TruncateFork, CutMain
<1>2. /\ main' \in Seq(Block) /\ Len(main') = old.src + 1
      /\ old.src + 1 <= Len(main)
      /\ \A i \in 1..old.src + 1 : main'[i] = main[i]
  BY <1>1, CutMainHeaders
<1>3. /\ main \in Seq(Block) /\ Len(main) \in Nat /\ old.src \in Nat
      /\ Len(main') \in Nat /\ Len(main') <= Len(main)
      /\ \A i \in 1..Len(main') : main'[i] = main[i]
  BY <1>1, <1>2, ReorgTypes DEF IndInv, TypeOK
<1>4. Ledger(main')
  BY <1>3, LedgerPrefix DEF LedgerInv
<1>5. /\ Pays(main', Len(main')) = Pays(main, Len(main'))
      /\ Takes(main', Len(main')) = Takes(main, Len(main'))
  BY <1>3, PrefixEqual
<1>6. AppliedLen = Len(main') /\ AppliedLen' = Len(main')
  BY <1>1, <1>2 DEF AppliedLen
<1>7. QED
  BY <1>1, <1>4, <1>5, <1>6 DEF LedgerInv

\* Where the chainstate and main stay, only the phase must fit.
LEMMA OtherLedger ==
  ASSUME LedgerInv, UNCHANGED <<main, unspent, spent>>,
         AppliedLen' = AppliedLen, status' = "running" => status = "running"
  PROVE  LedgerInv'
BY DEF LedgerInv

\* No step of add_block or reorg breaks the ledger.
LEMMA LedgerStep ==
  ASSUME NEW h, TransactionsDiffer(h)
  PROVE  IndInv /\ ChainInv /\ LedgerInv /\ [Next]_vars => LedgerInv'
<1> SUFFICES ASSUME IndInv, ChainInv, LedgerInv, [Next]_vars PROVE LedgerInv'
  OBVIOUS
<1>0. MainIsChain /\ OldFits
  BY DEF ChainInv
<1>1. ASSUME NEW b \in Block, NEW own \in BOOLEAN, AttachToMain(b, own)
      PROVE  LedgerInv'
  <2>1. /\ status = "running" /\ pc = "idle" /\ UNCHANGED pc /\ ExtendMain(b)
        /\ Parent[b] = Last(main) /\ Newer(b) /\ Spendable(b)
    BY <1>1, AcceptedIsSpendable DEF AttachToMain, Receivable
  <2>2. QED
    BY <1>0, <2>1, ExtendMainLedger
<1>2. ASSUME NEW b \in Block,
             StartFork(b) \/ ExtendFork(b) \/ Reject(b) \/ OwnBlockAborts(b) \/ OwnBlockThrows(b)
      PROVE  LedgerInv'
  <2>1. /\ UNCHANGED <<main, unspent, spent, pc>> /\ pc = "idle"
        /\ status = "running"
    BY <1>2 DEF StartFork, ExtendFork, Reject, OwnBlockAborts, OwnBlockThrows, Receivable, chainVars
  <2>2. AppliedLen' = AppliedLen
    BY <2>1 DEF AppliedLen
  <2>3. QED
    BY <2>1, <2>2, OtherLedger
<1>3. ASSUME NEW b \in Block, StartReorg(b)
      PROVE  LedgerInv'
  <2>1. /\ UNCHANGED <<main, unspent, spent>> /\ pc = "idle" /\ status = "running"
        /\ pc' = pc \/ (pc' = "rewind" /\ cursor' = Len(main))
    BY <1>3 DEF StartReorg, Receivable
  <2>2. AppliedLen' = AppliedLen
    BY <2>1 DEF AppliedLen
  <2>3. QED
    BY <2>1, <2>2, OtherLedger
<1>4. CASE RewindMain \/ UndoFork
  BY <1>4, RewindLedger
<1>5. CASE TruncateMain \/ TruncateFork
  BY <1>5, TruncateLedger
<1>6. CASE ApplyBlock
  <2>1. /\ pc = "apply" /\ status = "running" /\ UNCHANGED pc /\ NextOfFork \in Block
        /\ ExtendMain(NextOfFork) /\ Parent[NextOfFork] = Last(main)
        /\ Newer(NextOfFork) /\ Spendable(NextOfFork)
    <3>1. /\ pc = "apply" /\ status = "running" /\ UNCHANGED pc
          /\ ExtendMain(NextOfFork) /\ Parent[NextOfFork] = Last(main)
          /\ Newer(NextOfFork) /\ TRUE \in BodyVerdicts(NextOfFork)
          /\ idx < Len(Winner.chain)
      BY <1>6 DEF ApplyBlock, Applying
    <3>2. NextOfFork \in Block
      BY <3>1, ReorgTypes DEF NextOfFork
    <3>3. QED
      BY <3>1, <3>2, AcceptedIsSpendable
  <2>2. QED
    BY <1>0, <2>1, ExtendMainLedger
<1>7. CASE RestoreBlock
  <2>1. /\ pc = "restore" /\ status = "running" /\ UNCHANGED pc
        /\ ExtendMain(NextOfOld) /\ Newer(NextOfOld) /\ Spendable(NextOfOld)
    BY <1>7, AcceptedIsSpendable DEF RestoreBlock, Restoring
  <2>2. NextOfOld \in Block /\ Parent[NextOfOld] = Last(main)
    BY <1>0, <1>7, RestoredLinks
  <2>3. QED
    BY <1>0, <2>1, <2>2, ExtendMainLedger
<1>8. CASE ApplyThrows \/ AdoptFork \/ ApplyInvalid \/ KeepMain \/ RestoreFails
  <2>1. /\ UNCHANGED <<main, unspent, spent>>
        /\ pc \in {"apply", "restore"} /\ status = "running"
        /\ pc' \in {"apply", "restore", "idle"} \/ (pc' = "undo" /\ cursor' = Len(main))
    BY <1>8 DEF ApplyThrows, AdoptFork, ApplyInvalid, KeepMain, RestoreFails,
                Applying, Restoring, Idle, chainVars
  <2>2. AppliedLen' = AppliedLen
    BY <2>1 DEF AppliedLen
  <2>3. QED
    BY <2>1, <2>2, OtherLedger
<1>9. CASE UNCHANGED vars
  BY <1>9, OtherLedger DEF vars, chainVars, reorgVars, AppliedLen
<1>10. QED
  BY <1>1, <1>2, <1>3, <1>4, <1>5, <1>6, <1>7, <1>8, <1>9 DEF Next, ReorgStep

\* The genesis block spends nothing.
LEMMA LedgerInit == Init => LedgerInv
<1> SUFFICES ASSUME Init PROVE LedgerInv
  OBVIOUS
<1>1. /\ main = <<Genesis>> /\ Len(main) = 1 /\ main[1] = Genesis /\ pc = "idle"
      /\ unspent = Created(Genesis) /\ spent = {}
  BY DEF Init
<1>2. Consumed(Genesis) = {} /\ ~SpendsTwice(Genesis)
  BY GenesisAssumption DEF Consumed, SpendsTwice
<1>3. /\ Pays(main, 0) = {} /\ Takes(main, 0) = {}
      /\ Pays(main, 1) = Created(Genesis) /\ Takes(main, 1) = {}
  BY <1>1, <1>2 DEF Pays, Takes
<1>4. Ledger(main)
  BY <1>1, <1>2, <1>3 DEF Ledger
<1>5. QED
  BY <1>1, <1>3, <1>4 DEF LedgerInv, AppliedLen

\* The chainstate, the undo records and the ledger go together, in every
\* state of every run.
LEMMA LedgerAlways ==
  ASSUME NEW h, TransactionsDiffer(h)
  PROVE  Spec => [](IndInv /\ ChainInv /\ LedgerInv)
<1>1. IndInv /\ ChainInv /\ LedgerInv /\ [Next]_vars => LedgerInv'
  BY LedgerStep
<1>2. QED
  BY <1>1, ChainStep, StepInv, InitInv, ChainInit, LedgerInit, PTL DEF Spec

\* The chainstate holds exactly the outputs that the applied blocks leave
\* unspent, between any two steps of add_block and of a reorg that rewinds,
\* fails and restores, for every tree with unique transactions.
THEOREM ChainstateIsCorrect ==
  ASSUME NEW h, TransactionsDiffer(h)
  PROVE  Spec => []ChainstateMatchesChain
<1>1. IndInv /\ LedgerInv => ChainstateMatchesChain
  <2> SUFFICES ASSUME IndInv, LedgerInv, status = "running"
               PROVE  unspent = Unspent(Applied)
    BY DEF ChainstateMatchesChain
  <2>1. main \in Seq(Block)
    BY DEF IndInv, TypeOK
  <2>2. CASE pc \in {"rewind", "undo"}
    <3>1. cursor \in 0..Len(main)
      BY <2>1, <2>2, ReorgTypes DEF IndInv, ReorgShape
    <3>2. QED
      BY <2>1, <2>2, <3>1, UnspentOfPrefix DEF Applied, LedgerInv, AppliedLen
  <2>3. CASE pc \notin {"rewind", "undo"}
    BY <2>1, <2>3, UnspentOfChain DEF Applied, LedgerInv, AppliedLen
  <2>4. QED
    BY <2>2, <2>3
<1>2. QED
  BY <1>1, LedgerAlways, PTL

\* Every output an applied block consumed has its undo record, and no other
\* has: the assertion of rewind_block on undo_rec does not fail.
THEOREM UndoRecordsAreComplete ==
  ASSUME NEW h, TransactionsDiffer(h)
  PROVE  Spec => []UndoRecordsComplete
<1>1. IndInv /\ LedgerInv => UndoRecordsComplete
  <2> SUFFICES ASSUME IndInv, LedgerInv, status = "running"
               PROVE  spent = UNION {Consumed(b) : b \in ToSet(Applied)}
    BY DEF UndoRecordsComplete
  <2>1. main \in Seq(Block) /\ Len(main) \in Nat
    BY DEF IndInv, TypeOK
  <2>2. Applied \in Seq(Block) /\ Len(Applied) = AppliedLen
        /\ \A i \in 1..AppliedLen : Applied[i] = main[i]
    <3>1. CASE pc \in {"rewind", "undo"}
      <4>1. cursor \in 0..Len(main)
        BY <2>1, <3>1, ReorgTypes DEF IndInv, ReorgShape
      <4>2. QED
        BY <2>1, <3>1, <4>1 DEF Applied, AppliedLen
    <3>2. CASE pc \notin {"rewind", "undo"}
      BY <2>1, <3>2 DEF Applied, AppliedLen
    <3>3. QED
      BY <3>1, <3>2
  <2>3. DOMAIN Applied = 1..AppliedLen
    BY <2>2
  <2>4. UNION {Consumed(b) : b \in ToSet(Applied)} = Takes(main, AppliedLen)
    BY <2>2, <2>3 DEF ToSet, Takes
  <2>5. QED
    BY <2>4 DEF LedgerInv
<1>2. QED
  BY <1>1, LedgerAlways, PTL

-----------------------------------------------------------------------------
(* What reorg has appended *)

\* It comes from the fork that main is reorganised to, in its order.
AppliedFits ==
  pc = "apply" =>
    \A k \in 1..idx : main[old.src + 1 + k] = Winner.chain[k]

\* A sequence with one element more.
LEMMA AppendedSeq ==
  ASSUME NEW S, NEW s \in Seq(S), NEW e \in S, NEW t, t = Append(s, e)
  PROVE  /\ DOMAIN t = 1..Len(s) + 1 /\ t # <<>>
         /\ t[Len(s) + 1] = e
         /\ \A k \in 1..Len(s) : t[k] = s[k]
OBVIOUS

LEMMA AppliedStep == IndInv /\ AppliedFits /\ [Next]_vars => AppliedFits'
<1> SUFFICES ASSUME IndInv, AppliedFits, [Next]_vars, pc' = "apply"
             PROVE  \A k \in 1..idx' : main'[old'.src + 1 + k] = Winner'.chain[k]
  BY DEF AppliedFits
<1>1. CASE ApplyBlock
  <2>1. /\ pc = "apply" /\ idx < Len(Winner.chain) /\ idx' = idx + 1
        /\ ExtendMain(NextOfFork) /\ UNCHANGED <<forks, target, old>>
    BY <1>1 DEF ApplyBlock, Applying
  <2>2. /\ TypeOK /\ NextOfFork \in Block /\ idx \in Nat /\ old.src \in Nat
        /\ Len(main) = old.src + 1 + idx
    BY <2>1, ReorgTypes DEF NextOfFork, IndInv, ReorgShape
  <2>3. /\ main'[Len(main) + 1] = Winner.chain[idx + 1]
        /\ \A i \in 1..Len(main) : main'[i] = main[i]
    <3>1. main \in Seq(Block) /\ main' = Append(main, NextOfFork)
      BY <2>1 DEF ExtendMain, IndInv, TypeOK
    <3>2. QED
      BY SMTT(30), <2>2, <3>1, AppendedSeq DEF NextOfFork
  <2>4. Winner' = Winner
    BY <2>1 DEF Winner
  <2>5. ASSUME NEW k \in 1..idx + 1
        PROVE  main'[old.src + 1 + k] = Winner.chain[k]
    <3>1. CASE k = idx + 1
      <4>1. old.src + 1 + k = Len(main) + 1
        BY <2>2, <3>1
      <4>2. QED
        BY <2>3, <3>1, <4>1
    <3>2. CASE k # idx + 1
      <4>1. k \in 1..idx /\ old.src + 1 + k \in 1..Len(main)
        BY <2>2, <3>2
      <4>2. QED
        BY <2>1, <2>3, <4>1 DEF AppliedFits
    <3>3. QED
      BY <3>1, <3>2
  <2>6. QED
    BY <2>1, <2>4, <2>5
<1>2. CASE TruncateMain
  <2>1. idx' = 0
    BY <1>2 DEF TruncateMain, CutMain, reorgVars, IndInv, ReorgShape
  <2>2. QED
    BY <2>1
<1>3. CASE UNCHANGED vars
  BY <1>3 DEF vars, chainVars, reorgVars, AppliedFits, Winner
<1>4. CASE RewindMain \/ UndoFork
  BY <1>4 DEF RewindMain, UndoFork, RewindOne
<1>5. CASE TruncateFork \/ ApplyThrows \/ ApplyInvalid \/ AdoptFork
  BY <1>5 DEF TruncateFork, CutMain, ApplyThrows, ApplyInvalid, AdoptFork, Idle
<1>6. CASE RestoreBlock \/ RestoreFails \/ KeepMain
  BY <1>6 DEF RestoreBlock, RestoreFails, Restoring, KeepMain, Idle
<1>7. ASSUME NEW b \in Block, NEW own \in BOOLEAN,
             \/ AttachToMain(b, own) \/ StartFork(b) \/ ExtendFork(b)
             \/ Reject(b) \/ OwnBlockAborts(b) \/ OwnBlockThrows(b) \/ StartReorg(b)
      PROVE  FALSE
  <2>1. pc = "idle" /\ pc' \in {pc, "rewind"}
    BY <1>7 DEF AttachToMain, StartFork, ExtendFork, Reject, OwnBlockAborts, OwnBlockThrows,
                StartReorg, Receivable
  <2>2. QED
    BY <2>1
<1>8. QED
  BY <1>1, <1>2, <1>3, <1>4, <1>5, <1>6, <1>7 DEF Next, ReorgStep

-----------------------------------------------------------------------------
(* The forks *)

\* The source index n finds the block b on every chain that goes through b.
Placed(h, n, b) == h[b] = h[Genesis] + n

\* The fork f is a chain of its own that starts at the header it names.
Hangs(f) ==
  /\ f.chain # <<>>
  /\ \A k \in DOMAIN f.chain :
       Parent[f.chain[k]] = IF k = 1 THEN f.header ELSE f.chain[k - 1]
  /\ f.diff = f.src + 1 + Len(f.chain)

AllHang == \A i \in DOMAIN forks : Hangs(forks[i])

\* Between calls, the difficulties are those of the chains, and none exceeds
\* that of main.
Settled == /\ mainDiff = Len(main)
           /\ \A i \in DOMAIN forks : forks[i].diff <= mainDiff

\* While reorg runs, only its target is heavier than the old main chain, and
\* by one block.
Contended ==
  /\ old.chain # <<>>
  /\ old.diff = old.src + 1 + Len(old.chain)
  /\ Winner.diff = old.diff + 1
  /\ \A i \in DOMAIN forks : i = target \/ forks[i].diff <= old.diff
  /\ pc \in {"undo", "restore"} => idx < Len(Winner.chain)

\* The blocks that forks and the old main chain start from, at any time.
AllPlaced(h) ==
  /\ \A i \in DOMAIN forks : Placed(h, forks[i].src, forks[i].header)
  /\ pc # "idle" => /\ Placed(h, old.src, old.header)
                    /\ main[old.src + 1] = old.header

\* What holds until an exception has left a reorg in the middle.
ForkInv == status = "running" /\ ~cut => /\ AllHang
                                         /\ pc = "idle" => Settled
                                         /\ pc # "idle" => Contended

\* Fork::append_block of a child of the fork's tip.
LEMMA GrownHangs ==
  ASSUME NEW f \in Fork, NEW b \in Block, Hangs(f), CanAttach(f, b)
  PROVE  Hangs(Grown(f, b))
<1> DEFINE g == Grown(f, b)
<1>1. /\ g.src = f.src /\ g.header = f.header /\ g.diff = f.diff + 1
      /\ g.chain = Append(f.chain, b) /\ Len(g.chain) = Len(f.chain) + 1
  BY GrownFork
<1> HIDE DEF g
<1>2. /\ f.src \in Nat /\ f.chain \in Seq(Block) /\ f.diff \in Nat
      /\ f.chain # <<>> /\ f.diff = f.src + 1 + Len(f.chain)
  BY DEF Fork, Hangs
<1>3. Parent[b] = f.chain[Len(f.chain)] /\ Len(f.chain) \in Nat \ {0}
  BY <1>2 DEF CanAttach, Last
<1>4. /\ DOMAIN g.chain = 1..Len(f.chain) + 1 /\ g.chain # <<>>
      /\ g.chain[Len(f.chain) + 1] = b
      /\ \A k \in 1..Len(f.chain) : g.chain[k] = f.chain[k]
  <2>1. f.chain \in Seq(Block) /\ g.chain = Append(f.chain, b)
    BY <1>1, <1>2
  <2>2. QED
    BY ONLY <2>1, b \in Block, AppendedSeq
<1>5. ASSUME NEW k \in DOMAIN g.chain
      PROVE  Parent[g.chain[k]] = IF k = 1 THEN g.header ELSE g.chain[k - 1]
  <2>1. CASE k = Len(f.chain) + 1
    <3>1. k # 1 /\ k - 1 = Len(f.chain) /\ k - 1 \in 1..Len(f.chain)
      BY <1>3, <2>1
    <3>2. QED
      BY <1>3, <1>4, <2>1, <3>1
  <2>2. CASE k # Len(f.chain) + 1
    <3>1. k \in 1..Len(f.chain) /\ (k # 1 => k - 1 \in 1..Len(f.chain))
      BY <1>3, <1>4, <2>2
    <3>2. Parent[f.chain[k]] = IF k = 1 THEN f.header ELSE f.chain[k - 1]
      BY <1>2, <3>1 DEF Hangs
    <3>3. QED
      BY <1>1, <1>4, <3>1, <3>2
  <2>3. QED
    BY <2>1, <2>2
<1>6. g.diff = g.src + 1 + Len(g.chain)
  <2>1. Len(f.chain) \in Nat /\ f.src \in Nat
    BY <1>2, <1>3
  <2>2. /\ g.diff = f.src + 1 + Len(f.chain) + 1
        /\ g.src = f.src /\ Len(g.chain) = Len(f.chain) + 1
    BY <1>1, <1>2
  <2>3. QED
    BY ONLY SMTT(30), <2>1, <2>2
<1>7. QED
  BY <1>4, <1>5, <1>6 DEF Hangs, g

\* The parent of a new fork is below the tip, at the index it gets.
LEMMA NewForkHangs ==
  ASSUME IndInv, NEW b \in Block, StartFork(b)
  PROVE  LET f == [src |-> SourceIndex(b), header |-> Parent[b],
                   chain |-> <<b>>, diff |-> SourceIndex(b) + 2]
         IN  /\ f \in Fork /\ Hangs(f) /\ f.diff <= Len(main)
             /\ f.src + 1 \in 1..Len(main) /\ main[f.src + 1] = f.header
<1> DEFINE k == CHOOSE i \in DOMAIN main : main[i] = Parent[b]
           f == [src |-> SourceIndex(b), header |-> Parent[b],
                 chain |-> <<b>>, diff |-> SourceIndex(b) + 2]
<1>1. main \in Seq(Block) /\ Len(main) \in Nat /\ main # <<>>
  BY DEF IndInv, TypeOK
<1>2. Parent[b] \in ToSet(main) /\ Parent[b] # Last(main)
  BY DEF StartFork
<1>3. k \in 1..Len(main) /\ main[k] = Parent[b]
  BY <1>1, <1>2 DEF ToSet
<1>4. SourceIndex(b) = k - 1
  BY DEF SourceIndex
<1> HIDE DEF k
<1>5. k # Len(main)
  BY <1>1, <1>2, <1>3 DEF Last
<1>6. k \in 1..Len(main) - 1 /\ k - 1 \in Nat /\ (k - 1) + 1 = k
  BY <1>1, <1>3, <1>5
<1>7. f \in Fork
  BY <1>3, <1>4, BlockTypes DEF Fork
<1>8. f.src = k - 1 /\ f.header = Parent[b] /\ f.chain = <<b>> /\ f.diff = k + 1
  BY <1>3, <1>4
<1> HIDE DEF f
<1>9. Hangs(f)
  <2>1. f.diff = f.src + 1 + Len(f.chain)
    BY <1>3, <1>8
  <2>2. f.chain # <<>> /\ \A j \in DOMAIN f.chain : j = 1 /\ Parent[f.chain[j]] = f.header
    BY <1>8
  <2>3. QED
    BY <2>1, <2>2 DEF Hangs
<1>10. f.diff <= Len(main) /\ f.src + 1 \in 1..Len(main) /\ main[f.src + 1] = f.header
  BY <1>3, <1>6, <1>8
<1>11. QED
  BY <1>7, <1>9, <1>10 DEF f

\* add_block that starts a fork.
LEMMA StartForkHangs ==
  ASSUME IndInv, ForkInv, NEW b \in Block, StartFork(b)
  PROVE  ForkInv'
<1> DEFINE f == [src |-> SourceIndex(b), header |-> Parent[b],
                 chain |-> <<b>>, diff |-> SourceIndex(b) + 2]
<1>1. f \in Fork /\ Hangs(f) /\ f.diff <= Len(main)
  BY NewForkHangs
<1>2. /\ status = "running" /\ pc = "idle" /\ forks' = Append(forks, f)
      /\ UNCHANGED <<main, mainDiff, pc, status, cut>>
  BY DEF StartFork, Receivable
<1> HIDE DEF f
<1>3. forks \in Seq(Fork)
  BY DEF IndInv, TypeOK
<1>4. \A i \in DOMAIN forks' : forks'[i] = f \/ (i \in DOMAIN forks /\ forks'[i] = forks[i])
  BY <1>1, <1>2, <1>3
<1>5. SUFFICES ASSUME ~cut PROVE ForkInv'
  BY <1>2 DEF ForkInv
<1>6. AllHang /\ Settled
  BY <1>2, <1>5 DEF ForkInv
<1>7. AllHang' /\ Settled'
  BY <1>1, <1>2, <1>4, <1>6 DEF AllHang, Settled
<1>8. QED
  BY <1>2, <1>7 DEF ForkInv

\* A fork that a block attaches to, and the forks after that.
LEMMA ForksGrow ==
  ASSUME IndInv, NEW b \in Block, NEW i \in FirstFork(b),
         forks' = [forks EXCEPT ![i] = Grown(forks[i], b)]
  PROVE  /\ i \in DOMAIN forks /\ forks[i] \in Fork
         /\ DOMAIN forks' = DOMAIN forks
         /\ forks'[i] = Grown(forks[i], b)
         /\ forks'[i].diff = forks[i].diff + 1
         /\ forks'[i].src = forks[i].src
         /\ forks'[i].header = forks[i].header
         /\ \A j \in DOMAIN forks : j # i => forks'[j] = forks[j]
         /\ AllHang => AllHang'
<1>1. i \in DOMAIN forks /\ CanAttach(forks[i], b)
  BY DEF FirstFork, Attachable
<1>2. TypeOK /\ forks[i] \in Fork
  BY <1>1, ForkTypes DEF IndInv
<1>3. Grown(forks[i], b) \in Fork /\ Grown(forks[i], b).diff = forks[i].diff + 1
      /\ Grown(forks[i], b).src = forks[i].src
      /\ Grown(forks[i], b).header = forks[i].header
  BY <1>2, GrownFork
<1>4. /\ DOMAIN forks' = DOMAIN forks /\ forks'[i] = Grown(forks[i], b)
      /\ \A j \in DOMAIN forks : j # i => forks'[j] = forks[j]
  BY <1>1, <1>2, <1>3, ForkReplaced
<1>5. AllHang => Hangs(forks'[i])
  BY <1>1, <1>2, <1>4, GrownHangs DEF AllHang
<1>6. AllHang => AllHang'
  BY <1>4, <1>5 DEF AllHang
<1>7. QED
  BY <1>1, <1>2, <1>3, <1>4, <1>6

\* add_block that extends a fork, which does not become heavier than main.
LEMMA ExtendForkHangs ==
  ASSUME IndInv, ForkInv, NEW b \in Block, ExtendFork(b)
  PROVE  ForkInv'
<1>1. /\ status = "running" /\ pc = "idle"
      /\ UNCHANGED <<main, mainDiff, pc, status, cut>>
  BY DEF ExtendFork, Receivable
<1>2. SUFFICES ASSUME ~cut PROVE ForkInv'
  BY <1>1 DEF ForkInv
<1>3. AllHang /\ Settled
  BY <1>1, <1>2 DEF ForkInv
<1>4. PICK i \in FirstFork(b) : /\ ~Heavier(Grown(forks[i], b))
                                /\ forks' = [forks EXCEPT ![i] = Grown(forks[i], b)]
  BY DEF ExtendFork
<1>5. /\ i \in DOMAIN forks /\ forks[i] \in Fork /\ DOMAIN forks' = DOMAIN forks
      /\ forks'[i] = Grown(forks[i], b)
      /\ forks'[i].diff = forks[i].diff + 1
      /\ \A j \in DOMAIN forks : j # i => forks'[j] = forks[j]
      /\ AllHang'
  BY <1>3, <1>4, ForksGrow
<1>6. forks'[i].diff <= mainDiff
  <2>1. forks[i].diff \in Nat /\ mainDiff \in Nat
    BY <1>5 DEF Fork, IndInv, TypeOK
  <2>2. QED
    BY <1>4, <1>5, <2>1 DEF Heavier
<1>7. Settled'
  BY <1>1, <1>3, <1>5, <1>6 DEF Settled
<1>8. QED
  BY <1>1, <1>5, <1>7 DEF ForkInv

\* add_block that makes a fork heavier than main: the reorg to it starts with
\* a source index on main, if no reorg was broken off.
LEMMA StartReorgHangs ==
  ASSUME IndInv, ForkInv, NEW b \in Block, StartReorg(b), ~cut
  PROVE  ForkInv' /\ pc' = "rewind" /\ status' = "running"
<1>1. /\ status = "running" /\ pc = "idle" /\ idx = 0
      /\ UNCHANGED <<main, mainDiff, idx>>
  BY DEF StartReorg, Receivable, IndInv, ReorgShape
<1>2. AllHang /\ Settled
  BY <1>1 DEF ForkInv
<1>3. PICK i \in FirstFork(b) :
        /\ Heavier(Grown(forks[i], b))
        /\ forks' = [forks EXCEPT ![i] = Grown(forks[i], b)]
        /\ forks[i].src < Len(main) =>
             pc' = "rewind" /\ target' = i /\ old' = OldMain(forks[i]) /\ UNCHANGED status
  BY DEF StartReorg
<1>4. /\ i \in DOMAIN forks /\ forks[i] \in Fork
      /\ DOMAIN forks' = DOMAIN forks
      /\ forks'[i].diff = forks[i].diff + 1
      /\ \A j \in DOMAIN forks : j # i => forks'[j] = forks[j]
      /\ AllHang'
      /\ forks'[i] = Grown(forks[i], b)
  BY <1>2, <1>3, ForksGrow
<1>5. /\ forks[i].diff = forks[i].src + 1 + Len(forks[i].chain)
      /\ forks[i].src \in Nat /\ forks[i].diff \in Nat /\ mainDiff \in Nat
      /\ Len(forks[i].chain) \in Nat \ {0} /\ main \in Seq(Block) /\ Len(main) \in Nat
      /\ mainDiff = Len(main) /\ forks[i].diff <= mainDiff
  <2>1. mainDiff \in Nat /\ main \in Seq(Block)
    BY DEF IndInv, TypeOK
  <2>2. forks[i].diff = forks[i].src + 1 + Len(forks[i].chain) /\ forks[i].chain # <<>>
    BY <1>2, <1>4 DEF AllHang, Hangs
  <2>3. /\ forks[i].src \in Nat /\ forks[i].diff \in Nat
        /\ forks[i].chain \in Seq(Block)
    BY <1>4 DEF Fork
  <2>4. QED
    BY <1>2, <1>4, <2>1, <2>2, <2>3 DEF Settled
<1>6. forks[i].src + 1 < Len(main) /\ forks[i].src < Len(main)
  BY <1>5
<1>7. pc' = "rewind" /\ target' = i /\ old' = OldMain(forks[i]) /\ UNCHANGED status
  BY <1>3, <1>6
<1>8. /\ old' \in Fork /\ old'.src = forks[i].src /\ old'.diff = mainDiff
      /\ Len(old'.chain) = Len(main) - (forks[i].src + 1)
  BY <1>4, <1>6, <1>7, OldMainFork DEF IndInv
<1>9. forks'[i].diff = mainDiff + 1
  <2>1. forks'[i].diff > mainDiff
    BY <1>3, <1>4 DEF Heavier
  <2>2. QED
    BY <1>4, <1>5, <2>1
<1>10. Contended'
  <2>1. Winner' = forks'[i] /\ Winner'.diff = old'.diff + 1
    BY <1>7, <1>8, <1>9 DEF Winner
  <2>2. old'.chain # <<>> /\ old'.diff = old'.src + 1 + Len(old'.chain)
    <3>1. old'.chain \in Seq(Block) /\ Len(old'.chain) # 0
      BY SMTT(30), <1>5, <1>6, <1>8 DEF Fork
    <3>2. QED
      BY SMTT(30), <1>5, <1>6, <1>8, <3>1
  <2>3. \A j \in DOMAIN forks' : j = target' \/ forks'[j].diff <= old'.diff
    BY <1>2, <1>4, <1>7, <1>8 DEF Settled
  <2>4. QED
    BY <1>1, <1>7, <2>1, <2>2, <2>3 DEF Contended
<1>11. QED
  BY <1>1, <1>4, <1>7, <1>10 DEF ForkInv

\* The steps of a running reorg that keep its forks and its old main chain.
LEMMA ReorgGoesOn ==
  ASSUME ForkInv, status = "running", pc # "idle", pc' # "idle",
         UNCHANGED <<forks, old, target, cut>>,
         idx' = idx \/ pc' \notin {"undo", "restore"},
         pc' \in {"undo", "restore"} => pc \in {"undo", "restore"} \/ idx < Len(Winner.chain)
  PROVE  ForkInv'
<1>1. SUFFICES ASSUME ~cut PROVE ForkInv'
  BY DEF ForkInv
<1>2. AllHang /\ Contended
  BY <1>1 DEF ForkInv
<1>3. Winner' = Winner
  BY DEF Winner
<1>4. AllHang' /\ Contended'
  BY <1>2, <1>3 DEF AllHang, Contended
<1>5. QED
  BY <1>4 DEF ForkInv

\* The old main chain, as a fork.
LEMMA OldHangs ==
  ASSUME NEW h, ChainInv, ForkInv, AllPlaced(h), status = "running", pc # "idle", ~cut
  PROVE  Hangs(old)
<1>1. Contended /\ OldFits /\ main[old.src + 1] = old.header
  BY DEF ForkInv, ChainInv, AllPlaced
<1>2. \A k \in DOMAIN old.chain :
        Parent[old.chain[k]] = IF k = 1 THEN old.header ELSE old.chain[k - 1]
  BY <1>1 DEF OldFits
<1>3. QED
  BY <1>1, <1>2 DEF Hangs, Contended

\* The reorg succeeds: main has the difficulty of the fork it adopted.
LEMMA AdoptForkHangs ==
  ASSUME NEW h, IndInv, ChainInv, ForkInv, AllPlaced(h), AdoptFork, ~cut
  PROVE  ForkInv' /\ Len(main) > old.src + 1 + Len(old.chain)
<1>1. /\ status = "running" /\ pc = "apply" /\ idx = Len(Winner.chain)
      /\ forks' = Append(RemoveAt(forks, target), old)
      /\ mainDiff' = Winner.diff /\ pc' = "idle"
      /\ UNCHANGED <<main, status>>
  BY DEF AdoptFork, Idle
<1>2. /\ forks \in Seq(Fork) /\ target \in DOMAIN forks /\ old \in Fork
      /\ Winner.src = old.src /\ old.diff \in Nat
      /\ old.src \in Nat /\ Len(main) = old.src + 1 + idx
  BY <1>1, ReorgTypes DEF TypeOK, IndInv, ReorgShape
<1>3. AllHang /\ Contended /\ Hangs(old)
  BY <1>1, OldHangs DEF ForkInv
<1>4. /\ \A j \in DOMAIN forks' :
           forks'[j] = old \/ \E k \in DOMAIN forks : forks'[j] = forks[k]
  BY <1>1, <1>2, AdoptedForks
<1>5. AllHang'
  BY <1>3, <1>4 DEF AllHang
<1>6. Winner.diff = old.src + 1 + Len(Winner.chain)
  BY <1>2, <1>3 DEF AllHang, Hangs, Winner
<1>7. mainDiff' = Len(main')
  BY <1>1, <1>2, <1>6
<1>8. Winner.diff = old.diff + 1 /\ old.diff = old.src + 1 + Len(old.chain)
      /\ \A k \in DOMAIN forks : k = target \/ forks[k].diff <= old.diff
  BY <1>3 DEF Contended
<1>9. \A k \in DOMAIN forks : forks[k].diff <= mainDiff'
  <2>1. ASSUME NEW k \in DOMAIN forks PROVE forks[k].diff <= mainDiff'
    <3>1. forks[k].diff \in Nat
      BY ForkTypes DEF IndInv
    <3>2. CASE k = target
      BY <1>1, <1>2, <1>8, <3>1, <3>2 DEF Winner
    <3>3. CASE k # target
      BY <1>1, <1>2, <1>8, <3>1, <3>3
    <3>4. QED
      BY <3>2, <3>3
  <2>2. QED
    BY <2>1
<1>10. old.diff <= mainDiff'
  BY <1>1, <1>2, <1>8
<1>11. Settled'
  BY <1>4, <1>7, <1>9, <1>10 DEF Settled
<1>12. Len(main) > old.src + 1 + Len(old.chain)
  <2>1. Len(main) = old.diff + 1
    BY <1>1, <1>7, <1>8
  <2>2. QED
    BY <1>2, <1>8, <2>1
<1>13. QED
  BY <1>1, <1>5, <1>11, <1>12 DEF ForkInv

\* The old main chain is back: what is left of the fork is not heavier.
LEMMA KeepMainHangs ==
  ASSUME IndInv, ForkInv, KeepMain, status' = "running", ~cut
  PROVE  ForkInv'
<1>1. /\ status = "running" /\ pc = "restore" /\ Restored = Len(old.chain)
      /\ idx # 0 /\ forks' = [forks EXCEPT ![target] = Trimmed(forks[target], idx)]
      /\ mainDiff' = old.diff /\ pc' = "idle" /\ UNCHANGED main
  BY DEF KeepMain, Idle
<1>2. /\ TypeOK /\ target \in DOMAIN forks /\ Winner \in Fork /\ Winner.src = old.src
      /\ Winner.chain \in Seq(Block) /\ Winner.diff \in Nat
      /\ old.src \in Nat /\ old.chain \in Seq(Block) /\ old.diff \in Nat
      /\ idx \in Nat /\ Len(main) \in Nat
  BY SMTT(30), <1>1, ReorgTypes DEF TypeOK
<1>3. AllHang /\ Contended
  BY <1>1 DEF ForkInv
<1>4. Hangs(Winner) /\ Winner = forks[target]
  BY <1>2, <1>3 DEF AllHang, Winner
<1>5. /\ idx < Len(Winner.chain) /\ Winner.diff = old.diff + 1
      /\ old.diff = old.src + 1 + Len(old.chain)
      /\ \A k \in DOMAIN forks : k = target \/ forks[k].diff <= old.diff
  BY <1>1, <1>3 DEF Contended
<1> DEFINE f == Trimmed(Winner, idx)
<1>6. /\ f.src = old.src /\ f.header = Winner.header
      /\ f.chain = SubSeq(Winner.chain, 1, idx)
      /\ f.diff = Winner.diff - (Len(Winner.chain) - idx)
  BY <1>2 DEF Trimmed
<1>7. /\ Len(f.chain) = idx /\ DOMAIN f.chain = 1..idx /\ f.chain \in Seq(Block)
      /\ \A k \in 1..idx : f.chain[k] = Winner.chain[k]
  BY SMTT(30), <1>2, <1>5, <1>6
<1>8. /\ Winner.diff = Winner.src + 1 + Len(Winner.chain)
      /\ \A k \in DOMAIN Winner.chain :
           Parent[Winner.chain[k]] = IF k = 1 THEN Winner.header ELSE Winner.chain[k - 1]
  BY <1>4 DEF Hangs
<1>9. f \in Fork
  <2>1. f.diff \in Nat
    BY SMTT(40), <1>2, <1>5, <1>6, <1>8
  <2>2. Winner.header \in Block
    BY <1>2 DEF Fork
  <2>3. QED
    BY <1>2, <1>6, <1>7, <2>1, <2>2 DEF Trimmed, Fork
<1>10. f.diff = f.src + 1 + Len(f.chain) /\ f.diff <= old.diff
  <2>1. /\ Len(Winner.chain) \in Nat /\ old.src \in Nat /\ idx \in Nat
        /\ old.diff \in Nat
    BY <1>2
  <2>2. /\ idx < Len(Winner.chain) /\ Winner.diff = old.diff + 1
        /\ Winner.diff = old.src + 1 + Len(Winner.chain)
        /\ f.diff = Winner.diff - (Len(Winner.chain) - idx)
        /\ f.src = old.src /\ Len(f.chain) = idx
    BY <1>2, <1>5, <1>6, <1>7, <1>8
  <2>3. QED
    BY ONLY SMTT(30), <2>1, <2>2
<1>11. /\ DOMAIN forks' = DOMAIN forks /\ forks'[target] = f
       /\ \A j \in DOMAIN forks : j # target => forks'[j] = forks[j]
  BY <1>1, <1>2, <1>4, <1>9, ForkReplaced
<1> HIDE DEF f
<1>12. Hangs(f)
  <2>1. ASSUME NEW k \in DOMAIN f.chain
        PROVE  Parent[f.chain[k]] = IF k = 1 THEN f.header ELSE f.chain[k - 1]
    <3>1. k \in 1..idx /\ k \in DOMAIN Winner.chain /\ (k # 1 => k - 1 \in 1..idx)
      BY <1>2, <1>5, <1>7
    <3>2. QED
      BY <1>6, <1>7, <1>8, <3>1
  <2>2. f.chain # <<>>
    BY <1>1, <1>2, <1>7
  <2>3. QED
    BY <1>10, <2>1, <2>2 DEF Hangs
<1>13. AllHang'
  BY <1>3, <1>11, <1>12 DEF AllHang
<1>14. mainDiff' = Len(main')
  BY <1>1, <1>2, <1>5 DEF Restored
<1>15. Settled'
  BY <1>1, <1>5, <1>10, <1>11, <1>14 DEF Settled
<1>16. QED
  BY <1>1, <1>13, <1>15 DEF ForkInv

\* The exception is the only step that breaks off a reorg.
LEMMA CutStays == [Next]_vars => \/ cut' = cut
                                 \/ ApplyThrows /\ cut' = TRUE
<1> SUFFICES ASSUME [Next]_vars PROVE cut' = cut \/ (ApplyThrows /\ cut' = TRUE)
  OBVIOUS
<1>1. ASSUME NEW b \in Block, NEW own \in BOOLEAN,
             \/ AttachToMain(b, own) \/ StartFork(b) \/ ExtendFork(b) \/ Reject(b)
             \/ OwnBlockAborts(b) \/ OwnBlockThrows(b) \/ StartReorg(b)
      PROVE  cut' = cut
  BY <1>1 DEF AttachToMain, StartFork, ExtendFork, Reject, OwnBlockAborts,
              OwnBlockThrows, StartReorg
<1>2. CASE ApplyThrows
  BY <1>2 DEF ApplyThrows
<1>3. CASE \/ RewindMain \/ UndoFork \/ TruncateMain \/ TruncateFork
           \/ ApplyBlock \/ ApplyInvalid \/ AdoptFork
  BY <1>3 DEF RewindMain, UndoFork, RewindOne, TruncateMain, TruncateFork, CutMain,
              ApplyBlock, ApplyInvalid, AdoptFork
<1>4. CASE RestoreBlock \/ RestoreFails \/ KeepMain
  BY <1>4 DEF RestoreBlock, RestoreFails, KeepMain
<1>5. CASE UNCHANGED vars
  BY <1>5 DEF vars
<1>6. QED
  BY <1>1, <1>2, <1>3, <1>4, <1>5 DEF Next, ReorgStep

\* No step of add_block or reorg takes a fork off its source.
LEMMA ForkStep ==
  ASSUME NEW h
  PROVE  IndInv /\ ChainInv /\ ForkInv /\ AllPlaced(h) /\ [Next]_vars => ForkInv'
<1> SUFFICES ASSUME IndInv, ChainInv, ForkInv, AllPlaced(h), [Next]_vars, ~cut
             PROVE  ForkInv'
  BY CutStays DEF ForkInv
<1>1. ASSUME NEW b \in Block, NEW own \in BOOLEAN, AttachToMain(b, own)
      PROVE  ForkInv'
  <2>1. /\ status = "running" /\ pc = "idle" /\ ExtendMain(b)
        /\ UNCHANGED <<forks, pc, status>>
    BY <1>1 DEF AttachToMain, Receivable
  <2>2. AllHang /\ Settled
    BY <2>1 DEF ForkInv
  <2>3. AllHang'
    BY <2>1, <2>2 DEF AllHang
  <2>4. mainDiff' = mainDiff + 1 /\ Len(main') = Len(main) + 1 /\ mainDiff \in Nat
    BY <2>1, ExtendMainTypes DEF IndInv, TypeOK
  <2>5. \A i \in DOMAIN forks : forks[i].diff \in Nat
    BY ForkTypes DEF IndInv
  <2>6. Settled'
    BY <2>1, <2>2, <2>4, <2>5 DEF Settled
  <2>7. QED
    BY <2>1, <2>3, <2>6 DEF ForkInv
<1>2. ASSUME NEW b \in Block, StartFork(b)
      PROVE  ForkInv'
  BY <1>2, StartForkHangs
<1>3. ASSUME NEW b \in Block, ExtendFork(b)
      PROVE  ForkInv'
  BY <1>3, ExtendForkHangs
<1>4. ASSUME NEW b \in Block, StartReorg(b)
      PROVE  ForkInv'
  BY <1>4, StartReorgHangs
<1>5. CASE RewindMain \/ UndoFork
  BY <1>5, ReorgGoesOn DEF RewindMain, UndoFork, RewindOne
<1>6. CASE TruncateMain \/ TruncateFork
  BY <1>6, ReorgGoesOn DEF TruncateMain, TruncateFork, CutMain, reorgVars
<1>7. CASE ApplyThrows
  BY <1>7 DEF ApplyThrows, ForkInv
<1>8. CASE ApplyBlock
  BY <1>8, ReorgGoesOn DEF ApplyBlock, Applying
<1>9. CASE ApplyInvalid
  BY <1>9, ReorgGoesOn DEF ApplyInvalid, Applying
<1>10. CASE AdoptFork
  BY <1>10, AdoptForkHangs
<1>11. CASE RestoreBlock
  BY <1>11, ReorgGoesOn DEF RestoreBlock, Restoring, reorgVars
<1>12. CASE RestoreFails
  BY <1>12 DEF RestoreFails, ForkInv
<1>13. CASE KeepMain
  BY <1>13, KeepMainHangs DEF ForkInv
<1>14. ASSUME NEW b \in Block, Reject(b)
       PROVE  ForkInv'
  BY <1>14 DEF Reject, chainVars, reorgVars, ForkInv, AllHang, Settled, Contended, Winner
<1>15. ASSUME NEW b \in Block, OwnBlockAborts(b) \/ OwnBlockThrows(b)
       PROVE  ForkInv'
  BY <1>15 DEF OwnBlockAborts, OwnBlockThrows, ForkInv
<1>16. CASE UNCHANGED vars
  BY <1>16 DEF vars, chainVars, reorgVars, ForkInv, AllHang, Settled, Contended, Winner
<1>17. QED
  BY <1>1, <1>2, <1>3, <1>4, <1>5, <1>6, <1>7, <1>8, <1>9, <1>10, <1>11, <1>12,
     <1>13, <1>14, <1>15, <1>16 DEF Next, ReorgStep

\* A block that is on main is where its height says.
LEMMA PlacedOnMain ==
  ASSUME NEW h, Heights(h), NEW c \in Seq(Block), Rooted(c), TimeOrdered(c),
         NEW n \in Nat, NEW b, b \in ToSet(c), Placed(h, n, b)
  PROVE  n < Len(c) /\ c[n + 1] = b
<1>1. PICK i \in 1..Len(c) : c[i] = b
  BY DEF ToSet
<1>2. h[b] = h[Genesis] + (i - 1) /\ h[Genesis] \in Nat
  BY <1>1, HeightsOnChain, BlockTreeAssumption DEF Heights
<1>3. n = i - 1
  BY <1>1, <1>2 DEF Placed
<1>4. QED
  BY <1>1, <1>3

\* Where main has a block, its index is its height.
LEMMA MainIsPlaced ==
  ASSUME NEW h, Heights(h), TypeOK, MainIsChain, NEW n \in Nat, n < Len(main)
  PROVE  Placed(h, n, main[n + 1])
<1>1. n + 1 \in 1..Len(main) /\ main \in Seq(Block)
  BY DEF TypeOK
<1>2. h[main[n + 1]] = h[Genesis] + (n + 1 - 1)
  BY <1>1, HeightsOnChain DEF MainIsChain
<1>3. QED
  BY <1>2 DEF Placed

\* No step moves the source index of a fork, and that of a new one is right.
LEMMA PlacedStep ==
  ASSUME NEW h, Heights(h)
  PROVE  IndInv /\ ChainInv /\ AllPlaced(h) /\ [Next]_vars => AllPlaced(h)'
<1> SUFFICES ASSUME IndInv, ChainInv, AllPlaced(h), [Next]_vars
             PROVE  AllPlaced(h)'
  OBVIOUS
<1>0. TypeOK /\ MainIsChain /\ main \in Seq(Block) /\ forks \in Seq(Fork)
  BY DEF IndInv, ChainInv, TypeOK
<1>1. ASSUME NEW b \in Block, NEW own \in BOOLEAN,
             \/ AttachToMain(b, own) \/ Reject(b)
             \/ OwnBlockAborts(b) \/ OwnBlockThrows(b)
      PROVE  AllPlaced(h)'
  <2>1. pc = "idle" /\ UNCHANGED <<forks, pc>>
    BY <1>1 DEF AttachToMain, Reject, OwnBlockAborts, OwnBlockThrows, Receivable
  <2>2. QED
    BY <2>1 DEF AllPlaced
<1>2. ASSUME NEW b \in Block, StartFork(b)
      PROVE  AllPlaced(h)'
  <2> DEFINE f == [src |-> SourceIndex(b), header |-> Parent[b],
                   chain |-> <<b>>, diff |-> SourceIndex(b) + 2]
  <2>1. pc = "idle" /\ pc' = "idle" /\ forks' = Append(forks, f)
    BY <1>2 DEF StartFork, Receivable
  <2>2. f \in Fork /\ f.src + 1 \in 1..Len(main) /\ main[f.src + 1] = f.header
    BY <1>2, NewForkHangs
  <2>3. f.src \in Nat
    BY <2>2 DEF Fork
  <2> HIDE DEF f
  <2>4. Placed(h, f.src, f.header)
    BY <1>0, <2>2, <2>3, MainIsPlaced
  <2>5. \A i \in DOMAIN forks' : forks'[i] = f \/ (i \in DOMAIN forks /\ forks'[i] = forks[i])
    BY <1>0, <2>1, <2>2
  <2>6. QED
    BY <2>1, <2>4, <2>5 DEF AllPlaced
<1>3. ASSUME NEW b \in Block, ExtendFork(b) \/ StartReorg(b)
      PROVE  AllPlaced(h)'
  <2>1. PICK i \in FirstFork(b) : forks' = [forks EXCEPT ![i] = Grown(forks[i], b)]
                                  /\ (pc' = "idle" \/ (/\ forks[i].src < Len(main)
                                                       /\ old' = OldMain(forks[i])))
    BY <1>3 DEF ExtendFork, StartReorg, Receivable
  <2>2. /\ i \in DOMAIN forks /\ forks[i] \in Fork /\ DOMAIN forks' = DOMAIN forks
        /\ forks'[i].src = forks[i].src /\ forks'[i].header = forks[i].header
        /\ \A j \in DOMAIN forks : j # i => forks'[j] = forks[j]
    BY <2>1, ForksGrow
  <2>3. \A j \in DOMAIN forks' : Placed(h, forks'[j].src, forks'[j].header)
    BY <2>2 DEF AllPlaced
  <2>4. ASSUME pc' # "idle"
        PROVE  /\ Placed(h, old'.src, old'.header) /\ main'[old'.src + 1] = old'.header
    <3>1. /\ old'.src = forks[i].src /\ old'.header = main[forks[i].src + 1]
          /\ forks[i].src \in Nat /\ forks[i].src < Len(main)
      BY <1>0, <2>1, <2>2, <2>4, OldMainFork DEF Fork
    <3>2. main' = main
      BY <1>3 DEF ExtendFork, StartReorg
    <3>3. QED
      BY <1>0, <3>1, <3>2, MainIsPlaced
  <2>5. QED
    BY <2>3, <2>4 DEF AllPlaced
<1>4. CASE \/ RewindMain \/ UndoFork \/ ApplyInvalid \/ RestoreFails \/ UNCHANGED vars
  <2>1. UNCHANGED <<main, forks, old>> /\ (pc' # "idle" => pc # "idle")
    BY <1>4 DEF RewindMain, UndoFork, RewindOne, ApplyInvalid, Applying, RestoreFails,
                Restoring, chainVars, reorgVars, vars
  <2>2. QED
    BY <2>1 DEF AllPlaced
<1>5. CASE TruncateMain \/ TruncateFork
  <2>1. PICK p : CutMain(p) /\ pc \in {"rewind", "undo"}
    BY <1>5 DEF TruncateMain, TruncateFork
  <2>2. UNCHANGED <<forks, old>> /\ main'[old.src + 1] = main[old.src + 1]
    <3>1. old.src \in Nat /\ \A i \in 1..old.src + 1 : main'[i] = main[i]
      BY <2>1, CutMainHeaders, ReorgTypes DEF IndInv
    <3>2. QED
      BY <2>1, <3>1 DEF CutMain, reorgVars
  <2>3. QED
    BY <2>1, <2>2 DEF AllPlaced
<1>6. CASE ApplyBlock \/ RestoreBlock
  <2>1. PICK b \in Block : ExtendMain(b) /\ UNCHANGED <<forks, old>> /\ pc # "idle"
    <3>1. CASE ApplyBlock
      BY <3>1, ReorgTypes DEF ApplyBlock, Applying, NextOfFork
    <3>2. CASE RestoreBlock
      BY <3>2, RestoredLinks DEF RestoreBlock, Restoring, reorgVars, ChainInv
    <3>3. QED
      BY <1>6, <3>1, <3>2
  <2>2. \A i \in 1..Len(main) : main'[i] = main[i]
    BY <2>1, ExtendMainTypes DEF IndInv
  <2>3. old.src + 1 \in 1..Len(main)
    BY <1>0, <2>1, ReorgTypes DEF IndInv, ReorgShape
  <2>4. QED
    BY <2>1, <2>2, <2>3 DEF AllPlaced
<1>7. CASE ApplyThrows
  BY <1>7 DEF ApplyThrows, Idle, AllPlaced
<1>8. CASE AdoptFork
  <2>1. /\ pc = "apply" /\ pc' = "idle" /\ forks' = Append(RemoveAt(forks, target), old)
    BY <1>8 DEF AdoptFork, Idle
  <2>2. target \in DOMAIN forks /\ old \in Fork
    BY <1>0, <2>1 DEF IndInv, ReorgShape, TypeOK
  <2>3. \A j \in DOMAIN forks' :
          forks'[j] = old \/ \E k \in DOMAIN forks : forks'[j] = forks[k]
    BY <1>0, <2>1, <2>2, AdoptedForks
  <2>4. QED
    BY <2>1, <2>3 DEF AllPlaced
<1>9. CASE KeepMain
  <2>1. CASE status' # status
    BY <1>9, <2>1 DEF KeepMain, Idle, reorgVars, AllPlaced
  <2>2. CASE status' = status
    <3>1. /\ pc = "restore" /\ pc' = "idle"
          /\ forks' = [forks EXCEPT ![target] = Trimmed(forks[target], idx)]
      BY <1>9, <2>2 DEF KeepMain, Idle
    <3>2. \A j \in DOMAIN forks' : /\ j \in DOMAIN forks
                                   /\ forks'[j].src = forks[j].src
                                   /\ forks'[j].header = forks[j].header
      BY <1>0, <3>1 DEF Trimmed
    <3>3. QED
      BY <3>1, <3>2 DEF AllPlaced
  <2>3. QED
    BY <2>1, <2>2
<1>10. QED
  BY <1>1, <1>2, <1>3, <1>4, <1>5, <1>6, <1>7, <1>8, <1>9 DEF Next, ReorgStep

LEMMA StoreInit == Init => StoreInv
<1> SUFFICES ASSUME Init PROVE StoreInv
  OBVIOUS
<1>1. main = <<Genesis>> /\ store = {Genesis} /\ forks = <<>> /\ old = NoFork
  BY DEF Init
<1>2. QED
  BY <1>1 DEF StoreInv, StoreHasChains, NoFork, ToSet

LEMMA ForkInit ==
  ASSUME NEW h
  PROVE  Init => AppliedFits /\ ForkInv /\ AllPlaced(h)
BY DEF Init, AppliedFits, ForkInv, AllHang, Settled, AllPlaced

\* The forks and the chain go together.
ForksHold(h) == IndInv /\ ChainInv /\ AppliedFits /\ ForkInv /\ AllPlaced(h)

LEMMA ForksAlways ==
  ASSUME NEW h, Heights(h)
  PROVE  Spec => []ForksHold(h)
<1>1. Init => ForksHold(h)
  BY InitInv, ChainInit, ForkInit DEF ForksHold
<1>2. ForksHold(h) /\ [Next]_vars => ForksHold(h)'
  BY StepInv, ChainStep, AppliedStep, ForkStep, PlacedStep DEF ForksHold
<1>3. QED
  BY <1>1, <1>2, PTL DEF Spec

\* A sequence behind one more element.
LEMMA HeadAndRest ==
  ASSUME NEW S, NEW e \in S, NEW s \in Seq(S)
  PROVE  /\ Len(<<e>> \o s) = Len(s) + 1 /\ (<<e>> \o s)[1] = e
         /\ Len(s) \in Nat
         /\ \A j \in 2..Len(s) + 1 : (<<e>> \o s)[j] = s[j - 1]
<1>1. <<e>> \in Seq(S) /\ Len(<<e>>) = 1 /\ <<e>>[1] = e
  OBVIOUS
<1>2. QED
  BY <1>1, SMTT(30)

\* Between calls, the source index of every fork finds the block the fork
\* starts from, if that is on main; and as long as no reorg was broken off,
\* the fork is a chain that starts there.  For every tree of blocks, however
\* its forks start from one another.
THEOREM ForksHang ==
  ASSUME NEW h, Heights(h)
  PROVE  Spec => []ForksHangOnMain
<1>1. ForksHold(h) => ForksHangOnMain
  <2> SUFFICES ASSUME ForksHold(h), status = "running", pc = "idle",
                      NEW i \in DOMAIN forks
               PROVE  /\ forks[i].header \in ToSet(main) =>
                           /\ forks[i].src < Len(main)
                           /\ main[forks[i].src + 1] = forks[i].header
                      /\ ~cut => /\ forks[i].chain # <<>>
                                 /\ Linked(<<forks[i].header>> \o forks[i].chain)
    BY DEF ForksHangOnMain
  <2> DEFINE f == forks[i]
             c == <<f.header>> \o f.chain
  <2>1. /\ f.chain \in Seq(Block) /\ f.header \in Block /\ f.src \in Nat
        /\ Placed(h, f.src, f.header)
    BY ForkTypes DEF ForksHold, AllPlaced, IndInv
  <2>2. ~cut => Hangs(f)
    BY DEF ForksHold, ForkInv, AllHang
  <2> HIDE DEF f
  <2>3. f.header \in ToSet(main) => f.src < Len(main) /\ main[f.src + 1] = f.header
    BY <2>1, PlacedOnMain DEF ForksHold, IndInv, ChainInv, MainIsChain, TypeOK
  <2>4. /\ Len(c) = Len(f.chain) + 1 /\ c[1] = f.header /\ Len(f.chain) \in Nat
        /\ \A j \in 2..Len(f.chain) + 1 : c[j] = f.chain[j - 1]
    BY <2>1, HeadAndRest
  <2> HIDE DEF c
  <2>5. ASSUME NEW j \in 1..Len(c) - 1, ~cut
        PROVE  Parent[c[j + 1]] = c[j]
    <3>0. /\ j \in 1..Len(f.chain) /\ DOMAIN f.chain = 1..Len(f.chain)
          /\ j + 1 \in 2..Len(f.chain) + 1 /\ (j + 1) - 1 = j
          /\ j # 1 => j \in 2..Len(f.chain) + 1
      BY <2>1, <2>4
    <3>1. /\ j \in DOMAIN f.chain /\ c[j + 1] = f.chain[j]
          /\ c[j] = IF j = 1 THEN f.header ELSE f.chain[j - 1]
      <4>1. c[j + 1] = f.chain[(j + 1) - 1]
        BY <2>4, <3>0
      <4>2. j # 1 => c[j] = f.chain[j - 1]
        BY <2>4, <3>0
      <4>3. QED
        BY <2>4, <3>0, <4>1, <4>2
    <3>2. Parent[f.chain[j]] = IF j = 1 THEN f.header ELSE f.chain[j - 1]
      BY <2>2, <2>5, <3>1 DEF Hangs
    <3>3. QED
      BY <3>1, <3>2
  <2>6. ~cut => f.chain # <<>> /\ Linked(c)
    BY <2>2, <2>5 DEF Linked, Hangs
  <2>7. QED
    BY <2>3, <2>6 DEF c, f
<1>2. QED
  BY <1>1, ForksAlways, PTL

\* Between calls, the difficulties that the fork choice compares are those of
\* the chains, and no fork is heavier than main, as long as no reorg was
\* broken off.
THEOREM MainIsHeaviest ==
  ASSUME NEW h, Heights(h)
  PROVE  Spec => []HeaviestIsMain
<1>1. ForksHold(h) => HeaviestIsMain
  BY DEF ForksHold, ForkInv, AllHang, Hangs, Settled, HeaviestIsMain
<1>2. QED
  BY <1>1, ForksAlways, PTL

-----------------------------------------------------------------------------
(* The wallet *)

\* Rescanning a ledger gives the owned outputs that it leaves unspent: no
\* output is consumed before it is created.
LEMMA RescanOfLedger ==
  ASSUME main \in Seq(Block), Ledger(main)
  PROVE  Rescan(main) = Owned \cap (Pays(main, Len(main)) \ Takes(main, Len(main)))
<1>1. Len(main) \in Nat /\ DOMAIN main = 1..Len(main)
  OBVIOUS
<1>2. ASSUME NEW o \in Rescan(main)
      PROVE  o \in Owned /\ o \in Pays(main, Len(main)) /\ o \notin Takes(main, Len(main))
  <2>1. o \in Owned
    BY DEF Rescan
  <2>2. PICK i \in 1..Len(main) :
          /\ o \in Created(main[i])
          /\ \A j \in i + 1..Len(main) : o \notin Consumed(main[j])
    BY <1>1 DEF Rescan
  <2>3. ASSUME NEW j \in 1..Len(main), o \in Consumed(main[j])
        PROVE  FALSE
    <3>1. j <= i
      BY <1>1, <2>2, <2>3
    <3>2. o \in Pays(main, j - 1)
      BY <2>3 DEF Ledger
    <3>3. 1..j - 1 \subseteq 1..i - 1
      BY <1>1, <3>1
    <3>4. o \in Pays(main, i - 1)
      BY <3>2, <3>3 DEF Pays
    <3>5. QED
      BY <2>2, <3>4 DEF Ledger
  <2>4. QED
    BY <2>1, <2>2, <2>3 DEF Pays, Takes
<1>3. ASSUME NEW o \in Owned, o \in Pays(main, Len(main)), o \notin Takes(main, Len(main))
      PROVE  o \in Rescan(main)
  <2>1. PICK i \in 1..Len(main) : o \in Created(main[i])
    BY <1>3 DEF Pays
  <2>2. \A j \in i + 1..Len(main) : o \notin Consumed(main[j])
    BY <1>1, <1>3 DEF Takes
  <2>3. QED
    BY <1>1, <2>1, <2>2 DEF Rescan
<1>4. QED
  BY <1>2, <1>3 DEF Rescan

\* All that the wallet and the refinement need.
NodeHolds(h) == ForksHold(h) /\ LedgerInv /\ WalletMatchesChain

LEMMA WalletStep ==
  ASSUME NEW h
  PROVE  NodeHolds(h) /\ [Next]_vars => WalletMatchesChain'
<1> SUFFICES ASSUME NodeHolds(h), [Next]_vars, status' = "running", pc' = "idle",
                    ~cut'
             PROVE  coins' = Owned \cap unspent'
  BY DEF WalletMatchesChain
<1>0. /\ IndInv /\ LedgerInv /\ WalletMatchesChain
      /\ main \in Seq(Block)
  BY DEF NodeHolds, ForksHold, IndInv, TypeOK
<1>1. ASSUME NEW b \in Block, NEW own \in BOOLEAN, AttachToMain(b, own)
      PROVE  coins' = Owned \cap unspent'
  <2>1. /\ coins = Owned \cap unspent /\ coins' = WalletAdd(b)
        /\ unspent' = (unspent \cup Created(b)) \ Consumed(b)
    BY <1>0, <1>1 DEF AttachToMain, Receivable, ExtendMain, ChainstateAdd, WalletMatchesChain
  <2>2. QED
    BY <2>1 DEF WalletAdd
<1>2. ASSUME NEW b \in Block,
             StartFork(b) \/ ExtendFork(b) \/ Reject(b) \/ OwnBlockAborts(b) \/ OwnBlockThrows(b) \/ StartReorg(b)
      PROVE  coins' = Owned \cap unspent'
  <2>1. status = "running" /\ pc = "idle" /\ UNCHANGED <<coins, unspent, cut>>
    BY <1>2 DEF StartFork, ExtendFork, Reject, OwnBlockAborts, OwnBlockThrows, StartReorg,
                Receivable, chainVars
  <2>2. QED
    BY <1>0, <2>1 DEF WalletMatchesChain
<1>3. CASE ApplyThrows
  BY <1>3 DEF ApplyThrows
<1>4. CASE AdoptFork \/ KeepMain
  <2>1. /\ pc \in {"apply", "restore"} /\ status = "running" /\ UNCHANGED <<unspent>>
        /\ coins' = Rescan(main)
    BY <1>4 DEF AdoptFork, KeepMain
  <2>2. /\ Ledger(main)
        /\ unspent = Pays(main, Len(main)) \ Takes(main, Len(main))
    BY <1>0, <2>1 DEF LedgerInv, AppliedLen
  <2>3. QED
    BY <1>0, <2>1, <2>2, RescanOfLedger
<1>5. CASE RewindMain \/ UndoFork \/ TruncateMain \/ TruncateFork \/ ApplyBlock
           \/ ApplyInvalid \/ RestoreBlock \/ RestoreFails
  <2>1. pc' # "idle"
    BY <1>5 DEF RewindMain, UndoFork, RewindOne, TruncateMain, TruncateFork, CutMain,
                ApplyBlock, Applying, ApplyInvalid, RestoreBlock, RestoreFails, Restoring
  <2>2. QED
    BY <2>1
<1>6. CASE UNCHANGED vars
  BY <1>0, <1>6 DEF vars, chainVars, WalletMatchesChain
<1>7. QED
  BY <1>1, <1>2, <1>3, <1>4, <1>5, <1>6 DEF Next, ReorgStep

LEMMA NodeAlways ==
  ASSUME NEW h, TransactionsDiffer(h), Owned \cap Created(Genesis) = {}
  PROVE  Spec => []NodeHolds(h)
<1>1. Heights(h)
  BY DEF TransactionsDiffer
<1>2. Init => WalletMatchesChain
  BY DEF Init, WalletMatchesChain
<1>3. NodeHolds(h) /\ [Next]_vars => WalletMatchesChain'
  BY WalletStep
<1>4. ForksHold(h) /\ (IndInv /\ ChainInv /\ LedgerInv) /\ WalletMatchesChain
      => NodeHolds(h)
  BY DEF NodeHolds
<1>5. Spec => []ForksHold(h)
  BY <1>1, ForksAlways
<1>6. Spec => [](IndInv /\ ChainInv /\ LedgerInv)
  BY LedgerAlways
<1>7. QED
  BY <1>2, <1>3, <1>4, <1>5, <1>6, PTL DEF Spec

\* Between calls the wallet holds what main pays to its key and has not
\* spent, as long as no reorg was broken off: what add_block filters and
\* spends, and rescan spends and filters, come to the same.  The key is not
\* that of the genesis block, which the wallet is not told of before the first
\* reorg.
THEOREM WalletIsCorrect ==
  ASSUME NEW h, TransactionsDiffer(h), Owned \cap Created(Genesis) = {}
  PROVE  Spec => []WalletMatchesChain
<1>1. NodeHolds(h) => WalletMatchesChain
  BY DEF NodeHolds
<1>2. QED
  BY <1>1, NodeAlways, PTL

-----------------------------------------------------------------------------
(* What the chain manager promises *)

\* Cutting a sequence in two, and a first part of a first part.
LEMMA CutAndJoin ==
  ASSUME NEW S, NEW s \in Seq(S), NEW n \in 0..Len(s)
  PROVE  SubSeq(s, 1, n) \o SubSeq(s, n + 1, Len(s)) = s
<1> DEFINE p == SubSeq(s, 1, n)
           q == SubSeq(s, n + 1, Len(s))
           c == p \o q
<1>1. p \in Seq(S) /\ Len(p) = n /\ \A i \in 1..n : p[i] = s[i]
  OBVIOUS
<1>2. q \in Seq(S) /\ Len(q) = Len(s) - n /\ \A i \in 1..Len(s) - n : q[i] = s[n + i]
  OBVIOUS
<1>3. Len(s) \in Nat /\ n \in Nat
  OBVIOUS
<1> HIDE DEF p, q
<1>4. c \in Seq(S) /\ Len(c) = Len(s)
  <2>1. p \in Seq(S) /\ q \in Seq(S)
    BY <1>1, <1>2
  <2>2. c \in Seq(S) /\ Len(c) = Len(p) + Len(q)
    BY ONLY <2>1
  <2>3. Len(p) + Len(q) = Len(s)
    BY ONLY <1>1, <1>2, <1>3
  <2>4. QED
    BY <2>2, <2>3
<1>5. ASSUME NEW i \in 1..Len(s)
      PROVE  c[i] = s[i]
  <2>1. CASE i <= n
    BY <1>1, <1>2, <2>1
  <2>2. CASE i > n
    <3>1. c[i] = q[i - n]
      BY <1>1, <1>2, <2>2
    <3>2. i - n \in 1..Len(s) - n /\ n + (i - n) = i
      BY <2>2
    <3>3. QED
      BY <1>2, <3>1, <3>2
  <2>3. i <= n \/ i > n
    BY <1>3
  <2>4. QED
    BY <2>1, <2>2, <2>3
<1> HIDE DEF c
<1>6. c = s
  BY <1>4, <1>5
<1>7. QED
  BY <1>6 DEF c, p, q

LEMMA SamePrefix ==
  ASSUME NEW S, NEW s \in Seq(S), NEW t \in Seq(S), NEW n \in Nat,
         n <= Len(s), n <= Len(t), \A i \in 1..n : s[i] = t[i]
  PROVE  SubSeq(s, 1, n) = SubSeq(t, 1, n)
OBVIOUS

\* A sequence that goes on like another one after its first n elements.
LEMMA JoinedSeq ==
  ASSUME NEW S, NEW s \in Seq(S), NEW t \in Seq(S), NEW n \in 0..Len(s),
         Len(s) = n + Len(t), \A i \in 1..Len(t) : s[n + i] = t[i]
  PROVE  SubSeq(s, 1, n) \o t = s
<1> DEFINE q == SubSeq(s, n + 1, Len(s))
<1>1. q \in Seq(S) /\ Len(q) = Len(t) /\ \A i \in 1..Len(t) : q[i] = t[i]
  OBVIOUS
<1> HIDE DEF q
<1>2. q = t
  BY <1>1
<1>3. QED
  BY <1>2, CutAndJoin DEF q

\* The ledger says that nothing on main is spent twice.
LEMMA MainIsValid ==
  ASSUME IndInv, ChainInv, LedgerInv
  PROVE  ValidChain(main)
<1>1. main \in Seq(Block) /\ Len(main) \in Nat /\ DOMAIN main = 1..Len(main)
  BY DEF IndInv, TypeOK
<1>2. ASSUME NEW i \in DOMAIN main
      PROVE  ~SpendsTwice(main[i]) /\ Consumed(main[i]) \subseteq Unspent(SubSeq(main, 1, i - 1))
  <2>1. i \in 1..Len(main) /\ i - 1 \in 0..Len(main)
    BY <1>1
  <2>2. Unspent(SubSeq(main, 1, i - 1)) = Pays(main, i - 1) \ Takes(main, i - 1)
    BY <1>1, <2>1, UnspentOfPrefix
  <2>3. QED
    BY <2>1, <2>2 DEF LedgerInv, Ledger
<1>3. QED
  BY <1>2 DEF ChainInv, MainIsChain, ValidChain, NoDoubleSpend

\* While a reorg runs, Committed is the chain it found, as long as main is
\* not cut below the fork point.
LEMMA CommittedDuringReorg ==
  ASSUME main \in Seq(Block), main' \in Seq(Block), old.src \in Nat,
         old.src + 1 <= Len(main), old.src + 1 <= Len(main'),
         \A i \in 1..old.src + 1 : main'[i] = main[i],
         old' = old, pc # "idle", pc' # "idle"
  PROVE  Committed' = Committed
<1> DEFINE n == old.src + 1
<1>1. n \in Nat /\ n <= Len(main) /\ n <= Len(main') /\ \A i \in 1..n : main'[i] = main[i]
  OBVIOUS
<1> HIDE DEF n
<1>2. SubSeq(main', 1, n) = SubSeq(main, 1, n)
  BY <1>1, SamePrefix
<1>3. QED
  BY <1>2 DEF Committed, n

\* add_block of a block that extends main, or that changes only forks.
LEMMA CommittedByAddBlock ==
  ASSUME IndInv, ValidChain(main'), NEW b \in Block, NEW own \in BOOLEAN,
         \/ AttachToMain(b, own) \/ StartFork(b) \/ ExtendFork(b)
         \/ Reject(b) \/ OwnBlockAborts(b) \/ OwnBlockThrows(b)
  PROVE  /\ \/ Committed' = Committed
            \/ ValidChain(Committed') /\ Len(Committed') > Len(Committed)
         /\ cut' = cut
<1>0. cut' = cut
  BY DEF AttachToMain, StartFork, ExtendFork, Reject, OwnBlockAborts, OwnBlockThrows
<1>1. main \in Seq(Block) /\ Len(main) \in Nat
  BY DEF IndInv, TypeOK
<1>2. pc = "idle" /\ pc' = "idle"
  BY DEF AttachToMain, StartFork, ExtendFork, Reject, OwnBlockAborts, OwnBlockThrows, Receivable
<1>3. Committed = main /\ Committed' = main'
  BY <1>2 DEF Committed
<1>4. CASE AttachToMain(b, own)
  <2>1. main' = Append(main, b)
    BY <1>4 DEF AttachToMain, ExtendMain
  <2>2. Len(main') > Len(main)
    BY <1>1, <2>1
  <2>3. QED
    BY <1>0, <1>3, <2>2
<1>5. CASE StartFork(b) \/ ExtendFork(b) \/ Reject(b) \/ OwnBlockAborts(b) \/ OwnBlockThrows(b)
  <2>1. main' = main
    BY <1>5 DEF StartFork, ExtendFork, Reject, OwnBlockAborts, OwnBlockThrows, chainVars
  <2>2. QED
    BY <1>0, <1>3, <2>1
<1>6. QED
  BY <1>0, <1>4, <1>5

\* Cutting main at the fork point and keeping the rest loses nothing.
LEMMA CommittedAtStart ==
  ASSUME IndInv, NEW b \in Block, StartReorg(b)
  PROVE  Committed' = Committed
<1>1. pc = "idle" /\ main' = main /\ TypeOK /\ main \in Seq(Block)
  BY DEF StartReorg, Receivable, IndInv, TypeOK
<1>2. CASE pc' = "idle"
  BY <1>1, <1>2 DEF Committed
<1>3. CASE pc' # "idle"
  <2>1. PICK i \in DOMAIN forks : /\ forks[i].src < Len(main)
                                  /\ old' = OldMain(forks[i])
    BY <1>1, <1>3 DEF StartReorg, FirstFork, Attachable
  <2> DEFINE n == forks[i].src + 1
  <2>2. n \in 0..Len(main) /\ forks[i].src + 2 = n + 1
    BY <1>1, <2>1, ForkTypes
  <2>3. old'.src + 1 = n /\ old'.chain = SubSeq(main, n + 1, Len(main))
    BY <2>1, <2>2 DEF OldMain
  <2> HIDE DEF n
  <2>4. SubSeq(main, 1, n) \o SubSeq(main, n + 1, Len(main)) = main
    BY <1>1, <2>2, CutAndJoin
  <2>5. QED
    BY <1>1, <1>3, <2>3, <2>4 DEF Committed
<1>4. QED
  BY <1>2, <1>3

\* When all old blocks are back, main is what the reorg had found.
LEMMA CommittedAtEnd ==
  ASSUME IndInv, OldFits, KeepMain
  PROVE  Committed' = Committed
<1>1. pc = "restore" /\ Restored = Len(old.chain) /\ main' = main
  BY DEF KeepMain
<1>2. /\ main \in Seq(Block) /\ Len(main) \in Nat
      /\ old.src \in Nat /\ old.chain \in Seq(Block) /\ old.src < Len(main)
  BY <1>1, ReorgTypes DEF IndInv, ReorgShape, TypeOK
<1> DEFINE n == old.src + 1
<1>3. n \in 0..Len(main) /\ Len(main) = n + Len(old.chain)
  BY <1>1, <1>2 DEF Restored
<1>4. \A i \in 1..Len(old.chain) : main[n + i] = old.chain[i]
  BY <1>1 DEF OldFits
<1>5. Committed = SubSeq(main, 1, n) \o old.chain
  BY <1>1 DEF Committed
<1> HIDE DEF n
<1>6. Committed = main
  BY <1>2, <1>3, <1>4, <1>5, JoinedSeq
<1>7. CASE pc' = "idle"
  BY <1>1, <1>6, <1>7 DEF Committed
<1>8. CASE pc' # "idle"
  <2>1. pc' = pc /\ old' = old
    BY <1>8 DEF KeepMain, Idle, reorgVars
  <2>2. QED
    BY <1>1, <2>1 DEF Committed
<1>9. QED
  BY <1>7, <1>8

\* The steps of a reorg up to its last show nothing of it.
LEMMA CommittedKept ==
  ASSUME IndInv, IndInv', ChainInv,
         \/ RewindMain \/ UndoFork \/ TruncateMain \/ TruncateFork
         \/ ApplyBlock \/ ApplyInvalid \/ RestoreBlock \/ RestoreFails
  PROVE  Committed' = Committed
<1>1. OldFits /\ main \in Seq(Block) /\ main' \in Seq(Block)
  BY DEF ChainInv, IndInv, TypeOK
<1>2. pc # "idle"
  BY DEF RewindMain, UndoFork, TruncateMain, TruncateFork, ApplyBlock, ApplyInvalid,
         Applying, RestoreBlock, RestoreFails, Restoring
<1>3. old.src \in Nat /\ old.src < Len(main) /\ Len(main) \in Nat
  BY <1>1, <1>2, ReorgTypes DEF IndInv, ReorgShape
<1>4. old.src + 1 <= Len(main)
  BY <1>3
<1>5. CASE RewindMain \/ UndoFork \/ ApplyInvalid \/ RestoreFails
  <2>1. UNCHANGED <<main, old>> /\ pc' # "idle"
    BY <1>2, <1>5 DEF RewindMain, UndoFork, RewindOne, ApplyInvalid, RestoreFails,
                      chainVars, reorgVars
  <2>2. QED
    BY <1>2, <2>1 DEF Committed
<1>6. CASE TruncateMain \/ TruncateFork
  <2>1. PICK p : CutMain(p) /\ pc \in {"rewind", "undo"} /\ old' = old /\ pc' # "idle"
    BY <1>6 DEF TruncateMain, TruncateFork, CutMain, reorgVars
  <2>2. Len(main') = old.src + 1 /\ \A i \in 1..old.src + 1 : main'[i] = main[i]
    BY <2>1, CutMainHeaders
  <2>3. old.src + 1 <= Len(main')
    BY <1>3, <2>2
  <2>4. QED
    BY <1>1, <1>2, <1>3, <1>4, <2>1, <2>2, <2>3, CommittedDuringReorg
<1>7. CASE ApplyBlock \/ RestoreBlock
  <2>1. PICK b \in Block : ExtendMain(b) /\ old' = old /\ pc' # "idle"
    <3>1. CASE ApplyBlock
      BY <1>2, <3>1, ReorgTypes DEF ApplyBlock, Applying, NextOfFork
    <3>2. CASE RestoreBlock
      BY <1>1, <1>2, <3>2, RestoredLinks DEF RestoreBlock, reorgVars
    <3>3. QED
      BY <1>7, <3>1, <3>2
  <2>2. Len(main') = Len(main) + 1 /\ \A i \in 1..Len(main) : main'[i] = main[i]
    BY <2>1, ExtendMainTypes DEF IndInv
  <2>3. old.src + 1 <= Len(main') /\ \A i \in 1..old.src + 1 : main'[i] = main[i]
    BY <1>3, <1>4, <2>2
  <2>4. QED
    BY <1>1, <1>2, <1>3, <1>4, <2>1, <2>3, CommittedDuringReorg
<1>8. QED
  BY <1>5, <1>6, <1>7

\* A sequence is a first part of every longer one.
LEMMA FirstPart ==
  ASSUME NEW S, NEW s \in Seq(S), NEW t \in Seq(S)
  PROVE  IsPrefix(s, s \o t)
<1>1. Len(s) <= Len(s \o t) /\ Len(s) \in Nat
      /\ \A i \in 1..Len(s) : (s \o t)[i] = s[i]
  OBVIOUS
<1>2. s \o t \in Seq(S)
  OBVIOUS
<1> DEFINE c == s \o t
<1> HIDE DEF c
<1>3. SubSeq(c, 1, Len(s)) = SubSeq(s, 1, Len(s))
  BY <1>1, <1>2, SamePrefix DEF c
<1>4. QED
  BY <1>1, <1>3 DEF IsPrefix, c

\* The blocks of a fork follow one another, whatever becomes of the block the
\* fork starts from.
InnerLinks(f) == \A k \in 2..Len(f.chain) : Parent[f.chain[k]] = f.chain[k - 1]

AllLinked == \A i \in DOMAIN forks : InnerLinks(forks[i])

LEMMA GrownLinks ==
  ASSUME NEW f \in Fork, NEW b \in Block, InnerLinks(f), CanAttach(f, b)
  PROVE  InnerLinks(Grown(f, b))
<1> DEFINE g == Grown(f, b)
<1>1. f.chain \in Seq(Block) /\ g.chain = Append(f.chain, b) /\ Len(f.chain) \in Nat
  BY GrownFork DEF Fork
<1> HIDE DEF g
<1>2. /\ DOMAIN g.chain = 1..Len(f.chain) + 1 /\ Len(g.chain) = Len(f.chain) + 1
      /\ g.chain[Len(f.chain) + 1] = b
      /\ \A k \in 1..Len(f.chain) : g.chain[k] = f.chain[k]
  BY <1>1, AppendedSeq
<1>3. ASSUME NEW k \in 2..Len(g.chain)
      PROVE  Parent[g.chain[k]] = g.chain[k - 1]
  <2>1. CASE k = Len(f.chain) + 1
    <3>1. f.chain # <<>> /\ k - 1 = Len(f.chain) /\ k - 1 \in 1..Len(f.chain)
      BY <1>1, <1>2, <1>3, <2>1
    <3>2. Parent[b] = f.chain[Len(f.chain)]
      BY <3>1 DEF CanAttach, Last
    <3>3. QED
      BY <1>2, <2>1, <3>1, <3>2
  <2>2. CASE k # Len(f.chain) + 1
    <3>1. k \in 2..Len(f.chain) /\ k \in 1..Len(f.chain) /\ k - 1 \in 1..Len(f.chain)
      BY <1>1, <1>2, <1>3, <2>2
    <3>2. QED
      BY <1>2, <3>1 DEF InnerLinks
  <2>3. QED
    BY <2>1, <2>2
<1>4. QED
  BY <1>3 DEF InnerLinks, g

LEMMA LinksStep == IndInv /\ ChainInv /\ AllLinked /\ [Next]_vars => AllLinked'
<1> SUFFICES ASSUME IndInv, ChainInv, AllLinked, [Next]_vars PROVE AllLinked'
  OBVIOUS
<1>0. TypeOK /\ forks \in Seq(Fork)
  BY DEF IndInv, TypeOK
<1>1. ASSUME UNCHANGED forks PROVE AllLinked'
  BY <1>1 DEF AllLinked
<1>2. ASSUME NEW b \in Block, StartFork(b)
      PROVE  AllLinked'
  <2> DEFINE f == [src |-> SourceIndex(b), header |-> Parent[b],
                   chain |-> <<b>>, diff |-> SourceIndex(b) + 2]
  <2>1. forks' = Append(forks, f) /\ f \in Fork
    BY <1>2, NewForkHangs DEF StartFork
  <2>2. InnerLinks(f)
    BY DEF InnerLinks
  <2> HIDE DEF f
  <2>3. \A i \in DOMAIN forks' : forks'[i] = f \/ (i \in DOMAIN forks /\ forks'[i] = forks[i])
    BY <1>0, <2>1
  <2>4. QED
    BY <2>2, <2>3 DEF AllLinked
<1>3. ASSUME NEW b \in Block, ExtendFork(b) \/ StartReorg(b)
      PROVE  AllLinked'
  <2>1. PICK i \in FirstFork(b) : forks' = [forks EXCEPT ![i] = Grown(forks[i], b)]
    BY <1>3 DEF ExtendFork, StartReorg
  <2>2. /\ i \in DOMAIN forks /\ forks[i] \in Fork /\ DOMAIN forks' = DOMAIN forks
        /\ forks'[i] = Grown(forks[i], b)
        /\ \A j \in DOMAIN forks : j # i => forks'[j] = forks[j]
    BY <2>1, ForksGrow
  <2>3. InnerLinks(Grown(forks[i], b))
    BY <2>2, GrownLinks DEF AllLinked, FirstFork, Attachable
  <2>4. QED
    BY <2>2, <2>3 DEF AllLinked
<1>4. CASE AdoptFork
  <2>1. /\ forks' = Append(RemoveAt(forks, target), old) /\ pc = "apply"
        /\ target \in DOMAIN forks /\ old \in Fork
    BY <1>4, ReorgTypes DEF AdoptFork, Idle
  <2>2. \A j \in DOMAIN forks' :
          forks'[j] = old \/ \E k \in DOMAIN forks : forks'[j] = forks[k]
    BY <1>0, <2>1, AdoptedForks
  <2>3. InnerLinks(old)
    BY <2>1 DEF InnerLinks, ChainInv, OldFits, Fork
  <2>4. QED
    BY <2>2, <2>3 DEF AllLinked
<1>5. CASE KeepMain
  <2>1. CASE status' # status
    BY <1>1, <1>5, <2>1 DEF KeepMain
  <2>2. CASE status' = status
    <3>1. /\ pc = "restore"
          /\ forks' = [forks EXCEPT ![target] = Trimmed(forks[target], idx)]
      BY <1>5, <2>2 DEF KeepMain
    <3>2. /\ target \in DOMAIN forks /\ Winner.chain \in Seq(Block)
          /\ idx \in Nat /\ idx <= Len(Winner.chain)
      BY <3>1, ReorgTypes
    <3>3. Trimmed(Winner, idx).chain = SubSeq(Winner.chain, 1, idx)
      BY DEF Trimmed
    <3>4. InnerLinks(Trimmed(Winner, idx))
      <4>1. /\ Len(SubSeq(Winner.chain, 1, idx)) = idx
            /\ \A k \in 1..idx : SubSeq(Winner.chain, 1, idx)[k] = Winner.chain[k]
        BY <3>2, SMTT(30)
      <4>2. \A k \in 2..Len(Winner.chain) :
              Parent[Winner.chain[k]] = Winner.chain[k - 1]
        BY <3>2 DEF AllLinked, InnerLinks, Winner
      <4>3. ASSUME NEW k \in 2..idx
            PROVE  Parent[Winner.chain[k]] = Winner.chain[k - 1]
                   /\ k \in 1..idx /\ k - 1 \in 1..idx
        BY <3>2, <4>2
      <4>4. QED
        BY <3>3, <4>1, <4>3 DEF InnerLinks
    <3>5. \A j \in DOMAIN forks' : /\ j \in DOMAIN forks
                                   /\ forks'[j] = forks[j] \/ forks'[j] = Trimmed(Winner, idx)
      BY <1>0, <3>1, <3>2 DEF Winner
    <3>6. QED
      BY <3>4, <3>5 DEF AllLinked
  <2>3. QED
    BY <2>1, <2>2
<1>6. ASSUME NEW b \in Block, NEW own \in BOOLEAN,
             \/ AttachToMain(b, own) \/ Reject(b)
             \/ OwnBlockAborts(b) \/ OwnBlockThrows(b)
      PROVE  AllLinked'
  BY <1>1, <1>6 DEF AttachToMain, Reject, OwnBlockAborts, OwnBlockThrows
<1>7. CASE \/ RewindMain \/ UndoFork \/ TruncateMain \/ TruncateFork
           \/ ApplyThrows \/ ApplyBlock \/ ApplyInvalid
  BY <1>1, <1>7 DEF RewindMain, UndoFork, RewindOne, TruncateMain, TruncateFork,
                    CutMain, ApplyThrows, ApplyBlock, ApplyInvalid
<1>8. CASE RestoreBlock \/ RestoreFails \/ UNCHANGED vars
  BY <1>1, <1>8 DEF RestoreBlock, RestoreFails, vars
<1>9. QED
  BY <1>2, <1>3, <1>4, <1>5, <1>6, <1>7, <1>8 DEF Next, ReorgStep

\* append_block throws for the first block of a fork at most: those that follow
\* name the ones before them.
LEMMA ThrowsAtFirst ==
  ASSUME IndInv, AppliedFits, AllLinked, ApplyThrows
  PROVE  idx = 0 /\ Len(main) = old.src + 1
<1>1. /\ pc = "apply" /\ idx < Len(Winner.chain)
      /\ Parent[Winner.chain[idx + 1]] # Last(main)
  BY DEF ApplyThrows, Applying, NextOfFork
<1>2. /\ target \in DOMAIN forks /\ idx \in Nat /\ Winner.chain \in Seq(Block)
      /\ old.src \in Nat /\ Len(main) = old.src + 1 + idx
  BY <1>1, ReorgTypes DEF IndInv, ReorgShape
<1>3. CASE idx # 0
  <2>1. main[old.src + 1 + idx] = Winner.chain[idx]
    BY <1>1, <1>2, <1>3 DEF AppliedFits
  <2>2. Last(main) = Winner.chain[idx]
    BY <1>2, <2>1 DEF Last
  <2>3. idx + 1 \in 2..Len(Winner.chain) /\ (idx + 1) - 1 = idx
    BY <1>1, <1>2, <1>3
  <2>4. Parent[Winner.chain[idx + 1]] = Winner.chain[(idx + 1) - 1]
    BY <1>2, <2>3 DEF AllLinked, InnerLinks, Winner
  <2>5. QED
    BY <1>1, <2>2, <2>3, <2>4
<1>4. QED
  BY <1>2, <1>3

\* What the reorg has found stands until the fork it applied takes its place,
\* or until it is undone; or a first part of it stands, when append_block throws.
LEMMA CommittedByReorg ==
  ASSUME NEW h, ForksHold(h), AllLinked, IndInv', ValidChain(main), ReorgStep
  PROVE  \/ Committed' = Committed /\ cut' = cut
         \/ /\ ValidChain(Committed')
            /\ cut \/ Len(Committed') > Len(Committed)
            /\ cut' = cut
         \/ IsPrefix(Committed', Committed) /\ Committed' # <<>> /\ cut' = TRUE
<1>1. /\ IndInv /\ ChainInv /\ OldFits /\ AppliedFits /\ ForkInv /\ AllPlaced(h)
      /\ main \in Seq(Block) /\ main # <<>>
  BY DEF ForksHold, ChainInv, IndInv, TypeOK
<1>7. ApplyThrows \/ cut' = cut
  BY CutStays DEF Next
<1>2. CASE \/ RewindMain \/ UndoFork \/ TruncateMain \/ TruncateFork
           \/ ApplyBlock \/ ApplyInvalid \/ RestoreBlock \/ RestoreFails
  <2>1. ~ApplyThrows \/ cut' = TRUE
    BY DEF ApplyThrows
  <2>2. pc' # "idle"
    BY <1>2 DEF RewindMain, UndoFork, RewindOne, TruncateMain, TruncateFork, CutMain,
                ApplyBlock, Applying, ApplyInvalid, RestoreBlock, RestoreFails,
                Restoring
  <2>3. ~ApplyThrows
    BY <2>2 DEF ApplyThrows, Idle
  <2>4. QED
    BY <1>7, <1>1, <1>2, <2>3, CommittedKept
<1>3. CASE ApplyThrows
  <2>1. pc = "apply" /\ pc' = "idle" /\ main' = main /\ cut' = TRUE
    BY <1>3 DEF ApplyThrows, Applying, Idle, chainVars
  <2> DEFINE n == old.src + 1
             p == SubSeq(main, 1, n)
  <2>2. Committed' = main /\ Committed = p \o old.chain
    BY <2>1 DEF Committed
  <2>3. n \in Nat /\ Len(main) = n /\ old.chain \in Seq(Block)
    BY <1>1, <1>3, <2>1, ThrowsAtFirst, ReorgTypes
  <2> HIDE DEF n
  <2>4. p = main
    BY <1>1, <2>3
  <2>5. IsPrefix(main, main \o old.chain)
    BY <1>1, <2>3, FirstPart
  <2>6. QED
    BY <1>1, <2>1, <2>2, <2>4, <2>5
<1>4. CASE AdoptFork
  <2>1. pc = "apply" /\ pc' = "idle" /\ main' = main
    BY <1>4 DEF AdoptFork, Idle
  <2>2. Committed' = main /\ Committed = SubSeq(main, 1, old.src + 1) \o old.chain
    BY <2>1 DEF Committed
  <2> DEFINE n == old.src + 1
             p == SubSeq(main, 1, n)
  <2>3. n \in Nat /\ n <= Len(main) /\ old.chain \in Seq(Block)
    BY <1>1, <2>1, ReorgTypes DEF IndInv, ReorgShape
  <2>4. cut \/ Len(main) > n + Len(old.chain)
    BY <1>1, <1>4, AdoptForkHangs
  <2> HIDE DEF n
  <2>5. p \in Seq(Block) /\ Len(p) = n
    BY <1>1, <2>3
  <2> HIDE DEF p
  <2>6. Len(p \o old.chain) = n + Len(old.chain)
    BY <2>3, <2>5
  <2>7. cut' = cut
    BY <1>4 DEF AdoptFork
  <2>8. QED
    BY <2>2, <2>4, <2>6, <2>7 DEF n, p
<1>5. CASE KeepMain
  BY <1>1, <1>5, CommittedAtEnd DEF KeepMain
<1>6. QED
  BY <1>2, <1>3, <1>4, <1>5 DEF ReorgStep

\* The instance of ForkChoice speaks of the same block tree.
LEMMA SameValidChain == \A c : FC!ValidChain(c) <=> ValidChain(c)
BY DEF FC!ValidChain, FC!Rooted, FC!Linked, FC!TimeOrdered, FC!NoDoubleSpend,
       FC!SpendsTwice, FC!Consumed, FC!Unspent, FC!Created,
       ValidChain, Rooted, Linked, TimeOrdered, NoDoubleSpend, SpendsTwice,
       Consumed, Unspent, Created

LEMMA MainAlwaysValid ==
  ASSUME NEW h, TransactionsDiffer(h)
  PROVE  Spec => []ValidChain(main)
<1>1. IndInv /\ ChainInv /\ LedgerInv => ValidChain(main)
  BY MainIsValid
<1>2. Spec => []LedgerInv
  BY LedgerAlways
<1>3. Init => ChainInv
  BY ChainInit
<1>4. QED
  BY <1>1, <1>2, <1>3, ChainStep, InductiveInvariant, PTL DEF Spec

\* The chain manager implements ForkChoice: whatever steps add_block and
\* reorg take, other threads see the main chain of completed calls only
\* extended, or replaced by a chain that spends nothing twice and is heavier,
\* until an exception breaks off a reorg, and that leaves a first part of it.
THEOREM ChainManagerImplementsForkChoice ==
  ASSUME NEW h, TransactionsDiffer(h)
  PROVE  Spec => ImplementsForkChoice
<1>0. Heights(h)
  BY DEF TransactionsDiffer
<1>1. Init => FC!Init
  BY DEF Init, FC!Init, Committed
<1>2. /\ ForksHold(h) /\ ForksHold(h)' /\ AllLinked /\ ValidChain(main)
      /\ ValidChain(main)' /\ [Next]_vars
      => [FC!Adopt \/ FC!BreakOff]_<<Committed, cut>>
  <2> SUFFICES ASSUME ForksHold(h), ForksHold(h)', AllLinked, ValidChain(main),
                      ValidChain(main)', [Next]_vars
               PROVE  [FC!Adopt \/ FC!BreakOff]_<<Committed, cut>>
    OBVIOUS
  <2>1. \/ Committed' = Committed /\ cut' = cut
        \/ /\ ValidChain(Committed')
           /\ cut \/ Len(Committed') > Len(Committed)
           /\ cut' = cut
        \/ IsPrefix(Committed', Committed) /\ Committed' # <<>> /\ cut' = TRUE
    <3>1. IndInv /\ IndInv' /\ ValidChain(main')
      BY DEF ForksHold
    <3>2. ASSUME NEW b \in Block, StartReorg(b)
          PROVE  Committed' = Committed /\ cut' = cut
      BY <3>1, <3>2, CommittedAtStart DEF StartReorg
    <3>3. CASE UNCHANGED vars
      BY <3>3 DEF vars, chainVars, reorgVars, Committed
    <3>4. CASE ReorgStep
      BY <3>1, <3>4, CommittedByReorg
    <3>5. ASSUME NEW b \in Block, NEW own \in BOOLEAN,
                 \/ AttachToMain(b, own) \/ StartFork(b) \/ ExtendFork(b)
                 \/ Reject(b) \/ OwnBlockAborts(b) \/ OwnBlockThrows(b)
          PROVE  /\ \/ Committed' = Committed
                    \/ ValidChain(Committed') /\ Len(Committed') > Len(Committed)
                 /\ cut' = cut
      BY <3>1, <3>5, CommittedByAddBlock
    <3>6. QED
      BY <3>2, <3>3, <3>4, <3>5 DEF Next
  <2>2. CASE Committed' = Committed /\ cut' = cut
    BY <2>2
  <2>3. CASE /\ ValidChain(Committed')
             /\ cut \/ Len(Committed') > Len(Committed)
             /\ cut' = cut
    BY <2>3, SameValidChain DEF FC!Adopt
  <2>4. CASE IsPrefix(Committed', Committed) /\ Committed' # <<>> /\ cut' = TRUE
    BY <2>4 DEF FC!BreakOff, FC!IsPrefix, IsPrefix
  <2>5. QED
    BY <2>1, <2>2, <2>3, <2>4
<1>3. Spec => []ForksHold(h)
  BY <1>0, ForksAlways
<1>4. Spec => []ValidChain(main)
  BY MainAlwaysValid
<1>5. Init => AllLinked
  BY DEF Init, AllLinked
<1>6. ForksHold(h) => IndInv /\ ChainInv
  BY DEF ForksHold
<1>7. QED
  BY <1>1, <1>2, <1>3, <1>4, <1>5, <1>6, LinksStep,
     PTL DEF Spec, ImplementsForkChoice, FC!Spec
-----------------------------------------------------------------------------
(* How the process can end *)

\* The blocks that append_block lets on main: those that pass both halves of
\* the validation, and those mined here, which it does not validate.
Accepted == (SoundHeader \cap SoundBody) \cup Mined

AllAccepted(c) == \A i \in 2..Len(c) : c[i] \in Accepted

\* The chain between calls of add_block, which a reorg may have to put back,
\* is valid as a ledger, and of accepted blocks, whatever the reorg has done to
\* main meanwhile.
CommittedInv == /\ AllAccepted(main)
                /\ AllAccepted(Committed)
                /\ ValidChain(Committed)

\* In any step Committed stays, or what main is after the step is committed.
LEMMA CommittedMoves ==
  ASSUME IndInv, IndInv', ChainInv, [Next]_vars
  PROVE  Committed' = Committed \/ Committed' = main'
<1>1. CASE pc' = "idle"
  BY <1>1 DEF Committed
<1>2. CASE pc' # "idle"
  <2>1. ASSUME NEW b \in Block, StartReorg(b)
        PROVE  Committed' = Committed
    BY <2>1, CommittedAtStart
  <2>2. ASSUME NEW b \in Block, NEW own \in BOOLEAN,
               \/ AttachToMain(b, own) \/ StartFork(b) \/ ExtendFork(b)
               \/ Reject(b) \/ OwnBlockAborts(b) \/ OwnBlockThrows(b)
        PROVE  FALSE
    BY <1>2, <2>2 DEF AttachToMain, StartFork, ExtendFork, Reject, OwnBlockAborts, OwnBlockThrows,
                      Receivable
  <2>3. CASE ApplyThrows \/ AdoptFork
    BY <1>2, <2>3 DEF ApplyThrows, AdoptFork, Idle
  <2>4. CASE KeepMain
    BY <2>4, CommittedAtEnd DEF ChainInv
  <2>5. CASE \/ RewindMain \/ UndoFork \/ TruncateMain \/ TruncateFork
             \/ ApplyBlock \/ ApplyInvalid \/ RestoreBlock \/ RestoreFails
    BY <2>5, CommittedKept
  <2>6. CASE UNCHANGED vars
    BY <2>6 DEF vars, chainVars, reorgVars, Committed
  <2>7. QED
    BY <2>1, <2>2, <2>3, <2>4, <2>5, <2>6 DEF Next, ReorgStep
<1>3. QED
  BY <1>1, <1>2

LEMMA ExtendMainAccepted ==
  ASSUME IndInv, AllAccepted(main), NEW b \in Block, ExtendMain(b),
         b \in Accepted
  PROVE  AllAccepted(main)'
<1>1. /\ Len(main) \in Nat /\ Len(main') = Len(main) + 1
      /\ \A i \in 1..Len(main) : main'[i] = main[i]
      /\ main'[Len(main) + 1] = b
  <2>1. main \in Seq(Block) /\ main' = Append(main, b)
    BY ExtendMainTypes DEF IndInv, TypeOK
  <2>2. QED
    BY <2>1, ExtendMainTypes DEF IndInv
<1>2. ASSUME NEW i \in 2..Len(main')
      PROVE  main'[i] \in Accepted
  <2>1. CASE i = Len(main) + 1
    BY <1>1, <2>1
  <2>2. CASE i # Len(main) + 1
    <3>1. i \in 2..Len(main) /\ i \in 1..Len(main)
      BY <1>1, <1>2, <2>2
    <3>2. QED
      BY <1>1, <3>1 DEF AllAccepted
  <2>3. QED
    BY <2>1, <2>2
<1>3. QED
  BY <1>2 DEF AllAccepted

\* append_block is the only way for a block onto main.
LEMMA MainStaysAccepted == IndInv /\ ChainInv /\ AllAccepted(main) /\ [Next]_vars
                        => AllAccepted(main)'
<1> SUFFICES ASSUME IndInv, ChainInv, AllAccepted(main), [Next]_vars
             PROVE  AllAccepted(main)'
  OBVIOUS
<1>1. ASSUME UNCHANGED main PROVE AllAccepted(main)'
  BY <1>1 DEF AllAccepted
<1>2. ASSUME NEW b \in Block, NEW own \in BOOLEAN, AttachToMain(b, own)
      PROVE  AllAccepted(main)'
  <2>1. b \in Accepted
    BY <1>2 DEF AttachToMain, BodyVerdicts, Accepted
  <2>2. QED
    BY <1>2, <2>1, ExtendMainAccepted DEF AttachToMain
<1>3. CASE ApplyBlock
  <2>1. NextOfFork \in Block
    <3>1. pc = "apply" /\ idx < Len(Winner.chain)
      BY <1>3 DEF ApplyBlock, Applying
    <3>2. Winner.chain \in Seq(Block) /\ idx \in Nat
      BY <3>1, ReorgTypes
    <3>3. idx + 1 \in DOMAIN Winner.chain
      BY <3>1, <3>2
    <3>4. QED
      BY <3>2, <3>3 DEF NextOfFork
  <2>2. NextOfFork \in Accepted
    BY <1>3 DEF ApplyBlock, HeaderStillSound, BodyVerdicts, Accepted
  <2>3. QED
    BY <1>3, <2>1, <2>2, ExtendMainAccepted DEF ApplyBlock
<1>4. CASE RestoreBlock
  <2>1. NextOfOld \in Block
    BY <1>4, RestoredLinks DEF ChainInv
  <2>2. NextOfOld \in Accepted
    BY <1>4 DEF RestoreBlock, HeaderStillSound, BodyVerdicts, Accepted
  <2>3. QED
    BY <1>4, <2>1, <2>2, ExtendMainAccepted DEF RestoreBlock
<1>5. CASE TruncateMain \/ TruncateFork
  <2>1. PICK p : CutMain(p) /\ pc \in {"rewind", "undo"}
    BY <1>5 DEF TruncateMain, TruncateFork
  <2>2. /\ Len(main') = old.src + 1 /\ old.src + 1 <= Len(main)
        /\ \A i \in 1..old.src + 1 : main'[i] = main[i]
    BY <2>1, CutMainHeaders
  <2>3. Len(main) \in Nat /\ old.src \in Nat
    BY <2>1, ReorgTypes DEF IndInv, TypeOK
  <2>4. ASSUME NEW i \in 2..Len(main')
        PROVE  main'[i] \in Accepted
    <3>1. i \in 1..old.src + 1 /\ i \in 2..Len(main)
      BY <2>2, <2>3, <2>4
    <3>2. QED
      BY <2>2, <3>1 DEF AllAccepted
  <2>5. QED
    BY <2>4 DEF AllAccepted
<1>6. CASE RewindMain \/ UndoFork
  BY <1>1, <1>6 DEF RewindMain, UndoFork, RewindOne
<1>7. ASSUME NEW b \in Block,
             \/ StartFork(b) \/ ExtendFork(b) \/ Reject(b)
             \/ OwnBlockAborts(b) \/ OwnBlockThrows(b) \/ StartReorg(b)
      PROVE  AllAccepted(main)'
  BY <1>1, <1>7 DEF StartFork, ExtendFork, Reject, OwnBlockAborts, OwnBlockThrows, StartReorg, chainVars
<1>8. CASE \/ ApplyThrows \/ ApplyInvalid \/ AdoptFork \/ RestoreFails \/ KeepMain
           \/ UNCHANGED vars
  BY <1>1, <1>8 DEF ApplyThrows, ApplyInvalid, AdoptFork, RestoreFails, KeepMain,
                    vars, chainVars
<1>9. QED
  BY <1>2, <1>3, <1>4, <1>5, <1>6, <1>7, <1>8 DEF Next, ReorgStep

LEMMA CommittedInit == Init => CommittedInv
<1> SUFFICES ASSUME Init PROVE CommittedInv
  OBVIOUS
<1>1. main = <<Genesis>> /\ Committed = main
  BY DEF Init, Committed
<1>2. AllAccepted(main)
  BY <1>1 DEF AllAccepted
<1>3. ValidChain(main)
  BY InitInv, ChainInit, LedgerInit, MainIsValid
<1>4. QED
  BY <1>1, <1>2, <1>3 DEF CommittedInv

LEMMA CommittedStep ==
  /\ IndInv /\ IndInv' /\ ChainInv /\ CommittedInv /\ ValidChain(main)'
  /\ [Next]_vars
  => CommittedInv'
<1> SUFFICES ASSUME IndInv, IndInv', ChainInv, CommittedInv, ValidChain(main)',
                    [Next]_vars
             PROVE  CommittedInv'
  OBVIOUS
<1>1. AllAccepted(main)'
  BY MainStaysAccepted DEF CommittedInv
<1>2. CASE Committed' = Committed
  BY <1>1, <1>2 DEF CommittedInv
<1>3. CASE Committed' = main'
  BY <1>1, <1>3 DEF CommittedInv
<1>4. QED
  BY <1>2, <1>3, CommittedMoves

LEMMA CommittedAlways ==
  ASSUME NEW h, TransactionsDiffer(h)
  PROVE  Spec => []CommittedInv
<1>1. Spec => [](IndInv /\ ChainInv)
  BY LedgerAlways, PTL
<1>2. Spec => []ValidChain(main)
  BY MainAlwaysValid
<1>3. QED
  BY <1>1, <1>2, CommittedInit, CommittedStep, PTL DEF Spec

\* While the old chain is put back, main is the part of it that is back.
LEMMA RestoredPrefix ==
  ASSUME IndInv, OldFits, Restoring
  PROVE  /\ Len(Committed) \in Nat
         /\ Len(main) + 1 \in DOMAIN Committed
         /\ Committed[Len(main) + 1] = NextOfOld
         /\ SubSeq(Committed, 1, Len(main)) = main
         /\ Committed[Len(main)] = Last(main)
<1> DEFINE n == old.src + 1
           p == SubSeq(main, 1, n)
<1>1. pc = "restore" /\ Restored < Len(old.chain)
  BY DEF Restoring
<1>2. /\ main \in Seq(Block) /\ Len(main) \in Nat /\ main # <<>>
      /\ old.chain \in Seq(Block) /\ Len(old.chain) \in Nat
      /\ n \in Nat /\ n <= Len(main) /\ n >= 1
  BY <1>1, ReorgTypes DEF IndInv, ReorgShape, TypeOK
<1>3. Committed = p \o old.chain
  BY <1>1 DEF Committed
<1>4. Restored = Len(main) - n
  BY <1>2 DEF Restored
<1>5. \A i \in 1..Len(main) - n : main[n + i] = old.chain[i]
  BY <1>1, <1>4 DEF OldFits
<1> HIDE DEF n
<1>6. p \in Seq(Block) /\ Len(p) = n /\ \A i \in 1..n : p[i] = main[i]
  BY <1>2
<1> HIDE DEF p
<1>7. /\ Committed \in Seq(Block) /\ Len(Committed) = n + Len(old.chain)
      /\ \A i \in 1..n : Committed[i] = p[i]
      /\ \A i \in 1..Len(old.chain) : Committed[n + i] = old.chain[i]
  BY <1>2, <1>3, <1>6
<1>8. Len(main) < Len(Committed)
  BY <1>1, <1>2, <1>4, <1>7
<1>9. ASSUME NEW i \in 1..Len(main)
      PROVE  Committed[i] = main[i]
  <2>1. CASE i <= n
    BY <1>2, <1>6, <1>7, <2>1
  <2>2. CASE i > n
    <3>1. i - n \in 1..Len(main) - n /\ i - n \in 1..Len(old.chain) /\ i = n + (i - n)
      BY <1>1, <1>2, <1>4, <2>2
    <3>2. QED
      BY <1>5, <1>7, <3>1
  <2>3. QED
    BY <1>2, <2>1, <2>2
<1>10. Len(main) + 1 \in DOMAIN Committed
  BY <1>2, <1>7, <1>8
<1>11. Committed[Len(main) + 1] = NextOfOld
  <2>1. Restored + 1 \in 1..Len(old.chain) /\ Len(main) + 1 = n + (Restored + 1)
    BY <1>1, <1>2, <1>4
  <2>2. QED
    BY <1>7, <2>1 DEF NextOfOld
<1>12. SubSeq(Committed, 1, Len(main)) = SubSeq(main, 1, Len(main))
  BY <1>2, <1>7, <1>8, <1>9, SamePrefix
<1>13. SubSeq(main, 1, Len(main)) = main
  BY <1>2
<1>14. Committed[Len(main)] = Last(main)
  <2>1. Len(main) \in 1..Len(main)
    BY <1>2
  <2>2. QED
    BY <1>9, <2>1 DEF Last
<1>15. QED
  BY <1>7, <1>10, <1>11, <1>12, <1>13, <1>14

\* An old block is still newer than the tip, and spends only what is unspent:
\* what it was added to the first time is all there again.
LEMMA OldBlockFits ==
  ASSUME IndInv, ChainInv, LedgerInv, CommittedInv, Restoring
  PROVE  NextOfOld \in Accepted /\ Newer(NextOfOld) /\ Spendable(NextOfOld)
<1> DEFINE k == Len(main) + 1
<1>1. /\ Len(Committed) \in Nat /\ k \in DOMAIN Committed
      /\ Committed[k] = NextOfOld
      /\ SubSeq(Committed, 1, Len(main)) = main
      /\ Committed[Len(main)] = Last(main)
  BY RestoredPrefix DEF ChainInv
<1>2. /\ main \in Seq(Block) /\ Len(main) \in Nat /\ Len(main) >= 1
      /\ Len(main) = k - 1
  BY DEF IndInv, TypeOK
<1> HIDE DEF k
<1>3. /\ k \in 2..Len(Committed) /\ k - 1 \in 1..Len(Committed) - 1
      /\ (k - 1) + 1 = k
      /\ Committed[k] \in Block
  <2>1. Committed \in Seq(Block)
    <3>1. pc # "idle" /\ pc = "restore"
      BY DEF Restoring
    <3>2. old.chain \in Seq(Block) /\ SubSeq(main, 1, old.src + 1) \in Seq(Block)
      BY <1>2, <3>1, ReorgTypes DEF IndInv, ReorgShape
    <3>3. QED
      BY <3>1, <3>2 DEF Committed
  <2>2. k \in 1..Len(Committed)
    BY <1>1, <2>1
  <2>3. k >= 2
    BY <1>2, <2>2
  <2>4. QED
    BY <1>1, <2>1, <2>2, <2>3
<1>4. NextOfOld \in Accepted
  BY <1>1, <1>3 DEF CommittedInv, AllAccepted
<1>5. Timestamp[Committed[k - 1]] < Timestamp[Committed[k]]
  BY <1>3 DEF CommittedInv, ValidChain, TimeOrdered
<1>6. Newer(NextOfOld)
  <2>1. Timestamp[Last(main)] < Timestamp[NextOfOld]
    BY <1>1, <1>2, <1>5
  <2>2. Timestamp[Last(main)] \in Nat /\ Timestamp[NextOfOld] \in Nat
    <3>1. Last(main) \in Block
      BY <1>2 DEF Last
    <3>2. QED
      BY <1>1, <1>3, <3>1, BlockTypes
  <2>3. QED
    BY <2>1, <2>2 DEF Newer
<1>8. ~SpendsTwice(NextOfOld) /\ Consumed(NextOfOld) \subseteq Unspent(main)
  BY <1>1, <1>2 DEF CommittedInv, ValidChain, NoDoubleSpend
<1>9. unspent = Unspent(main)
  BY <1>2, UnspentOfChain DEF Restoring, LedgerInv, AppliedLen
<1>10. QED
  BY <1>4, <1>6, <1>8, <1>9 DEF Spendable
\* Why a process may have ended in an assertion: a block mined here spends what
\* it cannot, or append_block has refused an old block that is newer than the
\* tip and spends what is unspent.
AbortCause ==
  status = "aborted" =>
    \/ pc = "idle" /\ \E b \in Mined \ store : /\ Parent[b] = Last(main)
                                              /\ ~Spendable(b)
    \/ pc = "restore" /\ \/ Rebinding = "cumulative"
                         \/ Consumed(NextOfOld) \cap altered # {}
                         \/ NextOfOld \in Mined \ (SoundHeader \cap SoundBody)

LEMMA RestoreFailsForCause ==
  ASSUME IndInv, ChainInv, LedgerInv, CommittedInv, RestoreFails
  PROVE  AbortCause'
<1>1. /\ Restoring /\ pc = "restore" /\ UNCHANGED <<pc, main, altered, old>>
      /\ \/ ~HeaderStillSound(NextOfOld) \/ FALSE \in BodyVerdicts(NextOfOld)
         \/ ~Newer(NextOfOld)
  BY DEF RestoreFails, Restoring, chainVars, reorgVars
<1>2. NextOfOld \in Accepted /\ Newer(NextOfOld) /\ Spendable(NextOfOld)
  BY <1>1, OldBlockFits
<1>3. NextOfOld' = NextOfOld
  BY <1>1 DEF NextOfOld, Restored
<1>4. CASE NextOfOld \notin SoundHeader \cap SoundBody
  BY <1>1, <1>2, <1>3, <1>4 DEF Accepted, AbortCause
<1>5. CASE NextOfOld \in SoundHeader \cap SoundBody
  <2>1. CASE ~HeaderStillSound(NextOfOld)
    BY <1>1, <1>5, <2>1, RebindingAssumption DEF HeaderStillSound, AbortCause
  <2>2. CASE FALSE \in BodyVerdicts(NextOfOld)
    <3>1. Consumed(NextOfOld) \cap altered # {}
      BY <1>2, <1>5, <2>2 DEF BodyVerdicts
    <3>2. QED
      BY <1>1, <1>3, <3>1 DEF AbortCause
  <2>3. QED
    BY <1>1, <1>2, <2>1, <2>2
<1>6. QED
  BY <1>4, <1>5

\* rewind_block finds the undo records of the block it rewinds.
LEMMA RewindNeverAborts ==
  ASSUME IndInv, LedgerInv, RewindMain \/ UndoFork
  PROVE  status' = "running"
<1>1. status = "running" /\ pc \in {"rewind", "undo"} /\ RewindOne
  BY DEF RewindMain, UndoFork
<1>2. /\ Len(main) \in Nat /\ cursor \in 1..Len(main) /\ cursor \in Nat
      /\ cursor \in 1..cursor
  <2>1. main \in Seq(Block) /\ old.src \in Nat /\ cursor \in old.src + 1..Len(main)
    BY <1>1, ReorgTypes DEF IndInv, ReorgShape, TypeOK
  <2>2. QED
    BY <2>1
<1>3. spent = Takes(main, cursor)
  BY <1>1 DEF LedgerInv, AppliedLen
<1>4. Consumed(main[cursor]) \subseteq spent
  BY <1>2, <1>3, PrefixCovers
<1>5. QED
  BY <1>1, <1>4 DEF RewindOne

\* A process that has ended takes no step; one that runs is aborted by no
\* other steps than OwnBlockAborts and RestoreFails.
LEMMA AbortStep ==
  IndInv /\ ChainInv /\ LedgerInv /\ CommittedInv /\ AbortCause /\ [Next]_vars
  => AbortCause'
<1> SUFFICES ASSUME IndInv, ChainInv, LedgerInv, CommittedInv, AbortCause, [Next]_vars
             PROVE  AbortCause'
  OBVIOUS
<1>1. CASE RestoreFails
  BY <1>1, RestoreFailsForCause
<1>2. CASE RewindMain \/ UndoFork
  BY <1>2, RewindNeverAborts DEF AbortCause
<1>3. CASE UNCHANGED vars
  BY <1>3 DEF vars, chainVars, reorgVars, AbortCause, NextOfOld, Restored, Spendable
<1>4. ASSUME NEW b \in Block, NEW own \in BOOLEAN,
             \/ AttachToMain(b, own) \/ StartFork(b) \/ ExtendFork(b)
             \/ Reject(b) \/ OwnBlockThrows(b) \/ StartReorg(b)
      PROVE  status' # "aborted"
  BY <1>4 DEF AttachToMain, StartFork, ExtendFork, Reject, OwnBlockThrows, StartReorg,
              Receivable
<1>7. ASSUME NEW b \in Block, OwnBlockAborts(b)
      PROVE  AbortCause'
  <2>1. /\ pc = "idle" /\ b \in Mined \ store /\ Parent[b] = Last(main) /\ ~Spendable(b)
        /\ UNCHANGED <<pc, store, main, unspent>>
    BY <1>7 DEF OwnBlockAborts, Receivable, chainVars
  <2>2. QED
    BY <2>1 DEF AbortCause, Spendable
<1>5. CASE \/ TruncateMain \/ TruncateFork
           \/ ApplyThrows \/ ApplyBlock \/ ApplyInvalid \/ AdoptFork
           \/ RestoreBlock \/ KeepMain
  <2>1. status' # "aborted"
    BY <1>5 DEF TruncateMain, TruncateFork, CutMain, ApplyThrows, ApplyBlock, ApplyInvalid,
                AdoptFork, Applying, RestoreBlock, Restoring, KeepMain
  <2>2. QED
    BY <2>1 DEF AbortCause
<1>6. QED
  <2>1. status' # "aborted" => AbortCause'
    BY DEF AbortCause
  <2>2. QED
    BY <1>1, <1>2, <1>3, <1>4, <1>5, <1>7, <2>1 DEF Next, ReorgStep

\* The chain between calls, and the one that a running reorg has found and may
\* have to put back, is valid as a ledger, in every tree in which transactions
\* differ: with however many points of fork, and whether or not forks still
\* hang where they should.
THEOREM CommittedChainIsValid ==
  ASSUME NEW h, TransactionsDiffer(h)
  PROVE  Spec => []ValidChain(Committed)
<1>1. CommittedInv => ValidChain(Committed)
  BY DEF CommittedInv
<1>2. QED
  BY <1>1, CommittedAlways, PTL

\* No assertion of reorg or rewind_block fails but the one on append_block of
\* an old block, and that one only if the block's computations are bound once
\* more, if it spends an output whose record was misfiled, or if it was mined
\* here and never valid; and outside a reorg only the one on remove_utxo, for a
\* block mined here.
THEOREM AbortsHaveCause ==
  ASSUME NEW h, TransactionsDiffer(h)
  PROVE  Spec => []AbortCause
<1>1. Init => AbortCause
  BY DEF Init, AbortCause
<1>2. QED
  BY <1>1, LedgerAlways, CommittedAlways, AbortStep, PTL DEF Spec

\* Why a vector may be read outside its bounds: in the loop that cuts off a fork
\* of which nothing was applied, or because a reorg was broken off before.
LoopCause == status = "undefined" => cut \/ (pc = "restore" /\ idx = 0)

LEMMA LoopStep ==
  ASSUME NEW h
  PROVE  ForksHold(h) /\ LoopCause /\ [Next]_vars => LoopCause'
<1> SUFFICES ASSUME ForksHold(h), LoopCause, [Next]_vars
             PROVE  LoopCause'
  OBVIOUS
<1>1. CASE KeepMain
  BY <1>1 DEF KeepMain, Idle, reorgVars, LoopCause
<1>2. ASSUME NEW b \in Block, StartReorg(b)
      PROVE  cut' \/ status' = "running"
  BY <1>2, StartReorgHangs DEF ForksHold, StartReorg
<1>3. CASE UNCHANGED vars
  BY <1>3 DEF vars, reorgVars, LoopCause
<1>4. ASSUME NEW b \in Block, NEW own \in BOOLEAN,
             \/ AttachToMain(b, own) \/ StartFork(b) \/ ExtendFork(b)
             \/ Reject(b) \/ OwnBlockAborts(b) \/ OwnBlockThrows(b)
      PROVE  status' # "undefined"
  BY <1>4 DEF AttachToMain, StartFork, ExtendFork, Reject, OwnBlockAborts, OwnBlockThrows, Receivable
<1>5. CASE \/ RewindMain \/ UndoFork \/ TruncateMain \/ TruncateFork
           \/ ApplyThrows \/ ApplyBlock \/ ApplyInvalid \/ AdoptFork
           \/ RestoreBlock \/ RestoreFails
  <2>1. status' # "undefined"
    BY <1>5 DEF RewindMain, UndoFork, RewindOne, TruncateMain, TruncateFork, CutMain,
                ApplyThrows, ApplyBlock, ApplyInvalid, AdoptFork, Applying, RestoreBlock,
                RestoreFails, Restoring
  <2>2. QED
    BY <2>1 DEF LoopCause
<1>6. QED
  <2>1. status' # "undefined" \/ cut' => LoopCause'
    BY DEF LoopCause
  <2>2. QED
    BY <1>1, <1>2, <1>3, <1>4, <1>5, <2>1 DEF Next, ReorgStep

\* Which exception leaves the process: that of a block mined here.
ExceptionCause ==
  status = "terminated" =>
    pc = "idle" /\ \E b \in Mined \ store : Parent[b] # Last(main)

LEMMA ExceptionStep == ExceptionCause /\ [Next]_vars => ExceptionCause'
<1> SUFFICES ASSUME ExceptionCause, [Next]_vars PROVE ExceptionCause'
  OBVIOUS
<1>1. ASSUME NEW b \in Block, OwnBlockThrows(b)
      PROVE  ExceptionCause'
  <2>1. /\ pc = "idle" /\ b \in Mined \ store /\ Parent[b] # Last(main)
        /\ UNCHANGED <<pc, store, main>>
    BY <1>1 DEF OwnBlockThrows, Receivable, chainVars
  <2>2. QED
    BY <2>1 DEF ExceptionCause
<1>2. ASSUME NEW b \in Block, NEW own \in BOOLEAN,
             \/ AttachToMain(b, own) \/ StartFork(b) \/ ExtendFork(b)
             \/ Reject(b) \/ OwnBlockAborts(b) \/ StartReorg(b)
      PROVE  status' # "terminated"
  BY <1>2 DEF AttachToMain, StartFork, ExtendFork, Reject, OwnBlockAborts, StartReorg,
              Receivable
<1>3. CASE ReorgStep
  <2>1. status' # "terminated"
    <3>1. CASE RewindMain \/ UndoFork \/ TruncateMain \/ TruncateFork \/ KeepMain
      BY <3>1 DEF RewindMain, UndoFork, RewindOne, TruncateMain, TruncateFork, CutMain,
                  KeepMain
    <3>2. CASE \/ ApplyThrows \/ ApplyBlock \/ ApplyInvalid \/ AdoptFork
               \/ RestoreBlock \/ RestoreFails
      BY <3>2 DEF ApplyThrows, ApplyBlock, ApplyInvalid, AdoptFork, Applying,
                  RestoreBlock, RestoreFails, Restoring
    <3>3. QED
      BY <1>3, <3>1, <3>2 DEF ReorgStep
  <2>2. QED
    BY <2>1 DEF ExceptionCause
<1>4. CASE UNCHANGED vars
  BY <1>4 DEF vars, chainVars, ExceptionCause
<1>5. QED
  <2>1. status' # "terminated" => ExceptionCause'
    BY DEF ExceptionCause
  <2>2. QED
    BY <1>1, <1>2, <1>3, <1>4, <2>1 DEF Next

\* The ways in which a process that runs add_block can end, in every tree in
\* which transactions differ.
THEOREM EndsHaveCause ==
  ASSUME NEW h, TransactionsDiffer(h)
  PROVE  Spec => []EndHasCause
<1>0. Heights(h)
  BY DEF TransactionsDiffer
<1>1. AbortCause /\ LoopCause /\ ExceptionCause => EndHasCause
  BY DEF AbortCause, LoopCause, ExceptionCause, EndHasCause
<1>2. Init => LoopCause /\ ExceptionCause
  BY DEF Init, LoopCause, ExceptionCause
<1>3. Spec => []LoopCause
  BY <1>0, <1>2, ForksAlways, LoopStep, PTL DEF Spec
<1>4. Spec => []ExceptionCause
  BY <1>2, ExceptionStep, PTL DEF Spec
<1>5. QED
  BY <1>1, <1>3, <1>4, AbortsHaveCause, PTL

\* The chain that a running reorg has found is a chain, in every tree.
CommittedIsChain == Rooted(Committed) /\ TimeOrdered(Committed)

LEMMA CommittedIsChainAlways == Spec => []CommittedIsChain
<1>1. Init => CommittedIsChain
  <2> SUFFICES ASSUME Init PROVE CommittedIsChain
    OBVIOUS
  <2>1. Committed = main
    BY DEF Init, Committed
  <2>2. QED
    BY <2>1, ChainInit DEF ChainInv, MainIsChain, CommittedIsChain
<1>2. /\ IndInv /\ IndInv' /\ ChainInv /\ ChainInv' /\ CommittedIsChain
      /\ [Next]_vars
      => CommittedIsChain'
  <2> SUFFICES ASSUME IndInv, IndInv', ChainInv, ChainInv', CommittedIsChain,
                      [Next]_vars
               PROVE  CommittedIsChain'
    OBVIOUS
  <2>1. Rooted(main') /\ TimeOrdered(main')
    BY DEF ChainInv, MainIsChain
  <2>2. CASE Committed' = Committed
    BY <2>2 DEF CommittedIsChain
  <2>3. CASE Committed' = main'
    BY <2>1, <2>3 DEF CommittedIsChain
  <2>4. QED
    BY <2>2, <2>3, CommittedMoves
<1>3. QED
  BY <1>1, <1>2, ChainAlways, PTL DEF Spec

\* A reorg cuts main elsewhere than where its fork starts only when an earlier
\* reorg has taken the block the fork starts from off the main chain.  The run
\* StaleForkSource has a reorg that does.
THEOREM OthersAreCutWhereTheyStart ==
  ASSUME NEW h, Heights(h)
  PROVE  Spec => []OnlyStaleForksCutElsewhere
<1>1. ForksHold(h) /\ CommittedIsChain => OnlyStaleForksCutElsewhere
  <2> SUFFICES ASSUME ForksHold(h), CommittedIsChain, pc = "apply", idx = 0,
                      Winner.header \in ToSet(Committed)
               PROVE  Last(main) = Winner.header
    BY DEF OnlyStaleForksCutElsewhere
  <2> DEFINE n == old.src
             p == SubSeq(main, 1, n + 1)
  <2>1. IndInv /\ AllPlaced(h) /\ main \in Seq(Block)
    BY DEF ForksHold, IndInv, TypeOK
  <2>2. /\ target \in DOMAIN forks /\ Winner.src = n /\ n \in Nat
        /\ Len(main) = n + 1 /\ old.chain \in Seq(Block)
    BY <2>1, ReorgTypes DEF IndInv, ReorgShape
  <2>3. Placed(h, n, Winner.header)
    BY <2>1, <2>2 DEF AllPlaced, Winner
  <2>4. Committed = p \o old.chain
    BY DEF Committed
  <2>5. p \in Seq(Block) /\ Len(p) = n + 1 /\ p[n + 1] = main[n + 1]
    BY <2>1, <2>2
  <2> HIDE DEF p, n
  <2>6. Committed \in Seq(Block) /\ Committed[n + 1] = p[n + 1]
    BY <2>2, <2>4, <2>5
  <2>7. Committed[n + 1] = Winner.header
    BY <2>2, <2>3, <2>6, PlacedOnMain DEF CommittedIsChain
  <2>8. Last(main) = main[n + 1]
    BY <2>2 DEF Last
  <2>9. QED
    BY <2>5, <2>6, <2>7, <2>8
<1>2. QED
  BY <1>1, ForksAlways, CommittedIsChainAlways, PTL

-----------------------------------------------------------------------------
(* Stored blocks that are on no chain *)

\* The blocks of the forks, and of all chains.
OnForks  == UNION {ToSet(forks[i].chain) : i \in DOMAIN forks}
OnChains == ToSet(Committed) \cup OnForks

LEMMA ElementsOfConcat ==
  ASSUME NEW S, NEW s \in Seq(S), NEW t \in Seq(S)
  PROVE  ToSet(s \o t) = ToSet(s) \cup ToSet(t)
<1> DEFINE c == s \o t
<1>1. /\ c \in Seq(S) /\ Len(c) = Len(s) + Len(t)
      /\ Len(s) \in Nat /\ Len(t) \in Nat
      /\ \A i \in 1..Len(s) : c[i] = s[i]
      /\ \A i \in 1..Len(t) : c[Len(s) + i] = t[i]
  OBVIOUS
<1> HIDE DEF c
<1>2. DOMAIN c = 1..Len(s) + Len(t) /\ DOMAIN s = 1..Len(s) /\ DOMAIN t = 1..Len(t)
  BY <1>1
<1>3. ASSUME NEW i \in DOMAIN c PROVE c[i] \in ToSet(s) \cup ToSet(t)
  <2>1. CASE i \in 1..Len(s)
    BY <1>1, <1>2, <2>1 DEF ToSet
  <2>2. CASE i \notin 1..Len(s)
    <3>1. i - Len(s) \in 1..Len(t) /\ Len(s) + (i - Len(s)) = i
      BY <1>1, <1>2, <2>2
    <3>2. c[i] = t[i - Len(s)]
      BY <1>1, <3>1
    <3>3. QED
      BY <1>2, <3>1, <3>2 DEF ToSet
  <2>3. QED
    BY <2>1, <2>2
<1>4. ASSUME NEW i \in DOMAIN s PROVE s[i] \in ToSet(c)
  <2>1. i \in DOMAIN c /\ c[i] = s[i]
    BY <1>1, <1>2
  <2>2. QED
    BY <2>1 DEF ToSet
<1>5. ASSUME NEW i \in DOMAIN t PROVE t[i] \in ToSet(c)
  <2>1. Len(s) + i \in DOMAIN c /\ c[Len(s) + i] = t[i]
    BY <1>1, <1>2
  <2>2. QED
    BY <2>1 DEF ToSet
<1>6. QED
  BY <1>3, <1>4, <1>5 DEF ToSet, c

\* A block that was not stored, and is on a chain now, is not lost.
LEMMA NewBlockNotLost ==
  ASSUME NEW b, b \notin store, store' = store \cup {b},
         OnChains' = OnChains \cup {b}
  PROVE  Lost' = Lost
BY DEF Lost, OnChains, OnForks

\* Neither is anything else while the chains and the store stay.
LEMMA NoneLost ==
  ASSUME store' = store, OnChains' = OnChains
  PROVE  Lost' = Lost
BY DEF Lost, OnChains, OnForks

\* A fork grows by b.
LEMMA OnGrownForks ==
  ASSUME TypeOK, NEW b \in Block, NEW i \in DOMAIN forks,
         forks' = [forks EXCEPT ![i] = Grown(forks[i], b)]
  PROVE  OnForks' = OnForks \cup {b}
<1>1. /\ forks[i] \in Fork /\ forks[i].chain \in Seq(Block)
      /\ Grown(forks[i], b) \in Fork
      /\ Grown(forks[i], b).chain = Append(forks[i].chain, b)
  BY ForkTypes, GrownFork
<1>2. /\ DOMAIN forks' = DOMAIN forks
      /\ forks'[i].chain = Append(forks[i].chain, b)
      /\ \A j \in DOMAIN forks : j # i => forks'[j] = forks[j]
  BY <1>1, ForkReplaced
<1>3. ToSet(forks'[i].chain) = ToSet(forks[i].chain) \cup {b}
  <2>1. ToSet(Append(forks[i].chain, b)) = ToSet(forks[i].chain) \cup {b}
    BY <1>1, ElementsOfAppend
  <2>2. QED
    BY <1>2, <2>1
<1>4. \A j \in DOMAIN forks : j # i => ToSet(forks'[j].chain) = ToSet(forks[j].chain)
  BY <1>2
<1>5. QED
  BY <1>2, <1>3, <1>4 DEF OnForks
\* The old main chain takes the place of the fork that main adopts.
LEMMA OnAdoptedForks ==
  ASSUME TypeOK, target \in DOMAIN forks,
         forks' = Append(RemoveAt(forks, target), old)
  PROVE  OnForks' \cup ToSet(Winner.chain) = OnForks \cup ToSet(old.chain)
<1> DEFINE r == RemoveAt(forks, target)
           n == Len(forks)
<1>1. forks \in Seq(Fork) /\ old \in Fork /\ n \in Nat /\ target \in 1..n
      /\ DOMAIN forks = 1..n
  BY SMTT(30) DEF TypeOK
<1>2. /\ r \in Seq(Fork) /\ Len(r) = n - 1
      /\ \A j \in 1..n - 1 : r[j] = IF j < target THEN forks[j] ELSE forks[j + 1]
  BY <1>1, RemoveAtProperties
<1> HIDE DEF r, n
<1>3. /\ DOMAIN forks' = 1..n /\ forks'[n] = old
      /\ \A j \in 1..n - 1 : forks'[j] = r[j]
  BY <1>1, <1>2 DEF r
<1>4. ASSUME NEW j \in DOMAIN forks'
      PROVE  ToSet(forks'[j].chain) \subseteq OnForks \cup ToSet(old.chain)
  <2>1. forks'[j] = old \/ \E k \in DOMAIN forks : forks'[j] = forks[k]
    <3>1. CASE j = n
      BY <1>3, <3>1
    <3>2. CASE j # n
      <4>1. j \in 1..n - 1 /\ j \in 1..n /\ j + 1 \in 1..n
        BY <1>1, <1>3, <3>2
      <4>2. QED
        BY <1>1, <1>2, <1>3, <4>1
    <3>3. QED
      BY <3>1, <3>2
  <2>2. QED
    BY <2>1 DEF OnForks
<1>5. ASSUME NEW k \in DOMAIN forks
      PROVE  ToSet(forks[k].chain) \subseteq OnForks' \cup ToSet(Winner.chain)
  <2>1. CASE k = target
    BY <2>1 DEF Winner
  <2>2. CASE k # target
    <3>1. \E j \in DOMAIN forks' : forks'[j] = forks[k]
      <4>1. CASE k < target
        <5>1. k \in 1..n - 1 /\ k \in 1..n
          BY <1>1, <4>1
        <5>2. forks'[k] = forks[k]
          BY <1>2, <1>3, <4>1, <5>1
        <5>3. QED
          BY <1>3, <5>1, <5>2
      <4>2. CASE k > target
        <5>1. k - 1 \in 1..n - 1 /\ k - 1 \in 1..n /\ ~(k - 1 < target) /\ k - 1 + 1 = k
          BY <1>1, <4>2
        <5>2. forks'[k - 1] = forks[k]
          BY <1>2, <1>3, <5>1
        <5>3. QED
          BY <1>3, <5>1, <5>2
      <4>3. k < target \/ k > target
        BY <1>1, <2>2
      <4>4. QED
        BY <4>1, <4>2, <4>3
    <3>2. QED
      BY <3>1 DEF OnForks
  <2>3. QED
    BY <2>1, <2>2
<1>6. ToSet(old.chain) \subseteq OnForks'
  <2>1. n \in DOMAIN forks'
    BY <1>1, <1>3
  <2>2. QED
    BY <1>3, <2>1 DEF OnForks
<1>7. ToSet(Winner.chain) \subseteq OnForks
  BY <1>1 DEF OnForks, Winner
<1>8. OnForks' \subseteq OnForks \cup ToSet(old.chain)
  BY <1>4 DEF OnForks
<1>9. OnForks \subseteq OnForks' \cup ToSet(Winner.chain)
  BY <1>5 DEF OnForks
<1>10. QED
  BY <1>6, <1>7, <1>8, <1>9

\* The reorg succeeds: main goes on with the fork where it went on with what
\* the old fork keeps.
LEMMA AdoptForkLoses ==
  ASSUME IndInv, ChainInv, AppliedFits, AdoptFork
  PROVE  Lost' = Lost
<1>1. /\ pc = "apply" /\ pc' = "idle" /\ idx = Len(Winner.chain)
      /\ forks' = Append(RemoveAt(forks, target), old)
      /\ main' = main /\ store' = store
  BY DEF AdoptFork, Idle
<1>2. /\ TypeOK /\ main \in Seq(Block) /\ target \in DOMAIN forks
      /\ old.chain \in Seq(Block) /\ Winner.chain \in Seq(Block)
      /\ old.src \in Nat /\ Len(main) = old.src + 1 + idx
  BY <1>1, ReorgTypes DEF TypeOK, IndInv, ReorgShape
<1> DEFINE n == old.src + 1
           p == SubSeq(main, 1, n)
<1>3. n \in 0..Len(main) /\ Len(main) = n + Len(Winner.chain)
  BY <1>1, <1>2
<1>4. \A k \in 1..Len(Winner.chain) : main[n + k] = Winner.chain[k]
  BY <1>1 DEF AppliedFits
<1>5. Committed' = main /\ Committed = p \o old.chain
  BY <1>1 DEF Committed
<1> HIDE DEF n
<1>6. p \in Seq(Block)
  BY <1>2, <1>3
<1>7. p \o Winner.chain = main
  BY <1>2, <1>3, <1>4, JoinedSeq
<1> HIDE DEF p
<1>8. ToSet(main) = ToSet(p) \cup ToSet(Winner.chain)
  <2>1. ToSet(p \o Winner.chain) = ToSet(p) \cup ToSet(Winner.chain)
    BY <1>2, <1>6, ElementsOfConcat
  <2>2. QED
    BY <1>7, <2>1
<1>9. ToSet(Committed) = ToSet(p) \cup ToSet(old.chain)
  <2>1. ToSet(p \o old.chain) = ToSet(p) \cup ToSet(old.chain)
    BY <1>2, <1>6, ElementsOfConcat
  <2>2. QED
    BY <1>5, <2>1
<1>10. ToSet(Committed') = ToSet(main)
  BY <1>5
<1>11. OnForks' \cup ToSet(Winner.chain) = OnForks \cup ToSet(old.chain)
  BY <1>1, <1>2, OnAdoptedForks
<1>12. OnChains' = OnChains
  <2>1. OnChains' = ToSet(Committed') \cup OnForks'
    BY DEF OnChains
  <2>2. OnChains' = ToSet(p) \cup (OnForks' \cup ToSet(Winner.chain))
    BY <1>8, <1>10, <2>1
  <2>3. QED
    BY <1>9, <1>11, <2>2 DEF OnChains
<1>13. QED
  BY <1>1, <1>12, NoneLost
\* What every tree gives.
ReorgFits == IndInv /\ ChainInv /\ StoreInv /\ AppliedFits

LEMMA ReorgFitsAlways == Spec => []ReorgFits
<1>1. Init => ReorgFits
  BY InitInv, ChainInit, StoreInit DEF ReorgFits, Init, AppliedFits
<1>2. ReorgFits /\ [Next]_vars => ReorgFits'
  BY StepInv, ChainStep, StoreStep, AppliedStep DEF ReorgFits
<1>3. QED
  BY <1>1, <1>2, PTL DEF Spec

\* A call of add_block that takes the block without failing.
LEMMA AddBlockLoses ==
  ASSUME IndInv, NEW b \in Block, NEW own \in BOOLEAN, status' = "running",
         \/ AttachToMain(b, own) \/ StartFork(b) \/ ExtendFork(b) \/ StartReorg(b)
  PROVE  Lost' = Lost
<1>1. TypeOK /\ main \in Seq(Block) /\ forks \in Seq(Fork)
  BY DEF IndInv, TypeOK
<1>2. b \notin store /\ store' = store \cup {b} /\ pc = "idle"
  BY DEF AttachToMain, StartFork, ExtendFork, StartReorg, Receivable, ExtendMain
<1>3. CASE AttachToMain(b, own)
  <2>1. pc' = "idle" /\ forks' = forks /\ main' = Append(main, b)
    BY <1>2, <1>3 DEF AttachToMain, ExtendMain
  <2>2. ToSet(Append(main, b)) = ToSet(main) \cup {b}
    BY <1>1, ElementsOfAppend
  <2>3. Committed = main /\ Committed' = Append(main, b)
    BY <1>2, <2>1 DEF Committed
  <2>4. OnChains' = OnChains \cup {b}
    BY <2>1, <2>2, <2>3 DEF OnChains, OnForks
  <2>5. QED
    BY <1>2, <2>4, NewBlockNotLost
<1>4. CASE StartFork(b)
  <2> DEFINE f == [src |-> SourceIndex(b), header |-> Parent[b],
                   chain |-> <<b>>, diff |-> SourceIndex(b) + 2]
  <2>1. pc' = "idle" /\ forks' = Append(forks, f) /\ main' = main
    BY <1>2, <1>4 DEF StartFork
  <2>2. ToSet(f.chain) = {b}
    BY DEF ToSet
  <2> HIDE DEF f
  <2>3. /\ DOMAIN forks' = 1..Len(forks) + 1 /\ DOMAIN forks = 1..Len(forks)
        /\ Len(forks) \in Nat /\ forks'[Len(forks) + 1] = f
        /\ \A i \in 1..Len(forks) : forks'[i] = forks[i]
    BY <1>1, <2>1
  <2>4. \A i \in DOMAIN forks' : forks'[i] = f \/ (i \in DOMAIN forks /\ forks'[i] = forks[i])
    BY <2>3
  <2>5. \A i \in DOMAIN forks : i \in DOMAIN forks' /\ forks'[i] = forks[i]
    BY <2>3
  <2>6. Len(forks) + 1 \in DOMAIN forks'
    BY <2>3
  <2>7. OnForks' = OnForks \cup {b}
    <3>1. OnForks' \subseteq OnForks \cup {b}
      BY <2>2, <2>4 DEF OnForks
    <3>2. OnForks \subseteq OnForks'
      BY <2>5 DEF OnForks
    <3>3. {b} \subseteq OnForks'
      BY <2>2, <2>3, <2>6 DEF OnForks
    <3>4. QED
      BY <3>1, <3>2, <3>3
  <2>8. Committed' = Committed
    BY <1>2, <2>1 DEF Committed
  <2>9. QED
    BY <1>2, <2>7, <2>8, NewBlockNotLost DEF OnChains
<1>5. CASE ExtendFork(b) \/ StartReorg(b)
  <2>1. PICK i \in DOMAIN forks : forks' = [forks EXCEPT ![i] = Grown(forks[i], b)]
    BY <1>5 DEF ExtendFork, StartReorg, FirstFork, Attachable
  <2>2. OnForks' = OnForks \cup {b}
    BY <1>1, <2>1, OnGrownForks
  <2>3. Committed' = Committed
    <3>1. CASE ExtendFork(b)
      BY <1>2, <3>1 DEF ExtendFork, Committed
    <3>2. CASE StartReorg(b)
      BY <3>2, CommittedAtStart
    <3>3. QED
      BY <1>5, <3>1, <3>2
  <2>4. QED
    BY <1>2, <2>2, <2>3, NewBlockNotLost DEF OnChains
<1>6. QED
  BY <1>3, <1>4, <1>5

\* Neither a block that is taken, on main or on a fork, nor one that a reorg
\* moves between them is ever left out of all chains; only the part of a fork
\* that a failed reorg cuts off is, or the old chain when a reorg throws.
\* This needs no hypothesis on the tree.
THEOREM OnlyFailedReorgsLoseBlocks == Spec => OnlyFailedReorgsLose
<1>1. ReorgFits /\ ReorgFits' /\ [Next]_vars
      => [status' = "running" /\ Lost' # Lost =>
            pc = "restore" \/ (pc = "apply" /\ reply' = "thrown")]_vars
  <2> SUFFICES ASSUME ReorgFits, ReorgFits', [Next]_vars, status' = "running",
                      pc # "restore", ~(pc = "apply" /\ reply' = "thrown")
               PROVE  Lost' = Lost
    OBVIOUS
  <2>1. IndInv /\ IndInv' /\ ChainInv /\ StoreInv /\ AppliedFits
    BY DEF ReorgFits
  <2>2. ASSUME NEW b \in Block, NEW own \in BOOLEAN,
               AttachToMain(b, own) \/ StartFork(b) \/ ExtendFork(b) \/ StartReorg(b)
        PROVE  Lost' = Lost
    BY <2>1, <2>2, AddBlockLoses
  <2>3. ASSUME UNCHANGED <<store, main, forks, pc, old>>
        PROVE  Lost' = Lost
    BY <2>3 DEF Lost, Committed
  <2>4. ASSUME NEW b \in Block, Reject(b) \/ OwnBlockAborts(b) \/ OwnBlockThrows(b)
        PROVE  Lost' = Lost
    BY <2>3, <2>4 DEF Reject, OwnBlockAborts, OwnBlockThrows, chainVars, reorgVars
  <2>5. CASE RewindMain \/ UndoFork \/ TruncateMain \/ TruncateFork \/ ApplyInvalid
    <3>1. Committed' = Committed
      BY <2>1, <2>5, CommittedKept
    <3>2. UNCHANGED <<store, forks>>
      BY <2>5 DEF RewindMain, UndoFork, RewindOne, TruncateMain, TruncateFork, CutMain,
                  ApplyInvalid, chainVars
    <3>3. QED
      BY <3>1, <3>2 DEF Lost
  <2>6. CASE ApplyBlock
    <3>1. Committed' = Committed /\ forks' = forks
      BY <2>1, <2>6, CommittedKept DEF ApplyBlock
    <3>2. store' = store \cup {NextOfFork} /\ idx < Len(Winner.chain) /\ pc = "apply"
      BY <2>6 DEF ApplyBlock, Applying, ExtendMain
    <3>3. /\ target \in DOMAIN forks /\ Winner.chain \in Seq(Block) /\ idx \in Nat
      BY <2>1, <3>2, ReorgTypes
    <3>4. NextOfFork \in ToSet(Winner.chain)
      BY <3>2, <3>3 DEF NextOfFork, ToSet
    <3>5. ToSet(Winner.chain) \subseteq store
      BY <2>1, <3>3 DEF StoreInv, StoreHasChains, Winner
    <3>6. store' = store
      BY <3>2, <3>4, <3>5
    <3>7. QED
      BY <3>1, <3>6 DEF Lost
  <2>7. CASE AdoptFork
    BY <2>1, <2>7, AdoptForkLoses
  <2>8. CASE ApplyThrows \/ RestoreBlock \/ RestoreFails \/ KeepMain
    BY <2>8 DEF ApplyThrows, Applying, RestoreBlock, RestoreFails, Restoring, KeepMain
  <2>9. CASE UNCHANGED vars
    BY <2>3, <2>9 DEF vars, chainVars, reorgVars
  <2>10. QED
    BY <2>2, <2>4, <2>5, <2>6, <2>7, <2>8, <2>9 DEF Next, ReorgStep
<1>2. QED
  BY <1>1, ReorgFitsAlways, PTL DEF Spec, OnlyFailedReorgsLose
=============================================================================
