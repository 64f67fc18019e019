---------------------------- MODULE ASTree_proofs ----------------------------
(***************************************************************************)
(* Proofs about ASTree, for every set of operators and every number of     *)
(* operands, operators and parentheses in the text.                        *)
(*                                                                         *)
(* shunt keeps one count (ShuntInv): the operands in the output are as     *)
(* many as the operators in the output and on the stack together, and one  *)
(* more unless an operand is expected next.  Every operator of the text is *)
(* in the output or on the stack, and every prefix of the output has more  *)
(* operands than operators, so the operators can be popped at any time.    *)
(*                                                                         *)
(* build_tree keeps the tokens (BuildInv): its nodes hold the tokens of    *)
(* the input that were taken, in the order of their ids, and only an       *)
(* operator has children or waits on node_stack.  A rotation changes       *)
(* pointers and depths of operators alone, so an operand stays a leaf.     *)
(*                                                                         *)
(* That every node is reached from the root is not proved: beyond the      *)
(* bounds of the run it is false (OperandLost).                            *)
(***************************************************************************)
EXTENDS ASTree, FiniteSetTheorems, SequenceTheorems, WellFoundedInduction, TLAPS

\* The positions of the tokens of T.
At(s, T) == {k \in DOMAIN s : s[k] \in T}

\* The positions of the tokens of T are finitely many, and Count is their number.
LEMMA CountIsNat ==
  ASSUME NEW S, NEW s \in Seq(S), NEW T
  PROVE  IsFiniteSet(At(s, T)) /\ Count(s, T) = Cardinality(At(s, T)) /\ Count(s, T) \in Nat
<1>1. DOMAIN s = 1..Len(s) /\ Len(s) \in Nat
  OBVIOUS
<1>2. IsFiniteSet(1..Len(s))
  BY <1>1, FS_Interval
<1>3. At(s, T) \in SUBSET (1..Len(s))
  BY <1>1 DEF At
<1>4. IsFiniteSet(At(s, T)) /\ Cardinality(At(s, T)) \in Nat
  BY <1>2, <1>3, FS_Subset, FS_CardinalityType
<1>5. QED
  BY <1>4 DEF At, Count

\* A sequence without a token of T counts none.
LEMMA CountNone ==
  ASSUME NEW s, NEW T, \A k \in DOMAIN s : s[k] \notin T
  PROVE  Count(s, T) = 0
<1>1. {k \in DOMAIN s : s[k] \in T} = {}
  OBVIOUS
<1>2. QED
  BY <1>1, FS_EmptySet DEF Count

\* The empty sequence counts no token: the stack that EndText leaves.
LEMMA CountEmpty ==
  ASSUME NEW T
  PROVE  Count(<<>>, T) = 0
<1>1. DOMAIN <<>> = {}
  OBVIOUS
<1>2. QED
  BY <1>1, CountNone

\* A sequence of nothing but tokens of T counts its length.
LEMMA CountAll ==
  ASSUME NEW S, NEW s \in Seq(S), NEW T, S \subseteq T
  PROVE  Count(s, T) = Len(s)
<1>1. DOMAIN s = 1..Len(s) /\ Len(s) \in Nat /\ \A k \in DOMAIN s : s[k] \in T
  OBVIOUS
<1>2. {k \in DOMAIN s : s[k] \in T} = 1..Len(s)
  BY <1>1
<1>3. Cardinality(1..Len(s)) = Len(s)
  <2>1. 1 \in Int /\ Len(s) \in Int
    BY <1>1
  <2>2. Cardinality(1..Len(s)) = IF 1 > Len(s) THEN 0 ELSE Len(s) - 1 + 1
    BY <2>1, FS_Interval
  <2>3. QED
    BY <1>1, <2>2
<1>4. QED
  BY <1>2, <1>3 DEF Count

\* Two finite sets of indices, the second moved behind n.
LEMMA CardinalityOfMoved ==
  ASSUME NEW A, NEW B, NEW n \in Nat, NEW m \in Nat, A \subseteq 1..n, B \subseteq 1..m
  PROVE  Cardinality(A \cup {n + k : k \in B}) = Cardinality(A) + Cardinality(B)
<1> DEFINE C == {n + k : k \in B}
           f == [k \in B |-> n + k]
<1>1. IsFiniteSet(A) /\ IsFiniteSet(B)
  <2>1. IsFiniteSet(1..n) /\ IsFiniteSet(1..m)
    <3>1. 1 \in Int /\ n \in Int /\ m \in Int
      OBVIOUS
    <3>2. QED
      BY <3>1, FS_Interval
  <2>2. QED
    BY <2>1, FS_Subset
<1>2. f \in Bijection(B, C)
  <2>1. f \in [B -> C]
    OBVIOUS
  <2>2. \A j, k \in B : f[j] = f[k] => j = k
    OBVIOUS
  <2>3. \A c \in C : \E j \in B : f[j] = c
    OBVIOUS
  <2> HIDE DEF f, C
  <2>4. QED
    BY <2>1, <2>2, <2>3 DEF Bijection, Injection, Surjection, IsInjective
<1>3. IsFiniteSet(C) /\ Cardinality(C) = Cardinality(B)
  BY <1>1, <1>2, FS_Bijection DEF ExistsBijection
<1>4. A \cap C = {}
  OBVIOUS
<1> HIDE DEF C
<1>5. Cardinality(A \cup C) = Cardinality(A) + Cardinality(C) - Cardinality(A \cap C)
  BY <1>1, <1>3, FS_Union
<1>6. Cardinality(A \cap C) = 0 /\ Cardinality(A) \in Nat /\ Cardinality(C) \in Nat
  BY <1>1, <1>3, <1>4, FS_EmptySet, FS_CardinalityType
<1>7. Cardinality(A \cup C) = Cardinality(A) + Cardinality(B)
  BY <1>3, <1>5, <1>6
<1>8. QED
  BY <1>7 DEF C

\* The tokens of a concatenation are those of both parts.
LEMMA CountConcat ==
  ASSUME NEW S, NEW s \in Seq(S), NEW t \in Seq(S), NEW T
  PROVE  Count(s \o t, T) = Count(s, T) + Count(t, T)
<1>1. /\ DOMAIN s = 1..Len(s) /\ DOMAIN t = 1..Len(t) /\ Len(s) \in Nat /\ Len(t) \in Nat
      /\ DOMAIN (s \o t) = 1..Len(s) + Len(t)
      /\ \A k \in 1..Len(s) : (s \o t)[k] = s[k]
      /\ \A k \in 1..Len(t) : (s \o t)[Len(s) + k] = t[k]
  OBVIOUS
<1> DEFINE u == s \o t
           C == {Len(s) + k : k \in At(t, T)}
<1> HIDE DEF u
<1>2. ASSUME NEW k \in At(u, T) PROVE k \in At(s, T) \cup C
  <2>1. CASE k \in 1..Len(s)
    BY <1>1, <1>2, <2>1 DEF At, u
  <2>2. CASE k \notin 1..Len(s)
    <3>1. k - Len(s) \in 1..Len(t) /\ k = Len(s) + (k - Len(s))
      BY <1>1, <1>2, <2>2 DEF At, u
    <3>2. k - Len(s) \in At(t, T)
      BY <1>1, <1>2, <3>1 DEF At, u
    <3>3. QED
      BY <3>1, <3>2
  <2>3. QED
    BY <2>1, <2>2
<1>3. ASSUME NEW k \in At(s, T) PROVE k \in At(u, T)
  BY <1>1 DEF At, u
<1>4. ASSUME NEW k \in At(t, T) PROVE Len(s) + k \in At(u, T)
  <2>1. k \in 1..Len(t) /\ t[k] \in T
    BY <1>1 DEF At
  <2>2. u[Len(s) + k] = t[k] /\ Len(s) + k \in DOMAIN u
    BY <1>1, <2>1 DEF u
  <2>3. QED
    BY <2>1, <2>2 DEF At
<1>5. At(u, T) = At(s, T) \cup C
  BY <1>2, <1>3, <1>4
<1>6. At(s, T) \subseteq 1..Len(s) /\ At(t, T) \subseteq 1..Len(t)
  BY <1>1 DEF At
<1>7. Cardinality(At(u, T)) = Cardinality(At(s, T)) + Cardinality(At(t, T))
  <2> HIDE DEF At
  <2>1. QED
    BY <1>1, <1>5, <1>6, CardinalityOfMoved
<1>8. QED
  BY <1>7 DEF Count, At, u

\* One more token counts for the sets that it is in.
LEMMA CountAppend ==
  ASSUME NEW S, NEW s \in Seq(S), NEW x \in S, NEW T
  PROVE  Count(Append(s, x), T) = Count(s, T) + (IF x \in T THEN 1 ELSE 0)
<1>1. Append(s, x) = s \o <<x>> /\ <<x>> \in Seq(S) /\ DOMAIN <<x>> = {1} /\ <<x>>[1] = x
  OBVIOUS
<1>2. Count(Append(s, x), T) = Count(s, T) + Count(<<x>>, T) /\ Count(s, T) \in Nat
  <2> DEFINE y == <<x>>
  <2>1. y \in Seq(S) /\ Append(s, x) = s \o y
    BY <1>1
  <2> HIDE DEF y
  <2>2. Count(s \o y, T) = Count(s, T) + Count(y, T)
    BY <2>1, CountConcat
  <2>3. Count(s, T) \in Nat
    BY CountIsNat
  <2>4. QED
    BY <2>1, <2>2, <2>3 DEF y
<1>3. CASE x \in T
  <2>1. {k \in DOMAIN <<x>> : <<x>>[k] \in T} = {1}
    BY <1>1, <1>3
  <2>2. Count(<<x>>, T) = 1
    BY <2>1, FS_Singleton DEF Count
  <2>3. QED
    BY <1>2, <1>3, <2>2
<1>4. CASE x \notin T
  <2>1. Count(<<x>>, T) = 0
    BY <1>1, <1>4, CountNone
  <2>2. QED
    BY <1>2, <1>4, <2>1
<1>5. QED
  BY <1>3, <1>4

\* A stack that is popped to the output counts the same in its new order.
LEMMA CountReverse ==
  ASSUME NEW S, NEW s \in Seq(S), NEW T
  PROVE  Reverse(s) \in Seq(S) /\ Len(Reverse(s)) = Len(s) /\ Count(Reverse(s), T) = Count(s, T)
<1> DEFINE r == Reverse(s)
           n == Len(s)
           f == [k \in At(s, T) |-> n - k + 1]
<1>1. DOMAIN s = 1..n /\ n \in Nat /\ r = [k \in 1..n |-> s[n - k + 1]]
  BY DEF Reverse
<1>2. r \in Seq(S) /\ Len(r) = n /\ DOMAIN r = 1..n /\ \A k \in 1..n : r[k] = s[n - k + 1]
  BY <1>1
<1> HIDE DEF r
<1>3. \A k \in At(s, T) : k \in 1..n /\ s[k] \in T /\ n - k + 1 \in 1..n
  BY <1>1 DEF At
<1>4. \A k \in At(s, T) : n - k + 1 \in At(r, T)
  <2> SUFFICES ASSUME NEW k \in At(s, T) PROVE n - k + 1 \in At(r, T)
    OBVIOUS
  <2>1. k \in 1..n /\ n - k + 1 \in 1..n /\ s[k] \in T
    BY <1>3
  <2> DEFINE j == n - k + 1
  <2>2. j \in 1..n /\ n - j + 1 = k
    BY <1>1, <2>1
  <2>3. r[j] = s[k]
    BY <1>2, <2>2
  <2>4. QED
    BY <1>2, <2>1, <2>2, <2>3 DEF At
<1>5. \A k \in At(r, T) : n - k + 1 \in At(s, T) /\ n - (n - k + 1) + 1 = k
  BY <1>1, <1>2 DEF At
<1>6. f \in Bijection(At(s, T), At(r, T))
  <2>1. f \in [At(s, T) -> At(r, T)]
    BY <1>4
  <2>2. \A j, k \in At(s, T) : f[j] = f[k] => j = k
    BY <1>1, <1>3
  <2>3. \A k \in At(r, T) : \E j \in At(s, T) : f[j] = k
    BY <1>5
  <2> HIDE DEF f
  <2>4. QED
    BY <2>1, <2>2, <2>3 DEF Bijection, Injection, Surjection, IsInjective
<1>7. Cardinality(At(r, T)) = Cardinality(At(s, T))
  BY <1>6, CountIsNat, FS_Bijection DEF ExistsBijection
<1>8. QED
  BY <1>2, <1>7 DEF Count, At, r

\* The order of the natural numbers, in the form that WFMin wants.
LEMMA LessIsWellFounded ==
  IsWellFoundedOn({ss \in Nat \X Nat : ss[1] < ss[2]}, Nat)
BY Zenon, NatLessThanWellFounded DEF OpToRel

\* A nonempty set of naturals has a least element.
LEMMA LeastElement ==
  ASSUME NEW T \in SUBSET Nat, T # {}
  PROVE  \E x \in T : \A y \in T : x <= y
<1> DEFINE Less == {ss \in Nat \X Nat : ss[1] < ss[2]}
<1>1. IsWellFoundedOn(Less, Nat)
  BY LessIsWellFounded
<1>2. \A x, y \in Nat : <<x, y>> \in Less <=> x < y
  OBVIOUS
<1> HIDE DEF Less
<1>3. PICK x \in T : \A y \in T : <<y, x>> \notin Less
  BY <1>1, WFMin
<1>4. ASSUME NEW y \in T
      PROVE  x <= y
  <2>1. x \in Nat /\ y \in Nat /\ ~(y < x)
    BY <1>2, <1>3
  <2>2. QED
    BY <2>1
<1>5. QED
  BY <1>4

\* The greatest of a set of indices.
LEMMA MaxOfIndices ==
  ASSUME NEW n \in Nat, NEW S \in SUBSET (1..n), S # {}
  PROVE  Max(S) \in S /\ \A k \in S : k <= Max(S)
<1> DEFINE I == {n - k : k \in S}
<1>1. I \in SUBSET Nat /\ I # {}
  <2>1. \A k \in S : n - k \in Nat
    OBVIOUS
  <2>2. PICK k \in S : TRUE
    OBVIOUS
  <2>3. n - k \in I
    OBVIOUS
  <2>4. I \subseteq Nat
    BY <2>1
  <2>5. QED
    BY <2>3, <2>4
<1>2. PICK i \in I : \A j \in I : i <= j
  <2> HIDE DEF I
  <2>1. QED
    BY <1>1, LeastElement
<1>3. PICK x \in S : i = n - x
  BY DEF I
<1>4. \A y \in S : x >= y
  <2> SUFFICES ASSUME NEW y \in S PROVE x >= y
    OBVIOUS
  <2>1. n - y \in I
    OBVIOUS
  <2>2. n - x <= n - y
    BY <1>2, <1>3, <2>1
  <2>3. QED
    BY <2>2
<1>5. Max(S) \in S /\ \A y \in S : Max(S) >= y
  BY <1>4 DEF Max
<1>6. QED
  BY <1>5

-----------------------------------------------------------------------------
\* The tokens that shunt moves, and what postfix order is.

\* What shunt writes to output_q, and what it keeps on operator_stack.
InputTokens == NumberTokens \cup SignTokens
StackTokens == {Open} \cup SignTokens

\* No two kinds of tokens meet, and no two operands or operators are one token.
LEMMA TokensDiffer ==
  /\ Open \notin InputTokens /\ Close \notin InputTokens /\ Close # Open
  /\ NumberTokens \cap SignTokens = {}
  /\ \A j, k : Number(j) = Number(k) => j = k
  /\ \A o, p : Sign(o) = Sign(p) => o = p
<1>1. \A j, k : Number(j) = Number(k) => j = k
  BY DEF Number
<1>2. \A o, p : Sign(o) = Sign(p) => o = p
  BY DEF Sign
<1>3. \A k : Len(Number(k)) = 2 /\ Number(k)[1] = "number"
  BY DEF Number
<1>4. \A k : Len(Sign(k)) = 2 /\ Sign(k)[1] = "sign"
  BY DEF Sign
<1>5. Len(Open) = 1 /\ Len(Close) = 1 /\ Open[1] # Close[1]
  BY DEF Open, Close
<1>6. QED
  BY <1>1, <1>2, <1>3, <1>4, <1>5 DEF InputTokens, NumberTokens, SignTokens

\* Every prefix leaves an operand, and the operands come in order.
Postfix(s) ==
  \A n \in DOMAIN s :
    /\ Numbers(SubSeq(s, 1, n)) > Signs(SubSeq(s, 1, n))
    /\ IsNumber(s[n]) => s[n] = Number(Numbers(SubSeq(s, 1, n)))

\* Operands and operators of the output are counted in Nat.
LEMMA CountsOfInput ==
  ASSUME NEW s \in Seq(InputTokens)
  PROVE  Numbers(s) \in Nat /\ Signs(s) \in Nat
BY CountIsNat DEF Numbers, Signs

\* What is popped from the stack holds no operand.
LEMMA SignsOnly ==
  ASSUME NEW u \in Seq(SignTokens)
  PROVE  u \in Seq(InputTokens) /\ Numbers(u) = 0 /\ Signs(u) = Len(u)
<1>1. u \in Seq(InputTokens) /\ \A k \in DOMAIN u : u[k] \notin NumberTokens
  BY TokensDiffer DEF InputTokens
<1>2. QED
  BY <1>1, CountNone, CountAll DEF Numbers, Signs

\* A prefix that is longer than the first part.
LEMMA PrefixOfConcat ==
  ASSUME NEW S, NEW s \in Seq(S), NEW u \in Seq(S), NEW n \in Len(s) + 1..Len(s) + Len(u)
  PROVE  SubSeq(s \o u, 1, n) = s \o SubSeq(u, 1, n - Len(s))
<1> DEFINE w == s \o u
           m == Len(s)
<1>1. /\ w \in Seq(S) /\ Len(w) = m + Len(u) /\ m \in Nat /\ Len(u) \in Nat
      /\ n \in m + 1..m + Len(u) /\ m + 1 \in m + 1..m + Len(u)
  OBVIOUS
<1>2. SubSeq(w, 1, m) = s
  <2>1. CASE m = 0
    BY <1>1, <2>1, SubSeqEmpty, EmptySeq
  <2>2. CASE m # 0
    <3>1. 1 \in 1..m /\ m \in 1..m
      BY <1>1, <2>2
    <3>2. QED
      BY <3>1, SubSeqOfConcat1, SubSeqFull
  <2>3. QED
    BY <2>1, <2>2
<1>3. SubSeq(w, m + 1, n) = SubSeq(u, 1, n - m)
  <2>1. SubSeq(w, m + 1, n) = SubSeq(u, m + 1 - m, n - m)
    BY <1>1, SubSeqOfConcat2
  <2>2. m + 1 - m = 1
    BY <1>1
  <2>3. QED
    BY <2>1, <2>2
<1>4. SubSeq(w, 1, m) \o SubSeq(w, m + 1, n) = SubSeq(w, 1, n)
  <2>1. 1 \in 1..Len(w) + 1 /\ m \in 1 - 1..Len(w) /\ n \in m..Len(w)
    BY <1>1
  <2> HIDE DEF w, m
  <2>2. QED
    BY <1>1, <2>1, ConcatAdjacentSubSeq
<1>5. QED
  BY <1>2, <1>3, <1>4

\* Operators may follow as long as an operand is left over.
LEMMA PostfixSigns ==
  ASSUME NEW s \in Seq(InputTokens), Postfix(s), NEW u \in Seq(SignTokens),
         Signs(s) + Len(u) < Numbers(s)
  PROVE  /\ s \o u \in Seq(InputTokens) /\ Postfix(s \o u)
         /\ Numbers(s \o u) = Numbers(s) /\ Signs(s \o u) = Signs(s) + Len(u)
<1>1. u \in Seq(InputTokens) /\ Numbers(u) = 0 /\ Signs(u) = Len(u)
  BY SignsOnly
<1>2. /\ s \o u \in Seq(InputTokens)
      /\ Len(s) \in Nat /\ Len(u) \in Nat /\ DOMAIN (s \o u) = 1..Len(s) + Len(u)
      /\ DOMAIN s = 1..Len(s)
  BY <1>1
<1>3. Numbers(s) \in Nat /\ Signs(s) \in Nat
  BY CountsOfInput
<1>4. Numbers(s \o u) = Numbers(s) /\ Signs(s \o u) = Signs(s) + Len(u)
  BY <1>1, <1>3, CountConcat DEF Numbers, Signs
<1>5. ASSUME NEW n \in DOMAIN (s \o u)
      PROVE  /\ Numbers(SubSeq(s \o u, 1, n)) > Signs(SubSeq(s \o u, 1, n))
             /\ IsNumber((s \o u)[n]) => (s \o u)[n] = Number(Numbers(SubSeq(s \o u, 1, n)))
  <2>1. CASE n <= Len(s)
    <3>1. n \in DOMAIN s /\ SubSeq(s \o u, 1, n) = SubSeq(s, 1, n) /\ (s \o u)[n] = s[n]
      BY <1>1, <1>2, <2>1
    <3>2. QED
      BY <3>1 DEF Postfix
  <2>2. CASE n > Len(s)
    <3> DEFINE v == SubSeq(u, 1, n - Len(s))
    <3>1. SubSeq(s \o u, 1, n) = s \o v
      <4>1. n \in Len(s) + 1..Len(s) + Len(u)
        BY <1>2, <2>2
      <4>2. QED
        BY <1>1, <4>1, PrefixOfConcat
    <3>2. v \in Seq(SignTokens) /\ Len(v) = n - Len(s) /\ Len(v) <= Len(u) /\ Len(v) \in Nat
      BY <1>2, <2>2
    <3>3. (s \o u)[n] \in SignTokens
      <4>1. (s \o u)[n] = u[n - Len(s)] /\ n - Len(s) \in 1..Len(u)
        BY <1>1, <1>2, <2>2
      <4>2. QED
        BY <4>1
    <3> HIDE DEF v
    <3>4. v \in Seq(InputTokens) /\ Numbers(v) = 0 /\ Signs(v) = Len(v)
      BY <3>2, SignsOnly
    <3>5. Numbers(s \o v) = Numbers(s) /\ Signs(s \o v) = Signs(s) + Len(v)
      BY <1>3, <3>4, CountConcat DEF Numbers, Signs
    <3>6. Numbers(s \o v) > Signs(s \o v)
      BY <1>2, <1>3, <3>2, <3>5
    <3>7. ~IsNumber((s \o u)[n])
      BY <3>3, TokensDiffer DEF IsNumber
    <3>8. QED
      BY <3>1, <3>6, <3>7
  <2>3. QED
    BY <1>2, <2>1, <2>2
<1>6. QED
  BY <1>2, <1>4, <1>5 DEF Postfix

\* The next operand may always follow.
LEMMA PostfixNumber ==
  ASSUME NEW s \in Seq(InputTokens), Postfix(s), Signs(s) <= Numbers(s),
         Numbers(s) + 1 \in DOMAIN Plain
  PROVE  LET u == Append(s, Number(Numbers(s) + 1))
         IN  /\ u \in Seq(InputTokens) /\ Postfix(u)
             /\ Numbers(u) = Numbers(s) + 1 /\ Signs(u) = Signs(s)
             /\ \A T \in SUBSET SignTokens : Count(u, T) = Count(s, T)
<1> DEFINE x == Number(Numbers(s) + 1)
           u == Append(s, x)
<1>1. x \in NumberTokens /\ x \in InputTokens /\ x \notin SignTokens
  BY TokensDiffer DEF NumberTokens, InputTokens
<1> HIDE DEF x
<1>2. /\ u \in Seq(InputTokens) /\ Len(s) \in Nat /\ DOMAIN u = 1..Len(s) + 1
      /\ DOMAIN s = 1..Len(s) /\ u[Len(s) + 1] = x /\ SubSeq(u, 1, Len(s) + 1) = u
      /\ \A n \in 1..Len(s) : u[n] = s[n] /\ SubSeq(u, 1, n) = SubSeq(s, 1, n)
  BY <1>1
<1>3. Numbers(s) \in Nat /\ Signs(s) \in Nat
  BY CountsOfInput
<1>4. \A T : Count(u, T) = Count(s, T) + (IF x \in T THEN 1 ELSE 0) /\ Count(s, T) \in Nat
  BY <1>1, CountAppend, CountIsNat
<1> HIDE DEF u
<1>5. Numbers(u) = Numbers(s) + 1 /\ Signs(u) = Signs(s)
  BY <1>1, <1>3, <1>4 DEF Numbers, Signs
<1>6. \A T \in SUBSET SignTokens : Count(u, T) = Count(s, T)
  <2> SUFFICES ASSUME NEW T \in SUBSET SignTokens PROVE Count(u, T) = Count(s, T)
    OBVIOUS
  <2>1. x \notin T
    BY <1>1
  <2>2. QED
    BY <1>4, <2>1
<1>7. ASSUME NEW n \in DOMAIN u
      PROVE  /\ Numbers(SubSeq(u, 1, n)) > Signs(SubSeq(u, 1, n))
             /\ IsNumber(u[n]) => u[n] = Number(Numbers(SubSeq(u, 1, n)))
  <2>1. CASE n \in 1..Len(s)
    BY <1>2, <2>1 DEF Postfix
  <2>2. CASE n = Len(s) + 1
    <3>1. SubSeq(u, 1, n) = u /\ u[n] = x
      BY <1>2, <2>2
    <3>2. Numbers(u) > Signs(u)
      BY <1>3, <1>5
    <3>3. x = Number(Numbers(u))
      BY <1>5 DEF x
    <3>4. QED
      BY <3>1, <3>2, <3>3
  <2>3. QED
    BY <1>2, <2>1, <2>2
<1>8. QED
  BY <1>2, <1>5, <1>6, <1>7 DEF Postfix, u, x

\* What PopTo(k) moves.
LEMMA PoppedSigns ==
  ASSUME NEW s \in Seq(StackTokens), NEW k \in 0..Len(s),
         \A j \in k + 1..Len(s) : s[j] # Open
  PROVE  LET out == Reverse(SubSeq(s, k + 1, Len(s)))
             rest == SubSeq(s, 1, k)
         IN  /\ out \in Seq(SignTokens) /\ rest \in Seq(StackTokens)
             /\ \A T : Count(s, T) = Count(rest, T) + Count(out, T)
             /\ Signs(s) = Signs(rest) + Len(out) /\ Signs(rest) \in Nat /\ Len(out) \in Nat
<1> DEFINE top == SubSeq(s, k + 1, Len(s))
           rest == SubSeq(s, 1, k)
<1>a. k \in Nat /\ Len(s) \in Nat /\ k <= Len(s)
  OBVIOUS
<1>b. rest \in Seq(StackTokens) /\ Len(rest) = k
  BY <1>a
<1>c. /\ top \in Seq(StackTokens) /\ Len(top) = Len(s) - k
      /\ \A j \in 1..Len(top) : top[j] = s[k + j]
  BY <1>a
<1>d. s = rest \o top
  <2>1. 1 \in 1..Len(s) + 1 /\ k \in 1 - 1..Len(s) /\ Len(s) \in k..Len(s)
    BY <1>a
  <2>2. QED
    BY <2>1, ConcatAdjacentSubSeq, SubSeqFull
<1> HIDE DEF top, rest
<1>1. rest \in Seq(StackTokens) /\ top \in Seq(StackTokens) /\ s = rest \o top
  BY <1>b, <1>c, <1>d
<1>2. \A j \in 1..Len(top) : top[j] \in SignTokens
  <2> SUFFICES ASSUME NEW j \in 1..Len(top) PROVE top[j] \in SignTokens
    OBVIOUS
  <2>1. top[j] = s[k + j] /\ k + j \in k + 1..Len(s) /\ top[j] \in StackTokens
    BY <1>a, <1>c
  <2>2. QED
    BY <2>1 DEF StackTokens
<1>3. top \in Seq(SignTokens)
  BY <1>c, <1>2
<1>4. /\ Reverse(top) \in Seq(SignTokens)
      /\ \A T : Count(Reverse(top), T) = Count(top, T)
  BY <1>3, CountReverse
<1>5. \A T : Count(s, T) = Count(rest, T) + Count(Reverse(top), T)
  <2> SUFFICES ASSUME NEW T PROVE Count(s, T) = Count(rest, T) + Count(Reverse(top), T)
    OBVIOUS
  <2>1. Count(rest \o top, T) = Count(rest, T) + Count(top, T)
    BY <1>1, CountConcat
  <2>2. QED
    BY <1>1, <1>4, <2>1
<1>6. Signs(Reverse(top)) = Len(Reverse(top)) /\ Len(Reverse(top)) \in Nat
  BY <1>4, SignsOnly
<1>7. Signs(rest) \in Nat
  BY <1>1, CountIsNat DEF Signs
<1>8. Signs(s) = Signs(rest) + Len(Reverse(top))
  BY <1>5, <1>6 DEF Signs
<1>9. QED
  BY <1>1, <1>4, <1>5, <1>6, <1>7, <1>8 DEF top, rest

-----------------------------------------------------------------------------
\* shunt.

\* Where shunt stands.
ShuntInv ==
  /\ text \in Seq(Tokens \cup {Close})
  /\ operator_stack \in Seq(StackTokens)
  /\ input \in Seq(InputTokens)
  /\ found_operator \in BOOLEAN
  /\ \A T \in SUBSET SignTokens : Count(text, T) = Count(input, T) + Count(operator_stack, T)
  /\ Numbers(text) = Numbers(input)
  /\ Numbers(input) = Signs(input) + Signs(operator_stack) + (IF OperandExpected THEN 0 ELSE 1)
  /\ Postfix(input)
  /\ Signs(text) <= MaxOperators
  /\ phase \notin {"shunt", "rejected"} => operator_stack = <<>> /\ ~OperandExpected

\* ShuntInv without what is said of the next operand and of the end of the text.
LEMMA ShuntCounts ==
  ASSUME ShuntInv
  PROVE  /\ Numbers(text) \in Nat /\ Signs(text) \in Nat /\ MaxOperators \in Nat
         /\ Numbers(input) \in Nat /\ Signs(input) \in Nat /\ Signs(operator_stack) \in Nat
         /\ Signs(text) = Signs(input) + Signs(operator_stack)
         /\ Len(operator_stack) \in Nat /\ Len(Plain) \in Nat /\ DOMAIN Plain = 1..Len(Plain)
         /\ MaxOperators < Len(Plain)
<1>1. Signs(text) = Signs(input) + Signs(operator_stack)
  BY DEF ShuntInv, Signs
<1>2. /\ Numbers(text) \in Nat /\ Signs(text) \in Nat /\ Numbers(input) \in Nat
      /\ Signs(input) \in Nat /\ Signs(operator_stack) \in Nat
  BY CountIsNat DEF ShuntInv, Numbers, Signs
<1>3. Len(operator_stack) \in Nat
  BY DEF ShuntInv
<1>4. QED
  BY <1>1, <1>2, <1>3, ASTreeAssumption DEF ASTreeAssumption

\* What the last token says about the next.
LEMMA ExpectedAfter ==
  ASSUME NEW s, NEW x, text' = Append(text, x), text \in Seq(Tokens \cup {Close}),
         x \in Tokens \cup {Close}
  PROVE  OperandExpected' <=> x \in {Open} \cup SignTokens
<1>1. text' # <<>> /\ Last(text') = x
  BY DEF Last
<1>2. QED
  BY <1>1 DEF OperandExpected

\* What one more token of the text changes, whichever it is.
LEMMA TextGrows ==
  ASSUME ShuntInv, NEW x \in Tokens \cup {Close}, Read(x)
  PROVE  /\ text' \in Seq(Tokens \cup {Close})
         /\ phase = "shunt" /\ phase' = "shunt"
         /\ \A T : Count(text', T) = Count(text, T) + (IF x \in T THEN 1 ELSE 0)
         /\ \A T : Count(text, T) \in Nat
         /\ OperandExpected' <=> x \in {Open} \cup SignTokens
<1>1. /\ text' = Append(text, x) /\ text \in Seq(Tokens \cup {Close})
      /\ phase = "shunt" /\ phase' = "shunt"
  BY DEF ShuntInv, Read
<1>2. /\ \A T : Count(Append(text, x), T) = Count(text, T) + (IF x \in T THEN 1 ELSE 0)
      /\ \A T : Count(text, T) \in Nat
  BY <1>1, CountAppend, CountIsNat
<1>3. text' \in Seq(Tokens \cup {Close})
  BY <1>1
<1>4. QED
  BY <1>1, <1>2, <1>3, ExpectedAfter

\* An operand goes straight to the output.
LEMMA ReadNumberShunts ==
  ASSUME ShuntInv, ReadNumber
  PROVE  ShuntInv'
<1> DEFINE x == Number(Numbers(text) + 1)
<1>1. /\ OperandExpected /\ Read(x) /\ input' = Append(input, x)
      /\ operator_stack' = operator_stack /\ found_operator' = FALSE
  BY DEF ReadNumber
<1>2. Signs(input) <= Numbers(input) /\ Numbers(text) + 1 \in DOMAIN Plain
  BY <1>1, ShuntCounts DEF ShuntInv
<1>3. x \in NumberTokens /\ x \in Tokens \cup {Close}
  BY <1>2 DEF NumberTokens, Tokens
<1>4. x \notin SignTokens /\ x # Open
  BY <1>3, TokensDiffer DEF InputTokens
<1>5. /\ input' \in Seq(InputTokens) /\ Postfix(input')
      /\ Numbers(input') = Numbers(input) + 1 /\ Signs(input') = Signs(input)
      /\ \A T \in SUBSET SignTokens : Count(input', T) = Count(input, T)
  BY <1>1, <1>2, PostfixNumber DEF ShuntInv
<1> HIDE DEF x
<1>6. /\ text' \in Seq(Tokens \cup {Close}) /\ phase = "shunt" /\ phase' = "shunt"
      /\ \A T : Count(text', T) = Count(text, T) + (IF x \in T THEN 1 ELSE 0)
      /\ \A T : Count(text, T) \in Nat
      /\ ~OperandExpected'
  BY <1>1, <1>3, <1>4, TextGrows
<1>7. Numbers(text') = Numbers(text) + 1 /\ Signs(text') = Signs(text)
  BY <1>3, <1>4, <1>6 DEF Numbers, Signs
<1>8. \A T \in SUBSET SignTokens : Count(text', T) = Count(text, T)
  <2> SUFFICES ASSUME NEW T \in SUBSET SignTokens PROVE Count(text', T) = Count(text, T)
    OBVIOUS
  <2>1. x \notin T
    BY <1>4
  <2>2. QED
    BY <1>6, <2>1
<1>9. Numbers(input') = Signs(input') + Signs(operator_stack') + 1
  BY <1>1, <1>5, ShuntCounts DEF ShuntInv
<1>10. QED
  BY <1>1, <1>5, <1>6, <1>7, <1>8, <1>9 DEF ShuntInv

\* An open parenthesis waits on the stack and counts for nothing.
LEMMA ReadOpenShunts ==
  ASSUME ShuntInv, ReadOpen
  PROVE  ShuntInv'
<1>1. /\ OperandExpected /\ Read(Open) /\ input' = input
      /\ operator_stack' = Append(operator_stack, Open) /\ found_operator' = TRUE
  BY DEF ReadOpen
<1>2. Open \in Tokens \cup {Close} /\ Open \in StackTokens
  BY DEF Tokens, StackTokens
<1>3. Open \notin SignTokens /\ Open \notin NumberTokens
  BY TokensDiffer DEF InputTokens
<1>4. /\ text' \in Seq(Tokens \cup {Close}) /\ phase = "shunt" /\ phase' = "shunt"
      /\ \A T : Count(text', T) = Count(text, T) + (IF Open \in T THEN 1 ELSE 0)
      /\ \A T : Count(text, T) \in Nat
      /\ OperandExpected'
  BY <1>1, <1>2, TextGrows
<1>5. /\ operator_stack' \in Seq(StackTokens)
      /\ \A T : Count(operator_stack', T)
                  = Count(operator_stack, T) + (IF Open \in T THEN 1 ELSE 0)
      /\ \A T : Count(operator_stack, T) \in Nat
  BY <1>1, <1>2, CountAppend, CountIsNat DEF ShuntInv
<1>6. \A T : Open \notin T => /\ Count(text', T) = Count(text, T)
                              /\ Count(operator_stack', T) = Count(operator_stack, T)
  BY <1>4, <1>5
<1>7. /\ Numbers(text') = Numbers(text) /\ Signs(text') = Signs(text)
      /\ Signs(operator_stack') = Signs(operator_stack)
  BY <1>3, <1>6 DEF Numbers, Signs
<1>8. \A T \in SUBSET SignTokens :
        Count(text', T) = Count(input', T) + Count(operator_stack', T)
  BY <1>1, <1>3, <1>6 DEF ShuntInv
<1>9. Numbers(input') = Signs(input') + Signs(operator_stack') + 0
  BY <1>1, <1>7, ShuntCounts DEF ShuntInv
<1>10. QED
  BY <1>1, <1>4, <1>5, <1>7, <1>8, <1>9 DEF ShuntInv

\* The operators above position k move to the output.
LEMMA PopToShunts ==
  ASSUME ShuntInv, phase = "shunt", ~OperandExpected, NEW k \in 0..Len(operator_stack),
         \A j \in k + 1..Len(operator_stack) : operator_stack[j] # Open
  PROVE  LET rest == SubSeq(operator_stack, 1, k)
         IN  /\ PopTo(k) \in Seq(InputTokens) /\ Postfix(PopTo(k)) /\ rest \in Seq(StackTokens)
             /\ Numbers(PopTo(k)) = Numbers(input)
             /\ Numbers(PopTo(k)) = Signs(PopTo(k)) + Signs(rest) + 1
             /\ Signs(PopTo(k)) \in Nat /\ Signs(rest) \in Nat
             /\ \A T \in SUBSET SignTokens :
                  Count(text, T) = Count(PopTo(k), T) + Count(rest, T)
             /\ \A T : Count(PopTo(k), T) \in Nat /\ Count(rest, T) \in Nat
             /\ Len(PopTo(k)) = Len(input) + Len(operator_stack) - k
<1> DEFINE out == Reverse(SubSeq(operator_stack, k + 1, Len(operator_stack)))
           rest == SubSeq(operator_stack, 1, k)
<1>1. /\ operator_stack \in Seq(StackTokens) /\ input \in Seq(InputTokens) /\ Postfix(input)
      /\ Numbers(input) = Signs(input) + Signs(operator_stack) + 1
  BY DEF ShuntInv
<1>2. /\ out \in Seq(SignTokens) /\ rest \in Seq(StackTokens)
      /\ \A T : Count(operator_stack, T) = Count(rest, T) + Count(out, T)
      /\ Signs(operator_stack) = Signs(rest) + Len(out) /\ Signs(rest) \in Nat /\ Len(out) \in Nat
  BY <1>1, PoppedSigns
<1>3. PopTo(k) = input \o out
  BY DEF PopTo
<1>4. Len(out) = Len(operator_stack) - k
  <2>1. /\ SubSeq(operator_stack, k + 1, Len(operator_stack)) \in Seq(StackTokens)
        /\ Len(SubSeq(operator_stack, k + 1, Len(operator_stack))) = Len(operator_stack) - k
    BY <1>1
  <2>2. QED
    BY <2>1, CountReverse
<1> HIDE DEF out, rest
<1>5. Signs(input) + Len(out) < Numbers(input)
  <2>1. Signs(input) \in Nat /\ Numbers(input) \in Nat
    BY ShuntCounts
  <2>2. QED
    BY <1>1, <1>2, <2>1
<1>6. /\ input \o out \in Seq(InputTokens) /\ Postfix(input \o out)
      /\ Numbers(input \o out) = Numbers(input) /\ Signs(input \o out) = Signs(input) + Len(out)
  BY <1>1, <1>2, <1>5, PostfixSigns
<1>7. Numbers(input) = Signs(input) + Len(out) + Signs(rest) + 1
  BY <1>1, <1>2, ShuntCounts
<1>8. Signs(input) + Len(out) \in Nat
  BY <1>2, ShuntCounts
<1>9. out \in Seq(InputTokens)
  BY <1>2, SignsOnly
<1>10. \A T : Count(input \o out, T) = Count(input, T) + Count(out, T)
  BY <1>1, <1>9, CountConcat
<1>11. \A T : /\ Count(input, T) \in Nat /\ Count(out, T) \in Nat
              /\ Count(rest, T) \in Nat /\ Count(input \o out, T) \in Nat
  BY <1>1, <1>2, <1>6, CountIsNat
<1>12. ASSUME NEW T \in SUBSET SignTokens
       PROVE  Count(text, T) = Count(input \o out, T) + Count(rest, T)
  <2>1. Count(text, T) = Count(input, T) + Count(operator_stack, T)
    BY DEF ShuntInv
  <2>2. Count(operator_stack, T) = Count(rest, T) + Count(out, T)
    BY <1>2
  <2>3. Count(input \o out, T) = Count(input, T) + Count(out, T)
    BY <1>10
  <2>4. Count(input, T) \in Nat /\ Count(out, T) \in Nat /\ Count(rest, T) \in Nat
    BY <1>11
  <2>5. QED
    BY <2>1, <2>2, <2>3, <2>4
<1>13. Len(input \o out) = Len(input) + Len(operator_stack) - k
  <2>1. Len(input \o out) = Len(input) + Len(out)
    BY <1>1, <1>9
  <2>2. Len(input) \in Nat /\ Len(operator_stack) \in Nat /\ k \in Nat
    BY <1>1
  <2>3. QED
    BY <1>4, <2>1, <2>2
<1>14. QED
  BY <1>2, <1>3, <1>6, <1>7, <1>8, <1>11, <1>12, <1>13 DEF rest

\* A close parenthesis moves the operators of its group to the output, and drops the open one.
LEMMA ReadCloseShunts ==
  ASSUME ShuntInv, ReadClose
  PROVE  ShuntInv'
<1> DEFINE k == Max(OpenAt)
           rest == SubSeq(operator_stack, 1, k - 1)
<1>1. /\ ~OperandExpected /\ OpenAt # {} /\ Read(Close) /\ input' = PopTo(k)
      /\ operator_stack' = rest /\ found_operator' = FALSE
  BY DEF ReadClose
<1>2. operator_stack \in Seq(StackTokens) /\ DOMAIN operator_stack = 1..Len(operator_stack)
      /\ Len(operator_stack) \in Nat
  BY DEF ShuntInv
<1>3. k \in OpenAt /\ \A j \in OpenAt : j <= k
  <2>1. OpenAt \in SUBSET (1..Len(operator_stack))
    BY <1>2 DEF OpenAt
  <2>2. QED
    BY <1>1, <1>2, <2>1, MaxOfIndices
<1> HIDE DEF k
<1>4. k \in 1..Len(operator_stack) /\ operator_stack[k] = Open
  BY <1>2, <1>3 DEF OpenAt
<1>5. \A j \in k + 1..Len(operator_stack) : operator_stack[j] # Open
  <2> SUFFICES ASSUME NEW j \in k + 1..Len(operator_stack), operator_stack[j] = Open
               PROVE  FALSE
    OBVIOUS
  <2>1. j \in OpenAt
    BY <1>2, <1>4 DEF OpenAt
  <2>2. QED
    BY <1>2, <1>3, <1>4, <2>1
<1>6. Close \in Tokens \cup {Close} /\ Close \notin SignTokens /\ Close \notin NumberTokens
      /\ Close # Open /\ Open \notin SignTokens
  BY TokensDiffer DEF InputTokens
<1>7. /\ text' \in Seq(Tokens \cup {Close}) /\ phase = "shunt" /\ phase' = "shunt"
      /\ \A T : Count(text', T) = Count(text, T) + (IF Close \in T THEN 1 ELSE 0)
      /\ \A T : Count(text, T) \in Nat
      /\ ~OperandExpected'
  BY <1>1, <1>6, TextGrows
<1> DEFINE upTo == SubSeq(operator_stack, 1, k)
<1>8. k \in 0..Len(operator_stack)
  BY <1>2, <1>4
<1>9. /\ PopTo(k) \in Seq(InputTokens) /\ Postfix(PopTo(k)) /\ upTo \in Seq(StackTokens)
      /\ Numbers(PopTo(k)) = Numbers(input)
      /\ Numbers(PopTo(k)) = Signs(PopTo(k)) + Signs(upTo) + 1
      /\ \A T \in SUBSET SignTokens : Count(text, T) = Count(PopTo(k), T) + Count(upTo, T)
  BY <1>1, <1>5, <1>7, <1>8, PopToShunts
<1>10. rest \in Seq(StackTokens) /\ upTo = Append(rest, Open) /\ Open \in StackTokens
  <2>1. upTo = rest \o <<operator_stack[k]>>
    <3>1. 1 \in 1..Len(operator_stack) /\ k \in 1..Len(operator_stack)
      BY <1>2, <1>4
    <3>2. QED
      BY <1>2, <1>4, <3>1, SubSeqRecursiveSecond
  <2>2. rest \in Seq(StackTokens)
    BY <1>2, <1>4
  <2>3. QED
    BY <1>4, <2>1, <2>2 DEF StackTokens
<1> HIDE DEF rest, upTo
<1>11. \A T : Open \notin T => Count(upTo, T) = Count(rest, T)
  <2> SUFFICES ASSUME NEW T, Open \notin T PROVE Count(upTo, T) = Count(rest, T)
    OBVIOUS
  <2>1. Count(rest, T) \in Nat
    BY <1>10, CountIsNat
  <2>2. Count(Append(rest, Open), T) = Count(rest, T) + (IF Open \in T THEN 1 ELSE 0)
    BY <1>10, CountAppend
  <2>3. QED
    BY <1>10, <2>1, <2>2
<1>12. \A T : Close \notin T => Count(text', T) = Count(text, T)
  BY <1>7
<1>13. /\ Numbers(text') = Numbers(text) /\ Signs(text') = Signs(text)
       /\ Signs(rest) = Signs(upTo)
  BY <1>6, <1>11, <1>12 DEF Numbers, Signs
<1>14. \A T \in SUBSET SignTokens :
         Count(text', T) = Count(input', T) + Count(operator_stack', T)
  <2> SUFFICES ASSUME NEW T \in SUBSET SignTokens
               PROVE  Count(text', T) = Count(PopTo(k), T) + Count(rest, T)
    BY <1>1
  <2>1. Open \notin T /\ Close \notin T
    BY <1>6
  <2>2. QED
    BY <1>9, <1>11, <1>12, <2>1
<1>15. /\ Numbers(text') = Numbers(input')
       /\ Numbers(input') = Signs(input') + Signs(operator_stack') + 1
       /\ Signs(text') <= MaxOperators
  BY <1>1, <1>9, <1>13 DEF ShuntInv
<1>16. /\ operator_stack' \in Seq(StackTokens) /\ input' \in Seq(InputTokens)
       /\ found_operator' \in BOOLEAN /\ Postfix(input')
  BY <1>1, <1>9, <1>10
<1>17. QED
  BY <1>7, <1>14, <1>15, <1>16 DEF ShuntInv

\* What stays below an operator leaves no parenthesis above it.
LEMMA BelowIsTight ==
  ASSUME NEW o, operator_stack \in Seq(StackTokens)
  PROVE  /\ Below(o) \in 0..Len(operator_stack)
         /\ \A j \in Below(o) + 1..Len(operator_stack) : operator_stack[j] # Open
<1> DEFINE I == {i \in 1..Len(operator_stack) :
                   operator_stack[i] = Open \/ Precedence(operator_stack[i][2]) < Precedence(o)}
<1>1. Below(o) = IF I # {} THEN Max(I) ELSE 0
  BY DEF Below, SelectLastInSeq
<1>2. Len(operator_stack) \in Nat /\ I \in SUBSET (1..Len(operator_stack))
  OBVIOUS
<1>3. \A j \in 1..Len(operator_stack) : operator_stack[j] = Open => j \in I
  OBVIOUS
<1> HIDE DEF I
<1>4. CASE I = {}
  BY <1>1, <1>2, <1>3, <1>4
<1>5. CASE I # {}
  <2>1. Below(o) \in I /\ \A j \in I : j <= Below(o)
    BY <1>1, <1>2, <1>5, MaxOfIndices
  <2>2. Below(o) \in 1..Len(operator_stack)
    BY <1>2, <2>1
  <2>3. QED
    BY <1>2, <1>3, <2>1, <2>2
<1>6. QED
  BY <1>4, <1>5

\* An operator moves the stronger ones to the output, and no parenthesis.
LEMMA ReadOperatorShunts ==
  ASSUME ShuntInv, NEW o \in Operators, ReadOperator(o)
  PROVE  ShuntInv'
<1> DEFINE k == Below(o)
           rest == SubSeq(operator_stack, 1, k)
           x == Sign(o)
<1>1. /\ ~OperandExpected /\ Signs(text) < MaxOperators /\ Read(x) /\ input' = PopTo(k)
      /\ operator_stack' = Append(rest, x) /\ found_operator' = TRUE
  BY DEF ReadOperator
<1>2. operator_stack \in Seq(StackTokens)
  BY DEF ShuntInv
<1>3. /\ k \in 0..Len(operator_stack)
      /\ \A j \in k + 1..Len(operator_stack) : operator_stack[j] # Open
  BY <1>2, BelowIsTight
<1> HIDE DEF k
<1>4. x \in SignTokens /\ x \in Tokens \cup {Close} /\ x \in StackTokens /\ x \notin NumberTokens
  BY TokensDiffer DEF SignTokens, Tokens, StackTokens
<1> HIDE DEF x
<1>5. /\ text' \in Seq(Tokens \cup {Close}) /\ phase = "shunt" /\ phase' = "shunt"
      /\ \A T : Count(text', T) = Count(text, T) + (IF x \in T THEN 1 ELSE 0)
      /\ \A T : Count(text, T) \in Nat
      /\ OperandExpected'
  BY <1>1, <1>4, TextGrows
<1>6. /\ PopTo(k) \in Seq(InputTokens) /\ Postfix(PopTo(k)) /\ rest \in Seq(StackTokens)
      /\ Numbers(PopTo(k)) = Numbers(input)
      /\ Numbers(PopTo(k)) = Signs(PopTo(k)) + Signs(rest) + 1
      /\ Signs(PopTo(k)) \in Nat /\ Signs(rest) \in Nat
      /\ \A T \in SUBSET SignTokens : Count(text, T) = Count(PopTo(k), T) + Count(rest, T)
      /\ \A T : Count(PopTo(k), T) \in Nat /\ Count(rest, T) \in Nat
  BY <1>1, <1>3, <1>5, PopToShunts
<1> HIDE DEF rest
<1>7. /\ operator_stack' \in Seq(StackTokens)
      /\ \A T : Count(operator_stack', T) = Count(rest, T) + (IF x \in T THEN 1 ELSE 0)
  BY <1>1, <1>4, <1>6, CountAppend
<1>8. ASSUME NEW T \in SUBSET SignTokens
      PROVE  Count(text', T) = Count(input', T) + Count(operator_stack', T)
  <2>1. Count(text', T) = Count(text, T) + (IF x \in T THEN 1 ELSE 0)
    BY <1>5
  <2>2. Count(operator_stack', T) = Count(rest, T) + (IF x \in T THEN 1 ELSE 0)
    BY <1>7
  <2>3. Count(text, T) = Count(PopTo(k), T) + Count(rest, T)
    BY <1>6
  <2>4. Count(PopTo(k), T) \in Nat /\ Count(rest, T) \in Nat
    BY <1>6
  <2>5. QED
    BY <1>1, <2>1, <2>2, <2>3, <2>4
<1>9. /\ Signs(text') = Signs(text) + 1 /\ Numbers(text') = Numbers(text)
      /\ Signs(operator_stack') = Signs(rest) + 1
  BY <1>4, <1>5, <1>7 DEF Signs, Numbers
<1>10. /\ Numbers(text') = Numbers(input') /\ Signs(text') <= MaxOperators
       /\ Numbers(input') = Signs(input') + Signs(operator_stack') + 0
  <2>1. Signs(text) \in Nat /\ MaxOperators \in Nat
    BY ShuntCounts
  <2>2. Numbers(text) = Numbers(input)
    BY DEF ShuntInv
  <2>3. Numbers(text') = Numbers(input')
    BY <1>1, <1>6, <1>9, <2>2
  <2>4. Signs(text') <= MaxOperators
    BY <1>1, <1>9, <2>1
  <2>5. Numbers(input') = Signs(input') + Signs(operator_stack') + 0
    <3>1. Numbers(PopTo(k)) = Signs(PopTo(k)) + (Signs(rest) + 1) + 0
      BY <1>6
    <3>2. QED
      BY <1>1, <1>9, <3>1
  <2>6. QED
    BY <2>3, <2>4, <2>5
<1>11. input' \in Seq(InputTokens) /\ found_operator' \in BOOLEAN /\ Postfix(input')
  BY <1>1, <1>6
<1>12. QED
  BY <1>5, <1>7, <1>8, <1>10, <1>11 DEF ShuntInv

\* At the end of the text the whole stack moves, and the output is not empty.
LEMMA EndTextShunts ==
  ASSUME ShuntInv, EndText
  PROVE  ShuntInv' /\ Len(input') \in Nat \ {0}
<1>1. /\ phase = "shunt" /\ ~OperandExpected /\ OpenAt = {} /\ operator_stack # <<>>
      /\ input' = PopTo(0) /\ operator_stack' = <<>> /\ phase' = "insert"
      /\ text' = text /\ found_operator' = found_operator
  BY DEF EndText
<1>2. operator_stack \in Seq(StackTokens) /\ Len(operator_stack) \in Nat \ {0}
      /\ Len(input) \in Nat
  BY <1>1 DEF ShuntInv
<1>3. \A j \in 0 + 1..Len(operator_stack) : operator_stack[j] # Open
  BY <1>1, <1>2 DEF OpenAt
<1> DEFINE rest == SubSeq(operator_stack, 1, 0)
<1>4. /\ PopTo(0) \in Seq(InputTokens) /\ Postfix(PopTo(0))
      /\ Numbers(PopTo(0)) = Numbers(input)
      /\ Numbers(PopTo(0)) = Signs(PopTo(0)) + Signs(rest) + 1
      /\ \A T \in SUBSET SignTokens : Count(text, T) = Count(PopTo(0), T) + Count(rest, T)
      /\ Len(PopTo(0)) = Len(input) + Len(operator_stack) - 0
  <2>1. 0 \in 0..Len(operator_stack)
    BY <1>2
  <2>2. QED
    BY <1>1, <1>3, <2>1, PopToShunts
<1>5. rest = <<>>
  BY <1>2, SubSeqEmpty
<1>6. ~OperandExpected'
  BY <1>1 DEF OperandExpected
<1>7. /\ \A T \in SUBSET SignTokens :
           Count(text', T) = Count(input', T) + Count(operator_stack', T)
      /\ Numbers(text') = Numbers(input')
      /\ Numbers(input') = Signs(input') + Signs(operator_stack') + 1
      /\ Signs(text') <= MaxOperators /\ text' \in Seq(Tokens \cup {Close})
      /\ found_operator' \in BOOLEAN /\ Postfix(input') /\ input' \in Seq(InputTokens)
  BY <1>1, <1>4, <1>5 DEF ShuntInv
<1>8. operator_stack' \in Seq(StackTokens)
  BY <1>1
<1>9. Len(input') \in Nat \ {0}
  BY <1>1, <1>2, <1>4
<1>10. QED
  BY <1>1, <1>6, <1>7, <1>8, <1>9 DEF ShuntInv

\* The rest of the constructor leaves what shunt has made.
LEMMA OthersKeepShunt ==
  ASSUME ShuntInv, UNCHANGED shuntVars,
         phase' \notin {"shunt", "rejected"} => phase \notin {"shunt", "rejected"}
  PROVE  ShuntInv'
BY DEF ShuntInv, shuntVars, OperandExpected

\* Nothing is read, and an operand is expected.
LEMMA ShuntStarts == Init => ShuntInv
<1> SUFFICES ASSUME Init PROVE ShuntInv
  OBVIOUS
<1>1. /\ text = <<>> /\ operator_stack = <<>> /\ input = <<>> /\ found_operator = FALSE
      /\ phase = "shunt" /\ OperandExpected
  BY DEF Init, OperandExpected
<1>2. \A T : Count(<<>>, T) = 0
  BY CountEmpty
<1>3. Postfix(<<>>)
  BY DEF Postfix
<1>4. \A S : <<>> \in Seq(S)
  OBVIOUS
<1>5. MaxOperators \in Nat
  BY ASTreeAssumption DEF ASTreeAssumption
<1>6. /\ Numbers(text) = 0 /\ Numbers(input) = 0 /\ Signs(input) = 0
      /\ Signs(text) = 0 /\ Signs(operator_stack) = 0
      /\ \A T : Count(text, T) = 0 /\ Count(input, T) = 0 /\ Count(operator_stack, T) = 0
  BY <1>1, <1>2 DEF Numbers, Signs
<1>7. Signs(text) <= MaxOperators /\ Postfix(input)
  BY <1>1, <1>3, <1>5, <1>6
<1>8. /\ text \in Seq(Tokens \cup {Close}) /\ operator_stack \in Seq(StackTokens)
      /\ input \in Seq(InputTokens) /\ found_operator \in BOOLEAN
  BY <1>1, <1>4
<1>9. QED
  BY <1>1, <1>6, <1>7, <1>8 DEF ShuntInv

\* Every token read, and every step of build_tree, keeps ShuntInv.
LEMMA ShuntKept == ShuntInv /\ [Next]_vars => ShuntInv'
<1> SUFFICES ASSUME ShuntInv, [Next]_vars PROVE ShuntInv'
  OBVIOUS
<1>1. CASE ReadNumber
  BY <1>1, ReadNumberShunts
<1>2. CASE ReadOpen
  BY <1>2, ReadOpenShunts
<1>3. CASE ReadClose
  BY <1>3, ReadCloseShunts
<1>4. CASE EndText
  BY <1>4, EndTextShunts
<1>5. ASSUME NEW o \in Operators, ReadOperator(o) PROVE ShuntInv'
  BY <1>5, ReadOperatorShunts
<1>6. CASE Reject
  BY <1>6, OthersKeepShunt DEF Reject
<1>7. CASE Insert \/ Settle
  BY <1>7, OthersKeepShunt DEF Insert, Settle
<1>8. CASE RotateRight \/ RotateLeft \/ RotateLeftRight \/ RotateRightLeft \/ KeepShape
  <2>1. UNCHANGED shuntVars /\ phase = "reorg"
    BY <1>8 DEF RotateRight, RotateLeft, RotateLeftRight, RotateRightLeft, KeepShape, Ascend
  <2>2. QED
    BY <2>1, OthersKeepShunt
<1>9. CASE Ended \/ UNCHANGED vars
  BY <1>9, OthersKeepShunt DEF Ended, vars
<1>10. QED
  BY <1>1, <1>2, <1>3, <1>4, <1>5, <1>6, <1>7, <1>8, <1>9 DEF Next

\* What shunt hands to build_tree: the operands and operators of the text, in a
\* postfix order that leaves one value, for every set of operators, and every
\* number of operators and of parentheses.
THEOREM PostfixIsWellFormed == Spec => []PostfixWellFormed
<1>1. ShuntInv => PostfixWellFormed
  <2> SUFFICES ASSUME ShuntInv, phase \notin {"shunt", "rejected"}
               PROVE  /\ ToSet(input) \subseteq NumberTokens \cup SignTokens
                      /\ \A o \in Operators : Times(input, Sign(o)) = Times(text, Sign(o))
                      /\ Numbers(input) = Numbers(text) /\ Numbers(input) = Signs(input) + 1
                      /\ Postfix(input)
    BY DEF PostfixWellFormed, Postfix
  <2>1. operator_stack = <<>> /\ ~OperandExpected /\ Postfix(input)
    BY DEF ShuntInv
  <2>2. \A T : Count(operator_stack, T) = 0
    BY <2>1, CountEmpty
  <2>3. \A T : Count(input, T) \in Nat
    BY CountIsNat DEF ShuntInv
  <2>4. ASSUME NEW o \in Operators PROVE Times(input, Sign(o)) = Times(text, Sign(o))
    <3>1. {Sign(o)} \in SUBSET SignTokens
      BY DEF SignTokens
    <3>2. QED
      BY <2>2, <2>3, <3>1 DEF ShuntInv, Times
  <2>5. Numbers(input) = Numbers(text) /\ Numbers(input) = Signs(input) + 1
    BY <2>1, <2>2, ShuntCounts DEF ShuntInv, Signs
  <2>6. ToSet(input) \subseteq NumberTokens \cup SignTokens
    BY DEF ShuntInv, ToSet, InputTokens
  <2>7. QED
    BY <2>1, <2>4, <2>5, <2>6
<1>2. QED
  BY <1>1, ShuntStarts, ShuntKept, PTL DEF Spec

-----------------------------------------------------------------------------
\* Nodes, and the rotations.

\* One of m nodes: what it points to is one of them, or null.
Node(m) == [token : InputTokens, parent : 0..m, left : 0..m, right : 0..m, depth : Nat]

\* The children of a node, by the names of the fields.
Sides == {"left", "right"}

\* m nodes with the last m tokens of the input; operands have no children.
Tree(N, m) ==
  /\ N \in Seq(Node(m)) /\ Len(N) = m
  /\ \A n \in 1..m : N[n].token = input[Len(input) + 1 - n]
  /\ \A n \in 1..m : IsNumber(N[n].token) => N[n].left = Nil /\ N[n].right = Nil

\* One child of a node, read or set by the name of its side.
LEMMA SideOfNode ==
  ASSUME NEW m \in Nat, NEW r \in Node(m), NEW f \in Sides
  PROVE  /\ r[f] \in 0..m
         /\ f = "left" => r[f] = r.left
         /\ f = "right" => r[f] = r.right
         /\ \A v \in 0..m : LET q == [r EXCEPT ![f] = v]
                            IN  q \in Node(m) /\ q.token = r.token
<1>1. CASE f = "left"
  BY <1>1 DEF Node
<1>2. CASE f = "right"
  BY <1>2 DEF Node
<1>3. QED
  BY <1>1, <1>2 DEF Sides

\* An operator may get any child on either side.
LEMMA SetSide ==
  ASSUME NEW m \in Nat, NEW N, Tree(N, m), NEW n \in 1..m, NEW f \in Sides, NEW v \in 0..m,
         ~IsNumber(N[n].token)
  PROVE  Tree([N EXCEPT ![n][f] = v], m)
<1> DEFINE q == [N[n] EXCEPT ![f] = v]
           M == [N EXCEPT ![n][f] = v]
<1>1. N \in Seq(Node(m)) /\ Len(N) = m /\ DOMAIN N = 1..m /\ N[n] \in Node(m)
  BY DEF Tree
<1>2. q \in Node(m) /\ q.token = N[n].token
  BY <1>1, SideOfNode
<1>3. M = [N EXCEPT ![n] = q]
  OBVIOUS
<1> HIDE DEF q, M
<1>4. /\ M \in Seq(Node(m)) /\ Len(M) = m
      /\ \A k \in 1..m : M[k] = IF k = n THEN q ELSE N[k]
  BY <1>1, <1>2, <1>3
<1>5. QED
  BY <1>2, <1>4 DEF Tree, M

\* Any node may get any parent.
LEMMA SetParent ==
  ASSUME NEW m \in Nat, NEW N, Tree(N, m), NEW n \in 1..m, NEW v \in 0..m
  PROVE  Tree([N EXCEPT ![n].parent = v], m)
<1> DEFINE q == [N[n] EXCEPT !.parent = v]
           M == [N EXCEPT ![n].parent = v]
<1>1. N \in Seq(Node(m)) /\ Len(N) = m /\ DOMAIN N = 1..m /\ N[n] \in Node(m)
  BY DEF Tree
<1>2. /\ q \in Node(m) /\ q.token = N[n].token
      /\ q.left = N[n].left /\ q.right = N[n].right
  BY <1>1 DEF Node
<1>3. M = [N EXCEPT ![n] = q]
  OBVIOUS
<1> HIDE DEF q, M
<1>4. /\ M \in Seq(Node(m)) /\ Len(M) = m
      /\ \A k \in 1..m : M[k] = IF k = n THEN q ELSE N[k]
  BY <1>1, <1>2, <1>3
<1>5. QED
  BY <1>2, <1>4 DEF Tree, M

\* Any node may get any depth.
LEMMA SetDepth ==
  ASSUME NEW m \in Nat, NEW N, Tree(N, m), NEW n \in 1..m, NEW v \in Nat
  PROVE  Tree([N EXCEPT ![n].depth = v], m)
<1> DEFINE q == [N[n] EXCEPT !.depth = v]
           M == [N EXCEPT ![n].depth = v]
<1>1. N \in Seq(Node(m)) /\ Len(N) = m /\ DOMAIN N = 1..m /\ N[n] \in Node(m)
  BY DEF Tree
<1>2. /\ q \in Node(m) /\ q.token = N[n].token
      /\ q.left = N[n].left /\ q.right = N[n].right
  BY <1>1 DEF Node
<1>3. M = [N EXCEPT ![n] = q]
  OBVIOUS
<1> HIDE DEF q, M
<1>4. /\ M \in Seq(Node(m)) /\ Len(M) = m
      /\ \A k \in 1..m : M[k] = IF k = n THEN q ELSE N[k]
  BY <1>1, <1>2, <1>3
<1>5. QED
  BY <1>2, <1>4 DEF Tree, M

\* What a node of a tree points to is a node or null.
LEMMA NodeOfTree ==
  ASSUME NEW m \in Nat, NEW N, Tree(N, m), NEW n \in 1..m
  PROVE  /\ N[n] \in Node(m) /\ N[n].parent \in 0..m /\ N[n].left \in 0..m /\ N[n].right \in 0..m
         /\ N[n].depth \in Nat
         /\ \A f \in Sides : N[n][f] \in 0..m
         /\ IsNumber(N[n].token) => N[n].left = Nil /\ N[n].right = Nil
<1>1. N[n] \in Node(m) /\ (IsNumber(N[n].token) => N[n].left = Nil /\ N[n].right = Nil)
  BY DEF Tree
<1>2. \A f \in Sides : N[n][f] \in 0..m
  BY <1>1, SideOfNode
<1>3. QED
  BY <1>1, <1>2 DEF Node

\* compute_max_depth, on any node.
LEMMA MeasureKeeps ==
  ASSUME NEW m \in Nat, NEW N, Tree(N, m), NEW n \in 1..m
  PROVE  Tree(Measure(N, n), m)
<1>1. DepthOf(N, N[n].left) \in Nat /\ DepthOf(N, N[n].right) \in Nat
  BY NodeOfTree DEF DepthOf, Nil
<1>2. \A a, b \in Nat : Max({a, b}) \in Nat
  <2> SUFFICES ASSUME NEW a \in Nat, NEW b \in Nat PROVE Max({a, b}) \in Nat
    OBVIOUS
  <2>1. \E x \in {a, b} : \A y \in {a, b} : x >= y
    OBVIOUS
  <2>2. Max({a, b}) \in {a, b}
    BY <2>1 DEF Max
  <2>3. QED
    BY <2>2
<1> DEFINE d == Max({DepthOf(N, N[n].left), DepthOf(N, N[n].right)})
                  + (IF IsProduct(N, n) THEN 1 ELSE 0)
<1>3. d \in Nat
  BY <1>1, <1>2
<1>4. Measure(N, n) = [N EXCEPT ![n].depth = d]
  BY DEF Measure
<1> HIDE DEF d
<1>5. Tree([N EXCEPT ![n].depth = d], m)
  BY <1>3, SetDepth
<1>6. QED
  BY <1>4, <1>5

\* compute_max_depth changes no token and no child.
LEMMA MeasureShape ==
  ASSUME NEW m \in Nat, NEW N, Tree(N, m), NEW n \in 1..m, NEW k \in 1..m
  PROVE  /\ Measure(N, n)[k].token = N[k].token
         /\ Measure(N, n)[k].left = N[k].left /\ Measure(N, n)[k].right = N[k].right
         /\ Measure(N, n)[k].parent = N[k].parent
         /\ \A f \in Sides : Measure(N, n)[k][f] = N[k][f]
<1> DEFINE d == Max({DepthOf(N, N[n].left), DepthOf(N, N[n].right)})
                  + (IF IsProduct(N, n) THEN 1 ELSE 0)
           q == [N[n] EXCEPT !.depth = d]
<1>1. N \in Seq(Node(m)) /\ DOMAIN N = 1..m /\ N[n] \in Node(m) /\ N[k] \in Node(m)
  BY DEF Tree
<1>2. Measure(N, n) = [N EXCEPT ![n] = q]
  BY DEF Measure
<1> HIDE DEF d
<1>3. /\ q.token = N[n].token /\ q.left = N[n].left /\ q.right = N[n].right
      /\ q.parent = N[n].parent /\ \A f \in Sides : q[f] = N[n][f]
  BY <1>1 DEF Node, Sides
<1> HIDE DEF q
<1>4. Measure(N, n)[k] = IF k = n THEN q ELSE N[k]
  BY <1>1, <1>2
<1>5. QED
  BY <1>3, <1>4

\* A product is an operator and a node.
LEMMA ProductIsSign ==
  ASSUME NEW N, NEW n, IsProduct(N, n)
  PROVE  n # Nil /\ ~IsNumber(N[n].token)
<1>1. n # Nil /\ N[n].token = <<"sign", "*">>
  BY DEF IsProduct, Sign
<1>2. \A k : Number(k) # <<"sign", "*">>
  BY DEF Number
<1>3. QED
  BY <1>1, <1>2 DEF IsNumber, NumberTokens

\* notify_child_change, with any new child.
LEMMA NotifyKeeps ==
  ASSUME NEW m \in Nat, NEW N, Tree(N, m), NEW p \in 0..m, NEW new \in 0..m, NEW old \in 1..m
  PROVE  Tree(NotifyChildChange(N, p, new, old), m)
<1>1. CASE p # Nil /\ old \in {N[p].left, N[p].right}
  <2>1. p \in 1..m /\ old # Nil
    BY <1>1 DEF Nil
  <2>2. ~IsNumber(N[p].token)
    BY <1>1, <2>1, NodeOfTree
  <2> DEFINE f == IF N[p].right = old THEN "right" ELSE "left"
  <2>3. f \in Sides
    BY DEF Sides
  <2>4. NotifyChildChange(N, p, new, old) = [N EXCEPT ![p][f] = new]
    BY <1>1 DEF NotifyChildChange
  <2> HIDE DEF f
  <2>5. Tree([N EXCEPT ![p][f] = new], m)
    BY <2>1, <2>2, <2>3, SetSide
  <2>6. QED
    BY <2>4, <2>5
<1>2. CASE ~(p # Nil /\ old \in {N[p].left, N[p].right})
  BY <1>2 DEF NotifyChildChange
<1>3. QED
  BY <1>1, <1>2

\* The pointers of a rotation: only operators change children.
LEMMA TurnedKeeps ==
  ASSUME NEW m \in Nat, NEW N, Tree(N, m), NEW n \in 1..m, NEW up \in Sides, NEW down \in Sides,
         ~IsNumber(N[n].token), N[n][up] \in 1..m, ~IsNumber(N[N[n][up]].token)
  PROVE  Tree(Turned(N, n, up, down), m)
<1> DEFINE x == N[n][up]
           A == [N EXCEPT ![x][down] = n]
           B == [A EXCEPT ![n][up] = N[x][down]]
           C == [B EXCEPT ![x].parent = N[n].parent]
           D == NotifyChildChange(C, N[n].parent, x, n)
<1>1. x \in 1..m /\ N[x][down] \in 0..m /\ N[n].parent \in 0..m /\ n \in 0..m /\ x \in 0..m
  BY NodeOfTree
<1>2. Turned(N, n, up, down) = [D EXCEPT ![n].parent = x]
  BY DEF Turned
<1> HIDE DEF x
<1>3. Tree(A, m)
  BY <1>1, SetSide DEF x
<1>4. ~IsNumber(A[n].token)
  BY <1>3 DEF Tree
<1> HIDE DEF A
<1>5. Tree(B, m)
  BY <1>1, <1>3, <1>4, SetSide
<1> HIDE DEF B
<1>6. Tree(C, m)
  BY <1>1, <1>5, SetParent
<1> HIDE DEF C
<1>7. Tree(D, m)
  BY <1>1, <1>6, NotifyKeeps
<1> HIDE DEF D
<1>8. Tree([D EXCEPT ![n].parent = x], m)
  BY <1>1, <1>7, SetParent
<1>9. QED
  BY <1>2, <1>8

\* A rotation, with both depths measured.
LEMMA RotateKeeps ==
  ASSUME NEW m \in Nat, NEW N, Tree(N, m), NEW n \in 1..m, NEW up \in Sides, NEW down \in Sides,
         ~IsNumber(N[n].token), N[n][up] \in 1..m, ~IsNumber(N[N[n][up]].token)
  PROVE  Tree(Rotate(N, n, up, down), m)
<1> DEFINE T == Turned(N, n, up, down)
<1>1. Tree(T, m)
  BY TurnedKeeps
<1> HIDE DEF T
<1>2. Tree(Measure(T, n), m)
  BY <1>1, MeasureKeeps
<1>3. Tree(Measure(Measure(T, n), N[n][up]), m)
  BY <1>2, MeasureKeeps
<1>4. QED
  BY <1>3 DEF Rotate, T

\* The nodes that may have children.
SignNodes(N, m) == {n \in 1..m : ~IsNumber(N[n].token)}

\* Two trees over the same input have their operators at the same nodes.
LEMMA SameSigns ==
  ASSUME NEW m \in Nat, NEW N, NEW M, Tree(N, m), Tree(M, m)
  PROVE  SignNodes(N, m) = SignNodes(M, m)
BY DEF Tree, SignNodes

\* Where build_tree stands.
BuildInv ==
  LET m == Len(nodes) IN
  /\ phase \in {"shunt", "rejected", "insert", "reorg", "settle", "done"}
  /\ m = IF phase \in {"shunt", "rejected"} THEN 0 ELSE Len(input) - left_to_read
  /\ left_to_read \in 0..Len(input)
  /\ phase \in {"shunt", "rejected"} => left_to_read = 0
  /\ phase = "insert" => left_to_read # 0
  /\ phase = "done" => left_to_read = 0
  /\ phase = "reorg" => at # Nil
  /\ phase \in {"reorg", "settle", "done"} => m # 0
  /\ Tree(nodes, m)
  /\ root \in 0..m /\ at \in 0..m
  /\ curr_node \in {Nil} \cup SignNodes(nodes, m)
  /\ node_stack \in Seq(SignNodes(nodes, m))
  /\ is_full \in BOOLEAN

\* The nodes after a rotation, or after none, and where reorg_from goes on.
LEMMA AscendBuilds ==
  ASSUME ShuntInv, BuildInv, phase = "reorg",
         NEW N, Tree(N, Len(nodes)), NEW curr \in 1..Len(nodes), Ascend(N, curr),
         node_stack' \in Seq(SignNodes(nodes, Len(nodes)))
  PROVE  BuildInv'
<1> DEFINE m == Len(nodes)
<1>1. /\ nodes' = N /\ at' = N[curr].parent /\ input' = input
      /\ left_to_read' = left_to_read /\ curr_node' = curr_node /\ is_full' = is_full
      /\ \/ N[curr].parent = Nil /\ root' = curr /\ phase' = "settle"
         \/ N[curr].parent # Nil /\ root' = root /\ phase' = phase
  BY DEF Ascend, shuntVars
<1>2. /\ m \in Nat /\ Tree(nodes, m) /\ Tree(nodes', m)
      /\ Len(nodes') = m
  <2>1. Tree(nodes, m) /\ nodes \in Seq(Node(m))
    BY DEF BuildInv, Tree
  <2>2. m \in Nat
    BY <2>1
  <2>3. Tree(nodes', m)
    BY <1>1
  <2>4. Len(nodes') = m
    BY <2>3 DEF Tree
  <2>5. QED
    BY <2>1, <2>2, <2>3, <2>4
<1>3. SignNodes(nodes', m) = SignNodes(nodes, m)
  BY <1>1, <1>2, SameSigns
<1>4. Tree(nodes, Len(nodes))'
  <2> HIDE DEF m
  <2>1. QED
    BY <1>1, <1>2 DEF Tree
<1>5. at' \in 0..m
  BY <1>1, <1>2, NodeOfTree
<1>6. root' \in 0..m
  BY <1>1, <1>2 DEF BuildInv
<1>7. /\ curr_node' \in {Nil} \cup SignNodes(nodes', m)
      /\ node_stack' \in Seq(SignNodes(nodes', m))
  BY <1>1, <1>3 DEF BuildInv
<1>8. /\ phase' \in {"reorg", "settle"} /\ (phase' = "reorg" => at' # Nil)
      /\ m = Len(input') - left_to_read' /\ m # 0 /\ left_to_read' \in 0..Len(input')
      /\ is_full' \in BOOLEAN
  BY <1>1 DEF BuildInv
<1>9. SignNodes(nodes, Len(nodes))' = SignNodes(nodes', m)
  BY <1>2 DEF SignNodes
<1> HIDE DEF m
<1>10. QED
  BY <1>2, <1>4, <1>5, <1>6, <1>7, <1>8, <1>9 DEF BuildInv

\* A rotation at n to the side it can rotate to.
LEMMA RotatableSides ==
  ASSUME NEW m \in Nat, NEW N, Tree(N, m), NEW n \in 0..m, NEW up \in Sides, CanRotate(N, n, up)
  PROVE  /\ n \in SignNodes(N, m) /\ N[n][up] \in SignNodes(N, m)
         /\ n \in 1..m /\ ~IsNumber(N[n].token)
         /\ N[n][up] \in 1..m /\ ~IsNumber(N[N[n][up]].token)
<1>1. n # Nil /\ ~IsNumber(N[n].token)
  BY ProductIsSign DEF CanRotate
<1>2. N[n][up] # Nil /\ ~IsNumber(N[N[n][up]].token)
  BY ProductIsSign DEF CanRotate
<1>3. n \in 1..m
  BY <1>1 DEF Nil
<1>4. N[n][up] \in 1..m
  BY <1>2, <1>3, NodeOfTree DEF Nil
<1>5. QED
  BY <1>1, <1>2, <1>3, <1>4 DEF SignNodes

\* The node at which reorg_from stands, just measured.
LEMMA HereIsTree ==
  ASSUME ShuntInv, BuildInv, phase = "reorg"
  PROVE  /\ Len(nodes) \in Nat /\ at \in 1..Len(nodes) /\ Tree(Here, Len(nodes))
         /\ SignNodes(Here, Len(nodes)) = SignNodes(nodes, Len(nodes))
         /\ node_stack \in Seq(SignNodes(nodes, Len(nodes)))
<1>1. /\ Len(nodes) \in Nat /\ at \in 1..Len(nodes) /\ Tree(nodes, Len(nodes))
      /\ node_stack \in Seq(SignNodes(nodes, Len(nodes)))
  BY DEF BuildInv, Nil, Tree
<1>2. Tree(Here, Len(nodes))
  BY <1>1, MeasureKeeps DEF Here
<1>3. QED
  BY <1>1, <1>2, SameSigns

\* right_rotate alone.
LEMMA RotateRightBuilds ==
  ASSUME ShuntInv, BuildInv, RotateRight PROVE BuildInv'
<1>1. /\ phase = "reorg" /\ CanRotate(Here, at, "left")
      /\ Ascend(RightRotate(Here, at), L) /\ node_stack' = node_stack
  BY DEF RotateRight, LeftHeavy
<1>2. /\ Len(nodes) \in Nat /\ at \in 1..Len(nodes) /\ Tree(Here, Len(nodes))
      /\ node_stack \in Seq(SignNodes(nodes, Len(nodes)))
  BY <1>1, HereIsTree
<1>3. /\ ~IsNumber(Here[at].token) /\ Here[at]["left"] \in 1..Len(nodes)
      /\ ~IsNumber(Here[Here[at]["left"]].token)
  BY <1>1, <1>2, RotatableSides DEF Sides
<1>4. L \in 1..Len(nodes)
  BY <1>3 DEF L
<1>5. Tree(RightRotate(Here, at), Len(nodes))
  BY <1>2, <1>3, RotateKeeps DEF RightRotate, Sides
<1>6. QED
  BY <1>1, <1>2, <1>4, <1>5, AscendBuilds

\* left_rotate alone.
LEMMA RotateLeftBuilds ==
  ASSUME ShuntInv, BuildInv, RotateLeft PROVE BuildInv'
<1>1. /\ phase = "reorg" /\ CanRotate(Here, at, "right")
      /\ Ascend(LeftRotate(Here, at), R) /\ node_stack' = node_stack
  BY DEF RotateLeft, RightHeavy
<1>2. /\ Len(nodes) \in Nat /\ at \in 1..Len(nodes) /\ Tree(Here, Len(nodes))
      /\ node_stack \in Seq(SignNodes(nodes, Len(nodes)))
  BY <1>1, HereIsTree
<1>3. /\ ~IsNumber(Here[at].token) /\ Here[at]["right"] \in 1..Len(nodes)
      /\ ~IsNumber(Here[Here[at]["right"]].token)
  BY <1>1, <1>2, RotatableSides DEF Sides
<1>4. R \in 1..Len(nodes)
  BY <1>3 DEF R
<1>5. Tree(LeftRotate(Here, at), Len(nodes))
  BY <1>2, <1>3, RotateKeeps DEF LeftRotate, Sides
<1>6. QED
  BY <1>1, <1>2, <1>4, <1>5, AscendBuilds

\* No rotation: reorg_from goes on at the parent.
LEMMA KeepShapeBuilds ==
  ASSUME ShuntInv, BuildInv, KeepShape PROVE BuildInv'
<1>1. phase = "reorg" /\ Ascend(Here, at) /\ node_stack' = node_stack
  BY DEF KeepShape
<1>2. QED
  BY <1>1, HereIsTree, AscendBuilds

-----------------------------------------------------------------------------
\* build_tree.

\* The side in which a double rotation has put the inner one.
LEMMA SetInner ==
  ASSUME NEW m \in Nat, NEW N, Tree(N, m), NEW n \in SignNodes(N, m), NEW v \in SignNodes(N, m)
  PROVE  /\ Tree([N EXCEPT ![n].left = v], m) /\ Tree([N EXCEPT ![n].right = v], m)
         /\ [N EXCEPT ![n].left = v][n].left = v /\ [N EXCEPT ![n].right = v][n].right = v
<1>1. n \in 1..m /\ ~IsNumber(N[n].token) /\ v \in 0..m
  BY DEF SignNodes
<1>2. \A f \in Sides : Tree([N EXCEPT ![n][f] = v], m)
  BY <1>1, SetSide
<1>3. "left" \in Sides /\ "right" \in Sides
  BY DEF Sides
<1>4. Tree([N EXCEPT ![n].left = v], m) /\ Tree([N EXCEPT ![n].right = v], m)
  BY <1>2, <1>3
<1>5. N \in Seq(Node(m)) /\ DOMAIN N = 1..m /\ N[n] \in Node(m)
  BY <1>1 DEF Tree
<1>6. /\ [N[n] EXCEPT !.left = v].left = v
      /\ [N[n] EXCEPT !.right = v].right = v
  BY <1>5 DEF Node
<1>7. /\ [N EXCEPT ![n].left = v][n] = [N[n] EXCEPT !.left = v]
      /\ [N EXCEPT ![n].right = v][n] = [N[n] EXCEPT !.right = v]
  BY <1>1, <1>5
<1>8. QED
  BY <1>4, <1>6, <1>7

\* The node with a free place is pushed.
LEMMA PushSign ==
  ASSUME NEW S, NEW s \in Seq(S), NEW x \in S
  PROVE  Append(s, x) \in Seq(S)
OBVIOUS

\* A left rotation below, put back as the left child, and a right one.
LEMMA RotateLeftRightBuilds ==
  ASSUME ShuntInv, BuildInv, RotateLeftRight PROVE BuildInv'
<1> DEFINE m == Len(nodes)
           first == LeftRotate(Here, L)
           inner == [first EXCEPT ![at].left = Here[L].right]
<1>1. /\ phase = "reorg" /\ CanRotate(Here, at, "left") /\ CanRotate(Here, L, "right")
      /\ Ascend(RightRotate(inner, at), inner[at].left)
      /\ node_stack' = Append(node_stack, at)
  BY DEF RotateLeftRight, LeftHeavy
<1>2. /\ m \in Nat /\ at \in 1..m /\ Tree(Here, m)
      /\ SignNodes(Here, m) = SignNodes(nodes, m)
      /\ node_stack \in Seq(SignNodes(nodes, m))
  BY <1>1, HereIsTree
<1> HIDE DEF m
<1>3. at \in SignNodes(Here, m) /\ L \in SignNodes(Here, m) /\ L \in 1..m
  BY <1>1, <1>2, RotatableSides DEF Sides, L, SignNodes
<1>4. /\ Here[L]["right"] \in SignNodes(Here, m) /\ ~IsNumber(Here[L].token)
      /\ Here[L]["right"] \in 1..m /\ ~IsNumber(Here[Here[L]["right"]].token)
  BY <1>1, <1>2, <1>3, RotatableSides DEF Sides
<1>5. Tree(first, m)
  <2>1. Tree(Rotate(Here, L, "right", "left"), m)
    BY <1>2, <1>3, <1>4, RotateKeeps DEF Sides
  <2>2. QED
    BY <2>1 DEF LeftRotate
<1> HIDE DEF first
<1>6. SignNodes(first, m) = SignNodes(Here, m)
  BY <1>2, <1>5, SameSigns
<1>7. /\ Tree(inner, m) /\ inner[at].left = Here[L].right
  <2> DEFINE v == Here[L].right
  <2>1. at \in SignNodes(first, m) /\ v \in SignNodes(first, m)
    BY <1>3, <1>4, <1>6
  <2> HIDE DEF v
  <2>2. /\ Tree([first EXCEPT ![at].left = v], m)
        /\ [first EXCEPT ![at].left = v][at].left = v
    BY <1>2, <1>5, <2>1, SetInner
  <2>3. QED
    BY <2>2 DEF v
<1>8. SignNodes(inner, m) = SignNodes(Here, m)
  BY <1>2, <1>7, SameSigns
<1> HIDE DEF inner
<1>9. /\ inner[at]["left"] \in 1..m /\ ~IsNumber(inner[inner[at]["left"]].token)
      /\ ~IsNumber(inner[at].token)
  BY <1>3, <1>4, <1>7, <1>8 DEF SignNodes
<1>10. Tree(RightRotate(inner, at), m)
  <2>1. Tree(Rotate(inner, at, "left", "right"), m)
    BY <1>2, <1>7, <1>9, RotateKeeps DEF Sides
  <2>2. QED
    BY <2>1 DEF RightRotate
<1>11. node_stack' \in Seq(SignNodes(nodes, m))
  BY <1>1, <1>2, <1>3, PushSign
<1>12. inner[at].left \in 1..m
  BY <1>9
<1>13. QED
  BY <1>1, <1>10, <1>11, <1>12, AscendBuilds DEF m

\* A right rotation below, put back as the right child, and a left one.
LEMMA RotateRightLeftBuilds ==
  ASSUME ShuntInv, BuildInv, RotateRightLeft PROVE BuildInv'
<1> DEFINE m == Len(nodes)
           first == RightRotate(Here, R)
           inner == [first EXCEPT ![at].right = Here[R].left]
<1>1. /\ phase = "reorg" /\ CanRotate(Here, at, "right") /\ CanRotate(Here, R, "left")
      /\ Ascend(LeftRotate(inner, at), inner[at].right)
      /\ node_stack' = Append(node_stack, R)
  BY DEF RotateRightLeft, RightHeavy
<1>2. /\ m \in Nat /\ at \in 1..m /\ Tree(Here, m)
      /\ SignNodes(Here, m) = SignNodes(nodes, m)
      /\ node_stack \in Seq(SignNodes(nodes, m))
  BY <1>1, HereIsTree
<1> HIDE DEF m
<1>3. at \in SignNodes(Here, m) /\ R \in SignNodes(Here, m) /\ R \in 1..m
  BY <1>1, <1>2, RotatableSides DEF Sides, R, SignNodes
<1>4. /\ Here[R]["left"] \in SignNodes(Here, m) /\ ~IsNumber(Here[R].token)
      /\ Here[R]["left"] \in 1..m /\ ~IsNumber(Here[Here[R]["left"]].token)
  BY <1>1, <1>2, <1>3, RotatableSides DEF Sides
<1>5. Tree(first, m)
  <2>1. Tree(Rotate(Here, R, "left", "right"), m)
    BY <1>2, <1>3, <1>4, RotateKeeps DEF Sides
  <2>2. QED
    BY <2>1 DEF RightRotate
<1> HIDE DEF first
<1>6. SignNodes(first, m) = SignNodes(Here, m)
  BY <1>2, <1>5, SameSigns
<1>7. /\ Tree(inner, m) /\ inner[at].right = Here[R].left
  <2> DEFINE v == Here[R].left
  <2>1. at \in SignNodes(first, m) /\ v \in SignNodes(first, m)
    BY <1>3, <1>4, <1>6
  <2> HIDE DEF v
  <2>2. /\ Tree([first EXCEPT ![at].right = v], m)
        /\ [first EXCEPT ![at].right = v][at].right = v
    BY <1>2, <1>5, <2>1, SetInner
  <2>3. QED
    BY <2>2 DEF v
<1>8. SignNodes(inner, m) = SignNodes(Here, m)
  BY <1>2, <1>7, SameSigns
<1> HIDE DEF inner
<1>9. /\ inner[at]["right"] \in 1..m /\ ~IsNumber(inner[inner[at]["right"]].token)
      /\ ~IsNumber(inner[at].token)
  BY <1>3, <1>4, <1>7, <1>8 DEF SignNodes
<1>10. Tree(LeftRotate(inner, at), m)
  <2>1. Tree(Rotate(inner, at, "right", "left"), m)
    BY <1>2, <1>7, <1>9, RotateKeeps DEF Sides
  <2>2. QED
    BY <2>1 DEF LeftRotate
<1>11. node_stack' \in Seq(SignNodes(nodes, m))
  BY <1>1, <1>2, <1>3, PushSign
<1>12. inner[at].right \in 1..m
  BY <1>9
<1>13. QED
  BY <1>1, <1>10, <1>11, <1>12, AscendBuilds DEF m

\* A token of the input becomes a node without children.
LEMMA NodeAdded ==
  ASSUME NEW m \in Nat, NEW N, Tree(N, m), NEW p \in 0..m, m < Len(input), input \in Seq(InputTokens)
  PROVE  LET token == input[Len(input) - m]
             added == Append(N, NewNode(token, p))
         IN  /\ Tree(added, m + 1) /\ added[m + 1].token = token
             /\ \A n \in 1..m : added[n] = N[n]
             /\ SignNodes(N, m) \subseteq SignNodes(added, m + 1)
<1> DEFINE token == input[Len(input) - m]
           new == NewNode(token, p)
           added == Append(N, new)
<1>1. Len(input) \in Nat /\ token \in InputTokens
  <2>1. Len(input) \in Nat /\ Len(input) - m \in 1..Len(input)
    OBVIOUS
  <2>2. QED
    BY <2>1
<1>2. /\ new \in Node(m + 1) /\ new.token = token /\ new.left = Nil /\ new.right = Nil
  BY <1>1 DEF NewNode, Node, Nil
<1>3. N \in Seq(Node(m)) /\ Len(N) = m
  BY DEF Tree
<1>4. Node(m) \subseteq Node(m + 1)
  BY DEF Node
<1>5. N \in Seq(Node(m + 1))
  BY <1>3, <1>4
<1> HIDE DEF new
<1>6. /\ added \in Seq(Node(m + 1)) /\ Len(added) = m + 1 /\ added[m + 1] = new
      /\ \A n \in 1..m : added[n] = N[n]
  BY <1>2, <1>3, <1>5
<1> HIDE DEF added
<1>7. /\ \A n \in 1..m + 1 : n \in 1..m \/ n = m + 1
      /\ Len(input) + 1 - (m + 1) = Len(input) - m
  BY <1>1
<1>8. \A n \in 1..m + 1 : added[n].token = input[Len(input) + 1 - n]
  BY <1>2, <1>6, <1>7 DEF Tree
<1>9. \A n \in 1..m + 1 : IsNumber(added[n].token) => added[n].left = Nil /\ added[n].right = Nil
  BY <1>2, <1>6, <1>7 DEF Tree
<1>10. SignNodes(N, m) \subseteq SignNodes(added, m + 1)
  BY <1>6 DEF SignNodes
<1>11. QED
  BY <1>2, <1>6, <1>8, <1>9, <1>10 DEF Tree, added, new

\* What is left of node_stack is a part of it.
LEMMA UnfilledPart ==
  ASSUME NEW S, node_stack \in Seq(S)
  PROVE  Unfilled \in Seq(S)
<1> DEFINE I == {i \in 1..Len(node_stack) : ~IsFull(nodes, node_stack[i])}
           k == IF I # {} THEN Max(I) ELSE 0
<1>1. Unfilled = SubSeq(node_stack, 1, k)
  BY DEF Unfilled, SelectLastInSeq
<1>2. Len(node_stack) \in Nat /\ I \in SUBSET (1..Len(node_stack))
  OBVIOUS
<1> HIDE DEF I
<1>3. k \in 0..Len(node_stack)
  <2>1. CASE I = {}
    BY <1>2, <2>1
  <2>2. CASE I # {}
    <3>1. Max(I) \in I
      BY <1>2, <2>2, MaxOfIndices
    <3>2. Max(I) \in 1..Len(node_stack) /\ k = Max(I)
      BY <1>2, <2>2, <3>1
    <3> HIDE DEF k
    <3>3. QED
      BY <1>2, <3>2
  <2>3. QED
    BY <2>1, <2>2
<1> HIDE DEF k
<1>4. QED
  BY <1>1, <1>3

\* The next token becomes a node, and a child of an operator or the root.
LEMMA InsertBuilds ==
  ASSUME ShuntInv, BuildInv, Insert PROVE BuildInv'
<1> DEFINE m == Len(nodes)
           token == input[left_to_read]
           curr == IF node_stack = <<>> THEN curr_node ELSE Last(Unfilled)
           p == IF root = Nil THEN Nil ELSE curr
           added == Append(nodes, NewNode(token, p))
           place == IF added[curr].right = Nil THEN "right" ELSE "left"
<1>1. /\ phase = "insert" /\ (node_stack # <<>> => Unfilled # <<>>)
      /\ (root # Nil => curr # Nil)
      /\ left_to_read' = left_to_read - 1 /\ node_stack' = Unfilled /\ curr_node' = curr
      /\ \/ root = Nil /\ root' = m + 1 /\ nodes' = added /\ is_full' = FALSE
         \/ root # Nil /\ nodes' = InsertChild(added, curr, m + 1)
            /\ is_full' = (nodes[curr].right # Nil) /\ root' = root
      /\ \/ root # Nil /\ phase' = "reorg" /\ at' = curr
         \/ phase' = "settle" /\ at' = at
      /\ input' = input
  BY DEF Insert, shuntVars
<1>2. /\ m = Len(input) - left_to_read /\ left_to_read \in 0..Len(input) /\ left_to_read # 0
      /\ Tree(nodes, m) /\ root \in 0..m /\ at \in 0..m
      /\ curr_node \in {Nil} \cup SignNodes(nodes, m)
      /\ node_stack \in Seq(SignNodes(nodes, m))
      /\ input \in Seq(InputTokens)
  BY <1>1 DEF BuildInv, ShuntInv
<1>3. Len(input) \in Nat /\ m \in Nat /\ m < Len(input) /\ Len(input) - m = left_to_read
  BY <1>2
<1>4. Unfilled \in Seq(SignNodes(nodes, m))
  BY <1>2, UnfilledPart
<1>5. curr \in {Nil} \cup SignNodes(nodes, m)
  <2>1. CASE node_stack = <<>>
    BY <1>2, <2>1
  <2>2. CASE node_stack # <<>>
    BY <1>1, <1>4, <2>2 DEF Last
  <2>3. QED
    BY <2>1, <2>2
<1>6. p \in 0..m /\ curr \in 0..m
  BY <1>3, <1>5 DEF Nil, SignNodes
<1> HIDE DEF m, curr, p
<1>7. /\ Tree(added, m + 1) /\ SignNodes(nodes, m) \subseteq SignNodes(added, m + 1)
  BY <1>2, <1>3, <1>6, NodeAdded
<1> HIDE DEF added
<1>8. Tree(nodes', m + 1) /\ SignNodes(nodes', m + 1) = SignNodes(added, m + 1)
  <2>1. CASE nodes' = added
    BY <1>7, <2>1
  <2>2. CASE root # Nil /\ nodes' = InsertChild(added, curr, m + 1)
    <3>1. curr \in SignNodes(added, m + 1)
      BY <1>1, <1>5, <1>7, <2>2
    <3>2. /\ curr \in 1..m + 1 /\ ~IsNumber(added[curr].token) /\ place \in Sides
          /\ m + 1 \in Nat /\ m + 1 \in 0..m + 1
      BY <1>3, <3>1 DEF SignNodes, Sides
    <3>3. nodes' = [added EXCEPT ![curr][place] = m + 1]
      BY <2>2 DEF InsertChild
    <3> HIDE DEF place
    <3>4. Tree([added EXCEPT ![curr][place] = m + 1], m + 1)
      BY <1>7, <3>2, SetSide
    <3>5. QED
      BY <1>7, <3>2, <3>3, <3>4, SameSigns
  <2>3. QED
    BY <1>1, <2>1, <2>2
<1>9. Len(nodes') = m + 1
  BY <1>8 DEF Tree
<1>10. Tree(nodes, Len(nodes))' /\ SignNodes(nodes, Len(nodes))' = SignNodes(nodes', m + 1)
  BY <1>1, <1>8, <1>9 DEF Tree, SignNodes
<1>11. /\ curr_node' \in {Nil} \cup SignNodes(nodes', m + 1)
       /\ node_stack' \in Seq(SignNodes(nodes', m + 1))
  <2>1. SignNodes(nodes, m) \subseteq SignNodes(nodes', m + 1)
    BY <1>7, <1>8
  <2>2. QED
    BY <1>1, <1>4, <1>5, <2>1
<1>12. /\ left_to_read' \in 0..Len(input') /\ m + 1 = Len(input') - left_to_read'
       /\ m + 1 # 0 /\ root' \in 0..m + 1 /\ at' \in 0..m + 1
  BY <1>1, <1>2, <1>3, <1>6
<1>13. /\ phase' \in {"reorg", "settle"} /\ (phase' = "reorg" => at' # Nil)
       /\ is_full' \in BOOLEAN
  BY <1>1
<1>14. QED
  BY <1>9, <1>10, <1>11, <1>12, <1>13 DEF BuildInv

\* The full node is popped, and an operator pushed.
LEMMA SettleBuilds ==
  ASSUME ShuntInv, BuildInv, Settle PROVE BuildInv'
<1> DEFINE m == Len(nodes)
           S == SignNodes(nodes, m)
           popped == IF is_full THEN Front(node_stack) ELSE node_stack
<1>1. /\ phase = "settle" /\ (is_full => node_stack # <<>>)
      /\ node_stack' = (IF IsNumber(nodes[m].token) THEN popped ELSE Append(popped, m))
      /\ phase' = (IF left_to_read = 0 THEN "done" ELSE "insert")
      /\ UNCHANGED <<text, operator_stack, found_operator, input, left_to_read, nodes, root,
                     curr_node, is_full, at>>
  BY DEF Settle, shuntVars
<1>2. m # 0 /\ m \in Nat /\ node_stack \in Seq(S)
  BY <1>1 DEF BuildInv, Tree
<1>3. popped \in Seq(S)
  BY <1>1, <1>2 DEF Front
<1>4. node_stack' \in Seq(S)
  <2>1. CASE IsNumber(nodes[m].token)
    BY <1>1, <1>3, <2>1
  <2>2. CASE ~IsNumber(nodes[m].token)
    <3>1. m \in S
      BY <1>2, <2>2 DEF SignNodes
    <3> HIDE DEF popped, S
    <3>2. QED
      BY <1>1, <1>3, <2>2, <3>1, PushSign
  <2>3. QED
    BY <2>1, <2>2
<1>5. nodes' = nodes /\ input' = input /\ SignNodes(nodes, Len(nodes))' = S /\ Len(nodes)' = m
      /\ Tree(nodes, Len(nodes))' = Tree(nodes, m)
  BY <1>1 DEF SignNodes, Tree
<1> HIDE DEF S, m
<1>6. QED
  BY <1>1, <1>2, <1>4, <1>5 DEF BuildInv, S, m

\* While shunt runs there is no node.
LEMMA NoNodesYet ==
  ASSUME nodes = <<>>
  PROVE  Tree(nodes, 0) /\ SignNodes(nodes, 0) = {} /\ Len(nodes) = 0
<1>1. \A S : <<>> \in Seq(S) /\ Len(<<>>) = 0 /\ 1..0 = {}
  OBVIOUS
<1>2. QED
  BY <1>1 DEF Tree, SignNodes

\* Reading the text makes no node.
LEMMA ShuntBuilds ==
  ASSUME ShuntInv, ShuntInv', BuildInv, UNCHANGED <<nodes, root, node_stack, curr_node, is_full, at>>,
         phase \in {"shunt", "rejected"},
         \/ phase' \in {"shunt", "rejected"} /\ left_to_read' = left_to_read
         \/ phase' = "insert" /\ left_to_read' = Len(input') /\ Len(input') # 0
  PROVE  BuildInv'
<1>1. /\ Len(nodes) = 0 /\ left_to_read = 0 /\ root \in 0..0 /\ at \in 0..0
      /\ curr_node \in {Nil} \cup SignNodes(nodes, Len(nodes))
      /\ node_stack \in Seq(SignNodes(nodes, Len(nodes))) /\ is_full \in BOOLEAN
      /\ Tree(nodes, Len(nodes))
  BY DEF BuildInv
<1>2. Len(nodes)' = 0 /\ SignNodes(nodes, Len(nodes))' = SignNodes(nodes, Len(nodes))
  BY <1>1 DEF SignNodes
<1>3. nodes = <<>>
  BY <1>1 DEF Tree
<1>4. Tree(nodes, Len(nodes))'
  <2>1. nodes' = <<>> /\ \A S : <<>> \in Seq(S) /\ Len(<<>>) = 0 /\ 1..0 = {}
    BY <1>3
  <2>2. QED
    BY <2>1 DEF Tree
<1>5. Len(input') \in Nat
  BY DEF ShuntInv
<1>6. left_to_read' \in 0..Len(input') /\ (phase' = "insert" => left_to_read' # 0)
      /\ 0 = (IF phase' \in {"shunt", "rejected"} THEN 0 ELSE Len(input') - left_to_read')
      /\ (phase' \in {"shunt", "rejected"} => left_to_read' = 0)
      /\ phase' \in {"shunt", "rejected", "insert"}
  <2>1. CASE phase' \in {"shunt", "rejected"}
    BY <1>1, <1>5, <2>1
  <2>2. CASE phase' = "insert" /\ left_to_read' = Len(input')
    BY <1>5, <2>2
  <2>3. QED
    BY <2>1, <2>2
<1>7. /\ node_stack' \in Seq(SignNodes(nodes, Len(nodes))') /\ is_full' \in BOOLEAN
      /\ curr_node' \in {Nil} \cup SignNodes(nodes, Len(nodes))'
      /\ root' \in 0..0 /\ at' \in 0..0
  <2>1. /\ node_stack' = node_stack /\ is_full' = is_full /\ curr_node' = curr_node
        /\ root' = root /\ at' = at
    OBVIOUS
  <2> DEFINE S == SignNodes(nodes, Len(nodes))
  <2> HIDE DEF S
  <2>2. /\ node_stack' \in Seq(S) /\ curr_node' \in {Nil} \cup S /\ root' \in 0..0 /\ at' \in 0..0
    BY <1>1, <2>1 DEF S
  <2>3. is_full' \in BOOLEAN
    BY <1>1, <2>1
  <2>4. QED
    BY <1>2, <2>2, <2>3 DEF S
<1>8. QED
  BY <1>2, <1>4, <1>6, <1>7 DEF BuildInv

\* There is no node yet.
LEMMA BuildStarts == Init => BuildInv
<1> SUFFICES ASSUME Init PROVE BuildInv
  OBVIOUS
<1>1. /\ nodes = <<>> /\ input = <<>> /\ phase = "shunt" /\ left_to_read = 0
      /\ root = Nil /\ node_stack = <<>> /\ curr_node = Nil /\ is_full = FALSE /\ at = Nil
  BY DEF Init
<1>2. Tree(nodes, Len(nodes)) /\ Len(nodes) = 0 /\ Len(input) = 0
  BY <1>1, NoNodesYet
<1>3. node_stack \in Seq(SignNodes(nodes, Len(nodes)))
  BY <1>1
<1>4. /\ root \in 0..0 /\ at \in 0..0 /\ left_to_read \in 0..0 /\ is_full \in BOOLEAN
      /\ curr_node \in {Nil}
  <2>1. is_full \in BOOLEAN
    BY <1>1
  <2>2. 0 \in 0..0
    OBVIOUS
  <2>3. QED
    BY <1>1, <2>1, <2>2 DEF Nil
<1>5. QED
  BY <1>1, <1>2, <1>3, <1>4 DEF BuildInv

\* Every step of build_tree keeps BuildInv.
LEMMA BuildKept == ShuntInv /\ BuildInv /\ [Next]_vars => BuildInv'
<1> SUFFICES ASSUME ShuntInv, BuildInv, [Next]_vars PROVE BuildInv'
  OBVIOUS
<1>1. ShuntInv'
  BY ShuntKept
<1>2. ASSUME NEW o \in Operators, ReadOperator(o) PROVE BuildInv'
  <2>1. /\ UNCHANGED buildVars /\ phase = "shunt" /\ phase' = "shunt"
    BY <1>2 DEF ReadOperator, Read
  <2>2. QED
    BY <1>1, <2>1, ShuntBuilds DEF buildVars
<1>3. CASE EndText
  <2>1. Len(input') # 0
    BY <1>3, EndTextShunts
  <2>2. /\ UNCHANGED <<nodes, root, node_stack, curr_node, is_full, at>> /\ phase = "shunt"
        /\ phase' = "insert" /\ left_to_read' = Len(input')
    BY <1>3 DEF EndText
  <2>3. QED
    BY <1>1, <2>1, <2>2, ShuntBuilds
<1>4. CASE ReadNumber \/ ReadOpen \/ ReadClose \/ Reject
  <2>1. /\ UNCHANGED buildVars /\ phase = "shunt" /\ phase' \in {"shunt", "rejected"}
    BY <1>4 DEF ReadNumber, ReadOpen, ReadClose, Reject, Read
  <2>2. QED
    BY <1>1, <2>1, ShuntBuilds DEF buildVars
<1>5. CASE Insert
  BY <1>5, InsertBuilds
<1>6. CASE Settle
  BY <1>6, SettleBuilds
<1>7. CASE RotateRight \/ RotateLeft \/ RotateLeftRight \/ RotateRightLeft \/ KeepShape
  BY <1>7, RotateRightBuilds, RotateLeftBuilds, RotateLeftRightBuilds, RotateRightLeftBuilds,
     KeepShapeBuilds
<1>8. CASE Ended \/ UNCHANGED vars
  <2>1. UNCHANGED vars
    BY <1>8 DEF Ended
  <2>2. QED
    BY <2>1 DEF BuildInv, vars, shuntVars, buildVars, SignNodes, Tree
<1>9. QED
  BY <1>2, <1>3, <1>4, <1>5, <1>6, <1>7, <1>8 DEF Next

\* The two loops of the constructor, shunt and build_tree: where each stands
\* while it runs, and what it has left afterwards.
THEOREM InductiveInvariant == Spec => [](ShuntInv /\ BuildInv)
<1>1. ShuntInv /\ BuildInv /\ [Next]_vars => (ShuntInv /\ BuildInv)'
  BY ShuntKept, BuildKept
<1>2. QED
  BY <1>1, ShuntStarts, BuildStarts, PTL DEF Spec

\* shunt, build_tree and the rotations keep the types, and a pointer or an
\* entry of node_stack is always a node that exists.
THEOREM TypeCorrect == Spec => []TypeOK
<1>1. ShuntInv /\ BuildInv => TypeOK
  <2> SUFFICES ASSUME ShuntInv, BuildInv PROVE TypeOK
    OBVIOUS
  <2> DEFINE m == Len(nodes)
             Id == DOMAIN nodes \cup {Nil}
  <2>1. /\ nodes \in Seq(Node(m)) /\ m \in Nat /\ DOMAIN nodes = 1..m
    BY DEF BuildInv, Tree
  <2>2. Id = 0..m
    BY <2>1 DEF Nil
  <2>3. InputTokens \subseteq Tokens /\ StackTokens \subseteq Tokens
        /\ InputTokens \subseteq Tokens \ {Open}
    BY TokensDiffer DEF InputTokens, StackTokens, Tokens
  <2>4. /\ operator_stack \in Seq(Tokens) /\ input \in Seq(Tokens \ {Open})
    BY <2>3 DEF ShuntInv
  <2>5. nodes \in Seq([token : Tokens, parent : Id, left : Id, right : Id, depth : Nat])
    <3> DEFINE X == [token : Tokens, parent : Id, left : Id, right : Id, depth : Nat]
               Y == Node(m)
    <3>1. Y \subseteq X
      BY <2>2, <2>3 DEF Node
    <3>2. nodes \in Seq(Y)
      BY <2>1
    <3> HIDE DEF X, Y
    <3>3. nodes \in Seq(X)
      BY <3>1, <3>2
    <3>4. QED
      BY <3>3 DEF X
  <2>6. SignNodes(nodes, m) \subseteq DOMAIN nodes
    BY <2>1 DEF SignNodes
  <2>7. node_stack \in Seq(DOMAIN nodes)
    BY <2>6 DEF BuildInv
  <2>8. {root, curr_node, at} \subseteq Id
    BY <2>2, <2>6 DEF BuildInv
  <2>9. QED
    BY <2>4, <2>5, <2>7, <2>8 DEF TypeOK, ShuntInv, BuildInv
<1>2. QED
  BY <1>1, InductiveInvariant, PTL

-----------------------------------------------------------------------------
\* What the two loops leave.

\* Every token of the output is an operand or an operator.
LEMMA NumbersAndSigns ==
  ASSUME NEW s \in Seq(InputTokens)
  PROVE  Len(s) = Numbers(s) + Signs(s)
<1> DEFINE A == At(s, NumberTokens)
           B == At(s, SignTokens)
<1>1. DOMAIN s = 1..Len(s) /\ Len(s) \in Nat
  OBVIOUS
<1>2. A \cup B = 1..Len(s)
  BY <1>1 DEF At, InputTokens
<1>3. A \cap B = {}
  BY TokensDiffer DEF At
<1>4. /\ IsFiniteSet(A) /\ IsFiniteSet(B) /\ Numbers(s) = Cardinality(A) /\ Signs(s) = Cardinality(B)
      /\ Numbers(s) \in Nat /\ Signs(s) \in Nat
  BY CountIsNat DEF Numbers, Signs
<1> HIDE DEF A, B
<1>5. Cardinality(A \cup B) = Cardinality(A) + Cardinality(B) - Cardinality(A \cap B)
  BY <1>4, FS_Union
<1>6. Cardinality(A \cap B) = 0
  BY <1>3, FS_EmptySet
<1>7. Cardinality(1..Len(s)) = Len(s)
  <2>1. 1 \in Int /\ Len(s) \in Int
    BY <1>1
  <2>2. Cardinality(1..Len(s)) = IF 1 > Len(s) THEN 0 ELSE Len(s) - 1 + 1
    BY <2>1, FS_Interval
  <2>3. QED
    BY <1>1, <2>2
<1>8. Cardinality(A \cup B) = Numbers(s) + Signs(s)
  BY <1>4, <1>5, <1>6
<1>9. Cardinality(A \cup B) = Len(s)
  BY <1>2, <1>7, Zenon
<1>10. QED
  BY <1>8, <1>9

\* A later operand has a greater number.
LEMMA OperandsRise ==
  ASSUME NEW s \in Seq(InputTokens), NEW j \in 1..Len(s), NEW k \in 1..Len(s), j < k,
         IsNumber(s[k])
  PROVE  Numbers(SubSeq(s, 1, j)) < Numbers(SubSeq(s, 1, k))
<1> DEFINE a == SubSeq(s, 1, j)
           b == SubSeq(s, j + 1, k - 1)
           c == SubSeq(s, 1, k - 1)
<1>1. /\ Len(s) \in Nat /\ 1 \in 1..Len(s) + 1 /\ j \in 1 - 1..Len(s) /\ k - 1 \in j..Len(s)
      /\ 1 \in 1..Len(s) /\ k \in 1..Len(s)
  OBVIOUS
<1>2. a \in Seq(InputTokens) /\ b \in Seq(InputTokens) /\ c \in Seq(InputTokens)
  OBVIOUS
<1>3. a \o b = c
  BY <1>1, ConcatAdjacentSubSeq
<1>4. SubSeq(s, 1, k) = c \o <<s[k]>>
  BY <1>1, SubSeqRecursiveSecond
<1>5. c \o <<s[k]>> = Append(c, s[k]) /\ s[k] \in InputTokens
  BY <1>2
<1> HIDE DEF a, b, c
<1>6. Numbers(c) = Numbers(a) + Numbers(b)
  BY <1>2, <1>3, CountConcat DEF Numbers
<1>7. Numbers(a) \in Nat /\ Numbers(b) \in Nat
  BY <1>2, CountsOfInput
<1>8. Numbers(Append(c, s[k])) = Numbers(c) + 1
  BY <1>2, <1>5, CountAppend DEF Numbers, IsNumber
<1>9. Numbers(SubSeq(s, 1, k)) = Numbers(a) + Numbers(b) + 1
  BY <1>4, <1>5, <1>6, <1>8
<1>10. QED
  BY <1>7, <1>9 DEF a

\* Once build_tree has returned, a node was made for each operand and operator,
\* no two for the same operand, and only operators have children.
NodesHoldText ==
  phase = "done" =>
    /\ Len(nodes) = Numbers(text) + Signs(text)
    /\ Numbers(text) = Signs(text) + 1
    /\ \A n \in DOMAIN nodes : nodes[n].token = input[Len(input) + 1 - n]
    /\ \A j, k \in DOMAIN nodes :
         IsNumber(nodes[j].token) /\ nodes[j].token = nodes[k].token => j = k
    /\ \A n \in DOMAIN nodes :
         nodes[n].left # Nil \/ nodes[n].right # Nil => nodes[n].token \in SignTokens

\* build_tree makes one node of each token that shunt handed it, and whatever
\* the rotations did meanwhile, an operand is still a leaf.  Whether the leaf
\* still hangs in the tree is another matter: see the run OperandLost.
THEOREM EachTokenHasNode == Spec => []NodesHoldText
<1>1. ShuntInv /\ BuildInv => NodesHoldText
  <2> SUFFICES ASSUME ShuntInv, BuildInv, phase = "done"
               PROVE  NodesHoldText
    BY DEF NodesHoldText
  <2> DEFINE m == Len(nodes)
  <2>1. /\ input \in Seq(InputTokens) /\ Postfix(input) /\ operator_stack = <<>>
        /\ Numbers(text) = Numbers(input)
        /\ Numbers(input) = Signs(input) + Signs(operator_stack) + 1
    BY DEF ShuntInv
  <2>2. Signs(text) = Signs(input) + Signs(operator_stack) /\ Signs(input) \in Nat
    BY ShuntCounts
  <2>3. Signs(operator_stack) = 0
    BY <2>1, CountEmpty DEF Signs
  <2>4. m = Len(input) /\ Tree(nodes, m) /\ Len(input) \in Nat
    BY <2>1 DEF BuildInv
  <2>5. DOMAIN nodes = 1..m
    BY <2>4 DEF Tree
  <2>6. Len(input) = Numbers(input) + Signs(input)
    BY <2>1, NumbersAndSigns
  <2>7. m = Numbers(text) + Signs(text) /\ Numbers(text) = Signs(text) + 1
    BY <2>1, <2>2, <2>3, <2>4, <2>6
  <2>8. \A n \in 1..m : nodes[n].token = input[Len(input) + 1 - n] /\ Len(input) + 1 - n \in 1..m
    BY <2>4 DEF Tree
  <2>9. ASSUME NEW i \in 1..m, NEW j \in 1..m, IsNumber(input[i]), input[i] = input[j], i < j
        PROVE  FALSE
    <3>1. i \in 1..Len(input) /\ j \in 1..Len(input) /\ IsNumber(input[j])
      BY <2>4, <2>9
    <3>2. /\ input[i] = Number(Numbers(SubSeq(input, 1, i)))
          /\ input[j] = Number(Numbers(SubSeq(input, 1, j)))
      BY <2>1, <2>9, <3>1 DEF Postfix
    <3>3. Numbers(SubSeq(input, 1, i)) = Numbers(SubSeq(input, 1, j))
      BY <2>9, <3>2, TokensDiffer
    <3>4. Numbers(SubSeq(input, 1, i)) < Numbers(SubSeq(input, 1, j))
      BY <2>1, <2>9, <3>1, OperandsRise
    <3>5. Numbers(SubSeq(input, 1, i)) \in Nat
      <4>1. SubSeq(input, 1, i) \in Seq(InputTokens)
        BY <2>1, <3>1
      <4>2. QED
        BY <4>1, CountsOfInput
    <3>6. QED
      BY <3>3, <3>4, <3>5
  <2>10. ASSUME NEW j \in 1..m, NEW k \in 1..m,
                IsNumber(nodes[j].token), nodes[j].token = nodes[k].token
         PROVE  j = k
    <3> DEFINE a == Len(input) + 1 - j
               b == Len(input) + 1 - k
    <3>1. a \in 1..m /\ b \in 1..m /\ IsNumber(input[a]) /\ input[a] = input[b]
          /\ IsNumber(input[b])
      BY <2>8, <2>10
    <3>2. ~(a < b) /\ ~(b < a)
      BY <2>9, <3>1
    <3>3. QED
      BY <2>4, <3>1, <3>2
  <2>11. ASSUME NEW n \in 1..m, nodes[n].left # Nil \/ nodes[n].right # Nil
         PROVE  nodes[n].token \in SignTokens
    <3>1. ~IsNumber(nodes[n].token)
      BY <2>4, <2>11 DEF Tree
    <3>2. nodes[n].token \in InputTokens
      BY <2>1, <2>4, <2>8
    <3>3. QED
      BY <3>1, <3>2 DEF InputTokens, IsNumber
  <2>12. QED
    BY <2>5, <2>7, <2>8, <2>10, <2>11 DEF NodesHoldText
<1>2. QED
  BY <1>1, InductiveInvariant, PTL
==============================================================================
