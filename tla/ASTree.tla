------------------------------- MODULE ASTree -------------------------------
(***************************************************************************)
(* ASTree: the expression of a computation, from its text to the tree that *)
(* FHEComputer evaluates, and the rotations that balance products while    *)
(* the tree is built.                                                      *)
(*                                                                         *)
(* The text is read one token at a time and may be any well-formed one;    *)
(* shunt, which puts it into postfix order, is the first phase.  build_tree*)
(* is the second: it takes the postfix tokens from the last to the first.  *)
(* A number of the text is an index into the ciphertexts: the k-th number  *)
(* read is the index k, and its plaintext is Plain[k].  A node is its      *)
(* node_id_ plus one, and the null pointer is Nil.                         *)
(***************************************************************************)
EXTENDS FiniteSets, FiniteSetsExt, Integers, Sequences, SequencesExt

CONSTANTS
  Operators,     \* those the text may use, out of "+", "-" and "*"
  Plain,         \* Plain[k]: the number encrypted in the k-th operand
  MaxOperators,  \* bound: operators of a text
  MaxGroups      \* bound: pairs of parentheses of a text

ASSUME ASTreeAssumption ==
  /\ Operators \subseteq {"+", "-", "*"}
  /\ MaxOperators \in Nat /\ MaxGroups \in Nat
  /\ Plain \in Seq(Int) /\ Len(Plain) > MaxOperators

VARIABLES
  text,            \* history: the tokens of expression that shunt has read
  operator_stack,  \* of shunt; the top is the last
  found_operator,  \* shunt's found_operation_operator
  input,           \* output_q of shunt, which becomes input_
  phase,           \* shunt, rejected, insert, reorg, settle or done
  left_to_read,    \* build_tree: tokens of input_ not inserted yet
  nodes,           \* by node_id_ + 1
  root,
  node_stack,      \* the top is the last
  curr_node,       \* build_tree's: where the last node was inserted
  is_full,         \* build_tree's: the insertion filled curr_node
  at               \* the argument of reorg_from

shuntVars == <<text, operator_stack, found_operator, input>>
buildVars == <<left_to_read, nodes, root, node_stack, curr_node, is_full, at>>
vars == <<shuntVars, phase, buildVars>>

Nil == 0
Number(k) == <<"number", k>>
Sign(o) == <<"sign", o>>
Open == <<"(">>
Close == <<")">>

NumberTokens == {Number(k) : k \in DOMAIN Plain}
SignTokens == {Sign(o) : o \in Operators}
IsNumber(token) == token \in NumberTokens

\* How many of the tokens are in T.
Count(tokens, T) == Cardinality({k \in DOMAIN tokens : tokens[k] \in T})
Numbers(tokens) == Count(tokens, NumberTokens)
Signs(tokens) == Count(tokens, SignTokens)
Times(tokens, token) == Count(tokens, {token})

Init ==
  /\ text = <<>> /\ operator_stack = <<>> /\ input = <<>>
  /\ found_operator = FALSE
  /\ phase = "shunt"
  /\ left_to_read = 0
  /\ nodes = <<>> /\ root = Nil /\ node_stack = <<>>
  /\ curr_node = Nil /\ is_full = FALSE /\ at = Nil

-----------------------------------------------------------------------------
\* shunt.

Read(token) == phase = "shunt" /\ text' = Append(text, token) /\ UNCHANGED <<phase, buildVars>>

\* In a well-formed text an operand follows an operator, "(" or nothing.
OperandExpected == text # <<>> => Last(text) \in {Open} \cup SignTokens

ReadNumber ==
  /\ OperandExpected
  /\ Read(Number(Numbers(text) + 1))
  /\ input' = Append(input, Number(Numbers(text) + 1))
  /\ found_operator' = FALSE
  /\ UNCHANGED operator_stack

ReadOpen ==
  /\ OperandExpected /\ Times(text, Open) < MaxGroups /\ Signs(text) < MaxOperators
  /\ Read(Open)
  /\ operator_stack' = Append(operator_stack, Open)
  /\ found_operator' = TRUE
  /\ UNCHANGED input

\* The operators above position k of the stack move to the output, top first.
PopTo(k) == input \o Reverse(SubSeq(operator_stack, k + 1, Len(operator_stack)))

OpenAt == {k \in DOMAIN operator_stack : operator_stack[k] = Open}

ReadClose ==
  /\ ~OperandExpected /\ OpenAt # {}
  /\ Read(Close)
  /\ input' = PopTo(Max(OpenAt))
  /\ operator_stack' = SubSeq(operator_stack, 1, Max(OpenAt) - 1)
  /\ found_operator' = FALSE

Precedence(o) == IF o = "*" THEN 3 ELSE 2

\* What stays below an operator o: all up to the last "(" or weaker operator.
Below(o) ==
  SelectLastInSeq(operator_stack,
                  LAMBDA t : t = Open \/ Precedence(t[2]) < Precedence(o))

ReadOperator(o) ==
  /\ ~OperandExpected /\ ~found_operator /\ Signs(text) < MaxOperators
  /\ Read(Sign(o))
  /\ input' = PopTo(Below(o))
  /\ operator_stack' = Append(SubSeq(operator_stack, 1, Below(o)), Sign(o))
  /\ found_operator' = TRUE

\* Mutant: "(" is not looked for.
EndTextUnmatched ==
  /\ phase = "shunt" /\ ~OperandExpected /\ operator_stack # <<>>
  /\ input' = PopTo(0)
  /\ operator_stack' = <<>>
  /\ phase' = "insert"
  /\ left_to_read' = Len(input')
  /\ UNCHANGED <<text, found_operator, nodes, root, node_stack, curr_node, is_full, at>>

EndText ==
  /\ phase = "shunt" /\ ~OperandExpected /\ OpenAt = {} /\ operator_stack # <<>>
  /\ input' = PopTo(0)
  /\ operator_stack' = <<>>
  /\ phase' = "insert"
  /\ left_to_read' = Len(input')
  /\ UNCHANGED <<text, found_operator, nodes, root, node_stack, curr_node, is_full, at>>

\* std::invalid_argument, "no operators found": none is left on the stack.
Reject ==
  /\ phase = "shunt" /\ ~OperandExpected /\ operator_stack = <<>>
  /\ phase' = "rejected"
  /\ UNCHANGED <<shuntVars, buildVars>>

-----------------------------------------------------------------------------
\* Nodes.  N is a value of nodes throughout.

NewNode(token, parent) ==
  [token |-> token, parent |-> parent, left |-> Nil, right |-> Nil,
   depth |-> IF token = Sign("*") THEN 1 ELSE 0]

IsProduct(N, n) == n # Nil /\ N[n].token = Sign("*")
IsFull(N, n) == N[n].left # Nil /\ N[n].right # Nil

DepthOf(N, n) == IF n = Nil THEN 0 ELSE N[n].depth
Balance(N, n) == DepthOf(N, N[n].left) - DepthOf(N, N[n].right)

\* depth_ of n from its children; the operators are evaluated in its own right.
Measure(N, n) ==
  [N EXCEPT ![n].depth = Max({DepthOf(N, N[n].left), DepthOf(N, N[n].right)})
                           + (IF IsProduct(N, n) THEN 1 ELSE 0)]

NotifyChildChange(N, p, new, old) ==
  IF p # Nil /\ old \in {N[p].left, N[p].right}
  THEN [N EXCEPT ![p][IF N[p].right = old THEN "right" ELSE "left"] = new]
  ELSE N

\* n loses its child x on one side, which takes n as its child on the other.
Turned(N, n, up, down) ==
  LET x == N[n][up]
      moved == [N EXCEPT ![x][down] = n, ![n][up] = N[x][down], ![x].parent = N[n].parent]
  IN  [NotifyChildChange(moved, N[n].parent, x, n) EXCEPT ![n].parent = x]

\* Mutant: the new top is measured first.
RotateTopFirst(N, n, up, down) ==
  Measure(Measure(Turned(N, n, up, down), N[n][up]), n)

Rotate(N, n, up, down) == Measure(Measure(Turned(N, n, up, down), n), N[n][up])

RightRotate(N, n) == Rotate(N, n, "left", "right")
LeftRotate(N, n) == Rotate(N, n, "right", "left")

-----------------------------------------------------------------------------
\* build_tree: insert a token, reorganise above it, settle the stack.

\* node_stack without the full nodes on its top.
Unfilled == SubSeq(node_stack, 1, SelectLastInSeq(node_stack, LAMBDA n : ~IsFull(nodes, n)))

InsertChild(N, n, child) ==
  [N EXCEPT ![n][IF N[n].right = Nil THEN "right" ELSE "left"] = child]

\* Outcomes are undefined, and Insert not enabled, when every node of the stack
\* is full, and when there is a root but no node was ever inserted into.
Insert ==
  LET token == input[left_to_read]
      new == Len(nodes) + 1
      curr == IF node_stack = <<>> THEN curr_node ELSE Last(Unfilled)
      added == Append(nodes, NewNode(token, IF root = Nil THEN Nil ELSE curr))
  IN  /\ phase = "insert"
      /\ node_stack # <<>> => Unfilled # <<>>
      /\ root # Nil => curr # Nil
      /\ left_to_read' = left_to_read - 1
      /\ node_stack' = Unfilled
      /\ curr_node' = curr
      /\ IF root = Nil
         THEN root' = new /\ nodes' = added /\ is_full' = FALSE
         ELSE nodes' = InsertChild(added, curr, new) /\ is_full' = (nodes[curr].right # Nil)
              /\ UNCHANGED root
      /\ IF root # Nil /\ IsProduct(added, new)
         THEN phase' = "reorg" /\ at' = curr
         ELSE phase' = "settle" /\ UNCHANGED at
      /\ UNCHANGED shuntVars

\* reorg_from(at) ends with the subtree N under curr and goes on at its parent.
Ascend(N, curr) ==
  /\ nodes' = N
  /\ at' = N[curr].parent
  /\ IF N[curr].parent = Nil
     THEN root' = curr /\ phase' = "settle"
     ELSE UNCHANGED <<root, phase>>
  /\ UNCHANGED <<shuntVars, left_to_read, curr_node, is_full>>

\* reorg_from's conditions, with the depth of at just measured.
Here == Measure(nodes, at)
CanRotate(N, n, up) == IsProduct(N, n) /\ IsProduct(N, N[n][up])
\* Mutant: off by one.
RightHeavyLate ==
  CanRotate(Here, at, "right") /\ Balance(Here, at) < -2
LeftHeavy == CanRotate(Here, at, "left") /\ Balance(Here, at) > 1
RightHeavy == CanRotate(Here, at, "right") /\ Balance(Here, at) < -1
L == Here[at].left
R == Here[at].right

RotateRight ==
  /\ phase = "reorg" /\ LeftHeavy /\ Balance(Here, L) > 0
  /\ Ascend(RightRotate(Here, at), L)
  /\ UNCHANGED node_stack

RotateLeft ==
  /\ phase = "reorg" /\ RightHeavy /\ Balance(Here, R) < 0
  /\ Ascend(LeftRotate(Here, at), R)
  /\ UNCHANGED node_stack

RotateLeftRight ==
  /\ phase = "reorg" /\ LeftHeavy /\ Balance(Here, L) < 0 /\ CanRotate(Here, L, "right")
  /\ LET inner == [LeftRotate(Here, L) EXCEPT ![at].left = Here[L].right]
     IN  Ascend(RightRotate(inner, at), inner[at].left)
  /\ node_stack' = Append(node_stack, at)

\* Mutant: the node with a free place is not pushed.
RotateRightLeftUnstacked ==
  /\ phase = "reorg" /\ RightHeavy /\ Balance(Here, R) > 0 /\ CanRotate(Here, R, "left")
  /\ LET inner == [RightRotate(Here, R) EXCEPT ![at].right = Here[R].left]
     IN  Ascend(LeftRotate(inner, at), inner[at].right)
  /\ UNCHANGED node_stack

RotateRightLeft ==
  /\ phase = "reorg" /\ RightHeavy /\ Balance(Here, R) > 0 /\ CanRotate(Here, R, "left")
  /\ LET inner == [RightRotate(Here, R) EXCEPT ![at].right = Here[R].left]
     IN  Ascend(LeftRotate(inner, at), inner[at].right)
  /\ node_stack' = Append(node_stack, R)

KeepShape ==
  /\ phase = "reorg"
  /\ LeftHeavy => \/ Balance(Here, L) = 0
                  \/ Balance(Here, L) < 0 /\ ~CanRotate(Here, L, "right")
  /\ RightHeavy => \/ Balance(Here, R) = 0
                   \/ Balance(Here, R) > 0 /\ ~CanRotate(Here, R, "left")
  /\ Ascend(Here, at)
  /\ UNCHANGED node_stack

\* A pop of the empty stack has no defined outcome, and Settle is not enabled.
Settle ==
  LET popped == IF is_full THEN Front(node_stack) ELSE node_stack
      new == Len(nodes)
  IN  /\ phase = "settle"
      /\ is_full => node_stack # <<>>
      /\ node_stack' = IF IsNumber(nodes[new].token) THEN popped ELSE Append(popped, new)
      /\ phase' = IF left_to_read = 0 THEN "done" ELSE "insert"
      /\ UNCHANGED <<shuntVars, left_to_read, nodes, root, curr_node, is_full, at>>

\* The constructor has returned or thrown.
Ended == phase \in {"rejected", "done"} /\ UNCHANGED vars

Next ==
  \/ ReadNumber \/ ReadOpen \/ ReadClose \/ EndText \/ Reject
  \/ \E o \in Operators : ReadOperator(o)
  \/ Insert \/ Settle
  \/ RotateRight \/ RotateLeft \/ RotateLeftRight \/ RotateRightLeft \/ KeepShape
  \/ Ended

Spec == Init /\ [][Next]_vars

-----------------------------------------------------------------------------
Tokens == {Open} \cup SignTokens \cup NumberTokens

\* The types of the variables; the nodes of the stack exist.
TypeOK ==
  LET Id == DOMAIN nodes \cup {Nil} IN
  /\ text \in Seq(Tokens \cup {Close})
  /\ operator_stack \in Seq(Tokens) /\ input \in Seq(Tokens \ {Open})
  /\ found_operator \in BOOLEAN /\ is_full \in BOOLEAN
  /\ phase \in {"shunt", "rejected", "insert", "reorg", "settle", "done"}
  /\ left_to_read \in 0 .. Len(input)
  /\ nodes \in Seq([token : Tokens, parent : Id, left : Id, right : Id, depth : Nat])
  /\ {root, curr_node, at} \subseteq Id
  /\ node_stack \in Seq(DOMAIN nodes)

\* What shunt hands to build_tree, which trusts it: every operand and operator
\* of the text once, the operands in their order, no parenthesis, and before
\* each operator the operands that it takes, so that one value is left.
PostfixWellFormed ==
  phase \notin {"shunt", "rejected"} =>
    /\ ToSet(input) \subseteq NumberTokens \cup SignTokens
    /\ \A o \in Operators : Times(input, Sign(o)) = Times(text, Sign(o))
    /\ Numbers(input) = Numbers(text) /\ Numbers(input) = Signs(input) + 1
    /\ \A n \in DOMAIN input :
         LET upTo == SubSeq(input, 1, n)
         IN  /\ Numbers(upTo) > Signs(upTo)
             /\ IsNumber(input[n]) => input[n] = Number(Numbers(upTo))
=============================================================================
