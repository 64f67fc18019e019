---------------------------- MODULE ASTreeMeaning ----------------------------
(***************************************************************************)
(* What an expression and the tree that ASTree makes of it mean, and what  *)
(* balancing the tree must keep: the definitions are recursive, as eval is.*)
(***************************************************************************)
EXTENDS ASTree

Apply(o, a, b) == CASE o = "+" -> a + b [] o = "-" -> a - b [] o = "*" -> a * b

\* FHEComputer::eval on plaintexts: no result when a child is missing.
RECURSIVE Results(_, _)
Results(N, n) ==
  IF n = Nil THEN {}
  ELSE IF IsNumber(N[n].token) THEN {Plain[N[n].token[2]]}
  ELSE {Apply(N[n].token[2], a, b) : a \in Results(N, N[n].left), b \in Results(N, N[n].right)}

\* Multiplications one after another under n: what eval has to level out.
RECURSIVE Levels(_, _)
Levels(N, n) ==
  IF n = Nil THEN 0
  ELSE Max({Levels(N, N[n].left), Levels(N, N[n].right)}) + (IF IsProduct(N, n) THEN 1 ELSE 0)

\* The definition of an expression's value and depth: the last of its weakest
\* operators outside parentheses is applied to what is left and right of it.
RECURSIVE Meaning(_)
Meaning(e) ==
  LET outside == {k \in DOMAIN e : Times(SubSeq(e, 1, k), Open) = Times(SubSeq(e, 1, k), Close)}
      weak == {k \in outside : e[k] \in {Sign("+"), Sign("-")}}
      strong == {k \in outside : e[k] = Sign("*")}
      split == Max(IF weak = {} THEN strong ELSE weak)
      l == Meaning(SubSeq(e, 1, split - 1))
      r == Meaning(SubSeq(e, split + 1, Len(e)))
  IN  IF Len(e) = 1 THEN [value |-> Plain[e[1][2]], depth |-> 0]
      ELSE IF weak \cup strong = {} THEN Meaning(SubSeq(e, 2, Len(e) - 1))
      ELSE [value |-> Apply(e[split][2], l.value, r.value),
            depth |-> Max({l.depth, r.depth}) + (IF weak = {} THEN 1 ELSE 0)]

-----------------------------------------------------------------------------
Inserted == left_to_read = 0 /\ phase \in {"settle", "done"}

\* README.md:43 "without changing the result": once the last token is inserted,
\* the tree that eval walks yields what the text means.
ResultKept == Inserted => Results(nodes, root) = {Meaning(text).value}

\* eval rescales the shallower operand by the difference of the two depth_, and
\* difficulty() is the root's: each depth_ must be the real one when it is read.
DepthsAreLevels == phase = "done" => \A n \in DOMAIN nodes : nodes[n].depth = Levels(nodes, n)

\* Balancing never makes an expression deeper than it was written, and a product
\* of any shape is left as flat as its number of factors allows.
Balanced ==
  phase = "done" =>
    LET d == nodes[root].depth
        product == Signs(text) = Times(text, Sign("*"))
    IN  /\ d <= Meaning(text).depth
        /\ product => 2 ^ (d - 1) < Numbers(text) /\ Numbers(text) <= 2 ^ d
=============================================================================
