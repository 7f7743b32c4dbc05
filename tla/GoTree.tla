-------------------------------- MODULE GoTree --------------------------------
(***************************************************************************)
(* Syntax trees of go/ast as the rules that read code see them: the nodes  *)
(* of one file in preorder, the order in which ast.Inspect visits them. A  *)
(* node names its parent (0 for a top-level declaration), the part of the  *)
(* parent it belongs to and, in data, what the rules ask of it:            *)
(*   func, lit   the result types, empty when they are unknown             *)
(*   errcheck    the name x of x != nil or nil != x                        *)
(*   return      the returned expressions                                  *)
(*   call        the called function (CallRules)                           *)
(* The parts of a statement: init (with the post statement), cond (the     *)
(* condition, tag, ranged expression, case list, communication or any      *)
(* other expressions), body, else.                                         *)
(***************************************************************************)
EXTENDS Naturals, Sequences, FiniteSets, SequencesExt

Decls == {"func", "gendecl"}
Branching == {"if", "for", "range", "switch", "select"}
Statements == Branching \cup {"label", "plain", "return"}
Parts == {"init", "cond", "body", "else"}
NoData == <<>>

Node(kind, up, part, data) == [kind |-> kind, up |-> up, part |-> part, data |-> data]

IsExpression(n) == n.kind \notin Decls \cup Statements \cup {"block", "clause"}
PartsIn(kind) == CASE kind \in {"func", "lit", "block", "label"} -> {"body"}
                   [] kind \in Branching -> Parts
                   [] kind = "clause" -> {"cond", "body"}
                   [] OTHER -> {"cond"}
\* The grammar of Go: which nodes are in which parts of which others.
Grammatical(tree) ==
    /\ tree \in Seq(Range(tree))
    /\ \A i \in DOMAIN tree :
           LET conds == {j \in DOMAIN tree : tree[j].up = i /\ tree[j].part = "cond"} IN
           /\ tree[i].up \in 0..i - 1
           /\ tree[i].kind \in Decls <=> tree[i].up = 0
           /\ tree[i].up # 0 => tree[i].part \in PartsIn(tree[tree[i].up].kind)
           /\ tree[i].part = "cond" <=> IsExpression(tree[i])
           /\ tree[i].kind = "if" => conds # {}
           /\ tree[i].kind \in {"if", "for"} => \A j, k \in conds : j = k

\* a node and all nodes around it
Around(tree) ==
    LET around[i \in 0..Len(tree)] == IF i = 0 THEN {} ELSE {i} \cup around[tree[i].up]
    IN  around
Below(tree, i) == LET around == Around(tree) IN {j \in DOMAIN tree : i \in around[j]}

InOrder(nodes) ==
    [k \in 1..Cardinality(nodes) |-> CHOOSE i \in nodes : Cardinality({j \in nodes : j < i}) = k - 1]
Kids(tree, i) == InOrder({j \in DOMAIN tree : tree[j].up = i})
Part(tree, i, part) == InOrder({j \in DOMAIN tree : tree[j].up = i /\ tree[j].part = part})

\* the function or function literal whose results a return statement gives
EnclosingFunc(tree, i) ==
    LET funcs == {j \in Around(tree)[i] \ {i} : tree[j].kind \in {"func", "lit"}}
    IN  CHOOSE j \in funcs : \A k \in funcs : k <= j

FuncDecls(tree) == {i \in DOMAIN tree : tree[i].kind = "func"}
===============================================================================
