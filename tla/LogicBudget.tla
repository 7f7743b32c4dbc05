------------------------------ MODULE LogicBudget ------------------------------
(***************************************************************************)
(* structural.NewLogicBudget (src/rules/structural/logic_budget.go): the   *)
(* branches, statements and cyclomatic complexity of each function of the  *)
(* orchestration packages, compared with three budgets.                    *)
(*                                                                         *)
(* The recursive walk is a stack of tasks: measureStmt of a node, or       *)
(* measureFuncLits, the search for function literals below a node. The     *)
(* walk of an endless loop calls ast.Inspect with a nil condition, which   *)
(* panics. Expressions of return statements are records [form, name, args, *)
(* verbs]; names and formats are reduced to what the rule compares.        *)
(***************************************************************************)
EXTENDS GoTree

CONSTANTS Budget,              \* [branches, statements, cyclomatic]
          CountErrorBranches   \* WithCountErrorBranches

ASSUME BudgetAssumption ==
    /\ \A b \in {"branches", "statements", "cyclomatic"} : Budget[b] \in Nat
    /\ CountErrorBranches \in BOOLEAN

VARIABLES
    tree,      \* the file; never changes while it is measured
    fn,        \* the declaration that is measured
    tasks,     \* the walk still to be done
    counts     \* functionMetrics

budgetVars == <<fn, tasks, counts>>
-------------------------------------------------------------------------------
(* if err != nil { return err } *)

Expr(form, name, args, verbs) == [form |-> form, name |-> name, args |-> args, verbs |-> verbs]

\* A directive: flags, an index (first), a width, a dot with an index of its own
\* (second) and a precision, an index before the verb; "n" is a number, 0 where
\* no index is written. Arguments are numbered from 1.
Directives == [flagged : BOOLEAN, first : Nat, width : {"", "n", "*"}, dot : BOOLEAN, second : Nat,
               prec : {"", "n", "*"}, index : Nat, verb : STRING]
Written(v) ==
    /\ v.first # 0 => v.width = "*" \/ (v.width = "" /\ ~v.dot /\ v.index = 0)
    /\ v.second # 0 => v.dot /\ (v.prec = "*" \/ (v.prec = "" /\ v.index = 0))
    /\ v.prec # "" => v.dot

\* parseFmtIndex right behind the % takes the index for that of the verb; after
\* flags, one in front of a * is that of the width.
WidthIndex(v) == IF v.flagged THEN v.first ELSE 0
VerbIndex(v) ==
    IF v.index # 0 THEN v.index
    ELSE IF v.second # 0 /\ v.prec = "" THEN v.second
    ELSE IF v.flagged /\ v.width = "*" THEN 0 ELSE v.first
At(index, next) == IF index # 0 THEN index ELSE next
\* Mutant: the width or precision given by * takes no argument.
StarsFree(kind, index, next) == next
AfterStar(kind, index, next) == IF kind = "*" THEN At(index, next) + 1 ELSE next
Directive(state, v) ==
    LET free == AfterStar(v.prec, v.second, AfterStar(v.width, WidthIndex(v), state.next))
        arg == At(VerbIndex(v), free)
    IN  [next |-> IF v.verb = "%" THEN free ELSE arg + 1,
         wraps |-> state.wraps \cup (IF v.verb = "w" THEN {arg} ELSE {})]
WrapArgs(verbs) ==
    LET after[k \in 0..Len(verbs)] ==
            IF k = 0 THEN [next |-> 1, wraps |-> {}] ELSE Directive(after[k - 1], verbs[k])
    IN  after[Len(verbs)].wraps

ErrorfWraps(e, err) ==
    /\ WrapArgs(e.verbs) # {}
    /\ \A arg \in WrapArgs(e.verbs) : arg \in DOMAIN e.args /\ e.args[arg] = err
JoinsOnly(e, err) ==
    /\ \A arg \in DOMAIN e.args : e.args[arg] \in {err, "nil"}
    /\ \E arg \in DOMAIN e.args : e.args[arg] = err
Propagates(e, err) ==
    \/ e.form = "ident" /\ e.name = err
    \/ e.form = "fmt.Errorf" /\ ErrorfWraps(e, err)
    \/ e.form = "errors.Join" /\ JoinsOnly(e, err)
IsZero(e) == \/ e.form = "ident" /\ e.name \in {"nil", "false"}
             \/ e.form = "literal" /\ e.name = "zero"

PropagatesReturn(exprs, err, results) ==
    /\ DOMAIN exprs = DOMAIN results
    /\ \E r \in DOMAIN results : results[r] = "error"
    /\ \A r \in DOMAIN results :
           IF results[r] = "error" THEN Propagates(exprs[r], err) ELSE IsZero(exprs[r])

IsSimpleErrorReturn(i, results) ==
    /\ tree[i].kind = "if" /\ Part(tree, i, "else") = <<>>
    /\ \E ret, check \in DOMAIN tree :
         /\ Part(tree, i, "body") = <<ret>> /\ tree[ret].kind = "return"
         /\ Part(tree, i, "cond") = <<check>> /\ tree[check].kind = "errcheck"
         /\ PropagatesReturn(tree[ret].data, tree[check].data, results)
Discounted(i, results) == ~CountErrorBranches /\ IsSimpleErrorReturn(i, results)
-------------------------------------------------------------------------------
(* The walk *)

Tasks(op, nodes, results) ==
    [k \in DOMAIN nodes |-> [op |-> op, at |-> nodes[k], results |-> results]]
Stmts(i, part, results) == Tasks("stmt", Part(tree, i, part), results)
Lits(nodes, results) == Tasks("lits", nodes, results)

NoCounts == [branches |-> 0, statements |-> 0, cyclomatic |-> 1]
Panicked == -1

StartFunction(i) ==
    /\ fn' = i /\ counts' = NoCounts
    /\ tasks' = Stmts(i, "body", tree[i].data)

Charge(branches, statements, cyclomatic) ==
    counts' = [branches |-> counts.branches + branches,
               statements |-> counts.statements + statements,
               cyclomatic |-> counts.cyclomatic + cyclomatic]
\* The tasks of the node come before what was left to do.
Continue(new) == tasks' = new \o Tail(tasks) /\ UNCHANGED fn

BooleanComplexity(i) == Cardinality({j \in Below(tree, i) : tree[j].kind = "andor"})
InCondition(i) ==
    LET cond == Part(tree, i, "cond")
    IN  IF tree[i].kind \in {"if", "for"} THEN BooleanComplexity(cond[1]) ELSE 0

\* Mutant: the init statement goes with the rest.
DiscountAll(t) == /\ Discounted(t.at, t.results) /\ UNCHANGED counts /\ Continue(<<>>)
Discount(t) ==
    /\ Discounted(t.at, t.results)
    /\ UNCHANGED counts /\ Continue(Stmts(t.at, "init", t.results))

EnterBlock(t) == /\ tree[t.at].kind = "block"
                 /\ UNCHANGED counts /\ Continue(Stmts(t.at, "body", t.results))

IsEndless(i) == tree[i].kind = "for" /\ Part(tree, i, "cond") = <<>>
EndlessLoop(t) == /\ IsEndless(t.at)
                  /\ counts' = [counts EXCEPT !.cyclomatic = Panicked]
                  /\ tasks' = <<>> /\ UNCHANGED fn

\* if, for, range, the two switches and select; their clauses are in the body.
Branch(t) ==
    /\ tree[t.at].kind \in Branching
    /\ ~Discounted(t.at, t.results) /\ ~IsEndless(t.at)
    /\ Charge(1, 1, 1 + InCondition(t.at))
    /\ Continue(Lits(Part(tree, t.at, "cond"), t.results)
                \o Stmts(t.at, "init", t.results)
                \o Stmts(t.at, "body", t.results) \o Stmts(t.at, "else", t.results))

\* A default clause has no case list and no communication.
Clause(t) ==
    /\ tree[t.at].kind = "clause"
    /\ IF Part(tree, t.at, "cond") = <<>> THEN UNCHANGED counts ELSE Charge(1, 0, 1)
    /\ Continue(Lits(Part(tree, t.at, "cond"), t.results) \o Stmts(t.at, "body", t.results))

\* The default branch: every other statement, a labeled one too.
Plain(t) == /\ tree[t.at].kind \in Statements \ Branching
            /\ Charge(0, 1, 0)
            /\ Continue(Lits(Kids(tree, t.at), t.results))

FuncLits(t) ==
    /\ UNCHANGED counts
    /\ Continue(IF tree[t.at].kind = "lit" THEN Stmts(t.at, "body", tree[t.at].data)
                ELSE Lits(Kids(tree, t.at), t.results))

Measure ==
    /\ tasks # <<>>
    /\ LET t == Head(tasks)
       IN  \/ t.op = "lits" /\ FuncLits(t)
           \/ /\ t.op = "stmt"
              /\ Discount(t) \/ EnterBlock(t) \/ EndlessLoop(t) \/ Branch(t) \/ Clause(t) \/ Plain(t)

HasPanicked == counts.cyclomatic = Panicked
Exceeds(c) == \E b \in DOMAIN c : c[b] > Budget[b]
-------------------------------------------------------------------------------
(* What the README says is counted, without a walk *)

ResultsAt(i) == tree[EnclosingFunc(tree, i)].data
\* what a discounted branch leaves out
Dropped(f) ==
    UNION {Below(tree, i) \ UNION {Below(tree, j) : j \in Range(Part(tree, i, "init"))} :
              i \in {j \in Below(tree, f) : tree[j].kind = "if" /\ Discounted(j, ResultsAt(j))}}
ConditionOf(i) == UNION {Below(tree, j) : j \in Range(Part(tree, i, "cond"))}
Reference(f) ==
    LET charged == Below(tree, f) \ Dropped(f)
        branches == {i \in charged : \/ tree[i].kind \in Branching
                                     \/ tree[i].kind = "clause" /\ Part(tree, i, "cond") # <<>>}
        decisions == {i \in charged : /\ tree[i].kind = "andor"
                                      /\ \E j \in charged : /\ tree[j].kind \in {"if", "for"}
                                                            /\ i \in ConditionOf(j)}
    IN  [branches |-> Cardinality(branches),
         statements |-> Cardinality({i \in charged : tree[i].kind \in Statements}),
         cyclomatic |-> 1 + Cardinality(branches) + Cardinality(decisions)]

\* Code the walk is not exact for: labels hide what they label, an endless loop
\* panics, literals in a condition have their operators counted again, literals
\* in the return of a discounted branch are not seen. Literals below any return
\* are left aside with those.
IsOrdinary(f) ==
    \A i \in Below(tree, f) :
        /\ tree[i].kind # "label" /\ ~IsEndless(i)
        /\ tree[i].kind = "lit" =>
               ~\E j \in Around(tree)[i] : /\ tree[j].part = "cond"
                                           /\ tree[tree[j].up].kind \in {"if", "for", "return"}

Measured == fn # 0 /\ tasks = <<>>

\* README 801-813: for every function of ordinary code the three numbers are
\* those of its text, whatever is nested in what: the init statement of a
\* discounted branch and the bodies of function literals count, the branch
\* itself does not, and nothing counts twice.
MeasureExact == Measured /\ IsOrdinary(fn) => counts = Reference(fn)

\* fmt reads a directive from left to right: every index says which argument
\* comes next, whoever takes it. The errors wrapped by an expression, by the
\* numbers of its arguments; a %w that is left without one wraps nothing.
Past(kind, arg) == IF kind = "*" THEN arg + 1 ELSE arg
ArgOf(v, next) == At(v.index, Past(v.prec, At(v.second, Past(v.width, At(v.first, next)))))
After(v, arg) == IF v.verb = "%" THEN arg ELSE arg + 1
ArgNumber(verbs) ==
    LET arg[k \in 1..Len(verbs)] ==
            ArgOf(verbs[k], IF k = 1 THEN 1 ELSE After(verbs[k - 1], arg[k - 1]))
    IN  arg
WrappedBy(e) ==
    IF e.form = "ident" THEN {e.name}
    ELSE IF e.form = "errors.Join" THEN Range(e.args) \ {"nil"}
    ELSE LET taken == {ArgNumber(e.verbs)[k] : k \in {v \in DOMAIN e.verbs : e.verbs[v].verb = "w"}}
         IN  {e.args[arg] : arg \in taken \cap DOMAIN e.args}

\* The rule reads formats as fmt does but for two: an index right behind % in
\* front of the * of a width, with none before the verb (fmt.Errorf("%[2]*w", x,
\* err, other) wraps other and is discounted as err), and an index for %%. An
\* index that no argument has is an error in itself.
ReadAlike(v) ==
    /\ v.first # 0 /\ v.width = "*" => v.flagged \/ v.index # 0 \/ (v.second # 0 /\ v.prec = "")
    /\ v.verb = "%" => VerbIndex(v) = 0
FormatReadAlike(e) ==
    \A k \in DOMAIN e.verbs :
        LET v == e.verbs[k]
        IN  ReadAlike(v) /\ {v.first, v.second, v.index} \subseteq 0..Len(e.args)

\* README 807-809: in formats that the rule reads as fmt does, a branch is
\* discounted only if it returns the checked error, alone or wrapped, wherever
\* its function or literal returns an error. In the others it may return another.
DiscountsOnlyErrorFlow ==
    Measured => \A i \in Below(tree, fn) :
        tree[i].kind = "if" /\ Discounted(i, ResultsAt(i)) =>
            LET ret == Part(tree, i, "body")[1]
                check == Part(tree, i, "cond")[1]
            IN  \A r \in DOMAIN ResultsAt(i) :
                    ResultsAt(i)[r] = "error" /\ FormatReadAlike(tree[ret].data[r]) =>
                        WrappedBy(tree[ret].data[r]) = {tree[check].data}

\* README 801-803: the rule flags functions whose branches, statements or
\* complexity exceed the budgets.
OverBudgetFlagged == Measured /\ Exceeds(Reference(fn)) => ~HasPanicked /\ Exceeds(counts)
===============================================================================
