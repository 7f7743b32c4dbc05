-------------------------------- MODULE MCGuard --------------------------------
(* Every tree that grows from one orchestration function by three nodes, and  *)
(* from some larger beginnings by two; every import graph over three packages with every kind of     *)
(* error; packages of every layer of three layouts with calls and signatures. *)
EXTENDS Guard, TLC

DDD == [root |-> <<"internal">>, domainDir |-> "domain", orchestrationDir |-> "orchestration",
        sharedDir |-> "pkg", appDir |-> "app", serverDir |-> "server",
        sublayers |-> <<<<"app">>, <<"core">>, <<"core", "model">>, <<"infra">>>>,
        restrictedKeys |-> {<<"core", "model">>}, pkgRestricted |-> {<<"core", "model">>}]
Nested == [DDD EXCEPT !.root = <<"src", "internal">>, !.pkgRestricted = {}]
Flat == [DDD EXCEPT !.restrictedKeys = {}, !.pkgRestricted = {}, !.domainDir = "", !.orchestrationDir = "", !.appDir = "",
                    !.sublayers = <<<<"app">>, <<"store">>, <<"entity">>>>]
-------------------------------------------------------------------------------
(* Trees *)

ErrIdent == Expr("ident", "err", <<>>, <<>>)
Verb(verb) == [flagged |-> FALSE, first |-> 0, width |-> "", dot |-> FALSE, second |-> 0, prec |-> "",
               index |-> 0, verb |-> verb]
Star == [Verb("w") EXCEPT !.width = "*"]            \* %*w
Formats ==
    {<<Verb("v"), Verb("w")>>, <<Verb("w"), Verb("w")>>, <<Verb("w"), Verb("%"), Verb("w")>>,
     <<[Verb("v") EXCEPT !.first = 2], [Verb("w") EXCEPT !.first = 1], Verb("w")>>}
    \cup {<<v>> : v \in {
        Verb("w"), Star, [Verb("w") EXCEPT !.width = "n"], [Star EXCEPT !.dot = TRUE, !.prec = "*"],
        [Star EXCEPT !.first = 2],                                      \* %[2]*w
        [Star EXCEPT !.first = 2, !.flagged = TRUE],                    \* %+[2]*w
        [Star EXCEPT !.first = 1, !.index = 2],                         \* %[1]*[2]w
        [Verb("w") EXCEPT !.dot = TRUE, !.second = 2],                  \* %.[2]w
        [Verb("w") EXCEPT !.dot = TRUE, !.second = 2, !.prec = "*"],    \* %.[2]*w
        [Star EXCEPT !.first = 1, !.dot = TRUE, !.second = 2, !.prec = "*"]}}
Errorf(args, verbs) == Expr("fmt.Errorf", "", args, verbs)
Returns == {<<ErrIdent>>, <<Expr("ident", "nil", <<>>, <<>>)>>}

\* what may be written in a part of a node
Stmt(part) == {Node(k, 0, part, NoData) : k \in {"if", "for", "switch", "block", "label", "plain"}}
              \cup {Node("return", 0, part, r) : r \in Returns}
Operand(part) == {Node("andor", 0, part, "and"), Node("andor", 0, part, "or"), Node("lit", 0, part, <<"error">>)}
NodesIn == [kind \in Statements \cup {"func", "lit", "block", "clause", "andor", "errcheck", "call"} |->
    CASE kind \in {"func", "lit", "block", "label"} -> Stmt("body")
      [] kind = "if" -> Operand("cond") \cup {Node("errcheck", 0, "cond", "err"), Node("plain", 0, "init", NoData)}
                        \cup Stmt("body") \cup {Node(k, 0, "else", NoData) : k \in {"block", "if"}}
      [] kind = "for" -> Operand("cond") \cup {Node("plain", 0, "init", NoData)} \cup Stmt("body")
      [] kind = "switch" -> {Node("clause", 0, "body", NoData)}
      [] kind = "clause" -> Operand("cond") \cup Stmt("body")
      [] kind \in {"plain", "andor"} -> Operand("cond")
      [] OTHER -> {}]
Rank(part) == CASE part = "cond" -> 1 [] part = "init" -> 2 [] part = "body" -> 3 [] OTHER -> 4
\* A part that is complete, or that comes before what is there already.
Full(tree0, i, part) ==
    \E j \in i + 1..Len(tree0) :
        /\ tree0[j].up = i
        /\ \/ Rank(tree0[j].part) > Rank(part)
           \/ tree0[i].kind = "label"
           \/ tree0[i].kind \in {"if", "for"} /\ part # "body" /\ tree0[j].part = part
Grown(tree0) ==
    UNION {{Append(tree0, [n EXCEPT !.up = i]) :
               n \in {m \in NodesIn[tree0[i].kind] : ~Full(tree0, i, m.part)}} :
           i \in Around(tree0)[Len(tree0)]}
Finished(tree0) ==
    \A i \in DOMAIN tree0 :
        /\ tree0[i].kind = "if" => \E j \in DOMAIN tree0 : tree0[j].up = i /\ tree0[j].part = "cond"
        /\ tree0[i].kind = "label" => \E j \in DOMAIN tree0 : tree0[j].up = i
\* seed and the trees that grow from it by at most n nodes
Trees(seed, n) ==
    LET trees[k \in 0..n] == IF k = 0 THEN {seed} ELSE UNION {Grown(t) : t \in trees[k - 1]}
    IN  {t \in UNION {trees[k] : k \in 0..n} : Finished(t)}
Func == Node("func", 0, "body", <<"error">>)
If(up, part) == <<Node("if", up, part, NoData), Node("errcheck", up + 1, "cond", "err")>>
ReturnOf(up, exprs) == <<Node("return", up, "body", exprs)>>
Stmts3 == <<Node("plain", 1, "body", NoData), Node("plain", 1, "body", NoData)>>

\* if err != nil { return ... } with all that may be returned, in functions of
\* other results, below a literal and with an else
ErrorReturns ==
    {<<[Func EXCEPT !.data = rs]>> \o If(1, "body") \o ReturnOf(2, es) :
        rs \in {<<"error">>, <<>>},
        es \in Returns \cup {<<Errorf(args, verbs)>> :
                args \in {<<"err">>, <<"err", "other">>, <<"other", "err">>, <<"x", "err", "other">>}, verbs \in Formats}
            \cup {<<Expr("errors.Join", "", <<"err", "nil">>, <<>>)>>,
            <<Expr("errors.Join", "", <<"err", "other">>, <<>>)>>,
            <<Expr("literal", "zero", <<>>, <<>>), ErrIdent>>}}
    \cup {<<[Func EXCEPT !.data = <<"other", "error">>]>> \o If(1, "body") \o ReturnOf(2, <<e, ErrIdent>>) :
             e \in {Expr("literal", "zero", <<>>, <<>>), Expr("literal", "one", <<>>, <<>>)}}
    \cup {<<Func, Node("plain", 1, "body", NoData), Node("lit", 2, "cond", rs)>> \o If(3, "body") \o ReturnOf(4, <<ErrIdent>>) :
             rs \in {<<"error">>, <<"other">>}}
Others == {<<Func, Node("select", 1, "body", NoData), Node("clause", 2, "body", NoData), Node("call", 3, "cond", Callee("", "func", "f")),
             Node("lit", 4, "cond", <<>>), Node("range", 5, "body", NoData), Node("plain", 3, "body", NoData)>>}
Bodies == Trees(<<Func>>, 3) \cup Trees(<<Func>> \o If(1, "body"), 2)
          \cup Trees(<<Func>> \o If(1, "body") \o <<Node("plain", 2, "init", NoData)>>, 2)
          \cup Trees(<<Func, Node("plain", 1, "body", NoData), Node("lit", 2, "cond", <<>>)>>, 2)
          \cup ErrorReturns \cup Others

Shifted(t, k) == [i \in DOMAIN t |-> [t[i] EXCEPT !.up = IF @ = 0 THEN 0 ELSE @ + k]]
Two(s, t) == s \o Shifted(t, Len(s))
Busy == <<Func>> \o If(1, "body") \o Stmts3 \o Shifted(If(0, "body"), 5)
Pair == {<<Func>> \o Stmts3, [Busy EXCEPT ![6].up = 1], <<Func, Node("for", 1, "body", NoData)>>}
-------------------------------------------------------------------------------
(* Projects *)

TypeOf(kind, id, parts) == [kind |-> kind, id |-> id, parts |-> parts]
MCTypes == "Tx" :> TypeOf("named", "sql.Tx", <<>>) @@ "*Tx" :> TypeOf("other", "", <<"Tx">>)
           @@ "Alias" :> TypeOf("alias", "", <<"Again">>) @@ "Again" :> TypeOf("alias", "", <<"*Tx">>)
           @@ "func" :> TypeOf("other", "", <<"Alias", "TxAlias", "List", "*Tx">>)
           @@ "TxAlias" :> TypeOf("alias", "", <<"Tx">>)
           @@ "List" :> TypeOf("named", "m.List", <<"Conn">>) @@ "Conn" :> TypeOf("named", "sql.Conn", <<>>)
           @@ "iface" :> TypeOf("other", "", <<"self", "Conn">>) @@ "self" :> TypeOf("alias", "", <<"iface">>)
           @@ "Opaque" :> TypeOf("named", "m.Opaque", <<>>)

EmptyFile == [flags |-> {}, exempt |-> {}, tree |-> <<>>, sigs |-> <<>>]
File(t) == [EmptyFile EXCEPT !.tree = t]
Package(path, file) == [path |-> path, excluded |-> FALSE, file |-> file]
In(arch, rest) == InternalPrefix(arch, "m") \o rest
One == [caller |-> "test", dir |-> TRUE, list |-> TRUE, roots |-> <<1>>, imports |-> <<{}>>,
        errors |-> <<<<>>>>, needs |-> <<"">>, module |-> <<"m">>, moduleDirs |-> {1}, goFiles |-> {1},
        settings |-> <<>>, explicit |-> <<>>, disable |-> FALSE, info |-> TRUE, rules |-> With(RecommendedDDD, Tx),
        arch |-> DDD, code |-> <<Package(In(DDD, <<"orchestration">>), EmptyFile)>>, types |-> <<>>]
Orchestrated(path, file) == [One EXCEPT !.code = <<Package(In(DDD, path), file)>>]

Measurings ==
    {Orchestrated(<<"orchestration">>, File(t)) : t \in Bodies}
    \cup {Orchestrated(path, [File(Two(s, t)) EXCEPT !.exempt = x, !.flags = f]) :
             path \in {<<"orchestration", "order">>, <<"app">>}, s, t \in Pair, x \in {{}, {1}}, f \in {{}, {"ignored"}}}
    \cup {[One EXCEPT !.roots = <<2, 1>>, !.imports = <<{}, {}>>, !.errors = <<<<>>, <<>>>>, !.needs = <<"", "">>, !.module = <<"m", "m">>,
                      !.code = <<Package(In(DDD, <<"orchestration">>), File(s)),
                                 Package(In(DDD, <<"orchestration", "order">>), File(t))>>] : s, t \in Pair}

MCKinds == {<<>>, <<"type">>, <<"parse">>, <<"type", "unknown">>}
Graphs == {g \in [1..3 -> SUBSET (1..2)] : \A p \in 1..3 : g[p] \subseteq 1..p - 1}
Plain3 == <<Package(In(DDD, <<"pkg">>), EmptyFile), Package(In(DDD, <<"domain", "a", "app">>), EmptyFile),
            Package(In(DDD, <<"orchestration">>), EmptyFile)>>
Loadings ==
    {[One EXCEPT !.caller = c, !.roots = r, !.imports = g, !.errors = e, !.needs = <<"", "", "">>, !.code = Plain3,
                 !.module = <<"m", "m", "m">>, !.moduleDirs = 1..3, !.goFiles = 1..3] :
        c \in {"test", "viewer"}, r \in {<<3>>, <<2, 3>>, <<3, 1>>}, g \in Graphs, e \in [1..3 -> MCKinds]}
    \cup {[One EXCEPT !.caller = c, !.dir = d, !.list = l, !.module = <<n>>, !.moduleDirs = md, !.goFiles = gf, !.roots = r] :
             c \in {"test", "viewer"}, d, l \in BOOLEAN, n \in {"", "m"}, md, gf \in {{}, {1}}, r \in {<<>>, <<1>>}}

\* A package whose error, if any, is in a file built under a tag, in builds
\* with what the binary was built with and what the caller asks for.
Arg(name, value) == [name |-> name, eq |-> TRUE, value |-> value]
Word(name) == [name |-> name, eq |-> FALSE, value |-> ""]
Settings == {<<>>, <<Arg("-tags", "a")>>, <<Arg("-race", "true"), Arg("-tags", "b")>>,
             <<Arg("-tags", ""), Arg("vcs", "git"), Arg("-msan", "false")>>}
Explicits == {<<>>, <<Arg("-tags", "b")>>, <<Word("-tags"), Word("b")>>, <<Arg("--tags", "b"), Word("-race")>>,
              <<Arg("-tags", "b"), Word("-v"), Word("--tags"), Word("a")>>, <<Arg("-race", "false")>>}
Flaggings ==
    {[One EXCEPT !.settings = s, !.explicit = x, !.disable = i = "disabled", !.info = i # "no info", !.imports = <<{}, {1}>>,
                 !.roots = broken.roots, !.errors = <<broken.errors, <<>>>>, !.needs = <<t, "">>, !.module = <<"m", "m">>,
                 !.moduleDirs = 1..2, !.goFiles = 1..2, !.code = SubSeq(Plain3, 1, 2)] :
        s \in Settings, x \in Explicits, i \in {"disabled", "no info", "info"}, t \in {"a", "b"},
        broken \in {[roots |-> <<1>>, errors |-> <<"type">>], [roots |-> <<2>>, errors |-> <<"parse">>]}}

CallTree(callee) ==
    <<Func, Node("if", 1, "body", NoData), Node("andor", 2, "cond", "and"), Node("call", 3, "cond", callee),
      Node("lit", 4, "cond", <<>>), Node("plain", 5, "body", NoData), Node("call", 6, "cond", callee)>>
DeclTree(callee) == <<Node("gendecl", 0, "body", NoData), Node("call", 1, "cond", callee)>>
MCCallees == {Callee("panic", "builtin", ""), Callee("panic", "func", "m/x.panic"), Callee("panic", "unknown", ""),
            Callee("", "builtin", ""), Callee("", "func", "os.Exit"), Callee("", "var", ""),
            Callee("", "func", "time.Now"), Callee("", "func", "log.Fatal"), Callee("", "func", "db.Begin"),
            Callee("", "func", "fmt.Sprint")}
CallFiles == {File(t) : t \in {CallTree(c) : c \in MCCallees} \cup {DeclTree(c) : c \in MCCallees}}
             \cup {[File(CallTree(Callee("", "func", "db.Begin"))) EXCEPT !.flags = {f}] : f \in {"test", "generated", "excluded", "allowed"}}
             \cup {[File(CallTree(Callee("", "func", "log.Fatal"))) EXCEPT !.exempt = {1}, !.sigs = <<"Opaque">>]}
             \cup {[EmptyFile EXCEPT !.sigs = q] : q \in {<<"func">>, <<"Opaque", "iface">>, <<"Again", "List">>}}
Called == [One EXCEPT !.types = MCTypes]
Callings ==
    {[Called EXCEPT !.arch = l[1], !.rules = l[2], !.code = <<Package(In(l[1], <<"domain", "a">> \o rest), file)>>] :
        l \in {<<DDD, RecommendedDDD>>, <<DDD, With(RecommendedDDD, Tx)>>, <<Nested, With(RecommendedDDD, Tx)>>},
        rest \in {<<"core", "model">>, <<"app">>, <<"infra">>, <<>>}, file \in CallFiles}
    \cup {[Called EXCEPT !.arch = Flat, !.rules = rules, !.code = <<Package(In(Flat, rest), file)>>] :
             rules \in {With(RecommendedOther, Tx), With(RecommendedOther, NoPanic)},
             rest \in {<<"app">>, <<"store", "sql">>, <<"entity">>}, file \in CallFiles}
    \cup {[Called EXCEPT !.code = <<[Package(In(DDD, <<"domain", "a", "infra">>), file) EXCEPT !.excluded = TRUE]>>] : file \in CallFiles}

\* every place of a package in every layout, all loaded at once
PlaceSeq == <<<<>>, <<"domain">>, <<"domain", "a">>, <<"domain", "a", "app">>, <<"domain", "a", "app", "dto">>,
           <<"domain", "a", "core">>, <<"domain", "a", "core", "model">>, <<"domain", "a", "core", "model", "x">>,
           <<"domain", "a", "core", "port">>, <<"domain", "a", "infra", "model">>, <<"domain", "a", "utils">>,
           <<"app">>, <<"app", "x">>, <<"store">>, <<"store", "sql">>, <<"entity", "app">>, <<"pkg", "app">>, <<"server", "http">>>>
Everywhere ==
    {[One EXCEPT !.arch = arch, !.roots = [i \in DOMAIN PlaceSeq |-> i], !.imports = [i \in DOMAIN PlaceSeq |-> {}],
                 !.errors = [i \in DOMAIN PlaceSeq |-> <<>>], !.needs = [i \in DOMAIN PlaceSeq |-> ""], !.rules = rules,
                 !.module = [i \in DOMAIN PlaceSeq |-> m],
                 !.code = [i \in DOMAIN PlaceSeq |-> Package(InternalPrefix(in, "m") \o PlaceSeq[i], EmptyFile)]] :
        arch \in {DDD, Nested, Flat}, in \in {DDD, Nested}, m \in {"m", "other"}, rules \in {RecommendedDDD, RecommendedOther}}

MCProjects == Everywhere \cup Callings \cup Flaggings \cup Loadings \cup Measurings
MCSegment == {"m", "src", "internal", "domain", "orchestration", "pkg", "app", "server", "a", "core",
              "model", "x", "port", "infra", "utils", "dto", "store", "sql", "entity", "http", "order"}
MCAllowedLayers == {<<"app">>}
MCBudget == [branches |-> 1, statements |-> 3, cyclomatic |-> 2]
\* A labeled loop, or an endless one beside a busy function.
MCBudgetProjects == {Orchestrated(<<"orchestration">>, File(t)) : t \in Trees(<<Func>>, 3)}
===============================================================================
