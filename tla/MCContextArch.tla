---- MODULE MCContextArch ----
(* Every Direction map over three layers with at most two targets per key,   *)
(* keys and targets in any order, and larger maps, each validated within a   *)
(* policy that is right in everything else; and policies with every fault    *)
(* the other blocks look for, alone and together with a cycle. Two of them   *)
(* are also written to.                                                      *)
EXTENDS ContextArch, TLC
CONSTANTS a, b, c, d
MCLayer == {a, b, c, d, Empty}
Small == {a, b, c}
TargetLists == {<<>>} \cup {<<x>> : x \in Small}
                 \cup {l \in Small \X Small : l[1] # l[2]}
\* a diamond, a cycle reached through a tail with a key-less target, and a
\* target listed twice
Large == { a :> <<b, c>> @@ b :> <<d>> @@ c :> <<d>> @@ d :> <<>>,
           a :> <<d, b>> @@ b :> <<c>> @@ c :> <<d, b>>,
           a :> <<b, b>> @@ b :> <<c, c>> @@ c :> <<>> }
StringOrder == <<Empty, a, b, c, d>>
InOrder(S) == SelectSeq(StringOrder, LAMBDA l : l \in S)

Plain(dir) == [direction |-> dir, sublayers |-> InOrder(DOMAIN dir), ports |-> <<>>,
               contracts |-> <<>>, patternDirs |-> <<>>, pkgRestricted |-> {},
               excluded |-> {}, dirNames |-> {}, topLevel |-> {},
               banned |-> <<>>, legacy |-> <<>>, plain |-> [f \in PlainFields |-> Zero(f)]]

Tree == a :> <<b, c>> @@ b :> <<c>> @@ c :> <<>>
Ring == a :> <<b>> @@ b :> <<a>> @@ c :> <<>>
Full(dir) == [Plain(dir) EXCEPT !.ports = <<c>>, !.contracts = <<b, c>>,
                  !.patternDirs = <<a>>, !.pkgRestricted = {a}, !.excluded = {b},
                  !.dirNames = {a, d}, !.topLevel = {d},
                  !.banned = <<d, c>>, !.legacy = <<b>>,
                  !.plain = [f \in PlainFields |-> IF f \in Switches THEN TRUE ELSE a]]
Faulty == UNION {{
    [Full(dir) EXCEPT !.sublayers = <<a, b>>],
    [Full(dir) EXCEPT !.sublayers = <<a, b, c, d>>],
    [Full(dir) EXCEPT !.sublayers = <<a, b, c, a>>],
    [Full(dir) EXCEPT !.sublayers = <<a, b, c, Empty>>],
    [Full(dir) EXCEPT !.ports = <<c, a>>],
    [Full(dir) EXCEPT !.contracts = <<c, d>>],
    [Full(dir) EXCEPT !.ports = <<d>>, !.contracts = <<d>>],
    [Full(dir) EXCEPT !.patternDirs = <<Empty>>],
    [Full(dir) EXCEPT !.pkgRestricted = {a, d}],
    [Full(dir) EXCEPT !.excluded = {Empty}],
    [Full(dir) EXCEPT !.dirNames = {a, Empty}],
    [Full(dir) EXCEPT !.topLevel = {Empty}],
    [Full(Empty :> <<a>> @@ dir) EXCEPT !.sublayers = <<a, b, c, Empty>>],
    [Full(a :> <<d>> @@ dir) EXCEPT !.sublayers = <<a, b, c>>]} : dir \in {Tree, Ring}}

MCDisturbed == {Full(Tree), Plain(a :> <<a>> @@ b :> <<>>)}
MCPolicies == {Plain(dir) : dir \in Large \cup UNION {[K -> TargetLists] : K \in SUBSET Small}}
                \cup Faulty \cup {Full(Tree), Full(Ring)} \cup MCDisturbed
MCDirections == {p.direction : p \in MCPolicies}
MCSources == [m \in MCDirections |-> InOrder(DOMAIN m)]
====
