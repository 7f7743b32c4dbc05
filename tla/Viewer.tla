---- MODULE Viewer ----
(* tui.Run: the package tree is built from the loaded packages and the index  *)
(* of violations, then tview's event loop calls the handlers of app.go, one   *)
(* key at a time and on its own goroutine. A path is its sequence of          *)
(* elements, so trailing slashes are gone; the root of the tree is <<>>.      *)
EXTENDS Naturals, Sequences
CONSTANTS Segment,   \* elements of paths
          Module,    \* path of the module
          Inputs     \* what Run may be called with: pkgs, full paths, and viols
VARIABLES input, pc,
          pending,          \* packages BuildTree has not added yet
          tree,             \* node of each relative path in the tree
          current, panel,   \* cursor of the tree; what the detail panel shows
          focus, searchVisible, detailFocused,
          query             \* text of the search field
vars == <<input, pc, pending, tree, current, panel, focus, searchVisible, detailFocused, query>>
search == <<focus, searchVisible, detailFocused, query>>

\* packages.Load returns paths; a violation has a relative path, one of the two
\* severities, and the index is made before BuildTree.
ASSUME InputsAssumption ==
    /\ Module \in Seq(Segment)
    /\ \A i \in Inputs : /\ i.pkgs \subseteq Seq(Segment)
                         /\ i.viols \subseteq [file : Seq(Segment), severity : {"warning", "error"}]

Root == <<>>
\* q is p or lies under p
Below(p, q) == Len(p) <= Len(q) /\ SubSeq(q, 1, Len(p)) = p
Rel(path) == SubSeq(path, Len(Module) + 1, Len(path))
Infos(pkgs) == {Rel(p) : p \in {q \in pkgs : Below(Module, q) /\ q # Module}}

\* ViolationIndex. A key never starts with a slash, so the prefix "/" that
\* walkPath makes for the root fits no key.
At(path) == {v \in input.viols : v.file = path}
WalkPath(path) == At(path) \cup {v \in input.viols : path # Root /\ Below(path, v.file)}
Worst(viols) == IF \E v \in viols : v.severity = "error" THEN "error"
                ELSE IF \E v \in viols : v.severity = "warning" THEN "warning" ELSE "none"
Severity(path) == Worst(WalkPath(path))

\* BuildTree. Packages come in the order of their paths as strings, in which a
\* path comes before every path below it; nothing else of the order is used.
Unsorted(p) == p \in pending   \* mutant: the packages are not sorted
InOrder(p) == \A q \in pending : Below(q, p) => q = p
NewKeys(p) == {SubSeq(p, 1, n) : n \in 1..Len(p)} \ DOMAIN tree
NewNode(key, p) == [leaf |-> key = p, severity |-> Severity(key), expanded |-> Len(key) <= 2]
AddPackage(p) ==
    /\ pc = "build" /\ InOrder(p)
    /\ pending' = pending \ {p}
    /\ tree' = [key \in DOMAIN tree \cup NewKeys(p) |->
                    IF key \in DOMAIN tree THEN tree[key] ELSE NewNode(key, p)]
    /\ UNCHANGED <<input, pc, current, panel, search>>
Built == /\ pc = "build" /\ pending = {}
         /\ pc' = "select"
         /\ UNCHANGED <<input, pending, tree, current, panel, search>>

Children(n) == {m \in DOMAIN tree : Len(m) = Len(n) + 1 /\ Below(n, m)}
\* the nodes tview can move to: all nodes above are expanded
Shown(n) == \A m \in DOMAIN tree : Below(m, n) /\ m # n => tree[m].expanded

\* the violations DetailPanel lists
RenderLeaf(n) == At(n)
RenderExact(n) == At(n)   \* mutant: looks the path up instead of walking it
RenderGroup(n) == WalkPath(n)
Update(n) == [shown |-> TRUE, node |-> n,
              listed |-> IF tree[n].leaf THEN RenderLeaf(n) ELSE RenderGroup(n)]

\* filterNode. A query is what it selects: the elements that contain it, and
\* whether it is a slash; later queries are never reached (see Draw).
NoQuery == [in |-> {}, slash |-> FALSE, empty |-> TRUE]
Queries == [in : SUBSET Segment, slash : BOOLEAN, empty : {FALSE}]
Matches(n, q) == (q.slash /\ Len(n) >= 2) \/ \E i \in DOMAIN n : n[i] \in q.in
FoundSelf(q) == [n \in DOMAIN tree |-> Matches(n, q)]   \* mutant: forgets the children
Found(q) ==
    LET found[n \in DOMAIN tree] == Matches(n, q) \/ \E m \in Children(n) : found[m]
    IN  found
Filtered(q) ==
    [n \in DOMAIN tree |-> [tree[n] EXCEPT !.expanded = IF q.empty THEN TRUE ELSE Found(q)[n]]]

\* tview's Application.Draw queues an update and waits until the event loop has
\* taken it from the queue. The event loop is the caller.
Draw == pc' = "waiting"
FilterTree(q) == tree' = Filtered(q) /\ Draw

Tab == /\ pc = "select" /\ ~searchVisible
       /\ detailFocused' = ~detailFocused
       /\ focus' = IF detailFocused' THEN "detail" ELSE "tree"
       /\ UNCHANGED <<input, pc, pending, tree, current, panel, searchVisible, query>>
\* q outside the search field; tview stops on Ctrl-C whatever has the focus
Stop == /\ pc = "select"
        /\ pc' = "stopped"
        /\ UNCHANGED <<input, pending, tree, current, panel, search>>
OpenSearch == /\ pc = "select" /\ ~searchVisible
              /\ searchVisible' = TRUE /\ focus' = "search"
              /\ UNCHANGED <<input, pc, pending, tree, current, panel, detailFocused, query>>
Move(n) == /\ pc = "select" /\ focus = "tree" /\ Shown(n) /\ n # current
           /\ current' = n /\ panel' = Update(n)
           /\ UNCHANGED <<input, pc, pending, tree, search>>
Toggle == /\ pc = "select" /\ focus = "tree"
          /\ tree' = [tree EXCEPT ![current].expanded = ~@]
          /\ UNCHANGED <<input, pc, pending, current, panel, search>>
Type(q) == /\ pc = "select" /\ focus = "search"
           /\ query' = q /\ FilterTree(q)
           /\ UNCHANGED <<input, pending, current, panel, focus, searchVisible, detailFocused>>
CloseHalf == /\ pc = "select" /\ focus = "search"   \* mutant: the flag stays set
             /\ focus' = "tree" /\ UNCHANGED searchVisible
CloseSearch == /\ pc = "select" /\ focus = "search"
               /\ searchVisible' = FALSE /\ focus' = "tree"
Accept == /\ CloseSearch
          /\ UNCHANGED <<input, pc, pending, tree, current, panel, detailFocused, query>>
Cancel == /\ CloseSearch
          /\ query' = NoQuery /\ FilterTree(NoQuery)
          /\ UNCHANGED <<input, pending, current, panel, detailFocused>>


Init == /\ input \in Inputs /\ pc = "build"
        /\ pending = Infos(input.pkgs)
        /\ tree = [n \in {Root} |-> [leaf |-> FALSE, severity |-> "none", expanded |-> TRUE]]
        /\ current = Root /\ panel = [shown |-> FALSE, node |-> Root, listed |-> {}]
        /\ focus = "tree" /\ searchVisible = FALSE /\ detailFocused = FALSE
        /\ query = NoQuery
Next == \/ \E p \in pending : AddPackage(p)
        \/ Built
        \/ Tab \/ Stop \/ OpenSearch \/ Toggle \/ Accept \/ Cancel
        \/ \E n \in DOMAIN tree : Move(n)
        \/ \E q \in Queries : Type(q)
Spec == Init /\ [][Next]_vars

-------------------------------------------------------------------------------
\* Types of the variables; the cursor and the panel are on nodes of the tree.
TypeOK ==
    /\ pc \in {"build", "select", "waiting", "stopped"}
    /\ focus \in {"tree", "detail", "search"}
    /\ searchVisible \in BOOLEAN /\ detailFocused \in BOOLEAN
    /\ query \in Queries \cup {NoQuery}
    /\ pending \subseteq Infos(input.pkgs)
    /\ \A n \in DOMAIN tree : tree[n] \in [leaf : BOOLEAN, expanded : BOOLEAN,
                                            severity : {"none", "warning", "error"}]
    /\ {Root, current, panel.node} \subseteq DOMAIN tree
    /\ panel.listed \subseteq input.viols

\* The capture function lets every key through exactly while the search field
\* has the focus: no key typed into a query quits, no Tab is lost in it.
SearchOwnsKeys == searchVisible <=> focus = "search"

\* BuildTree decides that a node is a package when it creates the node, which a
\* package below it may do first: a package must keep its imports and its
\* metrics all the same, and a directory must not be taken for a package.
PackagesAreLeaves ==
    pc # "build" =>
        /\ \A n \in DOMAIN tree : tree[n].leaf <=> n \in Infos(input.pkgs)
        /\ Infos(input.pkgs) \subseteq DOMAIN tree

\* The colour is computed when the tree is built, the panel when the cursor
\* arrives: a green node has nothing to list, and a directory that lists nothing
\* is green.
GreenIsClean ==
    panel.shown /\ panel.node # Root =>
        /\ tree[panel.node].severity = "none" => panel.listed = {}
        /\ ~tree[panel.node].leaf /\ panel.listed = {} => tree[panel.node].severity = "none"

\* filterNode visits the whole tree and collapses what has no match: every node
\* that matches can be seen, and nothing is left expanded around no match.
FilterReveals ==
    query # NoQuery =>
        \A n \in DOMAIN tree :
            /\ Matches(n, query) => Shown(n)
            /\ tree[n].expanded => \E m \in DOMAIN tree : Below(n, m) /\ Matches(m, query)

\* README and the titles of the panes offer "/ search" and "q quit": whatever
\* the user types, the event loop comes back for the next key.
KeysAreServed == pc # "waiting"

====
