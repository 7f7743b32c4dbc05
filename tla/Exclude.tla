-------------------------------- MODULE Exclude --------------------------------
(***************************************************************************)
(* Context.IsExcluded (src/core/context.go, src/core/utils.go): which      *)
(* packages the import rules leave out.                                    *)
(*                                                                         *)
(* A string is cut at its slashes: "/internal/legacy/..." is               *)
(* <<"", "internal", "legacy", "...">>, "" is <<"">>. The cut loses        *)
(* nothing; other uses of a backslash than as a slash are left out.        *)
(***************************************************************************)
EXTENDS Presets

\* what is before a slash at the beginning, behind one at the end
NoPiece == ""
\* A piece that ends with "...", and what is left of it without the dots.
Stem == [e \in {"...", "a..."} |-> IF e = "..." THEN NoPiece ELSE "a"]

\* strings.TrimPrefix(path, "/")
TrimRoot(s) == IF Len(s) > 1 /\ s[1] = NoPiece THEN Tail(s) ELSE s

\* for strings.HasPrefix(path, "./")
TrimDots(s) ==
    LET k == CHOOSE k \in 0..Len(s) - 1 :
                 /\ \A i \in 1..k : s[i] = "."
                 /\ k = Len(s) - 1 \/ s[k + 1] # "."
    IN  SubSeq(s, k + 1, Len(s))

\* Mutant: the trailing slash stays.
KeepSlash(s) == s

\* strings.TrimSuffix(path, "/"), which "..." does not end with
TrimSlash(s) == IF Len(s) > 1 /\ s[Len(s)] = NoPiece THEN SubSeq(s, 1, Len(s) - 1) ELSE s

NormalizeMatchPath(s) == TrimSlash(TrimDots(TrimRoot(s)))

\* strings.TrimRight(prefix, "/")
TrimRight(s) ==
    LET k == CHOOSE k \in 1..Len(s) :
                 /\ \A i \in k + 1..Len(s) : s[i] = NoPiece
                 /\ k = 1 \/ s[k] # NoPiece
    IN  SubSeq(s, 1, k)

\* path == prefix || strings.HasPrefix(path, prefix+"/")
AtOrBelow(path, prefix) == path = prefix \/ Under(path, prefix)

\* A pattern of nothing but "..." is too short to be one.
matchExcludePattern(pattern, path) ==
    LET last == pattern[Len(pattern)] IN
    IF last \in DOMAIN Stem /\ pattern # <<"...">>
    THEN AtOrBelow(path, TrimRight([pattern EXCEPT ![Len(pattern)] = Stem[last]]))
    ELSE pattern = path

\* analysisutil.ProjectRelativePackagePath
ProjectRelative(module, pkg) ==
    IF module = "" THEN <<NoPiece>>
    ELSE IF pkg = <<module>> THEN <<".">>
    ELSE IF Under(pkg, <<module>>) THEN SubSeq(pkg, 2, Len(pkg)) ELSE <<NoPiece>>

\* NewContext normalizes the patterns, IsExcluded the path.
IsExcluded(patterns, path) ==
    \E p \in patterns :
        matchExcludePattern(NormalizeMatchPath(p), NormalizeMatchPath(path))

ExcludedPackages(module, patterns, pkgs) ==
    {p \in pkgs : IsExcluded(patterns, ProjectRelative(module, p))}

\* The shapes in which a pattern may name a directory, or one with all below
\* it, or nothing but what is below: "...", "/..." and "./...".
Spells(s, w) ==
    \E lead \in {<<>>, <<NoPiece>>}, n \in 0..Len(s) :
        LET Is(t) == s = lead \o [i \in 1..n |-> "."] \o t IN
        IF w.below
        THEN \/ Is(Append(w.dir, "..."))
             \/ /\ w.dir # <<>>
                /\ \E e \in DOMAIN Stem : Stem[e] = w.dir[Len(w.dir)] /\ Is([w.dir EXCEPT ![Len(w.dir)] = e])
        ELSE Is(w.dir) \/ Is(Append(w.dir, NoPiece))

\* patterns, wanted: what ctx.IsExcluded matches, and what it was written for
ASSUME PatternsAssumption ==
    /\ Segment \cap ({"."} \cup DOMAIN Stem) = {}
    /\ \A in \in Inputs :
         /\ {"patterns", "excluded"} \subseteq DOMAIN in
         /\ in.excluded = ExcludedPackages(in.module, in.patterns, Loaded(in))
         /\ \A w \in in.wanted : w.dir \in Seq(Segment) /\ (w.dir = <<>> => w.below) /\ \E s \in in.patterns : Spells(s, w)
         /\ \A s \in in.patterns : \E w \in in.wanted : Spells(s, w)
-------------------------------------------------------------------------------
\* What the patterns stand for: a directory, alone or with all below it. One
\* of nothing but dots names no directory and leaves out nothing (context.go
\* 107: longer than the dots), where one may read README.md 980 as "all".
MeantOut(in, p) ==
    \E w \in in.wanted :
        /\ w.dir # <<>>
        /\ \/ p = <<in.module>> \o w.dir
           \/ w.below /\ Under(p, <<in.module>> \o w.dir)

(* "Equivalent shapes (/internal/foo, internal/foo, internal/foo/,         *)
(* ./internal/foo) all match the same paths" and "... matches the root and *)
(* all descendants" (README.md 978-980, context.go 95-111): in whichever   *)
(* shape the pattern was written, the import rules report no import made   *)
(* where it was meant and every forbidden import made elsewhere, those     *)
(* into what is left out too, and all of them when it names no directory.  *)
ExclusionIsExact ==
    rule = "done" =>
        \A r \in Rules : Ran(r) =>
            \A p \in Loaded(input) : \A q \in input.imports[p] :
                Reported(r, p, q) <=>
                    /\ ~MeantOut(input, p)
                    /\ Inspects([input EXCEPT !.excluded = {}], r, p)
                    /\ Verdict(input, r, p, q) # Allowed
================================================================================
