------------------------------ MODULE PackageKinds ------------------------------
(***************************************************************************)
(* How the dependency rules read a package's import path                   *)
(* (src/rules/dependency/isolation.go, the functions below Check).         *)
(*                                                                         *)
(* A path is the sequence of its segments; a segment is an atom that is    *)
(* only compared. A layout directory is one segment, "" when it is not     *)
(* configured; a sublayer such as "core/model" is a path of its own.       *)
(***************************************************************************)
EXTENDS Naturals, Sequences

NoDir == ""
NoDomain == ""
NoSublayer == <<>>

\* strings.HasPrefix(path, prefix + "/")
Under(path, prefix) ==
    Len(path) > Len(prefix) /\ \A i \in 1..Len(prefix) : path[i] = prefix[i]

InternalPrefix(arch, module) == <<module>> \o arch.root
Internal(arch, module, path) == Under(path, InternalPrefix(arch, module))
IsCmd(module, path) == path = <<module, "cmd">> \/ Under(path, <<module, "cmd">>)

\* the path below the internal root
Rel(arch, module, path) ==
    SubSeq(path, Len(InternalPrefix(arch, module)) + 1, Len(path))

Kinds == {"domain", "orchestration", "shared", "root", "unclassified", "app", "transport"}
Class(kind, domain, sublayer) == [kind |-> kind, domain |-> domain, sublayer |-> sublayer]
Unclassified == Class("unclassified", NoDomain, NoSublayer)

KnownSublayer(arch, sublayer) ==
    \E i \in DOMAIN arch.sublayers : arch.sublayers[i] = sublayer

HasNestedSublayers(arch, dir) ==
    \E i \in DOMAIN arch.sublayers : Under(arch.sublayers[i], <<dir>>)

\* inside: the path below the domain's directory
IdentifySublayer(arch, inside) ==
    IF /\ Len(inside) >= 2
       /\ KnownSublayer(arch, SubSeq(inside, 1, 2)) \/ HasNestedSublayers(arch, inside[1])
    THEN SubSeq(inside, 1, 2)
    ELSE SubSeq(inside, 1, 1)

InDir(rel, dir) == dir # NoDir /\ rel[1] = dir

ClassifyInDomains(arch, rel) ==
    IF rel[1] # arch.domainDir \/ Len(rel) = 1 THEN Unclassified
    ELSE IF Len(rel) = 2 THEN Class("root", rel[2], NoSublayer)
    ELSE Class("domain", rel[2], IdentifySublayer(arch, SubSeq(rel, 3, Len(rel))))

ClassifyFlat(arch, rel) ==
    IF KnownSublayer(arch, <<rel[1]>>) THEN Class("domain", NoDomain, <<rel[1]>>)
    ELSE Unclassified

ClassifyRel(arch, rel) ==
    IF InDir(rel, arch.sharedDir) THEN Class("shared", NoDomain, NoSublayer)
    ELSE IF InDir(rel, arch.appDir) THEN Class("app", NoDomain, NoSublayer)
    ELSE IF InDir(rel, arch.serverDir) /\ Len(rel) > 1
         THEN Class("transport", NoDomain, NoSublayer)
    ELSE IF InDir(rel, arch.orchestrationDir)
         THEN Class("orchestration", NoDomain, NoSublayer)
    ELSE IF arch.domainDir # NoDir THEN ClassifyInDomains(arch, rel)
    ELSE ClassifyFlat(arch, rel)

Classify(arch, module, path) ==
    IF Internal(arch, module, path)
    THEN ClassifyRel(arch, Rel(arch, module, path))
    ELSE Unclassified
=================================================================================
