--------------------------------- MODULE Loader ---------------------------------
(***************************************************************************)
(* analyzer.LoadWithOptions (src/analyzer/loader.go): which of the         *)
(* packages that match the patterns are handed to the rules when some of   *)
(* them, or their dependencies, have errors.                               *)
(*                                                                         *)
(* go/packages is external: its packages are numbered so that imports      *)
(* point downwards; packages.Visit calls back for a package after its      *)
(* imports, siblings in any order. Error texts are reduced to the package  *)
(* they are about.                                                         *)
(***************************************************************************)
EXTENDS Naturals, Sequences, FiniteSets, SequencesExt

\* dir: os.Stat finds the directory; list: packages.Load returns no error;
\* roots: the matched packages; errors: Package.Errors, by kind, of a file
\* built under the tag needs; explicit, disable: LoadOptions; info:
\* debug.ReadBuildInfo is there; settings: its Settings.
VARIABLES project,   \* never changes
          step,      \* "start", "roots" or "returned"
          flags,     \* cfg.BuildFlags
          root,      \* index of the loop over roots
          visited, fatal,     \* of firstFatalErrorInDeps: dependencies seen, result
          result, loadErrs,   \* the two results
          failed     \* the error that comes without packages

loadVars == <<step, flags, root, visited, fatal, result, loadErrs, failed>>
NoError == 0
ErrorKinds == {"unknown", "list", "parse", "type"}
-------------------------------------------------------------------------------
(* Build flags. An argument is cut at its first "=": name, eq and value. A   *)
(* setting is the argument it would become. A list of arguments is a         *)
(* function on their places, with gaps where a setting is left out.          *)

Overridden(explicit) == {explicit[j].name : j \in DOMAIN explicit}
Inherited(setting, explicit) ==
    /\ setting.name \notin Overridden(explicit)
    /\ \/ setting.name = "-tags" /\ setting.value # ""
       \/ setting.name \in {"-race", "-msan", "-asan"} /\ setting.value = "true"
\* Mutant: the inherited flags come last.
ExplicitFirst(settings, explicit) ==
    LET n == Len(explicit)
        kept == {n + k : k \in {j \in DOMAIN settings : Inherited(settings[j], explicit)}}
    IN  [k \in DOMAIN explicit \cup kept |-> IF k \in DOMAIN explicit THEN explicit[k] ELSE settings[k - n]]
mergeBuildFlags(settings, explicit) ==
    LET n == Len(settings)
        kept == {k \in DOMAIN settings : Inherited(settings[k], explicit)}
    IN  [k \in kept \cup {n + j : j \in DOMAIN explicit} |-> IF k <= n THEN settings[k] ELSE explicit[k - n]]
loadBuildFlags ==
    IF ~project.disable /\ project.info THEN mergeBuildFlags(project.settings, project.explicit)
    ELSE project.explicit

\* The go command takes the last of several, knows two dashes for one, and
\* the argument after -tags without "=" for its value.
Options == {"-tags", "-race", "-msan", "-asan"}
TwoDashes == [n \in {"--tags", "--race", "--msan", "--asan"} |->
                CASE n = "--tags" -> "-tags" [] n = "--race" -> "-race" [] n = "--msan" -> "-msan" [] OTHER -> "-asan"]
OptionOf(arg) == IF arg.name \in DOMAIN TwoDashes THEN TwoDashes[arg.name] ELSE arg.name
Given(args, option) == {k \in DOMAIN args : OptionOf(args[k]) = option}
NotGiven(option) == IF option = "-tags" THEN "" ELSE "false"
InBuild(args, option) ==
    LET last == CHOOSE k \in Given(args, option) : \A j \in Given(args, option) : j <= k
    IN  IF Given(args, option) = {} THEN NotGiven(option)
        ELSE IF args[last].eq THEN args[last].value
        ELSE IF option = "-tags" THEN args[last + 1].name ELSE "true"
-------------------------------------------------------------------------------
Reach(p) == LET reach[q \in DOMAIN project.imports] == {q} \cup UNION {reach[d] : d \in project.imports[q]}
            IN  reach[p]
Deps(p) == Reach(p) \ {p}
Errors(p) == IF project.needs[p] \in {"", InBuild(flags, "-tags")} THEN project.errors[p] ELSE <<>>
\* go/packages: an error in the package or in one of its dependencies
IllTyped(p) == \E q \in Reach(p) : Errors(q) # <<>>
Fatal(p) == \E e \in DOMAIN Errors(p) : Errors(p)[e] # "type"
OnlyTypeErrors(p) == IllTyped(p) /\ ~Fatal(p)

LoadInit == /\ step = "start" /\ flags = <<>> /\ root = 1 /\ visited = {} /\ fatal = NoError
            /\ result = <<>> /\ loadErrs = <<>> /\ failed = FALSE

FailEarly == /\ step = "start" /\ ~(project.dir /\ project.list)
             /\ step' = "returned" /\ failed' = TRUE
             /\ UNCHANGED <<flags, root, visited, fatal, result, loadErrs>>
BeginRoots == /\ step = "start" /\ project.dir /\ project.list
              /\ step' = "roots" /\ flags' = loadBuildFlags
              /\ UNCHANGED <<root, visited, fatal, result, loadErrs, failed>>

AtRoot == step = "roots" /\ root <= Len(project.roots)
Current == project.roots[root]
\* Mutant: the last fatal error, forgotten when a later package has none.
LastFatal(dep) == IF Fatal(dep) THEN dep ELSE NoError
FirstFatal(dep) == IF fatal = NoError /\ Fatal(dep) THEN dep ELSE fatal
VisitDep(dep) ==
    /\ AtRoot /\ dep \in Deps(Current) \ visited
    /\ project.imports[dep] \subseteq visited
    /\ visited' = visited \cup {dep}
    /\ fatal' = FirstFatal(dep)
    /\ UNCHANGED <<step, flags, root, result, loadErrs, failed>>

Decided == AtRoot /\ Deps(Current) \subseteq visited
NextRoot == /\ root' = root + 1 /\ visited' = {} /\ fatal' = NoError
            /\ UNCHANGED <<step, flags, failed>>
SkipForDep == /\ Decided /\ fatal # NoError
              /\ loadErrs' = Append(loadErrs, fatal)
              /\ NextRoot /\ UNCHANGED result
Keep == /\ Decided /\ fatal = NoError
        /\ Errors(Current) = <<>> \/ OnlyTypeErrors(Current)
        /\ result' = Append(result, Current)
        /\ NextRoot /\ UNCHANGED loadErrs
OwnErrors(p) == [e \in DOMAIN Errors(p) |-> p]
SkipForOwn == /\ Decided /\ fatal = NoError
              /\ Errors(Current) # <<>> /\ ~OnlyTypeErrors(Current)
              /\ loadErrs' = loadErrs \o OwnErrors(Current)
              /\ NextRoot /\ UNCHANGED result

Return == /\ step = "roots" /\ root > Len(project.roots)
          /\ step' = "returned"
          /\ UNCHANGED <<flags, root, visited, fatal, result, loadErrs, failed>>

Load == \/ FailEarly \/ BeginRoots \/ SkipForDep \/ Keep \/ SkipForOwn \/ Return
        \/ \E dep \in DOMAIN project.imports : VisitDep(dep)

Returned == step = "returned"
LoadErr == failed \/ loadErrs # <<>>
-------------------------------------------------------------------------------
\* loader.go 13-22 and 31-33: what the caller gives counts, else what the
\* calling binary was built with unless that is disabled.
Promised(option) ==
    LET settings == {s \in Range(project.settings) : s.name = option}
    IN  IF Given(project.explicit, option) # {} THEN InBuild(project.explicit, option)
        ELSE IF project.disable \/ ~project.info \/ settings = {} THEN NotGiven(option)
        ELSE (CHOOSE s \in settings : TRUE).value
FlagsResolved == \A option \in Options : InBuild(flags, option) = Promised(option)

\* loader.go 104-127 and 191-201: in the build with the flags it promises, Load
\* hands to the rules every matched package without a fatal error in itself
\* or anywhere below it, type errors or not, and no other; each one left out
\* is named in the error. (The comment of Load, lines 34-37, counts type
\* errors among those that leave a package out; the code keeps it, silently.)
LoadSound ==
    Returned /\ ~failed =>
        /\ Range(result) = {p \in Range(project.roots) : \A q \in Reach(p) : ~Fatal(q)}
        /\ \A p \in Range(project.roots) \ Range(result) :
               \E e \in DOMAIN loadErrs : loadErrs[e] \in Reach(p)
        /\ FlagsResolved
=================================================================================
