---------------------------- MODULE MCResolution ----------------------------
(***************************************************************************)
(* What the tool chain computes before anything runs: the version a text    *)
(* states and the range that admits it, the directory of a registry, the    *)
(* packages of a project, the file of an import, the function of a name, the *)
(* tree and the code of a source.  A behaviour belongs to one of these      *)
(* parts; the variables of the others hold Unused.                          *)
(***************************************************************************)
EXTENDS SemanticVersions, TLC

CONSTANTS Parts,         \* the parts to explore
          SuffixLength,  \* what follows the beginning of a version's text
          Aliases,       \* the aliases of imports, "" for none
          MaxTokens, MaxOperators

VARIABLES part,
          text, parsed, pair,                                     \* versions
          listing, range, remaining, selected, verdict,           \* reader
          contents, roots,                                        \* solver
          files, target, base, found,                             \* imports
          program, graph, surface, newestFirst, linked,           \* modules
          question,                                               \* parser, programs
          answer                                                  \* solver, parser, programs

versionVars == <<text, parsed, pair>>
readerVars == <<listing, range, remaining, selected, verdict>>
solverVars == <<contents, roots>>
importVars == <<files, target, base, found>>
moduleVars == <<program, graph, surface, newestFirst, linked>>
vars == <<part, versionVars, readerVars, solverVars, importVars, moduleVars, question, answer>>

Unused == "unused"

-----------------------------------------------------------------------------
(* Versions over the digits 0, 1 and 9 with int cut to 91: every short text  *)
(* around a core, and every pair of some versions.                           *)

MCDigits == "0" :> 0 @@ "1" :> 1 @@ "9" :> 9
MCOthers == {"a", "-"}
MCRank == "-" :> 45 @@ "0" :> 48 @@ "1" :> 49 @@ "9" :> 57 @@ "a" :> 97

Characters == DOMAIN Digits \union Others \union {".", "+"}

Heads == {<<"1", ".", "0", ".", "0">>, <<"0", ".", "9", "1", ".", "1">>, <<"1", ".", "0">>,
          <<"1", ".", "9", ".">>}

Texts == {head \o suffix : head \in Heads, suffix \in BoundedSeq(Characters, SuffixLength)}

Ids == {<<"0">>, <<"1">>, <<"9">>, <<"1", "0">>, <<"a">>, <<"1", "a">>, <<"-", "a">>}
Cores == {Release(major, minor, patch) : major \in {0, 1, 91}, minor \in {0, 1}, patch \in {0, 9}}
Prereleases == {<<>>} \union {<<a>> : a \in Ids} \union {<<a, b>> : a \in {<<"1">>, <<"a">>}, b \in {<<"9">>, <<"1", "0">>}}
Samples == {[core EXCEPT !.prerelease = pre] : core \in Cores, pre \in Prereleases}

VersionsInit ==
  /\ parsed = "unread"
  /\ \/ text \in Texts /\ pair = <<>>
     \/ text = <<>> /\ pair \in Samples \X Samples

ReadText ==
  /\ pair = <<>> /\ parsed = "unread"
  /\ parsed' = IF ParseVersion(text) = {} THEN "rejected" ELSE "accepted"
  /\ UNCHANGED <<text, pair>>

-----------------------------------------------------------------------------
(* A registry with any of five versions of a package, each sound or broken: *)
(* two of them differ in their build part only, two are prereleases.        *)

Plain == Release(1, 0, 0)
Built == [Plain EXCEPT !.build = <<<<"a">>>>]
Minor == Release(1, 1, 0)
Early == [Minor EXCEPT !.prerelease = <<<<"9">>>>]
Later == [Minor EXCEPT !.prerelease = <<<<"1", "0">>>>]
Published == {Plain, Built, Minor, Early, Later}

MCDirectories ==
  {{[version |-> v, sound |-> state[v] = "sound"] : v \in {w \in Published : state[w] # "absent"}} :
     state \in [Published -> {"absent", "sound", "broken"}]}

MCRanges ==
  {{[op |-> "=", version |-> v]} : v \in Published}
    \union {{[op |-> "*", version |-> Plain]}, {[op |-> "^", version |-> Plain]},
            {[op |-> "~", version |-> Plain]},
            {[op |-> ">", version |-> Plain], [op |-> "<", version |-> Minor]}}

Reader == INSTANCE RegistryReader WITH Directories <- MCDirectories, Ranges <- MCRanges

-----------------------------------------------------------------------------
(* Three names, two locations for the first, each location with at most two *)
(* dependencies; the last asks for version 1 of everything, and the second  *)
(* location of the first name has version 2 or does not exist.              *)

MCLocations == 1 .. 4
MCAnyVersion == 0

Solver == INSTANCE DependencySolver
            WITH Names <- 1 .. 3, Locations <- MCLocations, AnyVersion <- MCAnyVersion

Dependency(location, wanted) ==
  [name |-> <<1, 1, 2, 3>>[location], location |-> location, range |-> wanted]

NeedSets(wanted) ==
  {{Dependency(location, wanted) : location \in some} :
     some \in {subset \in SUBSET MCLocations : \E a, b \in MCLocations : subset \subseteq {a, b}}}

SolverInit ==
  /\ \E needs \in [1 .. 3 -> NeedSets(MCAnyVersion)], last \in NeedSets(1), there \in BOOLEAN :
       contents = [location \in {1, 3, 4} \union (IF there THEN {2} ELSE {}) |->
                     [version |-> IF location = 2 THEN 2 ELSE 1,
                      needs |-> CASE location = 1 -> needs[1] [] location = 2 -> needs[2]
                                  [] location = 3 -> needs[3] [] OTHER -> last]]
  /\ roots \in {{Dependency(1, MCAnyVersion), Dependency(4, MCAnyVersion)},
                {Dependency(1, MCAnyVersion)}, {Dependency(3, 1), Dependency(2, MCAnyVersion)}}

-----------------------------------------------------------------------------
(* Every disk of at most three files, for every kind of import target.      *)

MCDepth == 2
MCPackageDirectories == <<"gói", "goi">>
MCForms == <<"main", "source">>

Imports == INSTANCE ImportResolution
             WITH Depth <- MCDepth, PackageDirectories <- MCPackageDirectories, Forms <- MCForms

Places ==
  {Imports!Local(dir) : dir \in 0 .. MCDepth} \union {Imports!Redirected(dir) : dir \in 0 .. MCDepth}
    \union {Imports!Package(dir, directory, name, form) : dir \in 0 .. MCDepth,
              directory \in ToSet(MCPackageDirectories), name \in {"name", "alias"},
              form \in ToSet(MCForms)}

ImportsInit ==
  /\ files \in {{a, b, c} : a, b, c \in Places} \union {{}}
  /\ target \in Imports!Targets
  /\ base \in 1 .. MCDepth
  /\ found = <<>>

-----------------------------------------------------------------------------
(* An entry and three modules: short lists of imports, with one alias or    *)
(* none and public or not; the first and the third module may each have a   *)
(* function of the same name.                                               *)

MCModules == 0 .. 3
MCEntry == 0

Linker == INSTANCE ModuleLinker WITH Modules <- MCModules, Entry <- MCEntry

ImportLists(targets, flags, most) ==
  BoundedSeq({[target |-> module, alias |-> alias, reExport |-> reExport] :
                module \in targets, alias \in Aliases, reExport \in flags}, most)

Functions(module, same) ==
  IF module = MCEntry THEN <<>>
  ELSE <<[name |-> IF same /\ module # 2 THEN "f" ELSE <<"a", "b", "c">>[module], public |-> TRUE]>>
         \o (IF module = 1 THEN <<[name |-> "p", public |-> FALSE]>> ELSE <<>>)

ModulesInit ==
  /\ \E same \in BOOLEAN, entry \in ImportLists({1, 2, 3}, {FALSE}, 2),
        first \in ImportLists({2, 3}, BOOLEAN, 1), second \in ImportLists({1, 3}, BOOLEAN, 2),
        third \in ImportLists({1}, {FALSE}, 1) :
       /\ program = [module \in MCModules |->
                       [imports |-> CASE module = MCEntry -> entry [] module = 1 -> first
                                      [] module = 2 -> second [] OTHER -> third,
                        functions |-> Functions(module, same)]]
       /\ newestFirst \in IF same THEN BOOLEAN ELSE {FALSE}
  /\ graph = <<>> /\ linked = <<>>
  /\ surface = Linker!InitialSurface

-----------------------------------------------------------------------------
(* Token lists, written trees and programs.                                 *)

Frontend == INSTANCE FrontendQuestions

-----------------------------------------------------------------------------

IdleVersions == text = Unused /\ parsed = Unused /\ pair = Unused
IdleReader == listing = Unused /\ range = Unused /\ remaining = Unused /\ selected = Unused
              /\ verdict = Unused
IdleSolver == contents = Unused /\ roots = Unused
IdleImports == files = Unused /\ target = Unused /\ base = Unused /\ found = Unused
IdleModules == program = Unused /\ graph = Unused /\ linked = Unused /\ surface = Unused
               /\ newestFirst = Unused

Init ==
  /\ part \in Parts
  /\ IF part = "versions" THEN VersionsInit ELSE IdleVersions
  /\ IF part = "reader" THEN Reader!Init ELSE IdleReader
  /\ IF part = "solver" THEN SolverInit ELSE IdleSolver
  /\ IF part = "imports" THEN ImportsInit ELSE IdleImports
  /\ IF part = "modules" THEN ModulesInit ELSE IdleModules
  /\ CASE part = "parser" -> Frontend!ParserQuestions
       [] part = "programs" -> Frontend!ProgramQuestions
       [] OTHER -> question = Unused
  /\ answer = CASE part = "solver" -> {} [] part \in {"parser", "programs"} -> <<>>
                [] OTHER -> Unused

Versions == /\ part = "versions" /\ ReadText
            /\ UNCHANGED <<part, readerVars, solverVars, importVars, moduleVars, question, answer>>
ReadRegistry == /\ part = "reader" /\ Reader!Next
                /\ UNCHANGED <<part, versionVars, solverVars, importVars, moduleVars, question, answer>>
Solve == /\ part = "solver" /\ Solver!SolveProject
         /\ UNCHANGED <<part, versionVars, readerVars, importVars, moduleVars, question>>
Import == /\ part = "imports" /\ Imports!ResolveImport
          /\ UNCHANGED <<part, versionVars, readerVars, solverVars, moduleVars, question, answer>>
Link == /\ part = "modules" /\ Linker!Next
        /\ UNCHANGED <<part, versionVars, readerVars, solverVars, importVars, question, answer>>
Answer == /\ part \in {"parser", "programs"} /\ Frontend!Next
          /\ UNCHANGED <<part, versionVars, readerVars, solverVars, importVars, moduleVars>>

Next == Versions \/ ReadRegistry \/ Solve \/ Import \/ Link \/ Answer

Spec == Init /\ [][Next]_vars

-----------------------------------------------------------------------------

(***************************************************************************)
(* What SemanticVersion::parse accepts is exactly the canonical text of the *)
(* version it returns: no two texts give one version, no number with a      *)
(* leading zero, past int or empty slips through.                           *)
(***************************************************************************)
ParseInvertsText ==
  parsed = "accepted" => \A version \in ParseVersion(text) : TextOf(version) = text

Pairs == part = "versions" /\ pair # <<>>

(***************************************************************************)
(* Every version's text parses back to the version.                         *)
(***************************************************************************)
TextParses == Pairs => \A i \in DOMAIN pair : ParseVersion(TextOf(pair[i])) = {pair[i]}

(***************************************************************************)
(* compareSemanticVersion is a total order: antisymmetric, equal only for   *)
(* equal versions (these have no build part), and transitive.               *)
(***************************************************************************)
OrderIsTotal ==
  Pairs =>
    /\ Compare(pair[1], pair[2]) = -Compare(pair[2], pair[1])
    /\ Compare(pair[1], pair[2]) = 0 <=> pair[1] = pair[2]
    /\ Compare(pair[1], pair[2]) <= 0 =>
         \A third \in Samples : Compare(pair[2], third) <= 0 => Compare(pair[1], third) <= 0

(***************************************************************************)
(* Semantic Versioning's order of numeric identifiers: by value, below any  *)
(* other identifier.                                                        *)
(***************************************************************************)
NumericIdentifiersByValue ==
  Pairs =>
    \A left, right \in Ids :
      /\ IsNumeric(left) /\ IsNumeric(right) =>
           CompareIdentifier(left, right) = Sign(ValueOf(left), ValueOf(right))
      /\ IsNumeric(left) /\ ~IsNumeric(right) => CompareIdentifier(left, right) = -1

Agree(left, right) ==
  IF left.major > 0 THEN left.major = right.major
  ELSE IF left.minor > 0 THEN right.major = 0 /\ left.minor = right.minor
  ELSE <<right.major, right.minor, right.patch>> = <<0, 0, left.patch>>

(***************************************************************************)
(* What ^v admits among releases: the versions from v on that agree with it *)
(* up to and including its first number that is not zero, while the bound   *)
(* above it does not overflow int; and ~v those with its major and minor.   *)
(***************************************************************************)
RangesAdmit ==
  (Pairs /\ pair[2].prerelease = <<>>) =>
    LET lowest == pair[1]
        next == pair[2]
        from == Compare(lowest, next) <= 0
    IN  /\ lowest.major < MaxInt =>
             (Matches({[op |-> "^", version |-> lowest]}, next) <=> from /\ Agree(lowest, next))
        /\ Matches({[op |-> "~", version |-> lowest]}, next)
             <=> from /\ lowest.major = next.major /\ lowest.minor = next.minor

(* materializeRegistrySource holds the highest sound version it has seen in *)
(* the range, whatever the order of the listing, and passes no broken one.  *)
HighestInRange == part = "reader" => Reader!HighestInRange

(* The solver's walk accepts exactly the graphs that have every dependency  *)
(* in its range, one location for a name and no cycle.                      *)
VerdictIsRight == part = "solver" => Solver!VerdictIsRight

(* The solver lists each package once, after all it depends on.             *)
DependenciesFirst == part = "solver" => Solver!DependenciesFirst

(* What the solver's error names is there: a cycle, two locations, a range. *)
ErrorIsReal == part = "solver" => Solver!ErrorIsReal

(* PackageResolver::resolve: local files above redirects above packages     *)
(* above VPP_HOME, and in each the nearest ancestor first.                  *)
PhasesNotInterleaved == part = "imports" => Imports!PhasesNotInterleaved

(* Taking away a file that was not chosen moves no import.                  *)
OthersDoNotMatter == part = "imports" => Imports!OthersDoNotMatter

(* A module one directory deeper imports the file its parent would.         *)
NestedImportAgrees == part = "imports" => Imports!NestedImportAgrees

(* BuildContext::visit fails exactly on a cycle, and reports a true one.    *)
CyclesRejected == part = "modules" => Linker!CyclesRejected

(* applyModuleReExports forwards nothing private and nothing not public.    *)
NothingLeaks == part = "modules" => Linker!NothingLeaks

(* compileImportSpec records initialisers after those of the imports.       *)
InitialisersInOrder == part = "modules" => Linker!InitialisersInOrder

(* applyModuleReExports leaves no surface unfinished whose sources it      *)
(* visits first.                                                            *)
SurfacesInOrder == part = "modules" => Linker!SurfacesInOrder

(* "thứ tự reverse DFS đảm bảo dependency có bề mặt export hoàn chỉnh trước  *)
(* importer" (module_graph.cpp:488): no surface is ever left unfinished.    *)
ReExportsComplete == part = "modules" => Linker!ReExportsComplete

(* With distinct names, what the analysis accepts is linked as it means.    *)
EveryNameLinked == part = "modules" => Linker!EveryNameLinked

(* The solver's verdict, its order and its error; and what it stands on: one *)
(* text for each version, a total order, ranges that admit what Semantic    *)
(* Versioning says.                                                         *)
GraphSolved ==
  /\ VerdictIsRight /\ DependenciesFirst /\ ErrorIsReal
  /\ ParseInvertsText /\ TextParses /\ OrderIsTotal /\ NumericIdentifiersByValue /\ RangesAdmit

(* An import names one file whatever lies elsewhere; what several files     *)
(* become has no cycle, nothing private forwarded, nothing forwarded lost   *)
(* that the order of the visits could give, every name linked that no second *)
(* alias hides, and initialisers after those they need.                     *)
ImportsResolved ==
  /\ PhasesNotInterleaved /\ OthersDoNotMatter /\ NestedImportAgrees
  /\ CyclesRejected /\ NothingLeaks /\ SurfacesInOrder /\ InitialisersInOrder /\ EveryNameLinked

(* Chains of operators, written trees, statements and forms are read as     *)
(* they are written.                                                        *)
SyntaxRight == part = "parser" => Frontend!SyntaxRight

(* A program that compiles prints what its tree means and ends as it does.  *)
OutputAsWritten == part = "programs" => Frontend!OutputAsWritten
=============================================================================
