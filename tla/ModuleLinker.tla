---------------------------- MODULE ModuleLinker ----------------------------
(***************************************************************************)
(* compileImportSpec: each imported module is compiled once, where it is    *)
(* first imported, into one registry: function ids with one name each, the  *)
(* surface of every module, one table of visible names for the whole        *)
(* compilation, and the initialisers in the order they end.  Functions are  *)
(* declared before the imports of their module and emitted after them, and   *)
(* each calls itself.                                                       *)
(***************************************************************************)
EXTENDS ModuleGraph, FiniteSets

VARIABLES newestFirst,  \* the order in which the hash map of names is walked
          linked        \* <<>>, then <<the registry>>

vars == <<graphVars, newestFirst, linked>>

EmptyRegistry == [imported |-> {}, names |-> <<>>, surfaces |-> <<>>, aliases |-> {},
                  initialisers |-> <<>>, calls |-> {}, clash |-> FALSE]

Declare(registry, module) ==
  LET functions == program[module].functions
  IN  [registry EXCEPT !.names = @ \o
         [i \in DOMAIN functions |-> [name |-> <<functions[i].name>>,
                                      function |-> Function(module, functions[i].name)]]]

(* setFunctionNameIndex: a function has one name, the last it was given.    *)
Rename(registry, function, name) ==
  [registry EXCEPT !.names = [i \in DOMAIN @ |->
     IF @[i].function = function THEN [@[i] EXCEPT !.name = name] ELSE @[i]]]

(* The first function of that name as functionNameIndices is walked.        *)
Named(registry, name) ==
  LET found == SelectSeq(registry.names, LAMBDA entry : entry.name = name)
  IN  IF found = <<>> THEN {}
      ELSE {IF newestFirst THEN Last(found).function ELSE Head(found).function}

AliasOf(registry, name) ==
  {alias.function : alias \in {a \in registry.aliases : a.name = name}}

(* resolveFunctionIdByName for a name whose own function is not emitted yet. *)
ResolveCall(registry, name) ==
  IF AliasOf(registry, name) # {} THEN AliasOf(registry, name) ELSE Named(registry, name)

(* registerImportedAliases.                                                 *)
Register(registry, import) ==
  IF import.target \notin DOMAIN registry.surfaces THEN registry
  ELSE FoldLeft(LAMBDA reg, exported :
         LET name == Visible(import, exported.name)
         IN  IF reg.clash \/ AliasOf(reg, name) = {exported.function} THEN reg
             ELSE IF AliasOf(reg, name) # {} THEN [reg EXCEPT !.clash = TRUE]
             ELSE [reg EXCEPT !.aliases = @ \union {[name |-> name, function |-> exported.function]}],
       registry, registry.surfaces[import.target])

(* emitFunction for each function of the module: the call inside it is       *)
(* resolved while its own code is still empty.                              *)
EmitFunctions(registry, module) ==
  [registry EXCEPT !.calls = @ \union
     {[from |-> Function(module, program[module].functions[i].name),
       to |-> ResolveCall(registry, <<program[module].functions[i].name>>)] :
      i \in DOMAIN program[module].functions}]

(* The surface: own exports, then the re-exported names, each looked up as  *)
(* a name among all functions.                                              *)
SurfaceOf(registry, module) ==
  FoldLeft(LAMBDA names, edge :
             FoldLeft(LAMBDA all, symbol :
                        LET name  == Visible(edge.import, symbol.name)
                            found == Named(registry, name)
                        IN  IF found = {} \/ Offers(all, name) THEN all
                            ELSE Append(all, [name |-> name,
                                              function |-> CHOOSE f \in found : TRUE]),
                      names, surface[edge.import.target]),
           OwnExports(module), ReExportEdges(graph[1], module))

(* The functions of a module that is imported under an alias, and all of    *)
(* its surface, get the alias into their one name.                          *)
RenameAll(registry, import) ==
  IF import.alias = "" THEN registry
  ELSE LET own == [i \in DOMAIN program[import.target].functions |->
                     [name |-> <<program[import.target].functions[i].name>>,
                      function |-> Function(import.target, program[import.target].functions[i].name)]]
       IN  FoldLeft(LAMBDA reg, symbol : Rename(reg, symbol.function, Visible(import, symbol.name)),
                    registry, own \o registry.surfaces[import.target])

RECURSIVE CompileImports(_, _)

CompileModule(registry, module) ==
  EmitFunctions(CompileImports(Declare(registry, module), program[module].imports), module)

CompileAndRecord(registry, module) ==
  LET compiled == CompileModule(registry, module)
  IN  [compiled EXCEPT !.initialisers = Append(@, module)]

CompileNew(registry, import) ==
  LET module   == import.target
      compiled == CompileAndRecord([registry EXCEPT !.imported = @ \union {module}], module)
      surfaced == [compiled EXCEPT !.surfaces =
                     [m \in DOMAIN @ \union {module} |->
                        IF m = module THEN SurfaceOf(compiled, module) ELSE @[m]]]
  IN  IF compiled.clash THEN compiled ELSE Register(RenameAll(surfaced, import), import)

(* Mutant: a module that was imported before gives no names again.          *)
OnlyOnce(registry, import) ==
  IF import.target \in registry.imported THEN registry ELSE CompileNew(registry, import)

CompileImport(registry, import) ==
  IF import.target \in registry.imported THEN Register(registry, import)
  ELSE CompileNew(registry, import)

CompileImports(registry, imports) ==
  IF imports = <<>> \/ registry.clash THEN registry
  ELSE CompileImports(CompileImport(registry, Head(imports)), Tail(imports))

(* analyzeSemantics accepts a module: none of its functions has a name that *)
(* its imports give it too.                                                 *)
Accepted(module) ==
  \A i \in DOMAIN program[module].functions :
    ~Offers(Environment(module), <<program[module].functions[i].name>>)

Link ==
  /\ Indexed /\ linked = <<>>
  /\ \A module \in ToSet(graph[1].modules) \union {Entry} : Accepted(module)
  /\ linked' = <<CompileModule(EmptyRegistry, Entry)>>
  /\ UNCHANGED <<graphVars, newestFirst>>

Next ==
  \/ BuildIndex /\ UNCHANGED <<newestFirst, linked>>
  \/ Link

-----------------------------------------------------------------------------

Compiled == linked # <<>> /\ ~linked[1].clash

(***************************************************************************)
(* docs/architecture.md: "Recursive import ghi metadata theo thứ tự         *)
(* dependency-first": each module reached has one initialiser, after those  *)
(* of the modules it imports.                                               *)
(***************************************************************************)
InitialisersInOrder ==
  Compiled =>
    LET order == linked[1].initialisers
    IN  /\ ToSet(order) = Reached /\ Len(order) = Cardinality(Reached)
        /\ \A i \in DOMAIN order : Imported(order[i]) \subseteq {order[j] : j \in 1 .. i - 1}

DistinctNames ==
  \A left, right \in Reached \union {Entry} : \A i \in DOMAIN program[left].functions,
    j \in DOMAIN program[right].functions :
      program[left].functions[i].name = program[right].functions[j].name => left = right

(***************************************************************************)
(* When no two functions have one name, whatever the analysis lets the      *)
(* entry name is linked to the function the analysis means.  A function of   *)
(* a module the entry imports is linked under the alias of each import of    *)
(* it.  A forwarded name is linked to nothing only where the function comes  *)
(* in two ways under two aliases, neither inside the other: the one name a   *)
(* function has is the other one when the re-export looks it up.  And a      *)
(* function that calls its own name calls itself.                           *)
(***************************************************************************)
Gives(edge, function) == \E symbol \in Offered(edge.import.target) : symbol.function = function

Inside(inner, outer) == inner.importer \in ImportClosure({outer.import.target})

TwoAliases(function) ==
  LET ways == {edge \in ToSet(graph[1].edges) : Gives(edge, function)}
  IN  \E forwarding, other \in ways :
        /\ forwarding.import.reExport
        /\ forwarding.import.alias # other.import.alias
        /\ ~Inside(forwarding, other) /\ ~Inside(other, forwarding)

Direct(symbol) ==
  \E edge \in ToSet(EdgesOf(graph[1], Entry)) :
    /\ edge.import.target = symbol.function.module
    /\ symbol.name = Visible(edge.import, <<symbol.function.name>>)

EveryNameLinked ==
  (linked # <<>> /\ DistinctNames) =>
    /\ Compiled
    /\ \A symbol \in ToSet(Environment(Entry)) :
         LET call == ResolveCall(linked[1], symbol.name)
         IN  \/ call = {symbol.function}
             \/ call = {} /\ ~Direct(symbol) /\ TwoAliases(symbol.function)
    /\ \A call \in linked[1].calls : call.to = {call.from}
=============================================================================
