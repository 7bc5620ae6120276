---------------------------- MODULE ModuleGraph ----------------------------
(***************************************************************************)
(* The graph of the source files a program imports, and the names each one  *)
(* offers to the others: LocalModuleGraphBuilder, applyModuleReExports and  *)
(* semanticEnvironmentFor.  A module is a sequence of imports, then of      *)
(* functions; a visible name is a sequence, the alias before the name.      *)
(***************************************************************************)
EXTENDS Naturals, SequencesExt

CONSTANTS Modules,  \* the files that exist
          Entry     \* the source that is compiled, a member of Modules

VARIABLES program,  \* [imports, functions] of every module
          graph,    \* <<>>, then <<the walk's outcome>>
          surface   \* the names each module exports

graphVars == <<program, graph, surface>>

Function(module, name) == [module |-> module, name |-> name]

(***************************************************************************)
(* BuildContext::visit: depth first, a module before what it imports.       *)
(***************************************************************************)

EmptyWalk == [edges |-> <<>>, modules |-> <<>>, active |-> <<>>, cycle |-> FALSE]

Active(walk) == ToSet(walk.active)

RECURSIVE VisitAll(_, _, _)

Enter(walk, module) ==
  LET inside == VisitAll([walk EXCEPT !.modules = Append(@, module),
                                      !.active = Append(@, module)],
                         module, program[module].imports)
  IN  IF inside.cycle THEN inside ELSE [inside EXCEPT !.active = walk.active]

Visit(walk, importer, import) ==
  LET edge    == [importer |-> importer, import |-> import]
      reached == [walk EXCEPT !.edges = Append(@, edge)]
  IN  IF import.target \in Active(walk)
      THEN [walk EXCEPT !.cycle = TRUE, !.active = Append(@, import.target)]
      ELSE IF import.target \in ToSet(walk.modules) THEN reached
      ELSE Enter(reached, import.target)

VisitAll(walk, importer, imports) ==
  IF imports = <<>> \/ walk.cycle THEN walk
  ELSE VisitAll(Visit(walk, importer, Head(imports)), importer, Tail(imports))

Walked == VisitAll(EmptyWalk, Entry, program[Entry].imports)

(***************************************************************************)
(* moduleExports, and applyModuleReExports inside BuildIndex: modules in the *)
(* reverse of the order they were entered; the first symbol of a name stays. *)
(***************************************************************************)

Visible(import, name) == IF import.alias = "" THEN name ELSE <<import.alias>> \o name

OwnExports(module) ==
  LET public == SelectSeq(program[module].functions, LAMBDA f : f.public)
  IN  [i \in DOMAIN public |-> [name |-> <<public[i].name>>,
                                function |-> Function(module, public[i].name)]]

Offers(names, name) == \E i \in DOMAIN names : names[i].name = name

AddNew(names, more) ==
  FoldLeft(LAMBDA all, symbol : IF Offers(all, symbol.name) THEN all ELSE Append(all, symbol),
           names, more)

Forwarded(import, names) ==
  [i \in DOMAIN names |-> [names[i] EXCEPT !.name = Visible(import, @)]]

EdgesOf(walk, module) == SelectSeq(walk.edges, LAMBDA edge : edge.importer = module)

ReExportEdges(walk, module) ==
  SelectSeq(EdgesOf(walk, module), LAMBDA edge : edge.import.reExport)

ReExport(walk, surfaces, module) ==
  [surfaces EXCEPT ![module] =
     FoldLeft(LAMBDA names, edge :
                AddNew(names, Forwarded(edge.import, surfaces[edge.import.target])),
              @, ReExportEdges(walk, module))]

BuildIndex ==
  /\ graph = <<>>
  /\ LET walk == Walked
     IN  /\ graph' = <<walk>>
         /\ surface' = IF walk.cycle THEN surface
                       ELSE FoldLeft(LAMBDA all, module : ReExport(walk, all, module),
                                     surface, Reverse(walk.modules))
  /\ UNCHANGED program

(* semanticEnvironmentFor: what the functions of a module may name besides  *)
(* its own; of two imports of one name the first counts.                    *)
Environment(module) ==
  FoldLeft(LAMBDA names, edge :
             AddNew(names, Forwarded(edge.import, surface[edge.import.target])),
           <<>>, EdgesOf(graph[1], module))

Indexed == graph # <<>> /\ ~graph[1].cycle

(* OwnExports for every module: what the index starts from.                 *)
InitialSurface == [module \in Modules |-> OwnExports(module)]

-----------------------------------------------------------------------------

Imported(module) == {program[module].imports[i].target : i \in DOMAIN program[module].imports}

RECURSIVE ImportClosure(_)
ImportClosure(some) ==
  LET more == some \union UNION {Imported(module) : module \in some}
  IN  IF more = some THEN some ELSE ImportClosure(more)

Reached == ImportClosure(Imported(Entry))

(***************************************************************************)
(* docs/semantics.md: an import cycle is rejected at compile time and never *)
(* taken for a no-op.  The walk fails exactly when a module reached imports *)
(* itself, directly or not, and the chain it reports is a chain of imports  *)
(* that returns to its beginning.                                           *)
(***************************************************************************)
CyclesRejected ==
  graph # <<>> =>
    LET chain == graph[1].active
    IN  /\ graph[1].cycle <=> \E module \in Reached : module \in ImportClosure(Imported(module))
        /\ graph[1].cycle =>
             /\ \E i \in 1 .. Len(chain) - 1 : chain[i] = Last(chain)
             /\ \A i \in 1 .. Len(chain) - 1 : chain[i + 1] \in Imported(chain[i])
        /\ ~graph[1].cycle => /\ ToSet(graph[1].modules) = Reached
                              /\ Cardinality(Reached) = Len(graph[1].modules)

(* The reference: what the re-exports of a module say it offers.            *)
RECURSIVE Offered(_)
Offered(module) ==
  {[name |-> <<f.name>>, function |-> Function(module, f.name)] :
     f \in {g \in ToSet(program[module].functions) : g.public}} \union
    UNION {{[symbol EXCEPT !.name = Visible(program[module].imports[i], @)] :
              symbol \in Offered(program[module].imports[i].target)} :
           i \in {j \in DOMAIN program[module].imports : program[module].imports[j].reExport}}

(***************************************************************************)
(* docs/semantics.md: an import is not forwarded unless it is public, the   *)
(* alias is part of the name, and a private function never gets out, however *)
(* many modules forward each other.                                         *)
(***************************************************************************)
NothingLeaks ==
  Indexed => \A module \in Reached : ToSet(surface[module]) \subseteq Offered(module)

(***************************************************************************)
(* module_graph.cpp: "thứ tự reverse DFS đảm bảo dependency có bề mặt export *)
(* hoàn chỉnh trước importer": every name a module is to re-export is in    *)
(* its surface.                                                             *)
(***************************************************************************)
Complete(module) == \A symbol \in Offered(module) : Offers(surface[module], symbol.name)

ReExportsComplete == Indexed => \A module \in Reached : Complete(module)

(***************************************************************************)
(* What the order does give: a module lacks a name only if it, or a module   *)
(* whose names it forwards, forwards one that was entered before it and that *)
(* forwards others in turn.                                                 *)
(***************************************************************************)
Entered(module) == CHOOSE i \in DOMAIN graph[1].modules : graph[1].modules[i] = module

RECURSIVE CopiedWhole(_)
CopiedWhole(module) ==
  \A edge \in ToSet(ReExportEdges(graph[1], module)) :
    LET from == edge.import.target
    IN  IF Entered(from) > Entered(module) THEN CopiedWhole(from)
        ELSE ReExportEdges(graph[1], from) = <<>>

SurfacesInOrder ==
  Indexed => \A module \in Reached : CopiedWhole(module) => Complete(module)
=============================================================================
