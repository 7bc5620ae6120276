-------------------------- MODULE DependencySolver --------------------------
(***************************************************************************)
(* resolvePackageDependencyGraph: the depth-first walk over the packages a  *)
(* project depends on.  A dependency is a name, a location and a range; what *)
(* lies at a location is a version and dependencies of its own, or nothing.  *)
(* The walk keeps the packages resolved so far, dependencies first, the      *)
(* names on its stack, and the first error, which ends it.                   *)
(***************************************************************************)
EXTENDS Naturals, SequencesExt

CONSTANTS Names, Locations, AnyVersion

(* The outcome of a walk; the path is the stack, and for a cycle the name    *)
(* that closes it.                                                           *)
Walk == [ordered : Seq([name : Names, location : Locations]), stack : Seq(Names),
         failure : {"none", "missing", "range", "conflict", "cycle"}]

Fresh == [ordered |-> <<>>, stack |-> <<>>, failure |-> "none"]

(* sortDependencies: by name, then range, then location.                     *)
Before(left, right) ==
  \/ left.name < right.name
  \/ left.name = right.name /\ left.range < right.range
  \/ left.name = right.name /\ left.range = right.range /\ left.location < right.location

Sorted(dependencies) == SetToSortSeq(dependencies, Before)

InRange(range, version) == range \in {AnyVersion, version}

(* What one dependency is rejected for before its own are looked at; the     *)
(* packages already resolved are asked before the stack.                     *)
Resolved(walk, name) == {package \in ToSet(walk.ordered) : package.name = name}

(* Mutant: a package that is already resolved is not compared.               *)
SameLocation(walk, dependency) == TRUE

Agrees(walk, dependency) ==
  \A package \in Resolved(walk, dependency.name) : package.location = dependency.location

Rejection(contents, walk, dependency) ==
  IF dependency.location \notin DOMAIN contents THEN "missing"
  ELSE IF ~InRange(dependency.range, contents[dependency.location].version) THEN "range"
  ELSE IF ~Agrees(walk, dependency) THEN "conflict"
  ELSE IF Resolved(walk, dependency.name) = {} /\ dependency.name \in ToSet(walk.stack)
       THEN "cycle"
  ELSE "none"

RECURSIVE ResolveAll(_, _, _)

Descend(contents, walk, dependency) ==
  LET within == [walk EXCEPT !.stack = Append(@, dependency.name)]
      after  == ResolveAll(contents, within, Sorted(contents[dependency.location].needs))
  IN  IF after.failure # "none" THEN after
      ELSE [after EXCEPT !.stack = walk.stack,
                         !.ordered = Append(@, [name |-> dependency.name,
                                                location |-> dependency.location])]

Resolve(contents, walk, dependency) ==
  LET rejection == Rejection(contents, walk, dependency)
  IN  IF rejection # "none"
      THEN [walk EXCEPT !.failure = rejection, !.stack = Append(@, dependency.name)]
      ELSE IF Resolved(walk, dependency.name) # {} THEN walk
      ELSE Descend(contents, walk, dependency)

ResolveAll(contents, walk, dependencies) ==
  IF dependencies = <<>> \/ walk.failure # "none" THEN walk
  ELSE ResolveAll(contents, Resolve(contents, walk, Head(dependencies)), Tail(dependencies))

Solve(contents, roots) == ResolveAll(contents, Fresh, Sorted(roots))

VARIABLES contents,   \* what lies at each location that exists
          roots,      \* the dependencies of the project
          answer      \* {} or the outcome

vars == <<contents, roots, answer>>

SolveProject ==
  /\ answer = {}
  /\ answer' = {Solve(contents, roots)}
  /\ UNCHANGED <<contents, roots>>

-----------------------------------------------------------------------------

(***************************************************************************)
(* The reference: every dependency reached from the roots.                  *)
(***************************************************************************)

NeedsOf(dependency) ==
  IF dependency.location \in DOMAIN contents THEN contents[dependency.location].needs ELSE {}

RECURSIVE Closure(_)
Closure(some) ==
  LET more == some \union UNION {NeedsOf(dependency) : dependency \in some}
  IN  IF more = some THEN some ELSE Closure(more)

Reached == Closure(roots)

Cyclic == \E dependency \in Reached :
            \E other \in Closure(NeedsOf(dependency)) : other.name = dependency.name

Ambiguous == \E left, right \in Reached :
               left.name = right.name /\ left.location # right.location

Unfit == \E dependency \in Reached :
           \/ dependency.location \notin DOMAIN contents
           \/ ~InRange(dependency.range, contents[dependency.location].version)

(***************************************************************************)
(* "Solver duyệt graph theo thứ tự dependency-first": a graph is accepted   *)
(* exactly when every dependency reached exists in its range, no name has   *)
(* two locations and nothing depends on itself; the verdict on a bad graph  *)
(* does not depend on which way the walk meets it first.                    *)
(***************************************************************************)
VerdictIsRight ==
  \A walk \in answer : walk.failure = "none" <=> ~(Cyclic \/ Ambiguous \/ Unfit)

(***************************************************************************)
(* An accepted graph lists each package reached once, at its location, and  *)
(* after every package it depends on, which is the order they are installed *)
(* and locked in.                                                           *)
(***************************************************************************)
DependenciesFirst ==
  \A walk \in answer : walk.failure = "none" =>
    /\ ToSet(walk.ordered) = {[name |-> d.name, location |-> d.location] : d \in Reached}
    /\ \A i, j \in DOMAIN walk.ordered : walk.ordered[i].name = walk.ordered[j].name => i = j
    /\ \A i \in DOMAIN walk.ordered : \A need \in contents[walk.ordered[i].location].needs :
         \E j \in 1 .. i - 1 : walk.ordered[j].name = need.name

(***************************************************************************)
(* The error that is thrown names something that is there: a cycle is a     *)
(* path of dependencies that comes back to a name, a conflict a name with   *)
(* two locations, a range error a dependency out of its range.              *)
(***************************************************************************)
ErrorIsReal ==
  \A walk \in answer :
    LET name == Last(walk.stack)
    IN  /\ walk.failure = "cycle" =>
             /\ \E i \in 1 .. Len(walk.stack) - 1 : walk.stack[i] = name
             /\ \A i \in 1 .. Len(walk.stack) - 1 :
                  \E dependency \in Reached : /\ dependency.name = walk.stack[i]
                    /\ \E need \in NeedsOf(dependency) : need.name = walk.stack[i + 1]
        /\ walk.failure = "conflict" =>
             \E left, right \in Reached :
               left.name = name /\ right.name = name /\ left.location # right.location
        /\ walk.failure \in {"range", "missing"} => Unfit
=============================================================================
