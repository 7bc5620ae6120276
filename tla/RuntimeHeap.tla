------------------------------ MODULE RuntimeHeap ------------------------------
(***************************************************************************)
(* The tracing collector of the V++ virtual machine                        *)
(* (src/src/runtime/heap.cpp).  Values are shared_ptr handles, so an object *)
(* dies by reference counting as soon as nothing owns it; the collector    *)
(* exists for cycles.  It owns nothing: six registries map the ADDRESS of  *)
(* an object to a weak_ptr, and an address may be used again by the        *)
(* allocator while an expired entry for it is still there.                 *)
(*                                                                         *)
(* Map, list, tuple, instance and closure are one kind, "data": their      *)
(* handles (entries, elements, fields, captures) are slots, and `up` is    *)
(* the klass of an instance or the methodOwnerClass of a closure.  A       *)
(* "class" has only `up`, its superclass.  No C++ local holds an object at *)
(* the top of the interpreter loop, the only place a collection starts.    *)
(***************************************************************************)
EXTENDS Integers, FiniteSets

CONSTANTS Addr,       \* the addresses the allocator hands out
          MinBudget,  \* the smallest collection budget (256 in the code)
          MaxBudget,  \* bound: the largest budget a collection computes
          MaxAlloc    \* bound: registrations between two collections

Kinds == {"data", "class"}
Null == "null"
Entries == {"none", "live", "expired"}      \* of a weak_ptr registry

ASSUME ConstantsOK ==
    /\ IsFiniteSet(Addr)
    /\ Null \notin Addr
    /\ MinBudget \in Nat /\ MaxBudget \in Nat /\ MaxAlloc \in Nat
    /\ MinBudget <= MaxBudget

VARIABLES
    \* the object graph
    live,         \* the addresses that hold an object
    kind, slots, up,
    \* the owners outside the graph
    roots,        \* what the running VM holds: stack, variables, frames
    inherited,    \* inheritedGcRoots while a module initializer runs
    inChild,      \* a module initializer runs in a child VM
    \* RuntimeHeap
    registry,
    allocations,  \* allocationGeneration_ - collectedAllocationGeneration_
    budget,       \* collectionBudget_
    trackedAfter, \* of lastGcStats
    \* a collection in progress
    phase, resume, marked, pending

graphVars == <<live, kind, slots, up>>
rootVars == <<roots, inherited, inChild>>
heapVars == <<registry, allocations, budget, trackedAfter>>
gcVars == <<phase, resume, marked, pending>>
vars == <<live, kind, slots, up, roots, inherited, inChild, registry,
          allocations, budget, trackedAfter, phase, resume, marked, pending>>

Program == {"init", "run", "ended", "closing", "closed"}
Collecting == {"mark", "class", "finish"}

GraphOK ==
    /\ live \subseteq Addr
    /\ kind \in [Addr -> Kinds]
    /\ slots \in [Addr -> SUBSET Addr]
    /\ up \in [Addr -> Addr \cup {Null}]

RootsOK ==
    /\ roots \subseteq Addr
    /\ inherited \subseteq Addr
    /\ inChild \in BOOLEAN
    /\ ~inChild => inherited = {}

HeapOK ==
    /\ registry \in [Kinds -> [Addr -> Entries]]
    /\ allocations \in Nat
    /\ budget \in Nat
    /\ trackedAfter \in Nat

CollectorOK ==
    /\ phase \in Program \cup Collecting
    /\ resume \in {"run", "ended", "closing"}
    /\ marked \subseteq Addr
    /\ pending \subseteq Addr


Init ==
    /\ live = {}
    /\ kind = [a \in Addr |-> "data"]
    /\ slots = [a \in Addr |-> {}]
    /\ up = [a \in Addr |-> Null]
    /\ roots = {}
    /\ inherited = {}
    /\ inChild = FALSE
    /\ registry = [k \in Kinds |-> [a \in Addr |-> "none"]]
    /\ allocations = 0
    /\ budget = MinBudget
    /\ trackedAfter = 0
    /\ phase = "init"
    /\ resume = "run"
    /\ marked = {}
    /\ pending = {}

--------------------------------------------------------------------------------
(* Reachability and reference counts.                                      *)

\* What `edge` leads to from a base: the least set that holds the base and is
\* closed under edge.
ReachFrom(base, edge) ==
    {a \in Addr : \A S \in SUBSET Addr :
        base \subseteq S /\ (\A x \in S : edge[x] \subseteq S) => a \in S}

Up == [a \in Addr |-> {up[a]} \ {Null}]
Edge == [a \in Addr |-> slots[a] \cup Up[a]]
Base == roots \cup inherited
Reachable == ReachFrom(Base, Edge)

\* Handles own: what a root or an object refers to is alive, `up` is a class,
\* and nothing is left of an object that is gone.
HandlesOK ==
    /\ Base \subseteq live
    /\ \A a \in Addr : Edge[a] \subseteq live
    /\ \A a \in Addr : up[a] # Null => kind[up[a]] = "class"
    /\ \A a \in Addr : kind[a] = "class" => slots[a] = {}
    /\ \A a \in Addr \ live : Edge[a] = {}

TypeOK == GraphOK /\ RootsOK /\ HeapOK /\ CollectorOK /\ HandlesOK

\* Reference counting: of the objects in L, those that still have an owner
\* when everything without one has gone, in cascade.  A cycle keeps itself.
Survivors(L, base, edge) ==
    UNION {S \in SUBSET L : \A a \in S : a \in base \/ \E b \in S : a \in edge[b]}

\* The weak_ptrs of objects that are gone.
Expire(reg, gone) ==
    [k \in Kinds |-> [a \in Addr |->
        IF a \in gone /\ kind[a] = k /\ reg[k][a] = "live"
        THEN "expired" ELSE reg[k][a]]]

Pruned(entries) == [a \in Addr |-> IF entries[a] = "live" THEN "live" ELSE "none"]

\* Mutant: klass and superclass are plain pointers that own nothing.
SettleSlotsOnly(base, s, u) ==
    LET left == Survivors(live, base, s)
    IN  /\ live' = left
        /\ kind' = [a \in Addr |-> IF a \in left THEN kind[a] ELSE "data"]
        /\ slots' = [a \in Addr |-> IF a \in left THEN s[a] ELSE {}]
        /\ up' = [a \in Addr |-> IF a \in left THEN u[a] ELSE Null]

\* Owners and edges change to these; what loses its last owner dies, with its
\* contents, and its weak_ptr expires.
Settle(base, s, u) ==
    LET left == Survivors(live, base, [a \in Addr |-> s[a] \cup ({u[a]} \ {Null})])
    IN  /\ live' = left
        /\ kind' = [a \in Addr |-> IF a \in left THEN kind[a] ELSE "data"]
        /\ slots' = [a \in Addr |-> IF a \in left THEN s[a] ELSE {}]
        /\ up' = [a \in Addr |-> IF a \in left THEN u[a] ELSE Null]

Expired == Expire(registry, live \ live')

--------------------------------------------------------------------------------
(* The program, between two collections.                                   *)

\* Mutant: an entry found is an entry left alone, expired or not.
CountsNew(entry) == entry = "none"

\* trackWeak: an entry whose object lives is left alone; an expired entry at
\* a reused address gets the new control block, and counts.
Counts(entry) == entry # "live"

NewlyTracked(S, kindOf) == {a \in S : Counts(registry[kindOf[a]][a])}

\* Mutant: trackValue counts one allocation for the whole graph.
TrackOnce(S, kindOf) ==
    LET new == NewlyTracked(S, kindOf)
    IN  /\ registry' = [k \in Kinds |-> [a \in Addr |->
              IF a \in new /\ kindOf[a] = k THEN "live" ELSE registry[k][a]]]
        /\ allocations < MaxAlloc
        /\ allocations' = allocations + 1

Track(S, kindOf) ==
    LET new == NewlyTracked(S, kindOf)
    IN  /\ registry' = [k \in Kinds |-> [a \in Addr |->
              IF a \in new /\ kindOf[a] = k THEN "live" ELSE registry[k][a]]]
        /\ allocations + Cardinality(new) <= MaxAlloc
        /\ allocations' = allocations + Cardinality(new)

\* A factory: an empty object, registered and handed to the program.
Allocate(a, k, u) ==
    /\ phase = "run"
    /\ a \notin live
    /\ u \in {c \in Reachable : kind[c] = "class"} \cup {Null}
    /\ live' = live \cup {a}
    /\ kind' = [kind EXCEPT ![a] = k]
    /\ slots' = [slots EXCEPT ![a] = {}]
    /\ up' = [up EXCEPT ![a] = u]
    /\ roots' = roots \cup {a}
    /\ Track({a}, kind')
    /\ UNCHANGED <<inherited, inChild, budget, trackedAfter>> /\ UNCHANGED gcVars

\* The result of a worker: a graph cloned outside every factory (here two
\* objects in a cycle, or one that holds itself), then trackValue on it.
Adopt(a, b) ==
    /\ phase = "run"
    /\ a \notin live /\ b \notin live
    /\ live' = live \cup {a, b}
    /\ kind' = [kind EXCEPT ![a] = "data", ![b] = "data"]
    /\ slots' = [slots EXCEPT ![a] = {b}, ![b] = {a}]
    /\ up' = [up EXCEPT ![a] = Null, ![b] = Null]
    /\ roots' = roots \cup {a}
    /\ Track(ReachFrom({a}, [x \in Addr |-> slots'[x] \cup ({up'[x]} \ {Null})]),
             kind')
    /\ UNCHANGED <<inherited, inChild, budget, trackedAfter>> /\ UNCHANGED gcVars

\* A value the program can reach goes into a slot, out of one, onto the stack,
\* or off it.
Store(a, b) ==
    /\ phase = "run"
    /\ a \in Reachable /\ b \in Reachable /\ kind[a] = "data"
    /\ slots' = [slots EXCEPT ![a] = @ \cup {b}]
    /\ UNCHANGED <<live, kind, up>> /\ UNCHANGED rootVars
    /\ UNCHANGED heapVars /\ UNCHANGED gcVars

Erase(a, b) ==
    /\ phase = "run"
    /\ a \in Reachable /\ b \in slots[a]
    /\ Settle(Base, [slots EXCEPT ![a] = @ \ {b}], up)
    /\ registry' = Expired
    /\ UNCHANGED rootVars /\ UNCHANGED <<allocations, budget, trackedAfter>>
    /\ UNCHANGED gcVars

Load(b) ==
    /\ phase = "run"
    /\ b \in Reachable
    /\ roots' = roots \cup {b}
    /\ UNCHANGED graphVars /\ UNCHANGED <<inherited, inChild>>
    /\ UNCHANGED heapVars /\ UNCHANGED gcVars

Drop(a) ==
    /\ phase = "run"
    /\ a \in roots
    /\ roots' = roots \ {a}
    /\ Settle(inherited \cup roots', slots, up)
    /\ registry' = Expired
    /\ UNCHANGED <<inherited, inChild, allocations, budget, trackedAfter>>
    /\ UNCHANGED gcVars

\* initializeModules, before the first instruction of the program: the child VM
\* shares the heap, keeps a snapshot of what the parent holds and starts from a
\* copy of it (the parent's stack and frames are still empty).
EnterInitializer ==
    /\ phase = "init"
    /\ inherited' = roots
    /\ inChild' = TRUE
    /\ phase' = "run"
    /\ UNCHANGED graphVars /\ UNCHANGED heapVars
    /\ UNCHANGED <<roots, resume, marked, pending>>

\* The child is gone.  It ran to its end: its variables replace the parent's.
\* It threw: they are dropped, and the program does not start.
LeaveInitializer(variables) ==
    /\ inChild
    /\ \/ /\ phase = "ended" /\ phase' = "init"
          /\ variables \subseteq roots
       \/ /\ phase = "run" /\ phase' = "ended"
          /\ variables = inherited
    /\ roots' = variables
    /\ Settle(roots', slots, up)
    /\ registry' = Expired
    /\ inherited' = {}
    /\ inChild' = FALSE
    /\ UNCHANGED <<allocations, budget, trackedAfter, resume, marked, pending>>

StartProgram ==
    /\ phase = "init"
    /\ phase' = "run"
    /\ UNCHANGED graphVars /\ UNCHANGED rootVars /\ UNCHANGED heapVars
    /\ UNCHANGED <<resume, marked, pending>>

\* An ended VM object runs another function.
RunAgain ==
    /\ phase = "ended" /\ ~inChild
    /\ phase' = "run"
    /\ UNCHANGED graphVars /\ UNCHANGED rootVars /\ UNCHANGED heapVars
    /\ UNCHANGED <<resume, marked, pending>>

--------------------------------------------------------------------------------
(* A collection.                                                           *)

\* Mutant: the roots of the running VM only.
OwnRoots == roots

\* gcRoots(): the snapshot of the parent and everything the VM holds.
GcRoots == inherited \cup roots

Begin(from, then) ==
    /\ registry' = [k \in Kinds |-> Pruned(registry[k])]
    /\ pending' = from
    /\ phase' = "mark"
    /\ resume' = then
    /\ UNCHANGED graphVars /\ UNCHANGED rootVars
    /\ UNCHANGED <<allocations, budget, trackedAfter, marked>>

\* Every gcInterval instructions, if the heap asks for it.
Interval == phase = "run" /\ allocations >= budget /\ Begin(GcRoots, "run")

\* The end of the bytecode always collects.
EndOfProgram == phase = "run" /\ Begin(GcRoots, "ended")

\* ~RuntimeHeap runs before the members declared above it let go of their
\* values, and collects with no roots.
Destroy ==
    /\ phase \in {"run", "ended"} /\ ~inChild
    /\ Begin({}, "closing")

\* The loop along a superclass chain stops at the first marked class.
Chain(base) ==
    ReachFrom(base, [a \in Addr |-> IF a \in marked THEN {} ELSE Up[a]])

\* One iteration of the worklist in markValue.
Mark(a) ==
    /\ phase = "mark" /\ a \in pending
    /\ IF a \in marked
       THEN /\ pending' = pending \ {a}
            /\ UNCHANGED marked
       ELSE IF kind[a] = "class"
       THEN /\ pending' = pending \ {a}
            /\ marked' = marked \cup Chain({a})
       ELSE /\ pending' = (pending \ {a}) \cup slots[a]
            /\ marked' = marked \cup {a} \cup Chain(Up[a])
    /\ UNCHANGED graphVars /\ UNCHANGED rootVars /\ UNCHANGED heapVars
    /\ UNCHANGED <<phase, resume>>

Garbage(k) == {a \in live : kind[a] = k /\ registry[k][a] = "live"} \ marked

\* sweepRegistry: hold all garbage of one kind, cut its edges, let it go.
Sweep(k) ==
    LET cut == Garbage(k)
    IN  /\ Settle(Base, [a \in Addr |-> IF a \in cut THEN {} ELSE slots[a]],
                        [a \in Addr |-> IF a \in cut THEN Null ELSE up[a]])
        /\ registry' = [Expired EXCEPT ![k] = Pruned(@)]
        /\ UNCHANGED rootVars
        /\ UNCHANGED <<allocations, budget, trackedAfter, resume, marked, pending>>

SweepData == phase = "mark" /\ pending = {} /\ Sweep("data") /\ phase' = "class"

SweepClasses == phase = "class" /\ Sweep("class") /\ phase' = "finish"

Tracked(reg) == {a \in live : reg[kind[a]][a] = "live"}

\* The new budget follows the traced slots, which count plain values as well.
Finish ==
    /\ phase = "finish"
    /\ registry' = [k \in Kinds |-> Pruned(registry[k])]
    /\ trackedAfter' = Cardinality(Tracked(registry))
    /\ allocations' = 0
    /\ budget' \in MinBudget .. MaxBudget
    /\ budget' >= trackedAfter' \div 2
    /\ phase' = resume
    /\ marked' = {}
    /\ UNCHANGED graphVars /\ UNCHANGED rootVars /\ UNCHANGED <<resume, pending>>

\* The stack, the variables and the class table of the dead VM let go.
Close ==
    /\ phase = "closing"
    /\ roots' = {}
    /\ Settle({}, slots, up)
    /\ phase' = "closed"
    /\ UNCHANGED <<inherited, inChild, resume, marked, pending>> /\ UNCHANGED heapVars

Mutator ==
    \/ \E a \in Addr, k \in Kinds, u \in Addr \cup {Null} : Allocate(a, k, u)
    \/ \E a, b \in Addr : Adopt(a, b) \/ Store(a, b) \/ Erase(a, b)
    \/ \E a \in Addr : Load(a) \/ Drop(a)
    \/ EnterInitializer \/ StartProgram \/ RunAgain
    \/ \E S \in SUBSET Addr : LeaveInitializer(S)

Collector ==
    \/ Interval \/ EndOfProgram \/ Destroy
    \/ \E a \in Addr : Mark(a)
    \/ SweepData \/ SweepClasses \/ Finish \/ Close

Next == Mutator \/ Collector

Spec == Init /\ [][Next]_vars

--------------------------------------------------------------------------------
(* Properties.                                                             *)

Same(a) == kind'[a] = kind[a] /\ slots'[a] = slots[a] /\ up'[a] = up[a]

\* Whatever the program can still reach, a collection leaves as it is: the
\* object stays at its address with every handle it holds.  Marking
\* (heap.cpp:45) must follow every kind of edge from every root, those the
\* parent of a module initializer keeps included, before the sweep cuts.
SparesReachable ==
    [][resume # "closing" /\ phase \in Collecting =>
         \A a \in Reachable : a \in live' /\ Same(a)]_vars

\* No object escapes the registries, also when the allocator hands out the
\* address of an object that died since the last prune (heap.cpp:17-21).
EveryObjectTracked ==
    phase \in {"init", "run", "ended"} => Tracked(registry) = live

\* A collection that ends leaves nothing behind: every object alive after it
\* is one the program can reach, cycles across both kinds included.
NothingUnreachableStays ==
    [][phase = "finish" /\ resume # "closing" => live' \subseteq Reachable']_vars

\* Destroying the VM frees every object: the last sweep cuts the cycles that
\* its stack, variables and class table would have left behind.
NothingLeaks == phase = "closed" => live = {}

\* The registries account for every object while the VM lives and for none
\* after it.
Accounted == EveryObjectTracked /\ NothingLeaks

\* A collection frees what the program cannot reach and nothing else.
CollectsExactly == SparesReachable /\ NothingUnreachableStays

\* Between two collections every object is either a survivor of the last one
\* or counted towards the next: the trigger cannot lose sight of a growing
\* heap.
TriggerSeesGrowth ==
    phase \in {"init", "run", "ended"} => Cardinality(live) <= trackedAfter + allocations
================================================================================
