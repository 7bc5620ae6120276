--------------------------- MODULE RuntimeHeapProofs ---------------------------
(***************************************************************************)
(* Theorems about RuntimeHeap for every finite set of addresses, every     *)
(* budget and every bound on the allocations.                              *)
(***************************************************************************)
EXTENDS RuntimeHeap, FiniteSetTheorems, TLAPS

--------------------------------------------------------------------------------
(* The two operators the module is built from.                             *)

\* What is reachable lies in every closed set around the base ...
LEMMA ReachLeast ==
    ASSUME NEW base, NEW edge, NEW S \in SUBSET Addr,
           base \subseteq S, \A x \in S : edge[x] \subseteq S
    PROVE  ReachFrom(base, edge) \subseteq S
BY DEF ReachFrom

\* ... and is such a set.
LEMMA ReachClosed ==
    ASSUME NEW base \in SUBSET Addr, NEW edge, \A x \in Addr : edge[x] \subseteq Addr
    PROVE  /\ ReachFrom(base, edge) \subseteq Addr
           /\ base \subseteq ReachFrom(base, edge)
           /\ \A x \in ReachFrom(base, edge) : edge[x] \subseteq ReachFrom(base, edge)
BY DEF ReachFrom

\* Reference counting keeps what the base holds and what survivors refer to,
\* and every survivor has an owner.
LEMMA SurvivorsFacts ==
    ASSUME NEW L, NEW base \in SUBSET L, NEW edge,
           \A x \in L : edge[x] \subseteq L
    PROVE  /\ Survivors(L, base, edge) \subseteq L
           /\ base \subseteq Survivors(L, base, edge)
           /\ \A x \in Survivors(L, base, edge) :
                edge[x] \subseteq Survivors(L, base, edge)
           /\ \A x \in Survivors(L, base, edge) :
                x \in base \/ \E y \in Survivors(L, base, edge) : x \in edge[y]
<1> DEFINE Owned(S) == \A a \in S : a \in base \/ \E b \in S : a \in edge[b]
           K == Survivors(L, base, edge)
<1>1. ASSUME NEW S \in SUBSET L, Owned(S)
      PROVE  S \subseteq K
  BY <1>1 DEF Survivors
<1>2. ASSUME NEW x \in K
      PROVE  \E S \in SUBSET L : x \in S /\ Owned(S)
  BY <1>2 DEF Survivors
<1>3. K \subseteq L
  BY DEF Survivors
<1>4. base \subseteq K
  BY <1>1
<1>5. ASSUME NEW x \in K, NEW y \in edge[x]
      PROVE  y \in K
  <2>1. PICK S \in SUBSET L : x \in S /\ Owned(S)
    BY <1>2
  <2>2. Owned(S \cup {y}) /\ S \cup {y} \in SUBSET L
    BY <2>1
  <2> QED
    BY <2>2, <1>1
<1>6. ASSUME NEW x \in K
      PROVE  x \in base \/ \E y \in K : x \in edge[y]
  <2>1. PICK S \in SUBSET L : x \in S /\ Owned(S)
    BY <1>2
  <2> QED
    BY <2>1, <1>1
<1> QED
  BY <1>3, <1>4, <1>5, <1>6

LEMMA KindFacts ==
    /\ "data" \in Kinds /\ "class" \in Kinds
    /\ \A k \in Kinds : k = "data" \/ k = "class"
    /\ "none" \in Entries /\ "live" \in Entries /\ "expired" \in Entries
BY DEF Kinds, Entries

--------------------------------------------------------------------------------
(* The inductive invariant.                                                *)

\* Every object has its entry, and a live entry has its object.
Truthful(reg, objects, kindOf) ==
    \A k \in Kinds, a \in Addr :
        reg[k][a] = "live" <=> a \in objects /\ kindOf[a] = k

Weak == phase # "closed" => Truthful(registry, live, kind)

\* The sets of a collection are empty outside it, and the worklist outside
\* marking; a collection without roots marks nothing.
Idle ==
    /\ phase \in Program => marked = {}
    /\ phase \in {"class", "finish"} => pending = {}
    /\ phase \in Collecting /\ resume = "closing" =>
         marked = {} /\ pending = {} /\ inherited = {}
    /\ phase = "closing" => inherited = {}

\* Marking: what is marked or waits is reachable, the roots are among it, and
\* no marked object refers to one that is neither; no superclass waits.
Marks == resume # "closing" /\ phase \in Collecting =>
    /\ Base \subseteq marked \cup pending
    /\ marked \cup pending \subseteq Reachable
    /\ \A a \in marked : slots[a] \subseteq marked \cup pending /\ Up[a] \subseteq marked

\* Sweeping: what is not marked has lost its edges, one kind after the other,
\* and is gone in the end.
Swept ==
    /\ phase = "class" => \A a \in live \ marked : kind[a] = "data" => Edge[a] = {}
    /\ phase = "finish" => \A a \in live \ marked : Edge[a] = {}
    /\ phase = "finish" /\ resume # "closing" => live \subseteq marked
    /\ phase = "closing" => \A a \in live : Edge[a] = {}
    /\ phase = "closed" => live = {}

HeapInv == TypeOK /\ Weak /\ Idle /\ Marks /\ Swept

--------------------------------------------------------------------------------
(* What the parts of a step do.                                            *)

Graph == GraphOK /\ HandlesOK

\* HandlesOK without the owners outside the graph.
Contained ==
    /\ \A a \in Addr : Edge[a] \subseteq live
    /\ \A a \in Addr : up[a] # Null => kind[up[a]] = "class"
    /\ \A a \in Addr : kind[a] = "class" => slots[a] = {}
    /\ \A a \in Addr \ live : Edge[a] = {}

Settled(base, s, u) ==
    /\ base \subseteq live'
    /\ \A a \in live' : slots'[a] = s[a] /\ up'[a] = u[a]
    /\ \A a \in live' : Edge'[a] = s[a] \cup ({u[a]} \ {Null})
    /\ \A a \in live' : a \in base \/ \E b \in live' : a \in Edge'[b]

SameKind == live' \subseteq live /\ \A a \in live' : kind'[a] = kind[a]

LEMMA EdgeFacts ==
    ASSUME Graph
    PROVE  /\ \A a \in Addr : Edge[a] = slots[a] \cup Up[a]
           /\ \A a \in Addr : Up[a] = {up[a]} \ {Null}
           /\ \A a \in Addr : Edge[a] \subseteq Addr /\ Up[a] \subseteq Addr
           /\ Base \in SUBSET Addr
           /\ Reachable \subseteq live
           /\ Base \subseteq Reachable
           /\ \A a \in Reachable : Edge[a] \subseteq Reachable
<1>1. /\ \A a \in Addr : Edge[a] = slots[a] \cup Up[a]
      /\ \A a \in Addr : Up[a] = {up[a]} \ {Null}
  BY DEF Edge, Up
<1>2. \A a \in Addr : Edge[a] \subseteq Addr /\ Up[a] \subseteq Addr
  BY <1>1, ConstantsOK DEF Graph, GraphOK, ConstantsOK
<1>3. Base \in SUBSET Addr /\ Base \subseteq live /\ live \in SUBSET Addr
  BY DEF Graph, GraphOK, HandlesOK
<1>4. Reachable \subseteq live
  BY <1>3, ReachLeast DEF Graph, HandlesOK, GraphOK, Reachable
<1>5. Base \subseteq Reachable /\ \A a \in Reachable : Edge[a] \subseteq Reachable
  BY <1>2, <1>3, ReachClosed DEF Reachable
<1> QED
  BY <1>1, <1>2, <1>3, <1>4, <1>5

\* Letting go of owners and edges leaves a well-formed graph of the survivors.
LEMMA SettleFacts ==
    ASSUME Graph, NEW base \in SUBSET live,
           NEW s \in [Addr -> SUBSET Addr], NEW u \in [Addr -> Addr \cup {Null}],
           \A a \in Addr : s[a] \subseteq slots[a] /\ (u[a] = up[a] \/ u[a] = Null),
           Settle(base, s, u)
    PROVE  /\ GraphOK'
           /\ Contained'
           /\ SameKind
           /\ Settled(base, s, u)
<1> DEFINE e == [a \in Addr |-> s[a] \cup ({u[a]} \ {Null})]
           left == Survivors(live, base, e)
<1>0. live \subseteq Addr /\ kind \in [Addr -> Kinds]
  BY DEF Graph, GraphOK
<1>1. \A a \in Addr : e[a] = s[a] \cup ({u[a]} \ {Null})
  OBVIOUS
<1>2. \A a \in Addr : e[a] \subseteq Edge[a]
  BY <1>1, EdgeFacts
<1>3. \A a \in live : e[a] \subseteq live
  BY <1>2, <1>0 DEF Graph, HandlesOK
<1>4. /\ live' = left
      /\ kind' = [a \in Addr |-> IF a \in left THEN kind[a] ELSE "data"]
      /\ slots' = [a \in Addr |-> IF a \in left THEN s[a] ELSE {}]
      /\ up' = [a \in Addr |-> IF a \in left THEN u[a] ELSE Null]
  BY DEF Settle
<1> HIDE DEF e
<1>5. /\ left \subseteq live /\ base \subseteq left
      /\ \A x \in left : e[x] \subseteq left
      /\ \A x \in left : x \in base \/ \E y \in left : x \in e[y]
  BY <1>3, SurvivorsFacts
<1> HIDE DEF left
<1>6. \A a \in Addr : Edge'[a] = slots'[a] \cup ({up'[a]} \ {Null})
  BY DEF Edge, Up
<1>7. \A a \in live' : Edge'[a] = e[a] /\ e[a] = s[a] \cup ({u[a]} \ {Null})
  BY <1>0, <1>1, <1>4, <1>5, <1>6
<1>8. \A a \in Addr \ live' : Edge'[a] = {} /\ slots'[a] = {} /\ up'[a] = Null
  BY <1>4, <1>6
<1>9. GraphOK'
  BY <1>0, <1>4, <1>5, KindFacts DEF GraphOK
<1>10. \A a \in live' : kind'[a] = kind[a] /\ slots'[a] = s[a] /\ up'[a] = u[a]
  BY <1>0, <1>4, <1>5
<1>11. \A a \in Addr : Edge'[a] \subseteq live'
  BY <1>4, <1>5, <1>7, <1>8
<1>12. \A a \in Addr : up'[a] # Null => kind'[up'[a]] = "class"
  <2> SUFFICES ASSUME NEW a \in Addr, up'[a] # Null PROVE kind'[up'[a]] = "class"
    OBVIOUS
  <2>1. a \in live' /\ up'[a] = up[a]
    BY <1>8, <1>10
  <2>2. up'[a] \in live'
    BY <1>6, <1>11
  <2> QED
    BY <2>1, <2>2, <1>10 DEF Graph, HandlesOK
<1>13. \A a \in Addr : kind'[a] = "class" => slots'[a] = {}
  BY <1>8, <1>10 DEF Graph, HandlesOK
<1>14. \A a \in live' : a \in base \/ \E b \in live' : a \in Edge'[b]
  BY <1>4, <1>5, <1>7
<1>15. base \subseteq live' /\ live' \subseteq live
  BY <1>4, <1>5
<1>16. /\ \A a \in live' : Edge'[a] = s[a] \cup ({u[a]} \ {Null})
       /\ \A a \in Addr \ live' : Edge'[a] = {}
  BY <1>7, <1>8
<1>17. Contained'
  BY <1>8, <1>11, <1>12, <1>13, <1>16 DEF Contained
<1>18. SameKind
  BY <1>10, <1>15 DEF SameKind
<1>19. Settled(base, s, u)
  BY <1>10, <1>14, <1>15, <1>16 DEF Settled
<1> QED
  BY <1>9, <1>17, <1>18, <1>19

\* Outside a collection only the graph and the registries matter.
LEMMA CalmStep ==
    ASSUME Idle, phase \in {"init", "run", "ended"}, marked' = marked,
           phase' \in {"init", "run", "ended"}
    PROVE  Idle' /\ Marks' /\ Swept'
BY DEF Idle, Marks, Swept, Program, Collecting

LEMMA PhaseFacts ==
    /\ {"init", "run", "ended", "closing", "closed"} = Program
    /\ {"mark", "class", "finish"} = Collecting
BY DEF Program, Collecting

LEMMA PrunedFacts ==
    ASSUME NEW e \in [Addr -> Entries]
    PROVE  /\ Pruned(e) \in [Addr -> Entries]
           /\ \A a \in Addr : Pruned(e)[a] = "live" <=> e[a] = "live"
BY KindFacts DEF Pruned

\* When objects die their entries expire, and no other.
LEMMA ExpiredFacts ==
    ASSUME HeapOK, Weak, phase # "closed", SameKind
    PROVE  /\ Expired \in [Kinds -> [Addr -> Entries]]
           /\ Truthful(Expired, live', kind')
<1>1. Expired = [k \in Kinds |-> [a \in Addr |->
                   IF a \in live \ live' /\ kind[a] = k /\ registry[k][a] = "live"
                   THEN "expired" ELSE registry[k][a]]]
  BY DEF Expired, Expire
<1>2. Expired \in [Kinds -> [Addr -> Entries]]
  BY <1>1, KindFacts DEF HeapOK
<1>3. ASSUME NEW k \in Kinds, NEW a \in Addr
      PROVE  Expired[k][a] = "live" <=> a \in live' /\ kind'[a] = k
  <2>1. Expired[k][a] = IF a \in live \ live' /\ kind[a] = k /\ registry[k][a] = "live"
                        THEN "expired" ELSE registry[k][a]
    BY <1>1
  <2>2. registry[k][a] = "live" <=> a \in live /\ kind[a] = k
    BY DEF Weak, Truthful
  <2> QED
    BY <2>1, <2>2 DEF SameKind
<1> QED
  BY <1>2, <1>3 DEF Truthful

\* Registering new objects: each gets its entry.
LEMMA TrackFacts ==
    ASSUME HeapOK, Weak, phase # "closed", live \subseteq Addr,
           NEW S \in SUBSET Addr, NEW kindOf \in [Addr -> Kinds], S \cap live = {},
           \A a \in live : kindOf[a] = kind[a],
           Track(S, kindOf)
    PROVE  /\ registry' \in [Kinds -> [Addr -> Entries]]
           /\ allocations' \in Nat
           /\ Truthful(registry', live \cup S, kindOf)
<1>1. \A k \in Kinds, a \in Addr : registry[k][a] = "live" <=> a \in live /\ kind[a] = k
  BY DEF Weak, Truthful
<1>2. NewlyTracked(S, kindOf) = S
  BY <1>1 DEF NewlyTracked, Counts
<1>3. /\ registry' = [k \in Kinds |-> [a \in Addr |->
                        IF a \in S /\ kindOf[a] = k THEN "live" ELSE registry[k][a]]]
      /\ allocations' = allocations + Cardinality(S)
  BY <1>2 DEF Track
<1>4. Cardinality(S) \in Nat
  BY ConstantsOK, FS_Subset, FS_CardinalityType DEF ConstantsOK
<1>5. registry' \in [Kinds -> [Addr -> Entries]] /\ allocations' \in Nat
  BY <1>3, <1>4, KindFacts DEF HeapOK
<1>6. ASSUME NEW k \in Kinds, NEW a \in Addr
      PROVE  registry'[k][a] = "live" <=> a \in live \cup S /\ kindOf[a] = k
  <2>1. registry'[k][a] = IF a \in S /\ kindOf[a] = k THEN "live" ELSE registry[k][a]
    BY <1>3
  <2> QED
    BY <2>1, <1>1
<1> QED
  BY <1>5, <1>6 DEF Truthful

--------------------------------------------------------------------------------
(* The program preserves the invariant.                                    *)

LEMMA AllocateKeeps ==
    ASSUME HeapInv, NEW a \in Addr, NEW k \in Kinds, NEW u \in Addr \cup {Null},
           Allocate(a, k, u)
    PROVE  HeapInv'
<1>0. HeapOK /\ Weak /\ Idle /\ GraphOK /\ HandlesOK /\ RootsOK /\ CollectorOK
  BY DEF HeapInv, TypeOK
<1>1. Graph /\ phase = "run" /\ a \notin live
  BY <1>0 DEF Allocate, Graph
<1>2. u = Null \/ (u \in live /\ kind[u] = "class")
  <2>1. u \in {c \in Reachable : kind[c] = "class"} \cup {Null}
    BY DEF Allocate
  <2>2. Reachable \subseteq live
    BY <1>1, EdgeFacts
  <2> QED
    BY <2>1, <2>2
<1>3. GraphOK'
  BY <1>0 DEF Allocate, GraphOK
<1>4. \A x \in Addr : Edge'[x] = IF x = a THEN {u} \ {Null} ELSE Edge[x]
  BY <1>0 DEF Allocate, Edge, Up, GraphOK
<1>5. HandlesOK'
  <2>1. Base' \subseteq live'
    BY <1>0 DEF Allocate, Base, HandlesOK
  <2>2. \A x \in Addr : Edge'[x] \subseteq live'
    BY <1>0, <1>2, <1>4 DEF Allocate, HandlesOK
  <2>3. \A x \in Addr : x # a => kind'[x] = kind[x] /\ up'[x] = up[x] /\ slots'[x] = slots[x]
    BY <1>0 DEF Allocate, GraphOK
  <2>4. kind'[a] = k /\ up'[a] = u /\ slots'[a] = {}
    BY <1>0 DEF Allocate, GraphOK
  <2>5. \A x \in Addr : up[x] # Null => up[x] # a
    BY <1>0, <1>1, EdgeFacts DEF HandlesOK
  <2>6. u # a
    BY <1>1, <1>2, ConstantsOK DEF ConstantsOK
  <2>7. \A x \in Addr : up'[x] # Null => kind'[up'[x]] = "class"
    BY <1>0, <1>2, <2>3, <2>4, <2>5, <2>6 DEF HandlesOK, GraphOK
  <2>8. \A x \in Addr : kind'[x] = "class" => slots'[x] = {}
    BY <1>0, <2>3, <2>4 DEF HandlesOK
  <2>9. \A x \in Addr \ live' : Edge'[x] = {}
    BY <1>0, <1>4 DEF Allocate, HandlesOK
  <2> QED
    BY <2>1, <2>2, <2>7, <2>8, <2>9 DEF HandlesOK
<1>6. HeapOK' /\ Weak'
  <2>1. PICK K \in [Addr -> Kinds] : K = kind'
    BY <1>3 DEF GraphOK
  <2>2. Track({a}, K)
    BY <2>1 DEF Allocate
  <2>3. \A x \in live : K[x] = kind[x]
    BY <1>0, <1>1, <2>1 DEF Allocate, GraphOK
  <2>4. {a} \in SUBSET Addr /\ {a} \cap live = {} /\ live \subseteq Addr /\ phase # "closed"
    BY <1>0, <1>1 DEF GraphOK
  <2>5. /\ registry' \in [Kinds -> [Addr -> Entries]]
        /\ allocations' \in Nat
        /\ Truthful(registry', live \cup {a}, K)
    BY <1>0, <2>2, <2>3, <2>4, TrackFacts
  <2> QED
    BY <1>0, <2>1, <2>5 DEF Allocate, HeapOK, Weak
<1>7. RootsOK' /\ CollectorOK'
  BY <1>0 DEF Allocate, RootsOK, CollectorOK, gcVars
<1>8. Idle' /\ Marks' /\ Swept'
  BY <1>0, <1>1, CalmStep DEF Allocate, gcVars
<1> QED
  BY <1>3, <1>5, <1>6, <1>7, <1>8 DEF HeapInv, TypeOK

LEMMA AdoptKeeps ==
    ASSUME HeapInv, NEW a \in Addr, NEW b \in Addr, Adopt(a, b)
    PROVE  HeapInv'
<1>0. HeapOK /\ Weak /\ Idle /\ GraphOK /\ HandlesOK /\ RootsOK /\ CollectorOK
  BY DEF HeapInv, TypeOK
<1>1. phase = "run" /\ a \notin live /\ b \notin live
  BY DEF Adopt
<1>2. /\ live' = live \cup {a, b}
      /\ \A x \in Addr \ {a, b} : kind'[x] = kind[x] /\ slots'[x] = slots[x] /\ up'[x] = up[x]
      /\ \A x \in {a, b} : kind'[x] = "data" /\ slots'[x] \subseteq {a, b} /\ up'[x] = Null
      /\ b \in slots'[a]
  BY <1>0 DEF Adopt, GraphOK
<1>3. GraphOK'
  BY <1>0, KindFacts DEF Adopt, GraphOK
<1>4. \A x \in Addr : Edge'[x] = slots'[x] \cup ({up'[x]} \ {Null})
  BY DEF Edge, Up
<1>5. /\ \A x \in {a, b} : Edge'[x] \subseteq {a, b}
      /\ b \in Edge'[a]
      /\ \A x \in Addr \ {a, b} : Edge'[x] = Edge[x]
  <2>1. \A x \in Addr : Edge[x] = slots[x] \cup ({up[x]} \ {Null})
    BY DEF Edge, Up
  <2> QED
    BY <1>2, <1>4, <2>1, ZenonT(30)
<1>6. HandlesOK'
  <2>1. Base' \subseteq live'
    BY <1>0, <1>2 DEF Adopt, Base, HandlesOK
  <2>2. \A x \in Addr : Edge'[x] \subseteq live'
    BY <1>0, <1>2, <1>5 DEF HandlesOK
  <2>3. \A x \in Addr : up'[x] # Null => kind'[up'[x]] = "class"
    <3> SUFFICES ASSUME NEW x \in Addr, up'[x] # Null PROVE kind'[up'[x]] = "class"
      OBVIOUS
    <3>1. x \notin {a, b} /\ up'[x] = up[x]
      BY <1>2
    <3>2. up[x] \in Edge[x] /\ Edge[x] \subseteq live
      BY <1>0, <3>1 DEF HandlesOK, Edge, Up
    <3>3. up[x] \in Addr \ {a, b}
      BY <1>0, <1>1, <3>2 DEF GraphOK
    <3> QED
      BY <1>0, <1>2, <3>1, <3>3 DEF HandlesOK
  <2>4. \A x \in Addr : kind'[x] = "class" => slots'[x] = {}
    BY <1>0, <1>2 DEF HandlesOK
  <2>5. \A x \in Addr \ live' : Edge'[x] = {}
    BY <1>0, <1>2, <1>5 DEF HandlesOK
  <2> QED
    BY <2>1, <2>2, <2>3, <2>4, <2>5 DEF HandlesOK
<1>7. HeapOK' /\ Weak'
  <2>1. PICK K \in [Addr -> Kinds] : K = kind'
    BY <1>3 DEF GraphOK
  <2>2. PICK e : e = [x \in Addr |-> slots'[x] \cup ({up'[x]} \ {Null})]
    OBVIOUS
  <2>3. \A x \in Addr : e[x] = Edge'[x]
    BY <1>4, <2>2
  <2>4. ReachFrom({a}, e) = {a, b}
    <3>1. /\ {a, b} \in SUBSET Addr /\ {a} \subseteq {a, b}
          /\ \A x \in {a, b} : e[x] \subseteq {a, b}
      BY <1>5, <2>3
    <3>2. ReachFrom({a}, e) \subseteq {a, b}
      BY <3>1, ReachLeast
    <3>3. {a} \in SUBSET Addr /\ \A x \in Addr : e[x] \subseteq Addr
      BY <1>0, <1>6, <1>3, <2>3 DEF HandlesOK, GraphOK
    <3>4. a \in ReachFrom({a}, e) /\ e[a] \subseteq ReachFrom({a}, e)
      BY <3>3, ReachClosed
    <3> QED
      BY <1>5, <2>3, <3>2, <3>4
  <2>5. Track({a, b}, K)
    BY <2>1, <2>2, <2>4 DEF Adopt
  <2>6. \A x \in live : K[x] = kind[x]
    BY <1>0, <1>1, <1>2, <2>1 DEF GraphOK
  <2>7. {a, b} \in SUBSET Addr /\ {a, b} \cap live = {} /\ live \subseteq Addr /\ phase # "closed"
    BY <1>0, <1>1 DEF GraphOK
  <2>8. /\ registry' \in [Kinds -> [Addr -> Entries]]
        /\ allocations' \in Nat
        /\ Truthful(registry', live \cup {a, b}, K)
    BY <1>0, <2>5, <2>6, <2>7, TrackFacts
  <2> QED
    BY <1>0, <2>1, <2>8 DEF Adopt, HeapOK, Weak
<1>8. RootsOK' /\ CollectorOK'
  BY <1>0 DEF Adopt, RootsOK, CollectorOK, gcVars
<1>9. Idle' /\ Marks' /\ Swept'
  BY <1>0, <1>1, CalmStep DEF Adopt, gcVars
<1> QED
  BY <1>3, <1>6, <1>7, <1>8, <1>9 DEF HeapInv, TypeOK

LEMMA StoreKeeps ==
    ASSUME HeapInv, NEW a \in Addr, NEW b \in Addr, Store(a, b)
    PROVE  HeapInv'
<1>0. HeapOK /\ Weak /\ Idle /\ GraphOK /\ HandlesOK /\ RootsOK /\ CollectorOK
  BY DEF HeapInv, TypeOK
<1>1. /\ phase = "run" /\ a \in live /\ b \in live /\ kind[a] = "data"
      /\ \A x \in Addr : slots'[x] = IF x = a THEN slots[a] \cup {b} ELSE slots[x]
      /\ UNCHANGED <<live, kind, up, registry, allocations, budget, trackedAfter>>
      /\ UNCHANGED rootVars /\ UNCHANGED gcVars
  <2>1. Reachable \subseteq live
    BY <1>0, EdgeFacts DEF Graph
  <2> QED
    BY <1>0, <2>1 DEF Store, GraphOK, heapVars
<1>2. GraphOK'
  BY <1>0 DEF Store, GraphOK
<1>3. \A x \in Addr : Edge'[x] = IF x = a THEN Edge[a] \cup {b} ELSE Edge[x]
  BY <1>0, <1>1 DEF Edge, Up
<1>4. HandlesOK'
  BY <1>0, <1>1, <1>3 DEF HandlesOK, Base, rootVars
<1>5. HeapOK' /\ Weak' /\ RootsOK' /\ CollectorOK'
  BY <1>0, <1>1 DEF HeapOK, Weak, Truthful, RootsOK, CollectorOK, rootVars, gcVars
<1>6. Idle' /\ Marks' /\ Swept'
  BY <1>0, <1>1, CalmStep DEF gcVars
<1> QED
  BY <1>2, <1>4, <1>5, <1>6 DEF HeapInv, TypeOK

\* A step that lets go of owners: the part Erase, Drop and LeaveInitializer share.
LEMMA ReleaseKeeps ==
    ASSUME HeapInv, phase \in {"init", "run", "ended"}, phase' \in {"init", "run", "ended"},
           NEW base \in SUBSET live, base = Base', RootsOK',
           NEW s \in [Addr -> SUBSET Addr], NEW u \in [Addr -> Addr \cup {Null}],
           \A a \in Addr : s[a] \subseteq slots[a] /\ (u[a] = up[a] \/ u[a] = Null),
           Settle(base, s, u), registry' = Expired,
           UNCHANGED <<allocations, budget, trackedAfter, resume, marked, pending>>
    PROVE  HeapInv'
<1>0. HeapOK /\ Weak /\ Idle /\ GraphOK /\ HandlesOK /\ CollectorOK /\ Graph
  BY DEF HeapInv, TypeOK, Graph
<1>1. GraphOK' /\ Contained' /\ SameKind /\ Settled(base, s, u)
  BY <1>0, SettleFacts
<1>2. HandlesOK'
  BY <1>1 DEF HandlesOK, Contained, Settled
<1>3. Expired \in [Kinds -> [Addr -> Entries]] /\ Truthful(Expired, live', kind')
  BY <1>0, <1>1, ExpiredFacts
<1>4. HeapOK' /\ Weak'
  BY <1>0, <1>3 DEF HeapOK, Weak
<1>5. CollectorOK'
  BY <1>0, PhaseFacts DEF CollectorOK
<1>6. Idle' /\ Marks' /\ Swept'
  BY <1>0, CalmStep
<1> QED
  BY <1>1, <1>2, <1>4, <1>5, <1>6 DEF HeapInv, TypeOK

LEMMA EraseKeeps ==
    ASSUME HeapInv, NEW a \in Addr, NEW b \in Addr, Erase(a, b)
    PROVE  HeapInv'
<1>0. GraphOK /\ HandlesOK /\ RootsOK
  BY DEF HeapInv, TypeOK
<1>1. PICK base : base = Base
  OBVIOUS
<1>2. PICK s : s = [slots EXCEPT ![a] = @ \ {b}]
  OBVIOUS
<1>3. PICK u : u = up
  OBVIOUS
<1>4. /\ phase = "run" /\ Settle(base, s, u) /\ registry' = Expired
      /\ UNCHANGED rootVars
      /\ UNCHANGED <<allocations, budget, trackedAfter, phase, resume, marked, pending>>
  BY <1>1, <1>2, <1>3 DEF Erase, gcVars
<1>5. /\ s \in [Addr -> SUBSET Addr] /\ u \in [Addr -> Addr \cup {Null}]
      /\ \A x \in Addr : s[x] \subseteq slots[x] /\ (u[x] = up[x] \/ u[x] = Null)
  BY <1>0, <1>2, <1>3 DEF GraphOK
<1>6. base \in SUBSET live /\ base = Base' /\ RootsOK'
  BY <1>0, <1>1, <1>4 DEF HandlesOK, Base, RootsOK, rootVars
<1> QED
  BY <1>4, <1>5, <1>6, ReleaseKeeps

LEMMA DropKeeps ==
    ASSUME HeapInv, NEW a \in Addr, Drop(a)
    PROVE  HeapInv'
<1>0. GraphOK /\ HandlesOK /\ RootsOK
  BY DEF HeapInv, TypeOK
<1>1. PICK base : base = inherited \cup (roots \ {a})
  OBVIOUS
<1>2. PICK s : s = slots
  OBVIOUS
<1>3. PICK u : u = up
  OBVIOUS
<1>4. /\ phase = "run" /\ Settle(base, s, u) /\ registry' = Expired
      /\ roots' = roots \ {a} /\ UNCHANGED <<inherited, inChild>>
      /\ UNCHANGED <<allocations, budget, trackedAfter, phase, resume, marked, pending>>
  BY <1>1, <1>2, <1>3 DEF Drop, gcVars
<1>5. /\ s \in [Addr -> SUBSET Addr] /\ u \in [Addr -> Addr \cup {Null}]
      /\ \A x \in Addr : s[x] \subseteq slots[x] /\ (u[x] = up[x] \/ u[x] = Null)
  BY <1>0, <1>2, <1>3 DEF GraphOK
<1>6. base \in SUBSET live /\ base = Base' /\ RootsOK'
  BY <1>0, <1>1, <1>4 DEF HandlesOK, Base, RootsOK
<1> QED
  BY <1>4, <1>5, <1>6, ReleaseKeeps

LEMMA LeaveKeeps ==
    ASSUME HeapInv, NEW variables \in SUBSET Addr, LeaveInitializer(variables)
    PROVE  HeapInv'
<1>0. GraphOK /\ HandlesOK /\ RootsOK
  BY DEF HeapInv, TypeOK
<1>2. PICK s : s = slots
  OBVIOUS
<1>3. PICK u : u = up
  OBVIOUS
<1>4. /\ phase \in {"run", "ended"} /\ phase' \in {"init", "ended"}
      /\ variables \subseteq roots \cup inherited
      /\ Settle(variables, s, u) /\ registry' = Expired
      /\ roots' = variables /\ inherited' = {} /\ inChild' = FALSE
      /\ UNCHANGED <<allocations, budget, trackedAfter, resume, marked, pending>>
  <2>1. roots' = variables
    BY DEF LeaveInitializer
  <2>2. Settle(variables, s, u)
    BY <1>2, <1>3, <2>1 DEF LeaveInitializer, Settle
  <2> QED
    BY <2>1, <2>2 DEF LeaveInitializer
<1>5. /\ s \in [Addr -> SUBSET Addr] /\ u \in [Addr -> Addr \cup {Null}]
      /\ \A x \in Addr : s[x] \subseteq slots[x] /\ (u[x] = up[x] \/ u[x] = Null)
  BY <1>0, <1>2, <1>3 DEF GraphOK
<1>6. variables \in SUBSET live /\ variables = Base' /\ RootsOK'
  BY <1>0, <1>4 DEF HandlesOK, Base, RootsOK
<1> QED
  BY <1>4, <1>5, <1>6, ReleaseKeeps

\* Load and the steps that only move between the phases of the program.
LEMMA MoveKeeps ==
    ASSUME HeapInv, phase \in {"init", "run", "ended"}, phase' \in {"init", "run", "ended"},
           UNCHANGED graphVars, UNCHANGED heapVars, UNCHANGED <<resume, marked, pending>>,
           RootsOK', Base' \subseteq live
    PROVE  HeapInv'
<1>0. HeapOK /\ Weak /\ Idle /\ GraphOK /\ HandlesOK /\ CollectorOK
  BY DEF HeapInv, TypeOK
<1>1. GraphOK' /\ HeapOK'
  BY <1>0 DEF GraphOK, HeapOK, graphVars, heapVars
<1>2. HandlesOK'
  <2>1. Edge' = Edge
    BY DEF Edge, Up, graphVars
  <2> QED
    BY <1>0, <2>1 DEF HandlesOK, graphVars
<1>3. Weak'
  BY <1>0 DEF Weak, Truthful, graphVars, heapVars
<1>4. CollectorOK'
  BY <1>0, PhaseFacts DEF CollectorOK
<1>5. Idle' /\ Marks' /\ Swept'
  BY <1>0, CalmStep
<1> QED
  BY <1>1, <1>2, <1>3, <1>4, <1>5 DEF HeapInv, TypeOK

LEMMA MutatorKeeps == HeapInv /\ Mutator => HeapInv'
<1> SUFFICES ASSUME HeapInv, Mutator PROVE HeapInv'
  OBVIOUS
<1>0. GraphOK /\ HandlesOK /\ RootsOK
  BY DEF HeapInv, TypeOK
<1>1. ASSUME NEW a \in Addr, NEW k \in Kinds, NEW u \in Addr \cup {Null},
             Allocate(a, k, u) PROVE HeapInv'
  BY <1>1, AllocateKeeps
<1>2. ASSUME NEW a \in Addr, NEW b \in Addr, Adopt(a, b) PROVE HeapInv'
  BY <1>2, AdoptKeeps
<1>3. ASSUME NEW a \in Addr, NEW b \in Addr, Store(a, b) PROVE HeapInv'
  BY <1>3, StoreKeeps
<1>4. ASSUME NEW a \in Addr, NEW b \in Addr, Erase(a, b) PROVE HeapInv'
  BY <1>4, EraseKeeps
<1>5. ASSUME NEW a \in Addr, Load(a) PROVE HeapInv'
  <2>1. Reachable \subseteq live
    BY <1>0, EdgeFacts DEF Graph
  <2>2. RootsOK' /\ Base' \subseteq live
    BY <1>0, <1>5, <2>1 DEF Load, RootsOK, Base, HandlesOK
  <2> QED
    BY <1>5, <2>2, MoveKeeps DEF Load, gcVars
<1>6. ASSUME NEW a \in Addr, Drop(a) PROVE HeapInv'
  BY <1>6, DropKeeps
<1>7. CASE EnterInitializer
  <2>1. RootsOK' /\ Base' \subseteq live
    BY <1>0, <1>7 DEF EnterInitializer, RootsOK, Base, HandlesOK
  <2> QED
    BY <1>7, <2>1, MoveKeeps DEF EnterInitializer
<1>8. CASE StartProgram \/ RunAgain
  <2>1. RootsOK' /\ Base' \subseteq live
    BY <1>0, <1>8 DEF StartProgram, RunAgain, RootsOK, Base, HandlesOK, rootVars
  <2> QED
    BY <1>8, <2>1, MoveKeeps DEF StartProgram, RunAgain
<1>9. ASSUME NEW S \in SUBSET Addr, LeaveInitializer(S) PROVE HeapInv'
  BY <1>9, LeaveKeeps
<1> QED
  BY <1>1, <1>2, <1>3, <1>4, <1>5, <1>6, <1>7, <1>8, <1>9 DEF Mutator

--------------------------------------------------------------------------------
(* A collection preserves the invariant.                                   *)

LEMMA SameGraph ==
    ASSUME UNCHANGED graphVars, UNCHANGED rootVars
    PROVE  Base' = Base /\ Edge' = Edge /\ Up' = Up /\ Reachable' = Reachable
<1>1. Base' = Base /\ Edge' = Edge /\ Up' = Up
  BY DEF graphVars, rootVars, Base, Edge, Up
<1> QED
  BY <1>1 DEF Reachable

LEMMA BeginKeeps ==
    ASSUME HeapInv, phase \in {"run", "ended"},
           NEW from, NEW then \in {"run", "ended", "closing"},
           IF then = "closing" THEN from = {} /\ ~inChild ELSE from = Base,
           Begin(from, then)
    PROVE  HeapInv'
<1>0. HeapOK /\ Weak /\ Idle /\ GraphOK /\ HandlesOK /\ RootsOK /\ CollectorOK
  BY DEF HeapInv, TypeOK
<1>1. /\ UNCHANGED graphVars /\ UNCHANGED rootVars
      /\ phase' = "mark" /\ resume' = then /\ pending' = from /\ marked' = marked
      /\ registry' = [k \in Kinds |-> Pruned(registry[k])]
      /\ UNCHANGED <<allocations, budget, trackedAfter>>
  BY DEF Begin
<1>2. GraphOK' /\ RootsOK' /\ HandlesOK'
  <2>1. GraphOK' /\ RootsOK'
    BY <1>0, <1>1 DEF GraphOK, RootsOK, graphVars, rootVars
  <2>2. Edge' = Edge /\ Base' = Base
    BY <1>1, SameGraph
  <2> QED
    BY <1>0, <1>1, <2>1, <2>2 DEF HandlesOK, graphVars
<1>3. HeapOK' /\ Weak'
  <2>1. \A k \in Kinds : registry[k] \in [Addr -> Entries]
    BY <1>0 DEF HeapOK
  <2>2. \A k \in Kinds : /\ registry'[k] \in [Addr -> Entries]
                         /\ \A a \in Addr : registry'[k][a] = "live" <=> registry[k][a] = "live"
    BY <1>1, <2>1, PrunedFacts
  <2>3. Truthful(registry, live, kind)
    BY <1>0 DEF Weak
  <2>4. Truthful(registry', live', kind')
    BY <1>1, <2>2, <2>3 DEF Truthful, graphVars
  <2>5. registry' \in [Kinds -> [Addr -> Entries]]
    BY <1>1, <2>2
  <2> QED
    BY <1>0, <1>1, <2>4, <2>5 DEF HeapOK, Weak
<1>4. CollectorOK'
  BY <1>0, <1>1, PhaseFacts DEF CollectorOK, HandlesOK, GraphOK
<1>5. marked = {}
  BY <1>0, PhaseFacts DEF Idle
<1>6. Idle' /\ Swept'
  BY <1>0, <1>1, <1>5, PhaseFacts DEF Idle, Swept, RootsOK, rootVars
<1>7. Marks'
  <2>1. Base \subseteq Reachable
    BY <1>0, EdgeFacts DEF Graph
  <2>2. Base' = Base /\ Reachable' = Reachable
    BY <1>1, SameGraph
  <2> QED
    BY <1>1, <1>5, <2>1, <2>2 DEF Marks
<1> QED
  BY <1>2, <1>3, <1>4, <1>6, <1>7 DEF HeapInv, TypeOK

\* The superclass chain from reachable classes: reachable classes, without
\* slots, and the superclass of an unmarked one is in it.
LEMMA ChainFacts ==
    ASSUME Graph, NEW base \in SUBSET {c \in Reachable : kind[c] = "class"}
    PROVE  /\ base \subseteq Chain(base)
           /\ Chain(base) \subseteq Reachable
           /\ \A x \in Chain(base) : slots[x] = {}
           /\ \A x \in Chain(base) \ marked : Up[x] \subseteq Chain(base)
<1> DEFINE stop == [a \in Addr |-> IF a \in marked THEN {} ELSE Up[a]]
           classes == {c \in Reachable : kind[c] = "class"}
<1>1. /\ \A x \in Addr : Up[x] = {up[x]} \ {Null} /\ Up[x] \subseteq Addr /\ Up[x] \subseteq Edge[x]
      /\ Reachable \subseteq live /\ live \subseteq Addr
      /\ \A x \in Reachable : Edge[x] \subseteq Reachable
  BY EdgeFacts DEF Graph, GraphOK
<1>2. \A x \in Addr : stop[x] = IF x \in marked THEN {} ELSE Up[x]
  OBVIOUS
<1>3. Chain(base) = ReachFrom(base, stop)
  BY DEF Chain
<1> HIDE DEF stop
<1>4. \A x \in classes : stop[x] \subseteq classes
  <2> SUFFICES ASSUME NEW x \in classes, NEW y \in stop[x] PROVE y \in classes
    OBVIOUS
  <2>1. x \in Addr /\ x \in Reachable /\ y \in Up[x]
    BY <1>1, <1>2
  <2>2. y \in Reachable
    BY <1>1, <2>1
  <2>3. kind[y] = "class"
    BY <1>1, <2>1 DEF Graph, HandlesOK
  <2> QED
    BY <2>2, <2>3
<1>5. classes \in SUBSET Addr /\ base \subseteq classes
  BY <1>1
<1>6. ReachFrom(base, stop) \subseteq classes
  BY <1>4, <1>5, ReachLeast
<1>7. base \in SUBSET Addr /\ \A x \in Addr : stop[x] \subseteq Addr
  BY <1>1, <1>2, <1>5
<1>8. /\ base \subseteq ReachFrom(base, stop)
      /\ \A x \in ReachFrom(base, stop) : stop[x] \subseteq ReachFrom(base, stop)
  BY <1>7, ReachClosed
<1>9. \A x \in classes : slots[x] = {} /\ x \in Addr
  BY <1>1 DEF Graph, HandlesOK
<1> QED
  BY <1>2, <1>3, <1>6, <1>8, <1>9

LEMMA MarkKeeps ==
    ASSUME HeapInv, NEW a \in Addr, Mark(a)
    PROVE  HeapInv'
<1>0. /\ HeapOK /\ Weak /\ Idle /\ Marks /\ GraphOK /\ HandlesOK /\ RootsOK /\ CollectorOK
      /\ Graph
  BY DEF HeapInv, TypeOK, Graph
<1>1. /\ UNCHANGED graphVars /\ UNCHANGED rootVars /\ UNCHANGED heapVars
      /\ phase = "mark" /\ phase' = "mark" /\ resume' = resume /\ a \in pending
  BY DEF Mark
<1>2. resume # "closing"
  BY <1>0, <1>1, PhaseFacts DEF Idle
<1>3. /\ Base \subseteq marked \cup pending
      /\ marked \cup pending \subseteq Reachable
      /\ \A x \in marked : slots[x] \subseteq marked \cup pending /\ Up[x] \subseteq marked
  BY <1>0, <1>1, <1>2, PhaseFacts DEF Marks
<1>4. /\ \A x \in Addr : Edge[x] = slots[x] \cup Up[x]
      /\ Reachable \subseteq Addr
      /\ \A x \in Reachable : Edge[x] \subseteq Reachable
      /\ a \in Reachable
  BY <1>0, <1>1, <1>3, EdgeFacts DEF GraphOK
<1>5. /\ Base \subseteq marked' \cup pending'
      /\ marked' \cup pending' \subseteq Reachable
      /\ \A x \in marked' : slots[x] \subseteq marked' \cup pending' /\ Up[x] \subseteq marked'
  <2>1. CASE a \in marked
    <3>1. marked' = marked /\ pending' = pending \ {a}
      BY <2>1 DEF Mark
    <3> QED
      BY <2>1, <3>1, <1>3
  <2>2. CASE a \notin marked /\ kind[a] = "class"
    <3>1. marked' = marked \cup Chain({a}) /\ pending' = pending \ {a}
      BY <2>2 DEF Mark
    <3>2. {a} \in SUBSET {c \in Reachable : kind[c] = "class"}
      BY <2>2, <1>4
    <3>3. /\ {a} \subseteq Chain({a})
          /\ Chain({a}) \subseteq Reachable
          /\ \A x \in Chain({a}) : slots[x] = {}
          /\ \A x \in Chain({a}) \ marked : Up[x] \subseteq Chain({a})
      BY <1>0, <3>2, ChainFacts
    <3> QED
      BY <3>1, <3>3, <1>3
  <2>3. CASE a \notin marked /\ kind[a] # "class"
    <3>1. PICK c : c = Up[a]
      OBVIOUS
    <3>2. marked' = marked \cup {a} \cup Chain(c) /\ pending' = (pending \ {a}) \cup slots[a]
      BY <2>3, <3>1 DEF Mark
    <3>3. c \in SUBSET {x \in Reachable : kind[x] = "class"}
      <4>1. c \subseteq Reachable
        BY <1>4, <3>1
      <4>2. \A x \in c : kind[x] = "class"
        BY <1>0, <3>1, EdgeFacts DEF HandlesOK
      <4> QED
        BY <4>1, <4>2
    <3>4. /\ c \subseteq Chain(c)
          /\ Chain(c) \subseteq Reachable
          /\ \A x \in Chain(c) : slots[x] = {}
          /\ \A x \in Chain(c) \ marked : Up[x] \subseteq Chain(c)
      BY <1>0, <3>3, ChainFacts
    <3>5. slots[a] \subseteq Reachable
      BY <1>4
    <3> QED
      BY <3>1, <3>2, <3>4, <3>5, <1>3, <1>4
  <2> QED
    BY <2>1, <2>2, <2>3
<1>6. Base' = Base /\ Up' = Up /\ Edge' = Edge /\ Reachable' = Reachable /\ slots' = slots
  BY <1>1, SameGraph DEF graphVars
<1>7. Marks'
  BY <1>5, <1>6 DEF Marks
<1>8. GraphOK' /\ RootsOK' /\ HeapOK' /\ Weak' /\ HandlesOK'
  <2>1. GraphOK' /\ RootsOK' /\ HeapOK'
    BY <1>0, <1>1 DEF GraphOK, RootsOK, HeapOK, graphVars, rootVars, heapVars
  <2>2. Weak'
    BY <1>0, <1>1 DEF Weak, Truthful, graphVars, heapVars
  <2>3. HandlesOK'
    BY <1>0, <1>1, <1>6 DEF HandlesOK, graphVars
  <2> QED
    BY <2>1, <2>2, <2>3
<1>9. CollectorOK'
  BY <1>0, <1>1, <1>4, <1>5 DEF CollectorOK
<1>10. Idle' /\ Swept'
  BY <1>0, <1>1, <1>2, PhaseFacts DEF Idle, Swept, rootVars
<1> QED
  BY <1>7, <1>8, <1>9, <1>10 DEF HeapInv, TypeOK

\* One registry swept.  What is reachable survives untouched and stays
\* reachable; what is unmarked and of the swept kind has lost its edges.
Reaches == Reachable \subseteq Reachable'
Untouched == \A a \in Reachable : a \in live' /\ Same(a) /\ Edge'[a] = Edge[a]
Fewer == \A a \in live' : Edge'[a] \subseteq Edge[a]
Cut(k) == \A a \in live' : kind[a] = k /\ a \notin marked => Edge'[a] = {}
Supported == \A a \in live' : a \in Base \/ \E b \in live' : a \in Edge'[b]

LEMMA SweepFacts ==
    ASSUME HeapInv, NEW k \in Kinds, Sweep(k), phase \in Collecting
    PROVE  /\ TypeOK' <=> CollectorOK'
           /\ Truthful(registry', live', kind')
           /\ SameKind /\ Fewer /\ Cut(k) /\ Supported
           /\ resume # "closing" /\ pending = {} => Reachable = marked /\ Untouched /\ Reaches
<1>0. /\ HeapOK /\ Weak /\ Idle /\ Marks /\ GraphOK /\ HandlesOK /\ RootsOK /\ CollectorOK
      /\ Graph /\ Truthful(registry, live, kind)
  BY PhaseFacts DEF HeapInv, TypeOK, Graph, Weak
<1>1. PICK base : base = Base
  OBVIOUS
<1>2. PICK cut : cut = Garbage(k)
  OBVIOUS
<1>3. PICK s : s = [a \in Addr |-> IF a \in cut THEN {} ELSE slots[a]]
  OBVIOUS
<1>4. PICK u : u = [a \in Addr |-> IF a \in cut THEN Null ELSE up[a]]
  OBVIOUS
<1>5. /\ Settle(base, s, u)
      /\ registry' = [Expired EXCEPT ![k] = Pruned(@)]
      /\ UNCHANGED rootVars
      /\ UNCHANGED <<allocations, budget, trackedAfter, resume, marked, pending>>
  BY <1>1, <1>2, <1>3, <1>4 DEF Sweep
<1>6. /\ base \in SUBSET live
      /\ s \in [Addr -> SUBSET Addr] /\ u \in [Addr -> Addr \cup {Null}]
      /\ \A a \in Addr : s[a] \subseteq slots[a] /\ (u[a] = up[a] \/ u[a] = Null)
  BY <1>0, <1>1, <1>3, <1>4 DEF GraphOK, HandlesOK
<1>7a. GraphOK' /\ Contained' /\ SameKind /\ Settled(base, s, u)
  BY <1>0, <1>5, <1>6, SettleFacts
<1>7. /\ GraphOK' /\ Contained' /\ SameKind /\ base \subseteq live'
      /\ \A a \in live' : slots'[a] = s[a] /\ up'[a] = u[a]
      /\ \A a \in live' : Edge'[a] = s[a] \cup ({u[a]} \ {Null})
      /\ \A a \in live' : a \in base \/ \E b \in live' : a \in Edge'[b]
  BY <1>7a DEF Settled
<1>8. live' \subseteq live /\ live \subseteq Addr
  BY <1>0, <1>7 DEF GraphOK, SameKind
<1>9. \A a \in cut : a \notin marked /\ a \in live
  BY <1>2 DEF Garbage
<1>10. \A a \in live : kind[a] = k /\ a \notin marked => a \in cut
  BY <1>0, <1>2, <1>8 DEF Garbage, Truthful
<1>11. \A a \in Addr : Edge[a] = slots[a] \cup ({up[a]} \ {Null})
  BY DEF Edge, Up
<1>12. Fewer
  BY <1>6, <1>7, <1>8, <1>11 DEF Fewer
<1>13. Cut(k)
  BY <1>3, <1>4, <1>7, <1>8, <1>10 DEF Cut
<1>14. Supported
  BY <1>1, <1>7 DEF Supported
<1>15. /\ registry' \in [Kinds -> [Addr -> Entries]]
       /\ Truthful(registry', live', kind')
  <2>1. Expired \in [Kinds -> [Addr -> Entries]] /\ Truthful(Expired, live', kind')
    BY <1>0, <1>7, PhaseFacts, ExpiredFacts
  <2>2. PICK E \in [Kinds -> [Addr -> Entries]] : E = Expired
    BY <2>1
  <2>3. registry' = [E EXCEPT ![k] = Pruned(E[k])]
    BY <1>5, <2>2
  <2>4. E[k] \in [Addr -> Entries]
    OBVIOUS
  <2>5. /\ Pruned(E[k]) \in [Addr -> Entries]
        /\ \A a \in Addr : Pruned(E[k])[a] = "live" <=> E[k][a] = "live"
    BY <2>4, PrunedFacts
  <2>6. registry' \in [Kinds -> [Addr -> Entries]]
    BY <2>3, <2>5
  <2>7. \A j \in Kinds, a \in Addr : registry'[j][a] = "live" <=> E[j][a] = "live"
    BY <2>3, <2>5
  <2>8. Truthful(E, live', kind')
    BY <2>1, <2>2
  <2> QED
    BY <2>6, <2>7, <2>8 DEF Truthful
<1>16. TypeOK' <=> CollectorOK'
  <2>1. RootsOK' /\ HeapOK'
    BY <1>0, <1>5, <1>15 DEF RootsOK, HeapOK, rootVars
  <2>2. Base' = Base
    BY <1>5 DEF Base, rootVars
  <2>3. HandlesOK'
    BY <1>1, <1>7, <2>2 DEF HandlesOK, Contained
  <2> QED
    BY <1>7, <2>1, <2>3 DEF TypeOK
<1>17. ASSUME resume # "closing", pending = {}
       PROVE  Reachable = marked /\ Untouched /\ Reaches
  <2>1. /\ Base \subseteq marked /\ marked \subseteq Reachable
        /\ \A a \in marked : slots[a] \subseteq marked /\ Up[a] \subseteq marked
    BY <1>0, <1>17 DEF Marks
  <2>2. /\ \A a \in Addr : Edge[a] = slots[a] \cup Up[a]
        /\ Reachable \subseteq live /\ Base \subseteq Reachable
        /\ \A a \in Reachable : Edge[a] \subseteq Reachable
    BY <1>0, EdgeFacts
  <2>3. marked \in SUBSET Addr /\ \A a \in marked : Edge[a] \subseteq marked
    BY <1>8, <2>1, <2>2
  <2>4. Reachable = marked
    BY <2>1, <2>3, ReachLeast DEF Reachable
  <2>5. \A a \in Reachable \cap live' :
            kind'[a] = kind[a] /\ slots'[a] = slots[a] /\ up'[a] = up[a] /\ Edge'[a] = Edge[a]
    BY <1>3, <1>4, <1>7, <1>8, <1>9, <1>11, <2>4, ZenonT(30) DEF SameKind
  <2>6. \A x \in live' : Edge'[x] \subseteq live'
    BY <1>7, <1>8 DEF Contained
  <2>7. /\ Reachable \cap live' \in SUBSET Addr
        /\ Base \subseteq Reachable \cap live'
        /\ \A a \in Reachable \cap live' : Edge[a] \subseteq Reachable \cap live'
    BY <1>1, <1>7, <1>8, <2>2, <2>5, <2>6
  <2>8. Reachable \subseteq live'
    <3>1. PICK S \in SUBSET Addr : S = Reachable \cap live'
      BY <2>7
    <3>2. Base \subseteq S /\ \A a \in S : Edge[a] \subseteq S
      BY <2>7, <3>1
    <3>3. Reachable \subseteq S
      BY <3>2, ReachLeast DEF Reachable
    <3> QED
      BY <3>1, <3>3
  <2>9. Untouched
    BY <2>5, <2>8 DEF Untouched, Same
  <2>10. Reaches
    <3>1. PICK e : e = Edge'
      OBVIOUS
    <3>2. Base' = Base
      BY <1>5 DEF Base, rootVars
    <3>3. Reachable' = ReachFrom(Base, e)
      BY <3>1, <3>2 DEF Reachable
    <3>4. Base \in SUBSET Addr /\ \A a \in Addr : e[a] \subseteq Addr
      BY <1>7, <1>8, <2>2, <3>1 DEF Contained
    <3>5. PICK R \in SUBSET Addr : R = ReachFrom(Base, e)
      BY <3>4, ReachClosed
    <3>6. Base \subseteq R /\ \A a \in R : e[a] \subseteq R
      BY <3>4, <3>5, ReachClosed
    <3>7. PICK S \in SUBSET Addr : S = R \cap Reachable
      OBVIOUS
    <3>8. Base \subseteq S /\ \A a \in S : Edge[a] \subseteq S
      BY <2>2, <2>5, <2>8, <3>1, <3>6, <3>7
    <3>9. Reachable \subseteq S
      BY <3>8, ReachLeast DEF Reachable
    <3> QED
      BY <3>3, <3>5, <3>7, <3>9 DEF Reaches
  <2> QED
    BY <2>4, <2>9, <2>10
<1> QED
  BY <1>7, <1>12, <1>13, <1>14, <1>15, <1>16, <1>17

LEMMA SweepDataKeeps == HeapInv /\ SweepData => HeapInv'
<1> SUFFICES ASSUME HeapInv, SweepData PROVE HeapInv'
  OBVIOUS
<1>0. Idle /\ Marks /\ CollectorOK /\ GraphOK
  BY DEF HeapInv, TypeOK
<1>1. /\ phase = "mark" /\ pending = {} /\ Sweep("data") /\ phase' = "class"
      /\ UNCHANGED <<resume, marked, pending>>
  BY DEF SweepData, Sweep
<1>2. /\ TypeOK' <=> CollectorOK'
      /\ Truthful(registry', live', kind')
      /\ SameKind /\ Cut("data")
      /\ resume # "closing" /\ pending = {} => Reachable = marked /\ Untouched /\ Reaches
  BY <1>1, PhaseFacts, KindFacts, SweepFacts
<1>3. CollectorOK' /\ Idle' /\ Weak'
  BY <1>0, <1>1, <1>2, PhaseFacts DEF CollectorOK, Idle, Weak, Sweep, rootVars
<1>4. Swept'
  <2>1. ASSUME NEW a \in live', a \notin marked, kind'[a] = "data"
        PROVE  Edge'[a] = {}
    BY <1>2, <2>1 DEF SameKind, Cut
  <2> QED
    BY <1>1, <2>1 DEF Swept
<1>5. Marks'
  <2> SUFFICES ASSUME resume # "closing" PROVE Marks'
    BY <1>1 DEF Marks
  <2>1. Reachable = marked /\ Untouched /\ Reaches
    BY <1>1, <1>2
  <2>2. /\ Base \subseteq marked
        /\ \A a \in marked : slots[a] \subseteq marked /\ Up[a] \subseteq marked
    BY <1>0, <1>1, PhaseFacts DEF Marks
  <2>3. Base' = Base
    BY <1>1 DEF Sweep, Base, rootVars
  <2>4. \A a \in marked : slots'[a] = slots[a] /\ Up'[a] = Up[a]
    <3> SUFFICES ASSUME NEW a \in marked PROVE slots'[a] = slots[a] /\ Up'[a] = Up[a]
      OBVIOUS
    <3>1. slots'[a] = slots[a] /\ up'[a] = up[a]
      BY <2>1 DEF Untouched, Same
    <3>2. a \in Addr
      BY <1>0 DEF CollectorOK
    <3> QED
      BY <3>1, <3>2 DEF Up
  <2> QED
    BY <1>1, <2>1, <2>2, <2>3, <2>4 DEF Marks, Reaches
<1> QED
  BY <1>2, <1>3, <1>4, <1>5 DEF HeapInv

LEMMA SweepClassesKeeps == HeapInv /\ SweepClasses => HeapInv'
<1> SUFFICES ASSUME HeapInv, SweepClasses PROVE HeapInv'
  OBVIOUS
<1>0. Idle /\ Marks /\ CollectorOK /\ GraphOK /\ Swept
  BY DEF HeapInv, TypeOK
<1>1. /\ phase = "class" /\ pending = {} /\ Sweep("class") /\ phase' = "finish"
      /\ UNCHANGED <<resume, marked, pending>>
  BY <1>0 DEF SweepClasses, Sweep, Idle
<1>2. /\ TypeOK' <=> CollectorOK'
      /\ Truthful(registry', live', kind')
      /\ SameKind /\ Fewer /\ Cut("class") /\ Supported
      /\ resume # "closing" /\ pending = {} => Reachable = marked /\ Untouched /\ Reaches
  BY <1>1, PhaseFacts, KindFacts, SweepFacts
<1>3. CollectorOK' /\ Idle' /\ Weak'
  BY <1>0, <1>1, <1>2, PhaseFacts DEF CollectorOK, Idle, Weak, Sweep, rootVars
<1>4. ASSUME NEW a \in live', a \notin marked
      PROVE  Edge'[a] = {}
  <2>1. a \in live /\ kind[a] \in Kinds
    BY <1>0, <1>2 DEF SameKind, GraphOK
  <2>2. CASE kind[a] = "class"
    BY <1>2, <1>4, <2>2 DEF Cut
  <2>3. CASE kind[a] = "data"
    <3>1. Edge[a] = {}
      BY <1>0, <1>1, <1>4, <2>1, <2>3 DEF Swept
    <3> QED
      BY <1>2, <1>4, <3>1 DEF Fewer
  <2> QED
    BY <2>1, <2>2, <2>3, KindFacts
<1>5. Marks' /\ (resume # "closing" => live' \subseteq marked)
  <2> SUFFICES ASSUME resume # "closing" PROVE Marks' /\ live' \subseteq marked
    BY <1>1 DEF Marks
  <2>1. Reachable = marked /\ Untouched /\ Reaches
    BY <1>1, <1>2
  <2>2. /\ Base \subseteq marked
        /\ \A a \in marked : slots[a] \subseteq marked /\ Up[a] \subseteq marked
    BY <1>0, <1>1, PhaseFacts DEF Marks
  <2>3. Base' = Base
    BY <1>1 DEF Sweep, Base, rootVars
  <2>4. \A a \in marked : slots'[a] = slots[a] /\ Up'[a] = Up[a] /\ Edge'[a] = slots[a] \cup Up[a]
    <3> SUFFICES ASSUME NEW a \in marked
                 PROVE  slots'[a] = slots[a] /\ Up'[a] = Up[a] /\ Edge'[a] = slots[a] \cup Up[a]
      OBVIOUS
    <3>1. slots'[a] = slots[a] /\ up'[a] = up[a]
      BY <2>1 DEF Untouched, Same
    <3>2. a \in Addr
      BY <1>0 DEF CollectorOK
    <3> QED
      BY <3>1, <3>2 DEF Up, Edge
  <2>5. ASSUME NEW a \in live' PROVE a \in marked
    <3> SUFFICES ASSUME a \notin marked PROVE FALSE
      OBVIOUS
    <3>1. PICK b \in live' : a \in Edge'[b]
      BY <1>2, <2>2 DEF Supported
    <3>2. b \in marked
      BY <1>4, <3>1
    <3> QED
      BY <2>2, <2>4, <3>1, <3>2
  <2> QED
    BY <1>1, <2>1, <2>2, <2>3, <2>4, <2>5 DEF Marks, Reaches
<1>6. Swept'
  BY <1>1, <1>4, <1>5 DEF Swept
<1> QED
  BY <1>2, <1>3, <1>5, <1>6 DEF HeapInv

LEMMA FinishKeeps == HeapInv /\ Finish => HeapInv'
<1> SUFFICES ASSUME HeapInv, Finish PROVE HeapInv'
  OBVIOUS
<1>0. HeapOK /\ Weak /\ Idle /\ Swept /\ GraphOK /\ HandlesOK /\ RootsOK /\ CollectorOK
  BY DEF HeapInv, TypeOK
<1>1. /\ UNCHANGED graphVars /\ UNCHANGED rootVars /\ UNCHANGED <<resume, pending>>
      /\ phase = "finish" /\ phase' = resume /\ marked' = {}
      /\ registry' = [k \in Kinds |-> Pruned(registry[k])]
      /\ trackedAfter' = Cardinality(Tracked(registry))
      /\ allocations' = 0 /\ budget' \in MinBudget .. MaxBudget
  BY DEF Finish
<1>2. resume \in {"run", "ended", "closing"}
  BY <1>0 DEF CollectorOK
<1>3. Edge' = Edge /\ Base' = Base /\ live' = live /\ kind' = kind /\ slots' = slots /\ up' = up
  BY <1>1, SameGraph DEF graphVars
<1>4. GraphOK' /\ RootsOK' /\ HandlesOK'
  BY <1>0, <1>1, <1>3 DEF GraphOK, RootsOK, HandlesOK, rootVars
<1>5. HeapOK' /\ Weak'
  <2>1. \A k \in Kinds : registry[k] \in [Addr -> Entries]
    BY <1>0 DEF HeapOK
  <2>2. \A k \in Kinds : /\ registry'[k] \in [Addr -> Entries]
                         /\ \A a \in Addr : registry'[k][a] = "live" <=> registry[k][a] = "live"
    BY <1>1, <2>1, PrunedFacts
  <2>3. Truthful(registry, live, kind)
    BY <1>0, <1>1 DEF Weak
  <2>4. Truthful(registry', live', kind')
    BY <1>3, <2>2, <2>3 DEF Truthful
  <2>5. registry' \in [Kinds -> [Addr -> Entries]]
    BY <1>1, <2>2
  <2>6. trackedAfter' \in Nat
    <3>1. Tracked(registry) \subseteq Addr
      BY <1>0 DEF Tracked, GraphOK
    <3> QED
      BY <1>1, <3>1, ConstantsOK, FS_Subset, FS_CardinalityType DEF ConstantsOK
  <2>7. budget' \in Nat /\ allocations' \in Nat
    BY <1>1, ConstantsOK DEF ConstantsOK
  <2> QED
    BY <2>4, <2>5, <2>6, <2>7 DEF HeapOK, Weak
<1>6. CollectorOK' /\ Idle' /\ Marks'
  BY <1>0, <1>1, <1>2, PhaseFacts DEF CollectorOK, Idle, Marks, rootVars
<1>7. Swept'
  <2> SUFFICES ASSUME resume = "closing" PROVE Swept'
    BY <1>1, <1>2 DEF Swept
  <2>1. marked = {}
    BY <1>0, <1>1, PhaseFacts DEF Idle
  <2>2. \A a \in live : Edge[a] = {}
    BY <1>0, <1>1, <2>1 DEF Swept
  <2> QED
    BY <1>1, <1>3, <2>2 DEF Swept
<1> QED
  BY <1>4, <1>5, <1>6, <1>7 DEF HeapInv, TypeOK

LEMMA CloseKeeps == HeapInv /\ Close => HeapInv'
<1> SUFFICES ASSUME HeapInv, Close PROVE HeapInv'
  OBVIOUS
<1>0. /\ HeapOK /\ Idle /\ Swept /\ GraphOK /\ HandlesOK /\ RootsOK /\ CollectorOK /\ Graph
  BY DEF HeapInv, TypeOK, Graph
<1>1. PICK s : s = slots
  OBVIOUS
<1>2. PICK u : u = up
  OBVIOUS
<1>3. /\ phase = "closing" /\ phase' = "closed" /\ roots' = {}
      /\ Settle({}, s, u)
      /\ UNCHANGED <<inherited, inChild, resume, marked, pending>> /\ UNCHANGED heapVars
  BY <1>1, <1>2 DEF Close
<1>4. PICK none \in SUBSET live : none = {}
  OBVIOUS
<1>5. GraphOK' /\ Contained' /\ SameKind /\ Settled(none, s, u)
  <2>1. /\ s \in [Addr -> SUBSET Addr] /\ u \in [Addr -> Addr \cup {Null}]
        /\ \A a \in Addr : s[a] \subseteq slots[a] /\ (u[a] = up[a] \/ u[a] = Null)
        /\ Settle(none, s, u)
    BY <1>0, <1>1, <1>2, <1>3, <1>4 DEF GraphOK
  <2> QED
    BY <1>0, <2>1, SettleFacts
<1>6. live' = {}
  <2> SUFFICES ASSUME NEW a \in live' PROVE FALSE
    OBVIOUS
  <2>1. PICK b \in live' : a \in Edge'[b]
    BY <1>4, <1>5 DEF Settled
  <2>2. b \in live /\ b \in Addr
    BY <1>0, <1>5 DEF SameKind, GraphOK
  <2>3. Edge'[b] = slots[b] \cup ({up[b]} \ {Null})
    BY <1>1, <1>2, <1>5, <2>1 DEF Settled
  <2>4. Edge[b] = slots[b] \cup ({up[b]} \ {Null}) /\ Edge[b] = {}
    BY <1>0, <1>3, <2>2 DEF Edge, Up, Swept
  <2> QED
    BY <2>1, <2>3, <2>4
<1>7. RootsOK' /\ HeapOK' /\ CollectorOK' /\ Weak'
  BY <1>0, <1>3, PhaseFacts DEF RootsOK, HeapOK, CollectorOK, Weak, heapVars
<1>8. Idle' /\ Marks' /\ Swept'
  BY <1>0, <1>3, <1>6, PhaseFacts DEF Idle, Marks, Swept
<1>9. HandlesOK'
  <2>1. Base' = {}
    BY <1>0, <1>3 DEF Idle, Base
  <2> QED
    BY <1>5, <2>1 DEF HandlesOK, Contained
<1> QED
  BY <1>5, <1>7, <1>8, <1>9 DEF HeapInv, TypeOK

--------------------------------------------------------------------------------
(* The theorems.                                                           *)

LEMMA Inductive == Spec => []HeapInv
<1>1. Init => HeapInv
  <2> SUFFICES ASSUME Init PROVE HeapInv
    OBVIOUS
  <2>1. GraphOK /\ RootsOK /\ HeapOK /\ CollectorOK
    BY ConstantsOK, KindFacts, PhaseFacts
       DEF Init, GraphOK, RootsOK, HeapOK, CollectorOK, ConstantsOK
  <2>2. \A a \in Addr : Edge[a] = {}
    BY DEF Init, Edge, Up
  <2>3. HandlesOK
    BY <2>2 DEF Init, HandlesOK, Base
  <2>4. Weak
    BY DEF Init, Weak, Truthful
  <2>5. Idle /\ Marks /\ Swept
    BY PhaseFacts DEF Init, Idle, Marks, Swept
  <2> QED
    BY <2>1, <2>3, <2>4, <2>5 DEF HeapInv, TypeOK
<1>2. HeapInv /\ [Next]_vars => HeapInv'
  <2> SUFFICES ASSUME HeapInv, [Next]_vars PROVE HeapInv'
    OBVIOUS
  <2>1. CASE Mutator
    BY <2>1, MutatorKeeps
  <2>2. CASE Interval \/ EndOfProgram \/ Destroy
    <3>1. GcRoots = Base
      BY DEF GcRoots, Base
    <3> QED
      BY <2>2, <3>1, BeginKeeps DEF Interval, EndOfProgram, Destroy
  <2>3. ASSUME NEW a \in Addr, Mark(a) PROVE HeapInv'
    BY <2>3, MarkKeeps
  <2>4. CASE SweepData
    BY <2>4, SweepDataKeeps
  <2>5. CASE SweepClasses
    BY <2>5, SweepClassesKeeps
  <2>6. CASE Finish
    BY <2>6, FinishKeeps
  <2>7. CASE Close
    BY <2>7, CloseKeeps
  <2>8. CASE UNCHANGED vars
    <3>1. UNCHANGED graphVars /\ UNCHANGED rootVars /\ UNCHANGED heapVars /\ UNCHANGED gcVars
      BY <2>8 DEF vars, graphVars, rootVars, heapVars, gcVars
    <3>2. Base' = Base /\ Up' = Up /\ Edge' = Edge /\ Reachable' = Reachable
      BY <3>1, SameGraph
    <3> QED
      BY <3>1, <3>2 DEF HeapInv, TypeOK, GraphOK, RootsOK, HeapOK, CollectorOK, HandlesOK,
                        Weak, Truthful, Idle, Marks, Swept,
                        graphVars, rootVars, heapVars, gcVars
  <2> QED
    BY <2>1, <2>2, <2>3, <2>4, <2>5, <2>6, <2>7, <2>8 DEF Next, Collector
<1> QED
  BY <1>1, <1>2, PTL DEF Spec

\* Every reachable state is well typed, every handle refers to a live object,
\* and an object that died left nothing behind.
THEOREM TypeCorrect == Spec => []TypeOK
<1>1. HeapInv => TypeOK
  BY DEF HeapInv
<1> QED
  BY <1>1, Inductive, PTL

\* No object of any kind ever escapes its weak registry, whatever addresses the
\* allocator uses again.
THEOREM EveryObjectTrackedAlways == Spec => []EveryObjectTracked
<1>1. HeapInv => EveryObjectTracked
  BY DEF HeapInv, TypeOK, GraphOK, Weak, Truthful, EveryObjectTracked, Tracked
<1> QED
  BY <1>1, Inductive, PTL

\* Destroying the VM leaves no object, cyclic or not.
THEOREM NothingLeaksAlways == Spec => []NothingLeaks
<1>1. HeapInv => NothingLeaks
  BY DEF HeapInv, Swept, NothingLeaks
<1> QED
  BY <1>1, Inductive, PTL

\* A collection never changes or frees an object the program can reach, for any
\* graph, any roots and any order in which the worklist is taken.
THEOREM SparesReachableAlways == Spec => SparesReachable
<1>1. HeapInv /\ [Next]_vars =>
        [resume # "closing" /\ phase \in Collecting =>
           \A a \in Reachable : a \in live' /\ Same(a)]_vars
  <2> SUFFICES ASSUME HeapInv, Next, resume # "closing", phase \in Collecting
               PROVE  \A a \in Reachable : a \in live' /\ Same(a)
    OBVIOUS
  <2>0. Reachable \subseteq live
    BY EdgeFacts DEF HeapInv, TypeOK, Graph
  <2>1. CASE UNCHANGED graphVars
    BY <2>0, <2>1 DEF Same, graphVars
  <2>2. CASE SweepData
    <3>1. Sweep("data") /\ pending = {}
      BY <2>2 DEF SweepData
    <3>2. Untouched
      BY <3>1, SweepFacts, KindFacts
    <3> QED
      BY <3>2 DEF Untouched
  <2>3. CASE SweepClasses
    <3>1. Sweep("class") /\ pending = {}
      BY <2>3 DEF SweepClasses, HeapInv, Idle
    <3>2. Untouched
      BY <3>1, SweepFacts, KindFacts
    <3> QED
      BY <3>2 DEF Untouched
  <2>4. CASE Mutator
    <3>1. phase \in {"init", "run", "ended"}
      BY <2>4 DEF Mutator, Allocate, Adopt, Store, Erase, Load, Drop, EnterInitializer,
                  LeaveInitializer, StartProgram, RunAgain
    <3> QED
      BY <3>1, PhaseFacts
  <2>5. CASE Close
    BY <2>5, PhaseFacts DEF Close
  <2> QED
    BY <2>1, <2>2, <2>3, <2>4, <2>5
       DEF Next, Collector, Interval, EndOfProgram, Destroy, Begin, Mark, Finish
<1> QED
  BY <1>1, Inductive, PTL DEF Spec, SparesReachable

\* When a collection ends, every object left is one the program can reach: no
\* cycle survives it, whichever registries its objects are in.
THEOREM NothingUnreachableStaysAlways == Spec => NothingUnreachableStays
<1>1. HeapInv /\ [Next]_vars =>
        [phase = "finish" /\ resume # "closing" => live' \subseteq Reachable']_vars
  <2> SUFFICES ASSUME HeapInv, Next, phase = "finish", resume # "closing"
               PROVE  live' \subseteq Reachable'
    OBVIOUS
  <2>1. live \subseteq marked /\ marked \subseteq Reachable
    BY PhaseFacts DEF HeapInv, Swept, Marks
  <2>2. CASE UNCHANGED <<live, kind, slots, up, roots, inherited, inChild>>
    <3>1. Reachable' = Reachable
      BY <2>2, SameGraph DEF graphVars, rootVars
    <3> QED
      BY <2>1, <2>2, <3>1
  <2>3. CASE ~Finish
    BY <2>3 DEF Next, Mutator, Collector, Allocate, Adopt, Store, Erase, Load, Drop,
                EnterInitializer, LeaveInitializer, StartProgram, RunAgain, Interval,
                EndOfProgram, Destroy, Mark, SweepData, SweepClasses, Close
  <2> QED
    BY <2>2, <2>3 DEF Finish, graphVars, rootVars
<1> QED
  BY <1>1, Inductive, PTL DEF Spec, NothingUnreachableStays

\* What the factories make is counted: new objects make the counter grow by at
\* least their number.
LEMMA GrowthCounted ==
    ASSUME HeapInv, phase # "closed", NEW S \in SUBSET Addr, NEW made \in SUBSET S, made \cap live = {},
           NEW kindOf \in [Addr -> Kinds], \A a \in made : Counts(registry[kindOf[a]][a]),
           Track(S, kindOf)
    PROVE  Cardinality(live \cup made) <= Cardinality(live) + (allocations' - allocations)
<1> DEFINE new == NewlyTracked(S, kindOf)
<1>1. new \subseteq Addr /\ made \subseteq new /\ live \subseteq Addr
  BY DEF NewlyTracked, HeapInv, TypeOK, GraphOK
<1>2. IsFiniteSet(new) /\ IsFiniteSet(made) /\ IsFiniteSet(live) /\ IsFiniteSet(live \cap made)
  BY <1>1, ConstantsOK, FS_Subset DEF ConstantsOK
<1>3. Cardinality(made) <= Cardinality(new)
  BY <1>1, <1>2, FS_Subset
<1>4. Cardinality(live \cup made) = Cardinality(live) + Cardinality(made) - Cardinality(live \cap made)
  BY <1>2, FS_Union
<1>5. Cardinality(live \cap made) = 0
  <2>1. live \cap made = {}
    OBVIOUS
  <2> QED
    BY <2>1, FS_EmptySet
<1>6. /\ Cardinality(new) \in Nat /\ Cardinality(made) \in Nat /\ Cardinality(live) \in Nat
      /\ allocations \in Nat
  BY <1>2, FS_CardinalityType DEF HeapInv, TypeOK, HeapOK
<1>7. allocations' = allocations + Cardinality(new)
  BY DEF Track
<1> HIDE DEF new
<1> QED
  BY <1>3, <1>4, <1>5, <1>6, <1>7

\* A program step never makes more objects than it counts.
LEMMA GrowsAsCounted ==
    ASSUME HeapInv, Mutator
    PROVE  Cardinality(live') <= Cardinality(live) + (allocations' - allocations)
<1>0. /\ GraphOK /\ HeapOK /\ IsFiniteSet(live) /\ Cardinality(live) \in Nat /\ allocations \in Nat
      /\ \A k \in Kinds, a \in Addr : registry[k][a] = "live" /\ phase # "closed" => a \in live
  <2>1. GraphOK /\ HeapOK
    BY DEF HeapInv, TypeOK
  <2>2. IsFiniteSet(live)
    BY <2>1, ConstantsOK, FS_Subset DEF ConstantsOK, GraphOK
  <2> QED
    BY <2>1, <2>2, FS_CardinalityType DEF HeapInv, Weak, Truthful, HeapOK
<1>1. ASSUME NEW a \in Addr, NEW k \in Kinds, NEW u \in Addr \cup {Null}, Allocate(a, k, u)
      PROVE  Cardinality(live') <= Cardinality(live) + (allocations' - allocations)
  <2>1. PICK K \in [Addr -> Kinds] : K = kind'
    BY <1>0, <1>1 DEF Allocate, GraphOK
  <2>2. Track({a}, K) /\ live' = live \cup {a} /\ {a} \cap live = {} /\ phase = "run"
    BY <1>1, <2>1 DEF Allocate
  <2>3. Counts(registry[K[a]][a])
    BY <1>0, <1>1, <2>1, <2>2 DEF Counts
  <2> QED
    BY <2>2, <2>3, GrowthCounted
<1>2. ASSUME NEW a \in Addr, NEW b \in Addr, Adopt(a, b)
      PROVE  Cardinality(live') <= Cardinality(live) + (allocations' - allocations)
  <2>1. PICK K \in [Addr -> Kinds] : K = kind'
    BY <1>0, <1>2, KindFacts DEF Adopt, GraphOK
  <2>2. PICK e : e = [x \in Addr |-> slots'[x] \cup ({up'[x]} \ {Null})]
    OBVIOUS
  <2>3. PICK S : S = ReachFrom({a}, e)
    OBVIOUS
  <2>4. /\ live' = live \cup {a, b} /\ {a, b} \cap live = {} /\ phase = "run" /\ Track(S, K)
        /\ slots' = [slots EXCEPT ![a] = {b}, ![b] = {a}]
        /\ up' = [up EXCEPT ![a] = Null, ![b] = Null]
    BY <1>2, <2>1, <2>2, <2>3 DEF Adopt
  <2>5. \A x \in Addr : e[x] \subseteq Addr
    BY <1>0, <2>2, <2>4 DEF GraphOK
  <2>6. S \subseteq Addr /\ a \in S /\ e[a] \subseteq S
    BY <2>3, <2>5, ReachClosed
  <2>7. b \in e[a]
    <3>1. b \in slots'[a]
      BY <1>0, <2>4 DEF GraphOK
    <3> QED
      BY <2>2, <3>1
  <2>8. {a, b} \in SUBSET S /\ \A x \in {a, b} : Counts(registry[K[x]][x])
    BY <1>0, <2>1, <2>4, <2>6, <2>7 DEF Counts
  <2> QED
    BY <2>4, <2>6, <2>8, GrowthCounted
<1>3. ASSUME live' \subseteq live, allocations' = allocations
      PROVE  Cardinality(live') <= Cardinality(live) + (allocations' - allocations)
  <2>1. IsFiniteSet(live') /\ Cardinality(live') <= Cardinality(live)
    BY <1>0, <1>3, FS_Subset
  <2>2. Cardinality(live') \in Nat
    BY <2>1, FS_CardinalityType
  <2> QED
    BY <1>0, <1>3, <2>1, <2>2
<1>4. CASE ~(\E a \in Addr, k \in Kinds, u \in Addr \cup {Null} : Allocate(a, k, u))
           /\ ~(\E a, b \in Addr : Adopt(a, b))
  <2>1. live' \subseteq live /\ allocations' = allocations
    BY <1>4 DEF Mutator, Store, Erase, Load, Drop, EnterInitializer, StartProgram, RunAgain,
                LeaveInitializer, Settle, Survivors, graphVars, heapVars
  <2> QED
    BY <1>3, <2>1
<1> QED
  BY <1>1, <1>2, <1>4

\* Between two collections no object escapes the count that starts the next
\* one: survivors and registrations together bound the heap, for any sequence
\* of allocations, adopted worker results, deaths and reused addresses.
THEOREM TriggerSeesGrowthAlways == Spec => []TriggerSeesGrowth
<1>1. Init => TriggerSeesGrowth
  <2> SUFFICES ASSUME Init PROVE Cardinality({}) <= 0 + 0
    BY DEF Init, TriggerSeesGrowth
  <2> QED
    BY FS_EmptySet
<1>2. HeapInv /\ HeapInv' /\ TriggerSeesGrowth /\ [Next]_vars => TriggerSeesGrowth'
  <2> SUFFICES ASSUME HeapInv, HeapInv', TriggerSeesGrowth, [Next]_vars,
                      phase' \in {"init", "run", "ended"}
               PROVE  Cardinality(live') <= trackedAfter' + allocations'
    BY DEF TriggerSeesGrowth
  <2>1. CASE Mutator
    <3>1. phase \in {"init", "run", "ended"} /\ trackedAfter' = trackedAfter
      BY <2>1 DEF Mutator, Allocate, Adopt, Store, Erase, Load, Drop, EnterInitializer,
                  LeaveInitializer, StartProgram, RunAgain, heapVars
    <3>2. Cardinality(live') <= Cardinality(live) + (allocations' - allocations)
      BY <2>1, GrowsAsCounted
    <3>3. Cardinality(live) <= trackedAfter + allocations
      BY <3>1 DEF TriggerSeesGrowth
    <3>4. /\ trackedAfter \in Nat /\ allocations \in Nat /\ allocations' \in Nat
          /\ live \subseteq Addr /\ live' \subseteq Addr
      BY DEF HeapInv, TypeOK, HeapOK, GraphOK
    <3>5. Cardinality(live) \in Nat /\ Cardinality(live') \in Nat
      BY <3>4, ConstantsOK, FS_Subset, FS_CardinalityType DEF ConstantsOK
    <3> QED
      BY <3>1, <3>2, <3>3, <3>4, <3>5
  <2>2. CASE Finish
    <3>1. phase = "finish"
      BY <2>2 DEF Finish
    <3>2. Tracked(registry) = live
      BY <3>1 DEF HeapInv, TypeOK, GraphOK, Weak, Truthful, Tracked
    <3>3. live' = live /\ trackedAfter' = Cardinality(live) /\ allocations' = 0
      BY <2>2, <3>2 DEF Finish, graphVars
    <3>4. trackedAfter' \in Nat
      BY DEF HeapInv, TypeOK, HeapOK
    <3> QED
      BY <3>3, <3>4
  <2>3. CASE UNCHANGED vars
    BY <2>3 DEF TriggerSeesGrowth, vars
  <2>4. CASE Collector /\ ~Finish
    BY <2>4, PhaseFacts DEF Collector, Interval, EndOfProgram, Destroy, Begin, Mark, SweepData,
                SweepClasses, Close
  <2> QED
    BY <2>1, <2>2, <2>3, <2>4 DEF Next
<1> QED
  BY <1>1, <1>2, Inductive, PTL DEF Spec

\* Nothing escapes the registries and nothing outlives the VM.
THEOREM AccountedAlways == Spec => []Accounted
BY EveryObjectTrackedAlways, NothingLeaksAlways, PTL DEF Accounted

\* What a collection frees is exactly what cannot be reached.
THEOREM CollectsExactlyAlways == Spec => CollectsExactly
BY SparesReachableAlways, NothingUnreachableStaysAlways DEF CollectsExactly
================================================================================
