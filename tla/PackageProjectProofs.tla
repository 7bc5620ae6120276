------------------------ MODULE PackageProjectProofs ------------------------
(***************************************************************************)
(* Theorems about PackageProject for every set of packages and trees, every *)
(* dependency relation between them and any number of edits, changes of the *)
(* installed trees and stops.                                               *)
(***************************************************************************)
EXTENDS PackageProject, TLAPS

-----------------------------------------------------------------------------
(* The inductive invariant.                                                 *)

(* Which command is where, and what it is about to replace or delete.       *)
Phases ==
  /\ cmd = [op |-> cmd.op, package |-> cmd.package, graph |-> cmd.graph, deps |-> cmd.deps]
  /\ pc \in {"drop", "move", "cache"} => moving.package \in Packages /\ moving.tree \in Trees
  /\ pc \in {"install", "drop", "move", "cache"} => cmd.op \notin {"init", "lock"}
  /\ pc = "delete" => cmd.op = "remove" /\ cmd.package \in Packages
  /\ pc \in {"manifest", "writeManifest"} => cmd.op \in {"init", "add", "remove"}
  /\ pc \in {"verify", "writeLock"} => cmd.op \in {"add", "sync", "lock", "remove"}
  /\ pc = "idle" => outcome # "running"
  /\ outcome = "done" => pc = "idle"

(* What a loop has left is part of what it was given; a tree is replaced    *)
(* only where its source lies elsewhere, and in a restore by the locked one. *)
Installing == pc \in {"install", "drop", "move", "cache"}

Targets ==
  /\ Installing /\ Restoring =>
       /\ todo \subseteq DOMAIN lock.entries
       /\ pc # "install" => /\ moving.package \in DOMAIN lock.entries
                            /\ moving.tree = Locked(moving.package)
  /\ Installing /\ ~Restoring =>
       /\ todo \subseteq DOMAIN cmd.graph
       /\ pc # "install" => moving.package \in DOMAIN cmd.graph
       /\ pc \in {"drop", "move"} => cmd.graph[moving.package].place = "path"
  /\ pc = "delete" => todo \subseteq DOMAIN cmd.graph
  /\ pc = "verify" => todo \subseteq DOMAIN cmd.graph
  /\ pc \in {"manifest", "writeManifest"} /\ cmd.op # "init" => todo = DOMAIN cmd.graph
  /\ pc = "writeLock" => todo = {}

(* A restore has put back what it no longer has to visit.                   *)
Restored ==
  /\ Installing /\ Restoring =>
       \A p \in DOMAIN lock.entries :
         \/ p \in todo
         \/ pc \in {"drop", "move"} /\ p = moving.package
         \/ installed[p] = Locked(p)
  /\ pc = "done" /\ Restoring => BuildPasses

(* What was verified is installed, cached, of the resolved version and, if  *)
(* nobody edited, still what its source has.                                *)
Verified ==
  pc \in {"verify", "writeLock"} =>
    \A p \in DOMAIN cmd.graph \ todo :
      /\ installed[p] \in Trees
      /\ VersionOf[installed[p]] = cmd.graph[p].version
      /\ cache[installed[p]] # "absent"
      /\ ~raced => installed[p] = Content(cmd.graph[p].place, p)

(* The graph a command resolved answers what the manifest asks, and is      *)
(* closed as long as nobody edits a source.                                 *)
Planned == pc # "idle" /\ cmd.op \in {"add", "sync", "lock"} =>
  /\ \A p \in DOMAIN cmd.deps :
       p \in DOMAIN cmd.graph /\ cmd.deps[p].range \in {AnyVersion, cmd.graph[p].version}
  /\ ~raced => \A p \in DOMAIN cmd.graph :
       LET tree == Content(cmd.graph[p].place, p)
       IN  tree \in Trees /\ NeedsOf[tree] \subseteq DOMAIN cmd.graph
  /\ cmd.op # "add" \/ pc \in {"verify", "writeLock", "done"} => manifest.deps = cmd.deps

(* What success promises holds from the last write on.                      *)
Succeeded ==
  pc = "done" \/ outcome = "done" =>
    /\ cmd.op \in {"add", "sync", "lock", "restore", "offline"} =>
         /\ BuildPasses
         /\ ~Restoring =>
              \A p \in DOMAIN manifest.deps :
                /\ p \in DOMAIN lock.entries
                /\ manifest.deps[p].range \in {AnyVersion, VersionOf[Locked(p)]}
    /\ cmd.op \in {"add", "sync", "lock"} /\ ~raced => LockClosed

(* Every file that was left truncated cost a stop of its own.               *)
TornManifest == manifest.state = "torn" /\ pc # "writeManifest"
TornLock == lock.state = "torn" /\ pc # "writeLock"
StopsPaid ==
  /\ TornManifest \/ TornLock => spent.stops >= 1
  /\ TornManifest /\ TornLock => spent.stops >= 2

IInv ==
  /\ TypeOK /\ Phases /\ Targets /\ Restored /\ Verified /\ Planned /\ Succeeded
  /\ OfflineRestorable /\ StopsPaid

-----------------------------------------------------------------------------
(* The operators.                                                           *)

LEMMA NothingMaps ==
  ASSUME NEW range
  PROVE  MapsSome(Nothing, range) /\ DOMAIN Nothing = {}
BY DEF MapsSome, Nothing

LEMMA MapsGive ==
  ASSUME NEW range, NEW f, MapsSome(f, range)
  PROVE  DOMAIN f \subseteq Packages /\ \A p \in DOMAIN f : f[p] \in range
BY DEF MapsSome

LEMMA VersionTyped ==
  ASSUME NEW tree \in Trees
  PROVE  VersionOf[tree] \in Versions
BY DEF Versions

LEMMA NeedsTyped ==
  ASSUME NEW tree
  PROVE  Needs(tree) \subseteq Packages
BY ProjectAssumption DEF Needs

(* What a place visits holds its roots, and the children of what it holds.  *)
LEMMA VisitedClosed ==
  ASSUME NEW place, NEW roots \in SUBSET Packages
  PROVE  /\ Visited(roots, place) \subseteq Packages
         /\ roots \subseteq Visited(roots, place)
         /\ \A p \in Visited(roots, place) :
              Needs(Content(place, p)) \subseteq Visited(roots, place)
<1>1. Visited(roots, place) \subseteq Packages /\ roots \subseteq Visited(roots, place)
  BY DEF Visited
<1>2. ASSUME NEW p \in Visited(roots, place), NEW q \in Needs(Content(place, p))
      PROVE  q \in Visited(roots, place)
  <2>1. q \in Packages
    BY NeedsTyped
  <2>2. ASSUME NEW visited \in SUBSET Packages, roots \subseteq visited, Closed(visited, place)
        PROVE  q \in visited
    <3>1. p \in visited
      BY <2>2 DEF Visited
    <3> QED
      BY <2>2, <3>1 DEF Closed
  <2> QED
    BY <2>1, <2>2 DEF Visited
<1> QED
  BY <1>1, <1>2

LEMMA ReachedClosed ==
  ASSUME NEW deps, MapsSome(deps, Dependency)
  PROVE  /\ Reached(deps) \subseteq Packages \X Places
         /\ \A p \in DOMAIN deps : <<p, deps[p].place>> \in Reached(deps)
         /\ \A p, place : <<p, place>> \in Reached(deps) =>
              \A q \in Needs(Content(place, p)) : <<q, place>> \in Reached(deps)
<1> DEFINE used == {deps[p].place : p \in DOMAIN deps}
<1>1. DOMAIN deps \subseteq Packages /\ \A p \in DOMAIN deps : deps[p].place \in Places
  <2>1. DOMAIN deps \subseteq Packages /\ \A p \in DOMAIN deps : deps[p] \in Dependency
    BY MapsGive
  <2> QED
    BY <2>1 DEF Dependency
<1>2. \A place : Roots(deps, place) \in SUBSET Packages
  BY <1>1 DEF Roots
<1>3. \A p, place : <<p, place>> \in Reached(deps) <=>
                      place \in used /\ p \in Visited(Roots(deps, place), place)
  BY DEF Reached
<1>4. Reached(deps) \subseteq Packages \X Places
  <2>1. \A pair \in Reached(deps) : \E place \in used :
          pair \in Visited(Roots(deps, place), place) \X {place}
    BY DEF Reached
  <2>2. \A place \in used : Visited(Roots(deps, place), place) \subseteq Packages
    BY <1>2, VisitedClosed
  <2> QED
    BY <1>1, <2>1, <2>2
<1>5. ASSUME NEW p \in DOMAIN deps
      PROVE  <<p, deps[p].place>> \in Reached(deps)
  <2>1. p \in Roots(deps, deps[p].place)
    BY DEF Roots
  <2>2. p \in Visited(Roots(deps, deps[p].place), deps[p].place)
    BY <2>1, <1>2, VisitedClosed
  <2> QED
    BY <2>2, <1>3
<1>6. ASSUME NEW p, NEW place, <<p, place>> \in Reached(deps),
             NEW q \in Needs(Content(place, p))
      PROVE  <<q, place>> \in Reached(deps)
  <2>1. place \in used /\ p \in Visited(Roots(deps, place), place)
    BY <1>6, <1>3
  <2>2. q \in Visited(Roots(deps, place), place)
    BY <2>1, <1>2, <1>6, VisitedClosed
  <2> QED
    BY <2>1, <2>2, <1>3
<1> QED
  BY <1>4, <1>5, <1>6

(* The graph a sound set of packages makes.                                 *)
LEMMA GraphAnswers ==
  ASSUME TypeOK, NEW deps, MapsSome(deps, Dependency), Sound(deps, Reached(deps))
  PROVE  LET graph == GraphOf(Reached(deps))
         IN  /\ MapsSome(graph, Resolution)
             /\ DOMAIN graph = {pair[1] : pair \in Reached(deps)}
             /\ \A p \in DOMAIN deps :
                  p \in DOMAIN graph /\ deps[p].range \in {AnyVersion, graph[p].version}
             /\ \A p \in DOMAIN graph :
                  LET tree == Content(graph[p].place, p)
                  IN  tree \in Trees /\ NeedsOf[tree] \subseteq DOMAIN graph
<1> DEFINE reached == Reached(deps)
           graph == GraphOf(reached)
           names == {pair[1] : pair \in reached}
<1>1. reached \subseteq Packages \X Places
  BY ReachedClosed
<1>2. \A p \in Packages, place \in Places : Content(place, p) \in Trees \union {None}
  BY DEF TypeOK, Content, Places
<1>3. \A p, place : <<p, place>> \in reached => p \in Packages /\ place \in Places
                                               /\ Content(place, p) \in Trees
  <2> SUFFICES ASSUME NEW p, NEW place, <<p, place>> \in reached
               PROVE  p \in Packages /\ place \in Places /\ Content(place, p) \in Trees
    OBVIOUS
  <2>1. p \in Packages /\ place \in Places
    BY <1>1
  <2>2. Content(place, p) # None
    <3>1. \A pair \in reached : Content(pair[2], pair[1]) # None
      BY DEF Sound
    <3> QED
      BY <3>1
  <2> QED
    BY <2>1, <2>2, <1>2
<1>4. \A p, one, other : <<p, one>> \in reached /\ <<p, other>> \in reached => one = other
  <2>1. \A one, other \in reached : one[1] = other[1] => one = other
    BY DEF Sound
  <2> QED
    BY <2>1
<1>5. DOMAIN graph = names /\ names \subseteq Packages
  BY <1>1 DEF GraphOf
<1>6. ASSUME NEW p \in names
      PROVE  /\ <<p, graph[p].place>> \in reached
             /\ graph[p].version = VersionOf[Content(graph[p].place, p)]
             /\ graph[p] \in Resolution
  <2> DEFINE found == CHOOSE place \in Places : <<p, place>> \in reached
  <2>1. \E place \in Places : <<p, place>> \in reached
    BY <1>1
  <2>2. found \in Places /\ <<p, found>> \in reached
    BY <2>1
  <2>3. graph[p] = [place |-> found, version |-> VersionOf[Content(found, p)]]
    BY DEF GraphOf
  <2>4. VersionOf[Content(found, p)] \in Versions
    BY <2>2, <1>3, VersionTyped
  <2> HIDE DEF found
  <2> QED
    BY <2>2, <2>3, <2>4 DEF Resolution
<1>7. MapsSome(graph, Resolution)
  <2>1. graph = [p \in DOMAIN graph |-> graph[p]]
    BY DEF GraphOf
  <2> HIDE DEF graph
  <2> QED
    BY <2>1, <1>5, <1>6 DEF MapsSome
<1>8. ASSUME NEW p \in DOMAIN deps
      PROVE  p \in DOMAIN graph /\ deps[p].range \in {AnyVersion, graph[p].version}
  <2>1. <<p, deps[p].place>> \in reached
    BY ReachedClosed
  <2>2. p \in names
    BY <2>1
  <2>3. graph[p].place = deps[p].place
    BY <2>1, <2>2, <1>4, <1>6
  <2>4. deps[p].range \in {AnyVersion, VersionOf[Content(deps[p].place, p)]}
    BY DEF Sound
  <2> QED
    BY <2>2, <2>3, <2>4, <1>5, <1>6
<1>9. ASSUME NEW p \in DOMAIN graph
      PROVE  /\ Content(graph[p].place, p) \in Trees
             /\ NeedsOf[Content(graph[p].place, p)] \subseteq DOMAIN graph
  <2>1. <<p, graph[p].place>> \in reached /\ Content(graph[p].place, p) \in Trees
    BY <1>3, <1>5, <1>6
  <2>2. \A q \in Needs(Content(graph[p].place, p)) : <<q, graph[p].place>> \in reached
    BY <2>1, ReachedClosed
  <2>3. Needs(Content(graph[p].place, p)) = NeedsOf[Content(graph[p].place, p)]
    BY <2>1 DEF Needs
  <2>4. ASSUME NEW q \in NeedsOf[Content(graph[p].place, p)]
        PROVE  q \in names
    <3>1. <<q, graph[p].place>> \in reached
      BY <2>2, <2>3
    <3> QED
      BY <3>1
  <2> QED
    BY <2>1, <2>4, <1>5
<1> HIDE DEF graph, reached
<1> QED
  BY <1>5, <1>7, <1>8, <1>9 DEF graph, reached

(* What the files hold, read off their types.                               *)
LEMMA FilesTyped ==
  ASSUME TypeOK
  PROVE  /\ DOMAIN lock.entries \subseteq Packages /\ DOMAIN manifest.deps \subseteq Packages
         /\ DOMAIN cmd.graph \subseteq Packages /\ DOMAIN cmd.deps \subseteq Packages
         /\ \A p \in DOMAIN lock.entries : Locked(p) \in Trees
         /\ \A p \in DOMAIN cmd.graph :
              cmd.graph[p].place \in Places /\ cmd.graph[p].version \in Versions
<1>1. \A p \in DOMAIN lock.entries : lock.entries[p] \in Entry
  BY MapsGive DEF TypeOK
<1>2. \A p \in DOMAIN cmd.graph : cmd.graph[p] \in Resolution
  BY MapsGive DEF TypeOK
<1>3. /\ DOMAIN lock.entries \subseteq Packages /\ DOMAIN manifest.deps \subseteq Packages
      /\ DOMAIN cmd.graph \subseteq Packages /\ DOMAIN cmd.deps \subseteq Packages
  BY MapsGive DEF TypeOK
<1> QED
  BY <1>1, <1>2, <1>3 DEF Entry, Resolution, Locked

(* What a command leaves when it is over.                                   *)
LEMMA SettledTyped ==
  ASSUME TypeOK, Phases, Settled
  PROVE  /\ pc' = "idle" /\ todo' \in SUBSET Packages
         /\ moving' \in [package : Packages \union {None}, tree : Trees \union {None}, cached : BOOLEAN]
         /\ cmd' = [op |-> cmd.op, package |-> cmd.package, graph |-> Nothing, deps |-> Nothing]
         /\ MapsSome(cmd'.deps, Dependency) /\ MapsSome(cmd'.graph, Resolution)
<1>1. cmd' = [op |-> cmd.op, package |-> cmd.package, graph |-> Nothing, deps |-> Nothing]
  BY DEF Settled, Phases
<1>2. MapsSome(cmd'.deps, Dependency) /\ MapsSome(cmd'.graph, Resolution)
  BY <1>1, NothingMaps
<1> QED
  BY <1>1, <1>2 DEF Settled, Still

(* What the commands may ask for.                                           *)
LEMMA ScannedMaps == MapsSome(Scanned, Dependency)
BY DEF MapsSome, Scanned, Dependency, Places

LEMMA DeclaredMaps ==
  ASSUME TypeOK
  PROVE  MapsSome(Declared, Dependency)
BY ScannedMaps DEF Declared, TypeOK

LEMMA AddedMaps ==
  ASSUME TypeOK, NEW p \in Packages, source[p] # None
  PROVE  MapsSome([q \in DOMAIN Declared \union {p} |->
                     IF q = p THEN [range |-> VersionOf[source[p]], place |-> "path"]
                              ELSE Declared[q]], Dependency)
<1> DEFINE added == [range |-> VersionOf[source[p]], place |-> "path"]
<1>1. added \in Dependency
  <2>1. VersionOf[source[p]] \in Versions
    BY VersionTyped DEF TypeOK
  <2> QED
    BY <2>1 DEF Dependency, Places
<1>2. DOMAIN Declared \subseteq Packages /\ \A q \in DOMAIN Declared : Declared[q] \in Dependency
  BY DeclaredMaps, MapsGive
<1> HIDE DEF added
<1>3. \A q \in DOMAIN Declared \union {p} :
        (IF q = p THEN added ELSE Declared[q]) \in Dependency
  BY <1>1, <1>2
<1>4. MapsSome([q \in DOMAIN Declared \union {p} |-> IF q = p THEN added ELSE Declared[q]], Dependency)
  BY <1>2, <1>3 DEF MapsSome
<1> QED
  BY <1>4 DEF added

LEMMA RemainingMaps ==
  ASSUME TypeOK, NEW p
  PROVE  MapsSome([q \in DOMAIN manifest.deps \ {p} |-> manifest.deps[q]], Dependency)
<1>1. MapsSome(manifest.deps, Dependency)
  BY DEF TypeOK
<1> QED
  BY <1>1 DEF MapsSome

-----------------------------------------------------------------------------
(* Every step preserves the invariant.                                      *)

LEMMA DropKeeps ==
  ASSUME IInv, Drop
  PROVE  IInv'
<1>1. TypeOK'
  BY DEF IInv, TypeOK, Phases, Drop, history
<1>2. Phases'
  BY DEF IInv, TypeOK, Phases, Restoring, Drop, history
<1>3. Targets'
  BY DEF IInv, TypeOK, Phases, Targets, Installing, Restoring, Locked, Drop, history
<1>4. Restored'
  BY DEF IInv, TypeOK, Phases, Targets, Restored, Installing, Restoring, Locked, BuildPasses, Drop, history
<1>5. Verified'
  BY DEF IInv, TypeOK, Phases, Verified, Content, Drop, history
<1>6. Planned'
  BY DEF IInv, TypeOK, Phases, Planned, Content, Drop, history, Targets, Installing, Restoring
<1>7. Succeeded'
  BY DEF IInv, TypeOK, Phases, Succeeded, BuildPasses, Restoring, Locked, LockClosed, Drop, history
<1>8. OfflineRestorable'
  BY DEF IInv, TypeOK, Phases, OfflineRestorable, Locked, Drop, history
<1>9. StopsPaid'
  BY DEF IInv, TypeOK, Phases, StopsPaid, TornManifest, TornLock, Drop, history
<1> QED
  BY <1>1, <1>2, <1>3, <1>4, <1>5, <1>6, <1>7, <1>8, <1>9 DEF IInv

LEMMA MoveKeeps ==
  ASSUME IInv, Move
  PROVE  IInv'
<1>1. TypeOK'
  <2>1. installed' \in [Packages -> Trees \union {None}]
    BY DEF IInv, TypeOK, Phases, Move
  <2>2. pc' \in {"install", "cache"} /\ moving' \in {moving, Still}
    BY DEF Move
  <2>3. moving' \in [package : Packages \union {None}, tree : Trees \union {None}, cached : BOOLEAN]
    <3>1. CASE moving' = moving
      BY <3>1 DEF IInv, TypeOK
    <3>2. CASE moving' = Still
      BY <3>2 DEF Still
    <3> QED
      BY <2>2, <3>1, <3>2
  <2> QED
    BY <2>1, <2>2, <2>3 DEF IInv, TypeOK, Move, history
<1>2. Phases'
  BY DEF IInv, TypeOK, Phases, Restoring, Move, history
<1>3. Targets'
  BY DEF IInv, TypeOK, Phases, Targets, Installing, Restoring, Locked, Move, history
<1>4. Restored'
  BY DEF IInv, TypeOK, Phases, Targets, Restored, Installing, Restoring, Locked, BuildPasses, Move, history
<1>5. Verified'
  BY DEF IInv, TypeOK, Phases, Verified, Content, Move, history
<1>6. Planned'
  BY DEF IInv, TypeOK, Phases, Planned, Content, Move, history, Targets, Installing, Restoring
<1>7. Succeeded'
  BY DEF IInv, TypeOK, Phases, Succeeded, BuildPasses, Restoring, Locked, LockClosed, Move, history
<1>8. OfflineRestorable'
  BY DEF IInv, TypeOK, Phases, OfflineRestorable, Locked, Move, history
<1>9. StopsPaid'
  BY DEF IInv, TypeOK, Phases, StopsPaid, TornManifest, TornLock, Move, history
<1> QED
  BY <1>1, <1>2, <1>3, <1>4, <1>5, <1>6, <1>7, <1>8, <1>9 DEF IInv

LEMMA CacheInstalledKeeps ==
  ASSUME IInv, CacheInstalled
  PROVE  IInv'
<1>1. TypeOK'
  BY DEF IInv, TypeOK, Phases, CacheInstalled, Cached, Still, history
<1>2. Phases'
  BY DEF IInv, TypeOK, Phases, Restoring, CacheInstalled, Cached, Still, history
<1>3. Targets'
  BY DEF IInv, TypeOK, Phases, Targets, Installing, Restoring, Locked, CacheInstalled, Cached, Still, history
<1>4. Restored'
  BY DEF IInv, TypeOK, Phases, Targets, Restored, Installing, Restoring, Locked, BuildPasses, CacheInstalled, Cached, Still, history
<1>5. Verified'
  BY DEF IInv, TypeOK, Phases, Verified, Content, CacheInstalled, Cached, Still, history
<1>6. Planned'
  BY DEF IInv, TypeOK, Phases, Planned, Content, CacheInstalled, Cached, Still, history
<1>7. Succeeded'
  BY DEF IInv, TypeOK, Phases, Succeeded, BuildPasses, Restoring, Locked, LockClosed, CacheInstalled, Cached, Still, history
<1>8. OfflineRestorable'
  BY DEF IInv, TypeOK, Phases, OfflineRestorable, Locked, CacheInstalled, Cached, Still, history
<1>9. StopsPaid'
  BY DEF IInv, TypeOK, Phases, StopsPaid, TornManifest, TornLock, CacheInstalled, Cached, Still, history
<1> QED
  BY <1>1, <1>2, <1>3, <1>4, <1>5, <1>6, <1>7, <1>8, <1>9 DEF IInv

LEMMA InstallDoneKeeps ==
  ASSUME IInv, InstallDone
  PROVE  IInv'
<1>1. TypeOK'
  <2>1. pc' \in {"done", "verify", "manifest"}
    BY DEF InstallDone, Onward
  <2>2. todo' \in SUBSET Packages
    BY FilesTyped DEF IInv, InstallDone
  <2> QED
    BY <2>1, <2>2 DEF IInv, TypeOK, InstallDone, disk, history
<1>2. Phases'
  <2>1. \/ (pc' = "done" /\ Restoring)
        \/ (pc' = "verify" /\ cmd.op = "sync")
        \/ (pc' = "manifest" /\ ~Restoring /\ cmd.op # "sync")
    BY DEF InstallDone, Onward
  <2>2. cmd.op \in {"add", "sync", "remove", "restore", "offline"}
    BY DEF IInv, TypeOK, Phases, Ops, InstallDone
  <2> QED
    BY <2>1, <2>2 DEF IInv, Phases, Restoring, InstallDone
<1>3. Targets'
  BY DEF IInv, TypeOK, Phases, Targets, Installing, Restoring, Locked, InstallDone, disk, history, Onward
<1>4. Restored'
  BY DEF IInv, TypeOK, Phases, Targets, Restored, Installing, Restoring, Locked, BuildPasses, InstallDone, disk, history, Onward
<1>5. Verified'
  BY DEF IInv, TypeOK, Phases, Verified, Content, InstallDone, disk, history, Onward
<1>6. Planned'
  BY DEF IInv, TypeOK, Phases, Planned, Content, InstallDone, disk, history, Onward, Restoring
<1>7. Succeeded'
  <2>1. CASE Restoring
    <3>1. BuildPasses'
      BY <2>1 DEF IInv, Restored, Installing, InstallDone, BuildPasses, Locked, disk
    <3>2. cmd'.op \in {"restore", "offline"} /\ Restoring'
      BY <2>1 DEF InstallDone, Restoring
    <3> QED
      BY <3>1, <3>2 DEF Succeeded
  <2>2. CASE ~Restoring
    BY <2>2 DEF IInv, Phases, Succeeded, InstallDone, Onward
  <2> QED
    BY <2>1, <2>2
<1>8. OfflineRestorable'
  BY DEF IInv, TypeOK, Phases, OfflineRestorable, Locked, InstallDone, disk, history
<1>9. StopsPaid'
  BY DEF IInv, TypeOK, Phases, StopsPaid, TornManifest, TornLock, InstallDone, disk, history
<1> QED
  BY <1>1, <1>2, <1>3, <1>4, <1>5, <1>6, <1>7, <1>8, <1>9 DEF IInv

LEMMA InstallFromSourceKeeps ==
  ASSUME IInv, NEW p \in Packages, InstallFromSource(p)
  PROVE  IInv'
<1>1. TypeOK'
  BY DEF IInv, TypeOK, Phases, InstallFromSource, Stage, disk, history
<1>2. Phases'
  BY DEF IInv, TypeOK, Phases, Restoring, InstallFromSource, Stage, disk, history
<1>3. Targets'
  BY DEF IInv, TypeOK, Phases, Targets, Installing, Restoring, Locked, InstallFromSource, Stage, disk, history
<1>4. Restored'
  BY DEF IInv, TypeOK, Phases, Targets, Restored, Installing, Restoring, Locked, BuildPasses, InstallFromSource, Stage, disk, history
<1>5. Verified'
  BY DEF IInv, TypeOK, Phases, Verified, Content, InstallFromSource, Stage, disk, history
<1>6. Planned'
  BY DEF IInv, TypeOK, Phases, Planned, Content, InstallFromSource, Stage, disk, history
<1>7. Succeeded'
  BY DEF IInv, TypeOK, Phases, Succeeded, BuildPasses, Restoring, Locked, LockClosed, InstallFromSource, Stage, disk, history
<1>8. OfflineRestorable'
  BY DEF IInv, TypeOK, Phases, OfflineRestorable, Locked, InstallFromSource, Stage, disk, history
<1>9. StopsPaid'
  BY DEF IInv, TypeOK, Phases, StopsPaid, TornManifest, TornLock, InstallFromSource, Stage, disk, history
<1> QED
  BY <1>1, <1>2, <1>3, <1>4, <1>5, <1>6, <1>7, <1>8, <1>9 DEF IInv

LEMMA KeepInPlaceKeeps ==
  ASSUME IInv, NEW p \in Packages, KeepInPlace(p)
  PROVE  IInv'
<1>1. TypeOK'
  BY DEF IInv, TypeOK, Phases, KeepInPlace, disk, history
<1>2. Phases'
  BY DEF IInv, TypeOK, Phases, Restoring, KeepInPlace, disk, history
<1>3. Targets'
  BY DEF IInv, TypeOK, Phases, Targets, Installing, Restoring, Locked, KeepInPlace, disk, history
<1>4. Restored'
  BY DEF IInv, TypeOK, Phases, Targets, Restored, Installing, Restoring, Locked, BuildPasses, KeepInPlace, disk, history
<1>5. Verified'
  BY DEF IInv, TypeOK, Phases, Verified, Content, KeepInPlace, disk, history
<1>6. Planned'
  BY DEF IInv, TypeOK, Phases, Planned, Content, KeepInPlace, disk, history
<1>7. Succeeded'
  BY DEF IInv, TypeOK, Phases, Succeeded, BuildPasses, Restoring, Locked, LockClosed, KeepInPlace, disk, history
<1>8. OfflineRestorable'
  BY DEF IInv, TypeOK, Phases, OfflineRestorable, Locked, KeepInPlace, disk, history
<1>9. StopsPaid'
  BY DEF IInv, TypeOK, Phases, StopsPaid, TornManifest, TornLock, KeepInPlace, disk, history
<1> QED
  BY <1>1, <1>2, <1>3, <1>4, <1>5, <1>6, <1>7, <1>8, <1>9 DEF IInv

LEMMA RestoreKeepsKeeps ==
  ASSUME IInv, NEW p \in Packages, RestoreKeeps(p)
  PROVE  IInv'
<1>1. TypeOK'
  BY DEF IInv, TypeOK, Phases, RestoreKeeps, Cached, Matches, history
<1>2. Phases'
  BY DEF IInv, TypeOK, Phases, Restoring, RestoreKeeps, Cached, Matches, history
<1>3. Targets'
  BY DEF IInv, TypeOK, Phases, Targets, Installing, Restoring, Locked, RestoreKeeps, Cached, Matches, history
<1>4. Restored'
  BY DEF IInv, TypeOK, Phases, Targets, Restored, Installing, Restoring, Locked, BuildPasses, RestoreKeeps, Cached, Matches, history
<1>5. Verified'
  BY DEF IInv, TypeOK, Phases, Verified, Content, RestoreKeeps, Cached, Matches, history
<1>6. Planned'
  BY DEF IInv, TypeOK, Phases, Planned, Content, RestoreKeeps, Cached, Matches, history
<1>7. Succeeded'
  BY DEF IInv, TypeOK, Phases, Succeeded, BuildPasses, Restoring, Locked, LockClosed, RestoreKeeps, Cached, Matches, history
<1>8. OfflineRestorable'
  BY DEF IInv, TypeOK, Phases, OfflineRestorable, Locked, RestoreKeeps, Cached, Matches, history
<1>9. StopsPaid'
  BY DEF IInv, TypeOK, Phases, StopsPaid, TornManifest, TornLock, RestoreKeeps, Cached, Matches, history
<1> QED
  BY <1>1, <1>2, <1>3, <1>4, <1>5, <1>6, <1>7, <1>8, <1>9 DEF IInv

LEMMA RestoreFromCacheKeeps ==
  ASSUME IInv, NEW p \in Packages, RestoreFromCache(p)
  PROVE  IInv'
<1>0. p \in DOMAIN lock.entries /\ Locked(p) \in Trees
  BY FilesTyped DEF IInv, Targets, Installing, RestoreFromCache
<1>1. TypeOK'
  BY <1>0 DEF IInv, TypeOK, Phases, RestoreFromCache, Stage, disk, history
<1>2. Phases'
  BY <1>0 DEF IInv, TypeOK, Phases, Restoring, RestoreFromCache, Stage, disk, history
<1>3. Targets'
  BY DEF IInv, TypeOK, Phases, Targets, Installing, Restoring, Locked, RestoreFromCache, Stage, disk, history
<1>4. Restored'
  BY DEF IInv, TypeOK, Phases, Targets, Restored, Installing, Restoring, Locked, BuildPasses, RestoreFromCache, Stage, disk, history
<1>5. Verified'
  BY DEF IInv, TypeOK, Phases, Verified, Content, RestoreFromCache, Stage, disk, history
<1>6. Planned'
  BY DEF IInv, TypeOK, Phases, Planned, Content, RestoreFromCache, Stage, disk, history
<1>7. Succeeded'
  BY DEF IInv, TypeOK, Phases, Succeeded, BuildPasses, Restoring, Locked, LockClosed, RestoreFromCache, Stage, disk, history
<1>8. OfflineRestorable'
  BY DEF IInv, TypeOK, Phases, OfflineRestorable, Locked, RestoreFromCache, Stage, disk, history
<1>9. StopsPaid'
  BY DEF IInv, TypeOK, Phases, StopsPaid, TornManifest, TornLock, RestoreFromCache, Stage, disk, history
<1> QED
  BY <1>1, <1>2, <1>3, <1>4, <1>5, <1>6, <1>7, <1>8, <1>9 DEF IInv

LEMMA RestoreFromSourceKeeps ==
  ASSUME IInv, NEW p \in Packages, RestoreFromSource(p)
  PROVE  IInv'
<1>0. p \in DOMAIN lock.entries /\ Locked(p) \in Trees
  BY FilesTyped DEF IInv, Targets, Installing, Restoring, RestoreFromSource
<1>1. TypeOK'
  BY <1>0 DEF IInv, TypeOK, Phases, RestoreFromSource, LockedBytes, Stage, disk, history
<1>2. Phases'
  BY <1>0 DEF IInv, TypeOK, Phases, Restoring, RestoreFromSource, LockedBytes, Stage, disk, history
<1>3. Targets'
  BY DEF IInv, TypeOK, Phases, Targets, Installing, Restoring, Locked, RestoreFromSource, LockedBytes, Stage, disk, history
<1>4. Restored'
  BY DEF IInv, TypeOK, Phases, Targets, Restored, Installing, Restoring, Locked, BuildPasses, RestoreFromSource, LockedBytes, Stage, disk, history
<1>5. Verified'
  BY DEF IInv, TypeOK, Phases, Verified, Content, RestoreFromSource, LockedBytes, Stage, disk, history
<1>6. Planned'
  BY DEF IInv, TypeOK, Phases, Planned, Content, RestoreFromSource, LockedBytes, Stage, disk, history
<1>7. Succeeded'
  BY DEF IInv, TypeOK, Phases, Succeeded, BuildPasses, Restoring, Locked, LockClosed, RestoreFromSource, LockedBytes, Stage, disk, history
<1>8. OfflineRestorable'
  BY DEF IInv, TypeOK, Phases, OfflineRestorable, Locked, RestoreFromSource, LockedBytes, Stage, disk, history
<1>9. StopsPaid'
  BY DEF IInv, TypeOK, Phases, StopsPaid, TornManifest, TornLock, RestoreFromSource, LockedBytes, Stage, disk, history
<1> QED
  BY <1>1, <1>2, <1>3, <1>4, <1>5, <1>6, <1>7, <1>8, <1>9 DEF IInv

LEMMA DeleteKeeps ==
  ASSUME IInv, Delete
  PROVE  IInv'
<1>1. TypeOK'
  BY DEF IInv, TypeOK, Phases, Delete, Readable, history
<1>2. Phases'
  BY DEF IInv, TypeOK, Phases, Restoring, Delete, Readable, history
<1>3. Targets'
  BY DEF IInv, TypeOK, Phases, Targets, Installing, Restoring, Locked, Delete, Readable, history
<1>4. Restored'
  BY DEF IInv, TypeOK, Phases, Targets, Restored, Installing, Restoring, Locked, BuildPasses, Delete, Readable, history
<1>5. Verified'
  BY DEF IInv, TypeOK, Phases, Verified, Content, Delete, Readable, history
<1>6. Planned'
  BY DEF IInv, TypeOK, Phases, Planned, Content, Delete, Readable, history
<1>7. Succeeded'
  BY DEF IInv, TypeOK, Phases, Succeeded, BuildPasses, Restoring, Locked, LockClosed, Delete, Readable, history
<1>8. OfflineRestorable'
  BY DEF IInv, TypeOK, Phases, OfflineRestorable, Locked, Delete, Readable, history
<1>9. StopsPaid'
  BY DEF IInv, TypeOK, Phases, StopsPaid, TornManifest, TornLock, Delete, Readable, history
<1> QED
  BY <1>1, <1>2, <1>3, <1>4, <1>5, <1>6, <1>7, <1>8, <1>9 DEF IInv

LEMMA TruncateManifestKeeps ==
  ASSUME IInv, TruncateManifest
  PROVE  IInv'
<1>1. TypeOK'
  <2>1. MapsSome(manifest'.deps, Dependency)
    BY NothingMaps DEF TruncateManifest
  <2> QED
    BY <2>1 DEF IInv, TypeOK, States, TruncateManifest, history
<1>2. Phases'
  BY DEF IInv, TypeOK, Phases, Restoring, TruncateManifest, history
<1>3. Targets'
  BY DEF IInv, TypeOK, Phases, Targets, Installing, Restoring, Locked, TruncateManifest, history
<1>4. Restored'
  BY DEF IInv, TypeOK, Phases, Targets, Restored, Installing, Restoring, Locked, BuildPasses, TruncateManifest, history
<1>5. Verified'
  BY DEF IInv, TypeOK, Phases, Verified, Content, TruncateManifest, history
<1>6. Planned'
  BY DEF IInv, TypeOK, Phases, Planned, Content, TruncateManifest, history
<1>7. Succeeded'
  BY DEF IInv, TypeOK, Phases, Succeeded, BuildPasses, Restoring, Locked, LockClosed, TruncateManifest, history
<1>8. OfflineRestorable'
  BY DEF IInv, TypeOK, Phases, OfflineRestorable, Locked, TruncateManifest, history
<1>9. StopsPaid'
  BY DEF IInv, TypeOK, Phases, StopsPaid, TornManifest, TornLock, TruncateManifest, history
<1> QED
  BY <1>1, <1>2, <1>3, <1>4, <1>5, <1>6, <1>7, <1>8, <1>9 DEF IInv

LEMMA WriteManifestKeeps ==
  ASSUME IInv, WriteManifest
  PROVE  IInv'
<1>1. TypeOK'
  <2>1. MapsSome(manifest'.deps, Dependency)
    BY DEF IInv, TypeOK, WriteManifest
  <2>2. pc' \in {"done", "verify"}
    BY DEF WriteManifest
  <2> QED
    BY <2>1, <2>2 DEF IInv, TypeOK, States, WriteManifest, history
<1>2. Phases'
  BY DEF IInv, TypeOK, Phases, Restoring, WriteManifest, history
<1>3. Targets'
  BY DEF IInv, TypeOK, Phases, Targets, Installing, Restoring, Locked, WriteManifest, history
<1>4. Restored'
  BY DEF IInv, TypeOK, Phases, Targets, Restored, Installing, Restoring, Locked, BuildPasses, WriteManifest, history
<1>5. Verified'
  BY DEF IInv, TypeOK, Phases, Verified, Content, WriteManifest, history, Targets
<1>6. Planned'
  BY DEF IInv, TypeOK, Phases, Planned, Content, WriteManifest, history
<1>7. Succeeded'
  BY DEF IInv, TypeOK, Phases, Succeeded, BuildPasses, Restoring, Locked, LockClosed, WriteManifest, history
<1>8. OfflineRestorable'
  BY DEF IInv, TypeOK, Phases, OfflineRestorable, Locked, WriteManifest, history
<1>9. StopsPaid'
  BY DEF IInv, TypeOK, Phases, StopsPaid, TornManifest, TornLock, WriteManifest, history
<1> QED
  BY <1>1, <1>2, <1>3, <1>4, <1>5, <1>6, <1>7, <1>8, <1>9 DEF IInv

LEMMA VerifyEntryKeeps ==
  ASSUME IInv, NEW p \in Packages, VerifyEntry(p)
  PROVE  IInv'
<1>1. TypeOK'
  BY DEF IInv, TypeOK, Phases, VerifyEntry, LocksTo, Cached, history
<1>2. Phases'
  BY DEF IInv, TypeOK, Phases, Restoring, VerifyEntry, LocksTo, Cached, history
<1>3. Targets'
  BY DEF IInv, TypeOK, Phases, Targets, Installing, Restoring, Locked, VerifyEntry, LocksTo, Cached, history
<1>4. Restored'
  BY DEF IInv, TypeOK, Phases, Targets, Restored, Installing, Restoring, Locked, BuildPasses, VerifyEntry, LocksTo, Cached, history
<1>5. Verified'
  BY DEF IInv, TypeOK, Phases, Verified, Content, VerifyEntry, LocksTo, Cached, history
<1>6. Planned'
  BY DEF IInv, TypeOK, Phases, Planned, Content, VerifyEntry, LocksTo, Cached, history
<1>7. Succeeded'
  BY DEF IInv, TypeOK, Phases, Succeeded, BuildPasses, Restoring, Locked, LockClosed, VerifyEntry, LocksTo, Cached, history
<1>8. OfflineRestorable'
  BY DEF IInv, TypeOK, Phases, OfflineRestorable, Locked, VerifyEntry, LocksTo, Cached, history
<1>9. StopsPaid'
  BY DEF IInv, TypeOK, Phases, StopsPaid, TornManifest, TornLock, VerifyEntry, LocksTo, Cached, history
<1> QED
  BY <1>1, <1>2, <1>3, <1>4, <1>5, <1>6, <1>7, <1>8, <1>9 DEF IInv

LEMMA TruncateLockKeeps ==
  ASSUME IInv, TruncateLock
  PROVE  IInv'
<1>1. TypeOK'
  <2>1. MapsSome(lock'.entries, Entry)
    BY NothingMaps DEF TruncateLock
  <2> QED
    BY <2>1 DEF IInv, TypeOK, States, TruncateLock, history
<1>2. Phases'
  BY DEF IInv, TypeOK, Phases, Restoring, TruncateLock, history
<1>3. Targets'
  BY DEF IInv, TypeOK, Phases, Targets, Installing, Restoring, Locked, TruncateLock, history
<1>4. Restored'
  BY DEF IInv, TypeOK, Phases, Targets, Restored, Installing, Restoring, Locked, BuildPasses, TruncateLock, history
<1>5. Verified'
  BY DEF IInv, TypeOK, Phases, Verified, Content, TruncateLock, history
<1>6. Planned'
  BY DEF IInv, TypeOK, Phases, Planned, Content, TruncateLock, history
<1>7. Succeeded'
  BY DEF IInv, TypeOK, Phases, Succeeded, BuildPasses, Restoring, Locked, LockClosed, TruncateLock, history
<1>8. OfflineRestorable'
  <2>1. DOMAIN lock'.entries = {}
    BY NothingMaps DEF TruncateLock
  <2> QED
    BY <2>1 DEF OfflineRestorable
<1>9. StopsPaid'
  BY DEF IInv, TypeOK, Phases, StopsPaid, TornManifest, TornLock, TruncateLock, history
<1> QED
  BY <1>1, <1>2, <1>3, <1>4, <1>5, <1>6, <1>7, <1>8, <1>9 DEF IInv

LEMMA FinishKeeps ==
  ASSUME IInv, Finish
  PROVE  IInv'
<1>1. TypeOK'
  <2>1. outcome' \in {"none", "running", "done", "source", "cache", "stopped"}
    BY DEF Finish, End
  <2> QED
    BY <2>1, SettledTyped DEF IInv, TypeOK, Finish, End, disk, history
<1>2. Phases'
  BY DEF IInv, TypeOK, Phases, Restoring, Finish, End, Settled, disk, history
<1>3. Targets'
  BY DEF IInv, TypeOK, Phases, Targets, Installing, Restoring, Locked, Finish, End, Settled, disk, history
<1>4. Restored'
  BY DEF IInv, TypeOK, Phases, Targets, Restored, Installing, Restoring, Locked, BuildPasses, Finish, End, Settled, disk, history
<1>5. Verified'
  BY DEF IInv, TypeOK, Phases, Verified, Content, Finish, End, Settled, disk, history
<1>6. Planned'
  BY DEF IInv, TypeOK, Phases, Planned, Content, Finish, End, Settled, disk, history
<1>7. Succeeded'
  BY DEF IInv, TypeOK, Phases, Succeeded, BuildPasses, Restoring, Locked, LockClosed, Finish, End, Settled, disk, history
<1>8. OfflineRestorable'
  BY DEF IInv, TypeOK, Phases, OfflineRestorable, Locked, Finish, End, Settled, disk, history
<1>9. StopsPaid'
  BY DEF IInv, TypeOK, Phases, StopsPaid, TornManifest, TornLock, Finish, End, Settled, disk, history
<1> QED
  BY <1>1, <1>2, <1>3, <1>4, <1>5, <1>6, <1>7, <1>8, <1>9 DEF IInv

LEMMA FailKeeps ==
  ASSUME IInv, Fail
  PROVE  IInv'
<1>1. TypeOK'
  <2>1. outcome' \in {"none", "running", "done", "source", "cache", "stopped"}
    BY DEF Fail, End
  <2> QED
    BY <2>1, SettledTyped DEF IInv, TypeOK, Fail, End, disk, history
<1>2. Phases'
  BY DEF IInv, TypeOK, Phases, Restoring, Fail, End, Settled, disk, history
<1>3. Targets'
  BY DEF IInv, TypeOK, Phases, Targets, Installing, Restoring, Locked, Fail, End, Settled, disk, history
<1>4. Restored'
  BY DEF IInv, TypeOK, Phases, Targets, Restored, Installing, Restoring, Locked, BuildPasses, Fail, End, Settled, disk, history
<1>5. Verified'
  BY DEF IInv, TypeOK, Phases, Verified, Content, Fail, End, Settled, disk, history
<1>6. Planned'
  BY DEF IInv, TypeOK, Phases, Planned, Content, Fail, End, Settled, disk, history
<1>7. Succeeded'
  BY DEF IInv, TypeOK, Phases, Succeeded, BuildPasses, Restoring, Locked, LockClosed, Fail, End, Settled, disk, history
<1>8. OfflineRestorable'
  BY DEF IInv, TypeOK, Phases, OfflineRestorable, Locked, Fail, End, Settled, disk, history
<1>9. StopsPaid'
  <2>1. pc \notin {"writeManifest", "writeLock"}
    BY DEF Fail, SourceError, CacheError
  <2> QED
    BY <2>1 DEF IInv, StopsPaid, TornManifest, TornLock, Fail, End, Settled, disk, history
<1> QED
  BY <1>1, <1>2, <1>3, <1>4, <1>5, <1>6, <1>7, <1>8, <1>9 DEF IInv

LEMMA StopKeeps ==
  ASSUME IInv, Stop
  PROVE  IInv'
<1>1. TypeOK'
  <2>1. installed' \in [Packages -> Trees \union {None}]
    <3>1. CASE installed' = installed
      BY <3>1 DEF IInv, TypeOK
    <3>2. CASE \E p : installed[p] # None /\ installed' = [installed EXCEPT ![p] = Torn[p]]
      BY <3>2, ProjectAssumption DEF IInv, TypeOK
    <3> QED
      BY <3>1, <3>2 DEF Stop
  <2>2. spent' \in [edits : Nat, tampers : Nat, stops : Nat]
    BY DEF IInv, TypeOK, Stop
  <2> QED
    BY <2>1, <2>2, SettledTyped DEF IInv, TypeOK, Stop
<1>2. Phases'
  <2>1. outcome' = "stopped"
    BY DEF Stop
  <2> QED
    BY <2>1, SettledTyped DEF IInv, Phases, Stop
<1>3. Targets'
  BY DEF IInv, TypeOK, Phases, Targets, Installing, Restoring, Locked, Stop, Settled
<1>4. Restored'
  BY DEF IInv, TypeOK, Phases, Targets, Restored, Installing, Restoring, Locked, BuildPasses, Stop, Settled
<1>5. Verified'
  BY DEF IInv, TypeOK, Phases, Verified, Content, Stop, Settled
<1>6. Planned'
  BY DEF IInv, TypeOK, Phases, Planned, Content, Stop, Settled
<1>7. Succeeded'
  BY DEF IInv, TypeOK, Phases, Succeeded, BuildPasses, Restoring, Locked, LockClosed, Stop, Settled
<1>8. OfflineRestorable'
  BY DEF IInv, TypeOK, Phases, OfflineRestorable, Locked, Stop, Settled
<1>9. StopsPaid'
  BY DEF IInv, TypeOK, Phases, StopsPaid, TornManifest, TornLock, Stop, Settled
<1> QED
  BY <1>1, <1>2, <1>3, <1>4, <1>5, <1>6, <1>7, <1>8, <1>9 DEF IInv

LEMMA EditSourceKeeps ==
  ASSUME IInv, NEW p \in Packages, EditSource(p)
  PROVE  IInv'
<1>1. TypeOK'
  <2>1. source' \in [Packages -> Trees \union {None}]
    <3>1. PICK tree \in TreesOf[p] \union {None} : source' = [source EXCEPT ![p] = tree]
      BY DEF EditSource
    <3>2. tree \in Trees \union {None}
      BY ProjectAssumption
    <3> QED
      BY <3>1, <3>2 DEF IInv, TypeOK
  <2>2. spent' \in [edits : Nat, tampers : Nat, stops : Nat]
    BY DEF IInv, TypeOK, EditSource
  <2>3. raced' \in BOOLEAN
    BY DEF EditSource
  <2> QED
    BY <2>1, <2>2, <2>3 DEF IInv, TypeOK, EditSource, disk
<1>2. Phases'
  BY DEF IInv, TypeOK, Phases, Restoring, EditSource, disk
<1>3. Targets'
  BY DEF IInv, TypeOK, Phases, Targets, Installing, Restoring, Locked, EditSource, disk
<1>4. Restored'
  BY DEF IInv, TypeOK, Phases, Targets, Restored, Installing, Restoring, Locked, BuildPasses, EditSource, disk
<1>5. Verified'
  BY DEF IInv, TypeOK, Phases, Verified, Content, EditSource, disk
<1>6. Planned'
  BY DEF IInv, TypeOK, Phases, Planned, Content, EditSource, disk
<1>7. Succeeded'
  BY DEF IInv, TypeOK, Phases, Succeeded, BuildPasses, Restoring, Locked, LockClosed, EditSource, disk
<1>8. OfflineRestorable'
  BY DEF IInv, TypeOK, Phases, OfflineRestorable, Locked, EditSource, disk
<1>9. StopsPaid'
  BY DEF IInv, TypeOK, Phases, StopsPaid, TornManifest, TornLock, EditSource, disk
<1> QED
  BY <1>1, <1>2, <1>3, <1>4, <1>5, <1>6, <1>7, <1>8, <1>9 DEF IInv

LEMMA TamperKeeps ==
  ASSUME IInv, Tamper
  PROVE  IInv'
<1>1. TypeOK'
  <2>1. installed' \in [Packages -> Trees \union {None}]
    BY ProjectAssumption DEF IInv, TypeOK, Tamper
  <2>2. cache' \in [Trees -> {"absent", "intact", "damaged"}]
    BY DEF IInv, TypeOK, Tamper
  <2>3. spent' \in [edits : Nat, tampers : Nat, stops : Nat]
    BY DEF IInv, TypeOK, Tamper
  <2>4. cloned' \in BOOLEAN
    BY DEF IInv, TypeOK, Tamper
  <2> QED
    BY <2>1, <2>2, <2>3, <2>4 DEF IInv, TypeOK, Tamper
<1>2. Phases'
  BY DEF IInv, TypeOK, Phases, Restoring, Tamper
<1>3. Targets'
  BY DEF IInv, TypeOK, Phases, Targets, Installing, Restoring, Locked, Tamper
<1>4. Restored'
  BY DEF IInv, TypeOK, Phases, Targets, Restored, Installing, Restoring, Locked, BuildPasses, Tamper
<1>5. Verified'
  BY DEF IInv, TypeOK, Phases, Verified, Content, Tamper
<1>6. Planned'
  BY DEF IInv, TypeOK, Phases, Planned, Content, Tamper
<1>7. Succeeded'
  BY DEF IInv, TypeOK, Phases, Succeeded, BuildPasses, Restoring, Locked, LockClosed, Tamper
<1>8. OfflineRestorable'
  <2>1. \A tree \in Trees : cloned' \/ (cache[tree] # "absent" => cache'[tree] # "absent")
    BY DEF IInv, TypeOK, Tamper
  <2>2. lock' = lock /\ (cloned => cloned')
    BY DEF Tamper
  <2> QED
    BY <2>1, <2>2, FilesTyped DEF IInv, OfflineRestorable, Locked
<1>9. StopsPaid'
  BY DEF IInv, TypeOK, Phases, StopsPaid, TornManifest, TornLock, Tamper
<1> QED
  BY <1>1, <1>2, <1>3, <1>4, <1>5, <1>6, <1>7, <1>8, <1>9 DEF IInv

LEMMA WriteLockKeeps ==
  ASSUME IInv, WriteLock
  PROVE  IInv'
<1> DEFINE graph == cmd.graph
           entries == [p \in DOMAIN graph |-> [tree |-> installed[p], place |-> graph[p].place]]
<1>a. /\ pc = "writeLock" /\ pc' = "done" /\ todo = {}
      /\ lock' = [state |-> "whole", entries |-> entries]
      /\ cmd.op \in {"add", "sync", "lock", "remove"}
  BY DEF IInv, Phases, Targets, WriteLock
<1>b. \A p \in DOMAIN graph :
        /\ installed[p] \in Trees /\ VersionOf[installed[p]] = graph[p].version
        /\ cache[installed[p]] # "absent"
        /\ ~raced => installed[p] = Content(graph[p].place, p)
  BY <1>a DEF IInv, Verified
<1>c. /\ DOMAIN lock'.entries = DOMAIN graph
      /\ \A p \in DOMAIN graph :
           lock'.entries[p] = [tree |-> installed[p], place |-> graph[p].place]
  BY <1>a
<1>d. ASSUME NEW p \in DOMAIN graph
      PROVE  lock'.entries[p].tree = installed[p]
  <2>1. lock'.entries[p] = [tree |-> installed[p], place |-> graph[p].place]
    BY <1>c
  <2> QED
    BY <2>1
<1>e. /\ UNCHANGED <<source, installed, cache, manifest, cmd, todo, moving, outcome, raced, spent>>
      /\ cloned' = FALSE
  BY DEF WriteLock
<1>1. TypeOK'
  <2>1. \A p \in DOMAIN graph : entries[p] \in Entry
    BY <1>b, FilesTyped DEF IInv, Entry
  <2>2. MapsSome(entries, Entry)
    BY <2>1, FilesTyped DEF IInv, MapsSome
  <2>3. MapsSome(lock'.entries, Entry)
    BY <1>a, <2>2
  <2> HIDE DEF entries
  <2> QED
    BY <1>a, <1>e, <2>3 DEF IInv, TypeOK, States
<1>2. Phases'
  BY DEF IInv, TypeOK, Phases, Restoring, WriteLock
<1>3. Targets'
  BY DEF IInv, TypeOK, Phases, Targets, Installing, Restoring, Locked, WriteLock
<1>4. Restored'
  BY DEF IInv, TypeOK, Phases, Targets, Restored, Installing, Restoring, Locked, BuildPasses, WriteLock
<1>5. Verified'
  BY DEF IInv, TypeOK, Phases, Verified, Content, WriteLock
<1>6. Planned'
  BY DEF IInv, TypeOK, Phases, Planned, Content, WriteLock
<1>7. Succeeded'
  <2>1. BuildPasses'
    BY <1>c, <1>d, <1>e DEF BuildPasses, Locked
  <2>2. ASSUME cmd.op \in {"add", "sync", "lock"}, NEW p \in DOMAIN manifest.deps
        PROVE  /\ p \in DOMAIN graph
               /\ manifest.deps[p].range \in {AnyVersion, VersionOf[installed[p]]}
    <3>1. manifest.deps = cmd.deps
      BY <1>a, <2>2 DEF IInv, Planned
    <3>2. p \in DOMAIN graph /\ cmd.deps[p].range \in {AnyVersion, graph[p].version}
      BY <1>a, <2>2, <3>1 DEF IInv, Planned
    <3> QED
      BY <3>1, <3>2, <1>b
  <2>3. ASSUME cmd.op \in {"add", "sync", "lock"}, ~raced, NEW p \in DOMAIN graph
        PROVE  NeedsOf[installed[p]] \subseteq DOMAIN graph
    BY <1>a, <1>b, <2>3 DEF IInv, Planned
  <2>4. cmd.op \in {"add", "sync", "lock"} /\ ~raced => LockClosed'
    BY <2>3, <1>c, <1>d DEF LockClosed, Locked
  <2>5. ~Restoring'
    BY <1>a, <1>e DEF Restoring
  <2>6. cmd.op \in {"add", "sync", "lock"} =>
          \A p \in DOMAIN manifest'.deps :
             /\ p \in DOMAIN lock'.entries
             /\ manifest'.deps[p].range \in {AnyVersion, VersionOf[lock'.entries[p].tree]}
    BY <2>2, <1>c, <1>d, <1>e
  <2> QED
    BY <2>1, <2>4, <2>5, <2>6, <1>a, <1>e DEF Succeeded, Locked
<1>8. OfflineRestorable'
  BY <1>b, <1>c, <1>d, <1>e DEF OfflineRestorable, Locked
<1>9. StopsPaid'
  BY DEF IInv, TypeOK, Phases, StopsPaid, TornManifest, TornLock, WriteLock
<1> QED
  BY <1>1, <1>2, <1>3, <1>4, <1>5, <1>6, <1>7, <1>8, <1>9 DEF IInv

LEMMA BeginRestoreKeeps ==
  ASSUME IInv, NEW op \in Ops, BeginRestore(op)
  PROVE  IInv'
<1>1. TypeOK'
  <2>1. /\ cmd' = [op |-> op, package |-> None, deps |-> Nothing, graph |-> Nothing]
        /\ todo' = DOMAIN lock.entries
    BY DEF BeginRestore
  <2>2. MapsSome(cmd'.deps, Dependency) /\ MapsSome(cmd'.graph, Resolution)
    BY <2>1, NothingMaps
  <2>3. cmd'.op \in Ops /\ cmd'.package \in Packages \union {None}
    BY <2>1
  <2>4. todo' \in SUBSET Packages
    BY <2>1, FilesTyped DEF IInv
  <2>5. /\ pc' = "install" /\ outcome' = "running" /\ raced' = FALSE
        /\ UNCHANGED <<source, installed, cache, manifest, lock, moving, cloned, spent>>
    BY DEF BeginRestore, disk
  <2> QED
    BY <2>2, <2>3, <2>4, <2>5 DEF IInv, TypeOK
<1>2. Phases'
  BY DEF IInv, TypeOK, Phases, Restoring, BeginRestore, disk
<1>3. Targets'
  BY DEF IInv, TypeOK, Phases, Targets, Installing, Restoring, Locked, BeginRestore, disk
<1>4. Restored'
  BY DEF IInv, TypeOK, Phases, Targets, Restored, Installing, Restoring, Locked, BuildPasses, BeginRestore, disk
<1>5. Verified'
  BY DEF IInv, TypeOK, Phases, Verified, Content, BeginRestore, disk
<1>6. Planned'
  BY DEF IInv, TypeOK, Phases, Planned, Content, BeginRestore, disk
<1>7. Succeeded'
  BY DEF IInv, TypeOK, Phases, Succeeded, BuildPasses, Restoring, Locked, LockClosed, BeginRestore, disk
<1>8. OfflineRestorable'
  BY DEF IInv, TypeOK, Phases, OfflineRestorable, Locked, BeginRestore, disk
<1>9. StopsPaid'
  BY DEF IInv, TypeOK, Phases, StopsPaid, TornManifest, TornLock, BeginRestore, disk
<1> QED
  BY <1>1, <1>2, <1>3, <1>4, <1>5, <1>6, <1>7, <1>8, <1>9 DEF IInv

LEMMA BeginInitKeeps ==
  ASSUME IInv, BeginInit
  PROVE  IInv'
<1>1. TypeOK'
  <2>1. /\ cmd' = [op |-> "init", package |-> None, deps |-> Scanned, graph |-> Nothing]
        /\ todo' = {}
    BY DEF BeginInit
  <2>2. MapsSome(cmd'.deps, Dependency) /\ MapsSome(cmd'.graph, Resolution)
    BY <2>1, NothingMaps, ScannedMaps
  <2>3. cmd'.op \in Ops /\ cmd'.package \in Packages \union {None}
    BY <2>1 DEF Ops
  <2>4. /\ pc' = "manifest" /\ outcome' = "running" /\ raced' = FALSE
        /\ UNCHANGED <<source, installed, cache, manifest, lock, moving, cloned, spent>>
    BY DEF BeginInit, disk
  <2> QED
    BY <2>1, <2>2, <2>3, <2>4 DEF IInv, TypeOK
<1>2. Phases'
  BY DEF IInv, TypeOK, Phases, Restoring, BeginInit, disk
<1>3. Targets'
  BY DEF IInv, TypeOK, Phases, Targets, Installing, Restoring, Locked, BeginInit, disk
<1>4. Restored'
  BY DEF IInv, TypeOK, Phases, Targets, Restored, Installing, Restoring, Locked, BuildPasses, BeginInit, disk
<1>5. Verified'
  BY DEF IInv, TypeOK, Phases, Verified, Content, BeginInit, disk
<1>6. Planned'
  BY DEF IInv, TypeOK, Phases, Planned, Content, BeginInit, disk
<1>7. Succeeded'
  BY DEF IInv, TypeOK, Phases, Succeeded, BuildPasses, Restoring, Locked, LockClosed, BeginInit, disk
<1>8. OfflineRestorable'
  BY DEF IInv, TypeOK, Phases, OfflineRestorable, Locked, BeginInit, disk
<1>9. StopsPaid'
  BY DEF IInv, TypeOK, Phases, StopsPaid, TornManifest, TornLock, BeginInit, disk
<1> QED
  BY <1>1, <1>2, <1>3, <1>4, <1>5, <1>6, <1>7, <1>8, <1>9 DEF IInv

(* A command that starts from a graph it resolved.                          *)
LEMMA StartKeeps ==
  ASSUME IInv, NEW op, NEW p \in Packages \union {None}, NEW deps, NEW there,
         <<op, there>> \in {<<"add", "install">>, <<"sync", "install">>,
                            <<"lock", "verify">>, <<"remove", "delete">>},
         op = "remove" => p \in Packages,
         op \in {"sync", "lock"} => deps = manifest.deps,
         MapsSome(deps, Dependency),
         Start(op, p, deps, there),
         UNCHANGED <<source, disk, moving, cloned, spent>>
  PROVE  IInv'
<1> DEFINE graph == GraphOf(Reached(deps))
<1>1. /\ pc = "idle" /\ pc' = there
      /\ Sound(deps, Reached(deps))
      /\ cmd' = [op |-> op, package |-> p, deps |-> deps, graph |-> graph]
      /\ todo' = {pair[1] : pair \in Reached(deps)}
      /\ outcome' = "running" /\ raced' = FALSE
  BY DEF Start
<1>2. /\ MapsSome(graph, Resolution)
      /\ DOMAIN graph = todo'
      /\ \A q \in DOMAIN deps :
           q \in DOMAIN graph /\ deps[q].range \in {AnyVersion, graph[q].version}
      /\ \A q \in DOMAIN graph :
           LET tree == Content(graph[q].place, q)
           IN  tree \in Trees /\ NeedsOf[tree] \subseteq DOMAIN graph
  BY <1>1, GraphAnswers DEF IInv
<1> HIDE DEF graph
<1>3. /\ op \in {"add", "sync", "lock", "remove"}
      /\ there \in {"install", "verify", "delete"}
      /\ there = "install" => op \in {"add", "sync"}
      /\ there = "verify" => op = "lock"
      /\ there = "delete" => op = "remove"
  OBVIOUS
<1>4. TypeOK'
  <2>1. DOMAIN graph \subseteq Packages
    BY <1>2, MapsGive
  <2> QED
    BY <1>1, <1>2, <1>3, <2>1 DEF IInv, TypeOK, Ops, disk
<1>5. Phases'
  BY <1>1, <1>3 DEF IInv, Phases
<1>6. Targets'
  BY <1>1, <1>2, <1>3 DEF Targets, Installing, Restoring
<1>7. Restored'
  BY <1>1, <1>3 DEF Restored, Restoring
<1>8. Verified'
  BY <1>1, <1>2, <1>3 DEF Verified
<1>9. Planned'
  BY <1>1, <1>2, <1>3 DEF Planned, Content, disk
<1>10. Succeeded'
  BY <1>1, <1>3 DEF Succeeded
<1>11. OfflineRestorable' /\ StopsPaid'
  BY <1>1, <1>3 DEF IInv, OfflineRestorable, Locked, StopsPaid, TornManifest, TornLock, disk
<1> QED
  BY <1>4, <1>5, <1>6, <1>7, <1>8, <1>9, <1>10, <1>11 DEF IInv

LEMMA BeginKeeps ==
  ASSUME IInv, Begin
  PROVE  IInv'
<1>1. ASSUME NEW p \in Packages, BeginAdd(p)
      PROVE  IInv'
  <2> DEFINE deps == [q \in DOMAIN Declared \union {p} |->
                        IF q = p THEN [range |-> VersionOf[source[p]], place |-> "path"]
                                 ELSE Declared[q]]
  <2>1. /\ source[p] # None /\ Start("add", None, deps, "install")
        /\ UNCHANGED <<source, disk, moving, cloned, spent>>
    BY <1>1 DEF BeginAdd
  <2>2. MapsSome(deps, Dependency)
    BY <2>1, AddedMaps DEF IInv
  <2> HIDE DEF deps
  <2> QED
    BY <2>1, <2>2, StartKeeps
<1>2. ASSUME NEW p \in Packages, BeginRemove(p)
      PROVE  IInv'
  <2> DEFINE deps == [q \in DOMAIN manifest.deps \ {p} |-> manifest.deps[q]]
  <2>1. /\ Start("remove", p, deps, "delete")
        /\ UNCHANGED <<source, disk, moving, cloned, spent>>
    BY <1>2 DEF BeginRemove
  <2>2. MapsSome(deps, Dependency)
    BY RemainingMaps DEF IInv
  <2> HIDE DEF deps
  <2> QED
    BY <2>1, <2>2, StartKeeps
<1>3. ASSUME BeginSync \/ BeginLock
      PROVE  IInv'
  <2>1. MapsSome(manifest.deps, Dependency)
    BY DEF IInv, TypeOK
  <2>2. /\ \/ Start("sync", None, manifest.deps, "install")
           \/ Start("lock", None, manifest.deps, "verify")
        /\ UNCHANGED <<source, disk, moving, cloned, spent>>
    BY <1>3 DEF BeginSync, BeginLock
  <2> QED
    BY <2>1, <2>2, StartKeeps
<1> QED
  BY <1>1, <1>2, <1>3, BeginRestoreKeeps, BeginInitKeeps DEF Begin

LEMMA InstallKeeps ==
  ASSUME IInv, Install
  PROVE  IInv'
<1>1. todo \subseteq Packages
  BY DEF IInv, TypeOK
<1> QED
  BY <1>1, InstallFromSourceKeeps, KeepInPlaceKeeps, RestoreKeepsKeeps, RestoreFromCacheKeeps,
     RestoreFromSourceKeeps, DropKeeps, MoveKeeps, CacheInstalledKeeps, InstallDoneKeeps
     DEF Install

LEMMA WriteKeeps ==
  ASSUME IInv, Write
  PROVE  IInv'
<1>1. todo \subseteq Packages
  BY DEF IInv, TypeOK
<1> QED
  BY <1>1, TruncateManifestKeeps, WriteManifestKeeps, VerifyEntryKeeps, TruncateLockKeeps,
     WriteLockKeeps DEF Write

LEMMA StutterKeeps ==
  ASSUME IInv, UNCHANGED vars
  PROVE  IInv'
BY DEF IInv, vars, disk, history, TypeOK, Phases, Targets, Installing, Restoring, Locked,
       Restored, BuildPasses, Verified, Content, Planned, Succeeded, LockClosed,
       OfflineRestorable, StopsPaid, TornManifest, TornLock

LEMMA InitKeeps ==
  ASSUME Init
  PROVE  IInv
<1>1. MapsSome(Nothing, Dependency) /\ MapsSome(Nothing, Entry) /\ MapsSome(Nothing, Resolution)
  BY NothingMaps
<1>2. TypeOK
  <2>1. moving \in [package : Packages \union {None}, tree : Trees \union {None}, cached : BOOLEAN]
    BY DEF Init, Still
  <2>2. spent \in [edits : Nat, tampers : Nat, stops : Nat]
    BY DEF Init
  <2> QED
    BY <1>1, <2>1, <2>2 DEF Init, TypeOK, States, Ops
<1>3. Phases /\ Targets /\ Restored /\ Verified /\ Planned /\ Succeeded /\ StopsPaid
  BY DEF Init, Phases, Targets, Installing, Restored, Verified, Planned, Succeeded, StopsPaid,
         TornManifest, TornLock
<1>4. OfflineRestorable
  BY NothingMaps DEF Init, OfflineRestorable
<1> QED
  BY <1>2, <1>3, <1>4 DEF IInv

THEOREM Inductive == Spec => []IInv
<1>1. IInv /\ [Next]_vars => IInv'
  BY BeginKeeps, InstallKeeps, DeleteKeeps, WriteKeeps, FinishKeeps, FailKeeps, StopKeeps,
     TamperKeeps, EditSourceKeeps, StutterKeeps DEF Next, User
<1> QED
  BY <1>1, InitKeeps, PTL DEF Spec

-----------------------------------------------------------------------------
(* What follows.                                                            *)

(* The state of a project has its shape.                                    *)
THEOREM TypeOKAlways == Spec => []TypeOK
<1>1. IInv => TypeOK
  BY DEF IInv
<1> QED
  BY <1>1, Inductive, PTL

(* Whatever was killed, thrown or edited, in any project: all a readable    *)
(* vpp.lock names is in the cache unless the user dropped the cache itself, *)
(* and one crash never leaves both vpp.json and vpp.lock cut short.         *)
THEOREM RecoverableAlways == Spec => []Recoverable
<1>1. IInv => Recoverable
  <2> SUFFICES ASSUME IInv
               PROVE  OneStopLeavesAFile
    BY DEF IInv, Recoverable
  <2>1. spent.stops \in Nat
    BY DEF IInv, TypeOK
  <2> QED
    BY <2>1 DEF IInv, StopsPaid, TornManifest, TornLock, OneStopLeavesAFile
<1> QED
  BY <1>1, Inductive, PTL

(* A command that reports success leaves every locked package installed     *)
(* with the locked bytes, every direct dependency locked in its range and,  *)
(* unless a source was edited under it, a lock closed under dependencies.   *)
THEOREM SuccessCompleteAlways == Spec => []SuccessComplete
<1>1. IInv => SuccessComplete
  BY DEF IInv, Succeeded, SuccessComplete, SuccessBuilds, SuccessClosesLock
<1> QED
  BY <1>1, Inductive, PTL

(* While a restore runs, a tree is removed, left half removed or put back   *)
(* with the locked bytes, and neither file is touched.                      *)
ExactStep ==
  (pc # "idle" /\ Restoring) =>
    /\ \A p \in Packages :
         installed'[p] # installed[p] =>
           installed'[p] \in {None, Torn[p]} \union {Locked(q) : q \in {p} \intersect DOMAIN lock.entries}
    /\ UNCHANGED <<manifest, lock>>

LEMMA StepsExactly ==
  ASSUME IInv, Next
  PROVE  ExactStep
<1> SUFFICES ASSUME pc # "idle", Restoring
             PROVE  /\ \A p \in Packages :
                         installed'[p] # installed[p] =>
                           installed'[p] \in {None, Torn[p]}
                              \union {Locked(q) : q \in {p} \intersect DOMAIN lock.entries}
                    /\ UNCHANGED <<manifest, lock>>
  BY DEF ExactStep
<1>1. /\ installed \in [Packages -> Trees \union {None}]
      /\ cmd.op \in {"restore", "offline"}
      /\ pc \in {"install", "drop", "move", "cache", "done"}
  BY DEF IInv, TypeOK, Phases, Restoring
<1>2. CASE Drop
  BY <1>1, <1>2 DEF Drop
<1>3. CASE Move
  <2>1. /\ moving.package \in DOMAIN lock.entries
        /\ moving.tree = Locked(moving.package)
    BY <1>3 DEF IInv, Targets, Installing, Move
  <2>2. ASSUME NEW p \in Packages, installed'[p] # installed[p]
        PROVE  p = moving.package /\ installed'[p] = moving.tree
    BY <1>1, <1>3, <2>2 DEF Move
  <2>3. UNCHANGED <<manifest, lock>>
    BY <1>3 DEF Move
  <2> QED
    BY <2>1, <2>2, <2>3
<1>4. CASE Stop
  <2>1. UNCHANGED <<manifest, lock>>
    BY <1>4 DEF Stop
  <2>2. ASSUME NEW p \in Packages, installed'[p] # installed[p]
        PROVE  installed'[p] = Torn[p]
    BY <1>1, <1>4, <2>2 DEF Stop
  <2> QED
    BY <2>1, <2>2
<1>5. CASE Install /\ ~Drop /\ ~Move
  BY <1>5 DEF Install, InstallFromSource, KeepInPlace, RestoreKeeps, RestoreFromCache,
              RestoreFromSource, CacheInstalled, InstallDone, Stage, disk
<1>6. CASE Finish \/ Fail
  BY <1>6 DEF Finish, Fail, End, disk
<1>7. ASSUME NEW p \in Packages, EditSource(p)
      PROVE  UNCHANGED <<installed, manifest, lock>>
  BY <1>7 DEF EditSource, disk
<1>8. ~Begin /\ ~Delete /\ ~Write /\ ~Tamper
  <2>1. ~Begin
    BY DEF Begin, BeginAdd, BeginRemove, BeginSync, BeginLock, BeginInit, BeginRestore, Start
  <2>2. ~Delete /\ ~Write /\ ~Tamper
    BY <1>1 DEF Delete, Write, TruncateManifest, WriteManifest, VerifyEntry, TruncateLock,
                WriteLock, Tamper
  <2> QED
    BY <2>1, <2>2
<1> QED
  BY <1>2, <1>3, <1>4, <1>5, <1>6, <1>7, <1>8 DEF Next, User

THEOREM RestoresExactlyHolds == Spec => RestoresExactly
<1>1. IInv /\ [Next]_vars => [ExactStep]_vars
  BY StepsExactly
<1>2. Spec => [][ExactStep]_vars
  BY <1>1, Inductive, PTL DEF Spec
<1> QED
  BY <1>2 DEF RestoresExactly, ExactStep

=============================================================================
