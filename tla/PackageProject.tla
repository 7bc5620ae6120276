--------------------------- MODULE PackageProject ---------------------------
(***************************************************************************)
(* The files of one V++ project that the commands `gói cài đặt`, `đồng bộ`, *)
(* `khóa`, `xóa` and `phục hồi` write, one file system step at a time:      *)
(* vpp.json, vpp.lock, the installed trees gói/<name> and the cache of      *)
(* trees under .vpp/cache.  One command runs at a time; it may throw, be    *)
(* killed or meet an I/O error after any step.  The user edits the path     *)
(* sources at any time, and between commands changes installed trees,       *)
(* damages cache entries or starts from a fresh clone.                      *)
(*                                                                          *)
(* A tree is a value that stands for its bytes and so for its fingerprint.  *)
(* Staging directories are private to a step and left out; publication      *)
(* (PackageRegistry) models them.                                           *)
(***************************************************************************)
EXTENDS Naturals, FiniteSets

CONSTANTS Packages,    \* package names
          Trees,       \* contents of a package directory
          TreesOf,     \* the contents a user may give each package
          VersionOf,   \* the version each tree's vpp.json states
          NeedsOf,     \* the path dependencies each tree's vpp.json declares
          Torn,        \* per package: what a removal cut short leaves
          None,        \* no directory
          AnyVersion,  \* the range "*"
          MaxEdits, MaxTampers, MaxStops

ASSUME ProjectAssumption ==
  /\ TreesOf \in [Packages -> SUBSET Trees]
  /\ Torn \in [Packages -> Trees]
  /\ NeedsOf \in [Trees -> SUBSET Packages]
  /\ DOMAIN VersionOf = Trees
  /\ None \notin Trees
  /\ \A tree \in Trees : VersionOf[tree] # AnyVersion

Versions == {VersionOf[tree] : tree \in Trees}

(* Where a dependency's location leads: outside the project, or to the      *)
(* installed directory itself, which is what createProjectManifest declares *)
(* for the packages it finds under gói/.                                    *)
Places == {"path", "installed"}

(* A function on some of the packages.                                      *)
MapsSome(f, range) ==
  /\ f = [p \in DOMAIN f |-> f[p]]
  /\ DOMAIN f \subseteq Packages
  /\ \A p \in DOMAIN f : f[p] \in range

Dependency == [range : Versions \union {AnyVersion}, place : Places]
Resolution == [place : Places, version : Versions]
Entry == [tree : Trees, place : Places]

Nothing == [p \in {} |-> p]

VARIABLES source,     \* the trees outside the project, per package
          installed,  \* gói/<name>
          cache,      \* .vpp/cache, per tree
          manifest,   \* vpp.json
          lock,       \* vpp.lock
          pc,         \* where the running command is
          cmd,        \* what it was asked, and what it resolved
          todo,       \* packages its present loop still has to visit
          moving,     \* the package being replaced and its candidate tree
          outcome,    \* how the last command ended
          raced,      \* history: a source was edited while it ran
          cloned,     \* history: the cache was dropped after vpp.lock was written
          spent       \* how much of each budget was used

disk == <<installed, cache, manifest, lock>>
history == <<raced, cloned, spent>>
vars == <<source, disk, pc, cmd, todo, moving, outcome, history>>

States == {"absent", "torn", "whole"}

Missing(file) == file.state = "absent"
Readable(file) == file.state = "whole"

Locked(p) == lock.entries[p].tree

(***************************************************************************)
(* resolveProjectPackages: the dependency closure of a manifest.            *)
(***************************************************************************)

Content(place, p) == IF place = "path" THEN source[p] ELSE installed[p]

Needs(tree) == IF tree \in Trees THEN NeedsOf[tree] ELSE {}

(* A relative location leads from where the declaring package lies, so a    *)
(* child is found beside its parent: what the recursion visits in a place   *)
(* is the least set with these roots that holds each one's children.        *)
Closed(visited, place) == \A p \in visited : Needs(Content(place, p)) \subseteq visited

Visited(roots, place) ==
  LET closed == {visited \in SUBSET Packages : roots \subseteq visited /\ Closed(visited, place)}
  IN  {p \in Packages : \A visited \in closed : p \in visited}

Roots(deps, place) == {p \in DOMAIN deps : deps[p].place = place}

Reached(deps) ==
  UNION {Visited(Roots(deps, place), place) \X {place} :
           place \in {deps[p].place : p \in DOMAIN deps}}

(* No source is missing, no package is found in two places, every direct    *)
(* dependency is in its range and no package needs itself in the end: some  *)
(* package of any group is needed by none of the group.                     *)
NeedsIn(group, one) == \E other \in group : one[1] \in Needs(Content(other[2], other[1]))

Sound(deps, reached) ==
  /\ \A pair \in reached : Content(pair[2], pair[1]) # None
  /\ \A one, other \in reached : one[1] = other[1] => one = other
  /\ \A p \in DOMAIN deps :
       deps[p].range \in {AnyVersion, VersionOf[Content(deps[p].place, p)]}
  /\ \A group \in SUBSET reached \ {{}} : \E one \in group : ~NeedsIn(group, one)

GraphOf(reached) ==
  [p \in {pair[1] : pair \in reached} |->
     LET place == CHOOSE place \in Places : <<p, place>> \in reached
     IN  [place |-> place, version |-> VersionOf[Content(place, p)]]]

(***************************************************************************)
(* Initial state and the start of each command.                             *)
(***************************************************************************)

Ops == {"init", "add", "sync", "lock", "remove", "restore", "offline"}

Still == [package |-> None, tree |-> None, cached |-> FALSE]

Init ==
  /\ source \in [Packages -> Trees \union {None}]
  /\ \A p \in Packages : source[p] \in TreesOf[p]
  /\ installed \in [Packages -> Trees \union {None}]
  /\ \A p \in Packages : installed[p] \in {source[p], None}
  /\ cache = [tree \in Trees |-> "absent"]
  /\ manifest = [state |-> "absent", deps |-> Nothing]
  /\ lock = [state |-> "absent", entries |-> Nothing]
  /\ pc = "idle"
  /\ cmd = [op |-> "sync", package |-> None, graph |-> Nothing, deps |-> Nothing]
  /\ todo = {}
  /\ moving = Still
  /\ outcome = "none"
  /\ raced = FALSE /\ cloned = FALSE
  /\ spent = [edits |-> 0, tampers |-> 0, stops |-> 0]

Start(op, p, deps, there) ==
  /\ pc = "idle" /\ pc' = there
  /\ \E reached \in {Reached(deps)} :
       /\ Sound(deps, reached)
       /\ cmd' = [op |-> op, package |-> p, deps |-> deps, graph |-> GraphOf(reached)]
       /\ todo' = {pair[1] : pair \in reached}
  /\ outcome' = "running"
  /\ raced' = FALSE

(* createProjectManifest: every installed package becomes a dependency on   *)
(* its own installed directory.                                             *)
Scanned ==
  [p \in {q \in Packages : installed[q] # None} |->
     [range |-> AnyVersion, place |-> "installed"]]

Declared == IF Missing(manifest) THEN Scanned ELSE manifest.deps

(* pkgAdd of a path source: the version it has now becomes the range.       *)
BeginAdd(p) ==
  /\ source[p] # None
  /\ manifest.state # "torn"
  /\ LET deps == [q \in DOMAIN Declared \union {p} |->
                    IF q = p THEN [range |-> VersionOf[source[p]], place |-> "path"]
                             ELSE Declared[q]]
     IN  Start("add", None, deps, "install")
  /\ UNCHANGED <<source, disk, moving, cloned, spent>>

BeginSync ==
  /\ Readable(manifest)
  /\ Start("sync", None, manifest.deps, "install")
  /\ UNCHANGED <<source, disk, moving, cloned, spent>>

BeginLock ==
  /\ Readable(manifest)
  /\ Start("lock", None, manifest.deps, "verify")
  /\ UNCHANGED <<source, disk, moving, cloned, spent>>

(* pkgRemove resolves what remains before it removes anything; without a    *)
(* vpp.json it only removes the tree.                                       *)
BeginRemove(p) ==
  /\ installed[p] # None
  /\ manifest.state # "torn"
  /\ LET deps == [q \in DOMAIN manifest.deps \ {p} |-> manifest.deps[q]]
     IN  Start("remove", p, deps, "delete")
  /\ UNCHANGED <<source, disk, moving, cloned, spent>>

BeginRestore(op) ==
  /\ pc = "idle"
  /\ op \in {"restore", "offline"}
  /\ Readable(lock)
  /\ pc' = "install"
  /\ cmd' = [op |-> op, package |-> None, deps |-> Nothing, graph |-> Nothing]
  /\ todo' = DOMAIN lock.entries
  /\ outcome' = "running" /\ raced' = FALSE
  /\ UNCHANGED <<source, disk, moving, cloned, spent>>

(* pkgInit overwrites whatever vpp.json there is.                           *)
BeginInit ==
  /\ pc = "idle" /\ pc' = "manifest"
  /\ cmd' = [op |-> "init", package |-> None, deps |-> Scanned, graph |-> Nothing]
  /\ todo' = {}
  /\ outcome' = "running" /\ raced' = FALSE
  /\ UNCHANGED <<source, disk, moving, cloned, spent>>

(***************************************************************************)
(* Endings.                                                                 *)
(***************************************************************************)

Settled ==
  /\ pc' = "idle"
  /\ cmd' = [cmd EXCEPT !.graph = Nothing, !.deps = Nothing]
  /\ todo' = {}
  /\ moving' = Still

End(how) ==
  /\ Settled
  /\ outcome' = how
  /\ UNCHANGED <<source, disk, history>>

(* The next loop, once every package of the present one has been visited.   *)
Restoring == cmd.op \in {"restore", "offline"}

Onward == IF Restoring THEN "done" ELSE IF cmd.op = "sync" THEN "verify" ELSE "manifest"

Finish == pc = "done" /\ End("done")

InstallDone ==
  /\ pc = "install" /\ todo = {}
  /\ pc' = Onward
  /\ todo' = DOMAIN cmd.graph
  /\ UNCHANGED <<source, disk, cmd, moving, outcome, history>>

(***************************************************************************)
(* materializePathPackage into gói/<name>, then cachePackageTree.           *)
(***************************************************************************)

Cached(tree) == cache' = [cache EXCEPT ![tree] = "intact"]

(* The candidate was staged and fingerprinted; the directory it replaces is *)
(* removed next.                                                            *)
Stage(p, tree, cached) ==
  /\ pc' = "drop"
  /\ moving' = [package |-> p, tree |-> tree, cached |-> cached]
  /\ todo' = todo \ {p}
  /\ UNCHANGED <<source, disk, cmd, outcome, history>>

(* Add, sync, remove: from the source that was resolved.                    *)
InstallFromSource(p) ==
  /\ pc = "install" /\ ~Restoring /\ p \in todo
  /\ cmd.graph[p].place = "path"
  /\ source[p] # None
  /\ Stage(p, source[p], FALSE)

(* Source and target are one directory: nothing to copy.                    *)
KeepInPlace(p) ==
  /\ pc = "install" /\ ~Restoring /\ p \in todo
  /\ cmd.graph[p].place = "installed"
  /\ installed[p] # None
  /\ pc' = "cache"
  /\ moving' = [package |-> p, tree |-> installed[p], cached |-> FALSE]
  /\ todo' = todo \ {p}
  /\ UNCHANGED <<source, disk, cmd, outcome, history>>

Drop ==
  /\ pc = "drop" /\ pc' = "move"
  /\ installed' = [installed EXCEPT ![moving.package] = None]
  /\ UNCHANGED <<source, cache, manifest, lock, cmd, todo, moving, outcome, history>>

Move ==
  /\ pc = "move"
  /\ installed' = [installed EXCEPT ![moving.package] = moving.tree]
  /\ IF moving.cached THEN pc' = "install" /\ moving' = Still
                      ELSE pc' = "cache" /\ UNCHANGED moving
  /\ UNCHANGED <<source, cache, manifest, lock, cmd, todo, outcome, history>>

CacheInstalled ==
  /\ pc = "cache" /\ pc' = "install"
  /\ cache[moving.tree] # "damaged"
  /\ Cached(moving.tree)
  /\ moving' = Still
  /\ UNCHANGED <<source, installed, manifest, lock, cmd, todo, outcome, history>>

(***************************************************************************)
(* pkgRestore: an installed tree that matches, else the cache, else, unless *)
(* offline, the source at the locked version and fingerprint.               *)
(***************************************************************************)

(* Mutant: the version is enough.                                           *)
MatchesVersion(p) ==
  installed[p] # None /\ VersionOf[installed[p]] = VersionOf[Locked(p)]

Matches(p) == installed[p] = Locked(p)

RestoreKeeps(p) ==
  /\ pc = "install" /\ Restoring /\ p \in todo
  /\ Matches(p)
  /\ cache[installed[p]] # "damaged"
  /\ Cached(installed[p])
  /\ todo' = todo \ {p}
  /\ UNCHANGED <<source, installed, manifest, lock, pc, cmd, moving, outcome, history>>

RestoreFromCache(p) ==
  /\ pc = "install" /\ Restoring /\ p \in todo
  /\ ~Matches(p)
  /\ cache[Locked(p)] = "intact"
  /\ Stage(p, Locked(p), TRUE)

(* A source that is the installed directory itself is missing or differs.   *)
FromPath(p) == lock.entries[p].place = "path" /\ source[p] # None

(* The locked version has to be there, and the bytes have to be the locked  *)
(* ones.  Mutant: the version is enough.                                    *)
SameLockedVersion(tree, locked) == tree # None /\ VersionOf[tree] = VersionOf[locked]

LockedBytes(tree, locked) == tree = locked

RestoreFromSource(p) ==
  /\ pc = "install" /\ cmd.op = "restore" /\ p \in todo
  /\ ~Matches(p)
  /\ cache[Locked(p)] # "intact"
  /\ FromPath(p)
  /\ LockedBytes(source[p], Locked(p))
  /\ Stage(p, source[p], FALSE)

(***************************************************************************)
(* pkgRemove: the installed tree goes first.                                *)
(***************************************************************************)

Delete ==
  /\ pc = "delete"
  /\ installed' = [installed EXCEPT ![cmd.package] = None]
  /\ pc' = IF Readable(manifest) THEN "install" ELSE "done"
  /\ UNCHANGED <<source, cache, manifest, lock, cmd, todo, moving, outcome, history>>

(***************************************************************************)
(* writeProjectManifest and writePackageLockfile: truncated, then written.  *)
(***************************************************************************)

TruncateManifest ==
  /\ pc = "manifest" /\ pc' = "writeManifest"
  /\ manifest' = [state |-> "torn", deps |-> Nothing]
  /\ UNCHANGED <<source, installed, cache, lock, cmd, todo, moving, outcome, history>>

WriteManifest ==
  /\ pc = "writeManifest"
  /\ pc' = IF cmd.op = "init" THEN "done" ELSE "verify"
  /\ manifest' = [state |-> "whole", deps |-> cmd.deps]
  /\ UNCHANGED <<source, installed, cache, lock, cmd, todo, moving, outcome, history>>

(* One package of writeResolvedPackageLock: the installed tree has the      *)
(* resolved version and the bytes its source has now.                       *)
LocksTo(p) ==
  /\ installed[p] # None
  /\ VersionOf[installed[p]] = cmd.graph[p].version
  /\ Content(cmd.graph[p].place, p) = installed[p]

(* Mutant: the entry is locked but not cached.                              *)
VerifyEntryOnly(p) ==
  /\ pc = "verify" /\ p \in todo
  /\ LocksTo(p)
  /\ todo' = todo \ {p}
  /\ UNCHANGED <<source, disk, pc, cmd, moving, outcome, history>>

VerifyEntry(p) ==
  /\ pc = "verify" /\ p \in todo
  /\ LocksTo(p)
  /\ cache[installed[p]] # "damaged"
  /\ Cached(installed[p])
  /\ todo' = todo \ {p}
  /\ UNCHANGED <<source, installed, manifest, lock, pc, cmd, moving, outcome, history>>

TruncateLock ==
  /\ pc = "verify" /\ todo = {} /\ pc' = "writeLock"
  /\ lock' = [state |-> "torn", entries |-> Nothing]
  /\ UNCHANGED <<source, installed, cache, manifest, cmd, todo, moving, outcome, history>>

(* Mutant: an entry for every package name, installed or not.               *)
WriteWholeLock ==
  /\ pc = "writeLock" /\ pc' = "done"
  /\ lock' = [state |-> "whole", entries |-> [p \in Packages |->
                [tree |-> installed[p], place |-> "path"]]]
  /\ cloned' = FALSE
  /\ UNCHANGED <<source, installed, cache, manifest, cmd, todo, moving, outcome, raced, spent>>

WriteLock ==
  /\ pc = "writeLock" /\ pc' = "done"
  /\ lock' = [state |-> "whole", entries |-> [p \in DOMAIN cmd.graph |->
                [tree |-> installed[p], place |-> cmd.graph[p].place]]]
  /\ cloned' = FALSE
  /\ UNCHANGED <<source, installed, cache, manifest, cmd, todo, moving, outcome, raced, spent>>

(***************************************************************************)
(* Failures: what each step throws when its guard does not hold.            *)
(***************************************************************************)

SourceError ==
  \/ \E p \in todo :
       /\ pc = "install" /\ ~Restoring
       /\ Content(cmd.graph[p].place, p) = None
  \/ \E p \in todo : pc = "verify" /\ ~LocksTo(p)
  \/ \E p \in todo :
       /\ pc = "install" /\ Restoring
       /\ ~Matches(p)
       /\ cache[Locked(p)] # "intact"
       /\ \/ cmd.op = "offline"
          \/ ~FromPath(p)
          \/ ~LockedBytes(source[p], Locked(p))

CacheError ==
  \/ pc = "cache" /\ cache[moving.tree] = "damaged"
  \/ \E p \in todo :
       /\ \/ pc = "verify" /\ LocksTo(p)
          \/ pc = "install" /\ Restoring /\ Matches(p)
       /\ cache[installed[p]] = "damaged"

Fail == (SourceError /\ End("source")) \/ (CacheError /\ End("cache"))

(* Killed, or an I/O error: a removal may be half done, files stay as the   *)
(* last step left them.                                                     *)
Stop ==
  /\ pc # "idle" /\ Settled
  /\ spent.stops < MaxStops
  /\ spent' = [spent EXCEPT !.stops = @ + 1]
  /\ outcome' = "stopped"
  /\ \/ UNCHANGED installed
     \/ LET p == IF pc = "delete" THEN cmd.package ELSE moving.package
        IN  /\ pc \in {"drop", "delete"}
            /\ installed[p] # None
            /\ installed' = [installed EXCEPT ![p] = Torn[p]]
  /\ UNCHANGED <<source, cache, manifest, lock, raced, cloned>>

(***************************************************************************)
(* The user.                                                                *)
(***************************************************************************)

EditSource(p) ==
  /\ spent.edits < MaxEdits
  /\ spent' = [spent EXCEPT !.edits = @ + 1]
  /\ \E tree \in TreesOf[p] \union {None} :
       tree # source[p] /\ source' = [source EXCEPT ![p] = tree]
  /\ raced' = (raced \/ pc # "idle")
  /\ UNCHANGED <<disk, pc, cmd, todo, moving, outcome, cloned>>

Tamper ==
  /\ pc = "idle"
  /\ spent.tampers < MaxTampers
  /\ spent' = [spent EXCEPT !.tampers = @ + 1]
  /\ outcome' = "none"
  /\ \/ \E p \in Packages, tree \in Trees \union {None} :
          /\ tree \in (TreesOf[p] \union {None}) \ {installed[p]}
          /\ installed' = [installed EXCEPT ![p] = tree]
          /\ UNCHANGED <<cache, cloned>>
     \/ \E tree \in Trees :
          /\ cache[tree] = "intact"
          /\ cache' = [cache EXCEPT ![tree] = "damaged"]
          /\ UNCHANGED <<installed, cloned>>
     \/ (* a fresh checkout of vpp.json and vpp.lock *)
        /\ installed' = [p \in Packages |-> None]
        /\ cache' = [tree \in Trees |-> "absent"]
        /\ cloned' = TRUE
  /\ UNCHANGED <<source, manifest, lock, pc, cmd, todo, moving, raced>>

Begin ==
  \/ \E p \in Packages : BeginAdd(p) \/ BeginRemove(p)
  \/ BeginSync \/ BeginLock \/ BeginInit
  \/ \E op \in Ops : BeginRestore(op)

Install ==
  \/ \E p \in todo :
       \/ InstallFromSource(p) \/ KeepInPlace(p)
       \/ RestoreKeeps(p) \/ RestoreFromCache(p) \/ RestoreFromSource(p)
  \/ Drop \/ Move \/ CacheInstalled \/ InstallDone

Write ==
  \/ TruncateManifest \/ WriteManifest
  \/ \E p \in todo : VerifyEntry(p)
  \/ TruncateLock \/ WriteLock

User == Tamper \/ \E p \in Packages : EditSource(p)

Next == Begin \/ Install \/ Delete \/ Write \/ Finish \/ Fail \/ Stop \/ User

Spec == Init /\ [][Next]_vars

-----------------------------------------------------------------------------

(***************************************************************************)
(* The shape of the state.                                                  *)
(***************************************************************************)
TypeOK ==
  /\ source \in [Packages -> Trees \union {None}]
  /\ installed \in [Packages -> Trees \union {None}]
  /\ cache \in [Trees -> {"absent", "intact", "damaged"}]
  /\ manifest = [state |-> manifest.state, deps |-> manifest.deps]
  /\ manifest.state \in States /\ MapsSome(manifest.deps, Dependency)
  /\ lock = [state |-> lock.state, entries |-> lock.entries]
  /\ lock.state \in States /\ MapsSome(lock.entries, Entry)
  /\ pc \in {"idle", "install", "drop", "move", "cache", "delete", "manifest",
             "writeManifest", "verify", "writeLock", "done"}
  /\ cmd.op \in Ops /\ cmd.package \in Packages \union {None}
  /\ MapsSome(cmd.deps, Dependency) /\ MapsSome(cmd.graph, Resolution)
  /\ todo \in SUBSET Packages
  /\ moving \in [package : Packages \union {None}, tree : Trees \union {None}, cached : BOOLEAN]
  /\ outcome \in {"none", "running", "done", "source", "cache", "stopped"}
  /\ raced \in BOOLEAN /\ cloned \in BOOLEAN
  /\ spent \in [edits : Nat, tampers : Nat, stops : Nat]

(***************************************************************************)
(* "Sau install/sync hoặc khi khóa graph, bytes đã cài được snapshot vào    *)
(* cache": whatever was killed or thrown since, every tree a readable       *)
(* vpp.lock names is in the cache, so that an offline restore can rebuild   *)
(* the project, unless the user dropped the cache itself.                   *)
(***************************************************************************)
OfflineRestorable ==
  ~cloned => \A p \in DOMAIN lock.entries : cache[Locked(p)] # "absent"

(***************************************************************************)
(* A command that succeeds leaves a project that builds: each locked        *)
(* package is installed with the locked bytes (verifyLockedProjectForSource *)
(* would not throw), and after all but a restore each direct dependency of  *)
(* vpp.json is locked in its range.                                         *)
(***************************************************************************)
BuildPasses == \A p \in DOMAIN lock.entries : installed[p] = Locked(p)

SuccessBuilds ==
  (outcome = "done" /\ cmd.op \in {"add", "sync", "lock", "restore", "offline"}) =>
     /\ BuildPasses
     /\ ~Restoring =>
          \A p \in DOMAIN manifest.deps :
            /\ p \in DOMAIN lock.entries
            /\ manifest.deps[p].range \in {AnyVersion, VersionOf[Locked(p)]}

(***************************************************************************)
(* The lock is closed: what the locked bytes of a package depend on is      *)
(* locked too.  Without an edit of a source while the command that wrote it *)
(* ran, which leaves needs behind that nobody has resolved.                 *)
(***************************************************************************)
LockClosed ==
  \A p \in DOMAIN lock.entries : NeedsOf[Locked(p)] \subseteq DOMAIN lock.entries

SuccessClosesLock ==
  (outcome = "done" /\ cmd.op \in {"add", "sync", "lock"} /\ ~raced) => LockClosed

(***************************************************************************)
(* Restoring puts the locked bytes in place or nothing: no step of it, with *)
(* sources that moved on, damaged cache entries and crashes, installs other *)
(* bytes, and it writes neither vpp.json nor vpp.lock.                      *)
(***************************************************************************)
RestoresExactly ==
  [][(pc # "idle" /\ Restoring) =>
       /\ \A p \in Packages :
            installed'[p] # installed[p] =>
              installed'[p] \in {None, Torn[p]} \union {Locked(q) : q \in {p} \intersect DOMAIN lock.entries}
       /\ UNCHANGED <<manifest, lock>>]_vars

(***************************************************************************)
(* A project is never lost to one crash: vpp.json and vpp.lock are not both *)
(* unreadable, so that sync or restore can bring the trees back.            *)
(***************************************************************************)
OneStopLeavesAFile ==
  spent.stops <= 1 => ~(pc = "idle" /\ manifest.state = "torn" /\ lock.state = "torn")

(* Whatever a command was stopped in, one file is left to start from and    *)
(* the cache holds what it locks.                                           *)
Recoverable == OfflineRestorable /\ OneStopLeavesAFile

(* A command that reports success left a project that builds, with a lock   *)
(* that is closed.                                                          *)
SuccessComplete == SuccessBuilds /\ SuccessClosesLock
=============================================================================
