--------------------------- MODULE PackageRegistry ---------------------------
(***************************************************************************)
(* Publishing one name@version into a registry directory                   *)
(* (publishPackageToRegistry and the materializePathPackage it calls).     *)
(* Three directories matter, all derived from name and version only, hence *)
(* shared by every process that publishes this version:                    *)
(*   inner    .vpp-stage-.vpp-publish-<name>-<version>, filled by copying  *)
(*   outer    .vpp-publish-<name>-<version>, `inner` renamed when complete *)
(*   target   <name>/<version>, `outer` renamed when the version is free   *)
(* A process may crash between any two steps and leave the directories as  *)
(* they are; a step may meet an I/O error.  A directory is {} when absent  *)
(* and {tree} when present; a tree maps its files to the project revision  *)
(* their bytes come from, and stands for its own fingerprint.              *)
(***************************************************************************)
EXTENDS FiniteSets

CONSTANTS Publishers,    \* processes running `gói phát hành` for this version
          Files,         \* relative paths inside an artifact
          Revisions,     \* states the project is in when a run starts
          FilesOf,       \* the files each revision of the project has
          Torn           \* the bytes of a file whose copy was cut short

ASSUME FilesAssumption ==
  /\ FilesOf \in [Revisions -> SUBSET Files \ {{}}]
  /\ Torn \notin Revisions

Trees == UNION {[present -> Revisions \union {Torn}] : present \in SUBSET Files}

Artifact(revision) == [file \in FilesOf[revision] |-> revision]

Artifacts == {Artifact(revision) : revision \in Revisions}

NoFiles == [file \in {} |-> file]

VARIABLES target, outer, inner,   \* the three directories
          pc,                     \* where each publisher is
          building,               \* the revision its run started from
          remaining,              \* files of the project still to copy
          candidate,              \* candidateFingerprint: {} or {tree}
          error,                  \* what its last run threw, if anything
          reported,               \* history: trees reported as published
          swallowed               \* history: a removal failed and was ignored

dirs == <<target, outer, inner>>
runs == <<building, remaining, candidate>>
vars == <<dirs, pc, runs, error, reported, swallowed>>

Errors == {"none", "io", "immutable", "conflict"}

Init ==
  /\ target = {} /\ outer = {} /\ inner = {}
  /\ pc = [p \in Publishers |-> "idle"]
  /\ building \in [Publishers -> Revisions]
  /\ remaining = [p \in Publishers |-> {}]
  /\ candidate = [p \in Publishers |-> {}]
  /\ error = [p \in Publishers |-> "none"]
  /\ reported = {}
  /\ swallowed = FALSE

Goto(p, here, there) == pc[p] = here /\ pc' = [pc EXCEPT ![p] = there]

Throw(p, what) == error' = [error EXCEPT ![p] = what]

(***************************************************************************)
(* std::filesystem, as the code uses it.                                   *)
(***************************************************************************)

(* What remove_all(dir, ec) may leave: nothing, or, on an error, a rest.   *)
Rests(dir) ==
  {{}} \union
  UNION {{{[file \in kept |-> tree[file]]} : kept \in SUBSET DOMAIN tree} : tree \in dir}

Swallows(rest) == swallowed' = (swallowed \/ rest # {})

(* rename(from, to) of directories: needs the source, and replaces nothing *)
(* but an empty directory.                                                 *)
CanRename(from, to) == from # {} /\ \A tree \in to : DOMAIN tree = {}

(* create_directories(dir) and copy_file(..., overwrite_existing).         *)
Created(dir) == IF dir = {} THEN {NoFiles} ELSE dir

(* Mutant: the relative path is lost, each file lands in a directory of    *)
(* its own.                                                                *)
WithFileApart(dir, file, bytes) == dir \union {[f \in {file} |-> bytes]}

WithFile(dir, file, bytes) ==
  {[f \in DOMAIN tree \union {file} |-> IF f = file THEN bytes ELSE tree[f]] :
     tree \in Created(dir)}

(***************************************************************************)
(* publishPackageToRegistry, up to the materialization.                    *)
(***************************************************************************)

(* The manifest is read and the registry marker and package directory made.*)
Begin(p) ==
  /\ Goto(p, "idle", "clearOuter")
  /\ \E revision \in Revisions : building' = [building EXCEPT ![p] = revision]
  /\ candidate' = [candidate EXCEPT ![p] = {}]
  /\ Throw(p, "none")
  /\ UNCHANGED <<dirs, remaining, reported, swallowed>>

(* remove_all(staging, ec): `ec` is never looked at.                       *)
ClearOuter(p) ==
  /\ Goto(p, "clearOuter", "clearInner")
  /\ outer' \in Rests(outer)
  /\ Swallows(outer')
  /\ UNCHANGED <<target, inner, runs, error, reported>>

(***************************************************************************)
(* materializePathPackage(project, outer).                                 *)
(***************************************************************************)

(* Mutant: the rest of an earlier run is kept and copied over.             *)
ClearInnerNot(p) ==
  /\ Goto(p, "clearInner", "create")
  /\ UNCHANGED <<dirs, runs, error, reported, swallowed>>

ClearInner(p) ==
  /\ Goto(p, "clearInner", "create")
  /\ inner' \in Rests(inner)
  /\ Swallows(inner')
  /\ UNCHANGED <<target, outer, runs, error, reported>>

(* copyDirectoryTree creates the staging directory, then walks the project.*)
CreateInner(p) ==
  /\ Goto(p, "create", "copy")
  /\ inner' = Created(inner)
  /\ remaining' = [remaining EXCEPT ![p] = FilesOf[building[p]]]
  /\ UNCHANGED <<target, outer, building, candidate, error, reported, swallowed>>

CopyFile(p) ==
  /\ pc[p] = "copy"
  /\ \E file \in remaining[p] :
       /\ inner' = WithFile(inner, file, building[p])
       /\ remaining' = [remaining EXCEPT ![p] = @ \ {file}]
  /\ UNCHANGED <<target, outer, pc, building, candidate, error, reported, swallowed>>

(* fingerprintPackageTree(staging) throws when the directory is not there. *)
Fingerprint(p) ==
  /\ remaining[p] = {}
  /\ inner # {}
  /\ Goto(p, "copy", "replace")
  /\ candidate' = [candidate EXCEPT ![p] = inner]
  /\ UNCHANGED <<dirs, building, remaining, error, reported, swallowed>>

(* remove_all(targetPath, ignored) is checked this time: see IoError.      *)
Replaced == {}

Replace(p) ==
  /\ Goto(p, "replace", "move")
  /\ outer' = Replaced
  /\ UNCHANGED <<target, inner, runs, error, reported, swallowed>>

Move(p) ==
  /\ CanRename(inner, outer)
  /\ Goto(p, "move", "decide")
  /\ outer' = inner
  /\ inner' = {}
  /\ UNCHANGED <<target, runs, error, reported, swallowed>>

(***************************************************************************)
(* publishPackageToRegistry, the version directory.                        *)
(***************************************************************************)

(* Mutant: an existing version counts as already published.                *)
SameVersion(p) == target # {}

SameBytes(p) == target = candidate[p]

(* The version exists with the same fingerprint: drop the staging copy.    *)
AlreadyThere(p) ==
  /\ target # {}
  /\ SameBytes(p)
  /\ Goto(p, "decide", "discard")
  /\ UNCHANGED <<dirs, runs, error, reported, swallowed>>

Immutable(p) ==
  /\ target # {}
  /\ ~SameBytes(p)
  /\ Goto(p, "decide", "dropOuter")
  /\ Throw(p, "immutable")
  /\ UNCHANGED <<dirs, runs, reported, swallowed>>

FreeVersion(p) ==
  /\ target = {}
  /\ Goto(p, "decide", "store")
  /\ UNCHANGED <<dirs, runs, error, reported, swallowed>>

(* Mutant: whatever is at the version path is replaced.                    *)
StoreReplacing(p) ==
  /\ outer # {}
  /\ Goto(p, "store", "return")
  /\ target' = outer
  /\ outer' = {}
  /\ UNCHANGED <<inner, runs, error, reported, swallowed>>

Store(p) ==
  /\ CanRename(outer, target)
  /\ Goto(p, "store", "return")
  /\ target' = outer
  /\ outer' = {}
  /\ UNCHANGED <<inner, runs, error, reported, swallowed>>

Discard(p) ==
  /\ Goto(p, "discard", "return")
  /\ outer' \in Rests(outer)
  /\ Swallows(outer')
  /\ UNCHANGED <<target, inner, runs, error, reported>>

(* The PublishedRegistryPackage the command reports.                       *)
Return(p) ==
  /\ Goto(p, "return", "idle")
  /\ reported' = reported \union candidate[p]
  /\ UNCHANGED <<dirs, runs, error, swallowed>>

(***************************************************************************)
(* Failures.                                                               *)
(***************************************************************************)

(* Where the exception of a step goes: out of the command, to the catch    *)
(* block of materializePathPackage, or to that of publishPackageToRegistry.*)
Unguarded == {"idle", "clearOuter", "clearInner"}
InMaterialize == {"create", "copy", "replace", "move"}
InPublish == {"decide", "store"}

CatchOf(here) ==
  IF here \in Unguarded THEN "idle"
  ELSE IF here \in InMaterialize THEN "dropInner" ELSE "dropOuter"

(* What a step leaves that does not finish: part of one more file, part of *)
(* a directory it was removing, or nothing new.                            *)
CutShort(p) ==
  \/ UNCHANGED <<outer, inner>>
  \/ /\ pc[p] = "copy"
     /\ \E file \in remaining[p] : inner' = WithFile(inner, file, Torn)
     /\ UNCHANGED outer
  \/ /\ pc[p] \in {"clearInner", "dropInner"}
     /\ inner' \in Rests(inner)
     /\ UNCHANGED outer
  \/ /\ pc[p] \in {"clearOuter", "replace", "dropOuter", "discard"}
     /\ outer' \in Rests(outer)
     /\ UNCHANGED inner

(* Disk full, permission, a file that cannot be read: any throwing step.   *)
IoError(p) ==
  /\ pc[p] \in Unguarded \union InMaterialize \union InPublish
  /\ Goto(p, pc[p], CatchOf(pc[p]))
  /\ Throw(p, "io")
  /\ IF pc[p] \in {"copy", "replace"} THEN CutShort(p) ELSE UNCHANGED <<outer, inner>>
  /\ UNCHANGED <<target, runs, reported, swallowed>>

(* A step finds its directories in a state it cannot proceed from.         *)
Conflict(p) ==
  /\ \/ pc[p] = "copy" /\ remaining[p] = {} /\ inner = {}
     \/ pc[p] = "move" /\ ~CanRename(inner, outer)
     \/ pc[p] = "store" /\ ~CanRename(outer, target)
  /\ Goto(p, pc[p], CatchOf(pc[p]))
  /\ Throw(p, "conflict")
  /\ UNCHANGED <<dirs, runs, reported, swallowed>>

CatchInMaterialize(p) ==
  /\ Goto(p, "dropInner", "idle")
  /\ inner' \in Rests(inner)
  /\ Swallows(inner')
  /\ UNCHANGED <<target, outer, runs, error, reported>>

CatchInPublish(p) ==
  /\ Goto(p, "dropOuter", "idle")
  /\ outer' \in Rests(outer)
  /\ Swallows(outer')
  /\ UNCHANGED <<target, inner, runs, error, reported>>

(* The process dies; nothing of the directories is undone.                 *)
Crash(p) ==
  /\ pc[p] # "idle"
  /\ Goto(p, pc[p], "idle")
  /\ Throw(p, "none")
  /\ CutShort(p)
  /\ UNCHANGED <<target, runs, reported, swallowed>>

Step(p) ==
  \/ Begin(p) \/ ClearOuter(p) \/ ClearInner(p) \/ CreateInner(p) \/ CopyFile(p)
  \/ Fingerprint(p) \/ Replace(p) \/ Move(p)
  \/ AlreadyThere(p) \/ Immutable(p) \/ FreeVersion(p) \/ Store(p) \/ Discard(p)
  \/ Return(p) \/ IoError(p) \/ Conflict(p)
  \/ CatchInMaterialize(p) \/ CatchInPublish(p) \/ Crash(p)

Next == \E p \in Publishers : Step(p)

Spec == Init /\ [][Next]_vars

-----------------------------------------------------------------------------

(***************************************************************************)
(* The declared shape of the state: each directory is absent or one tree.  *)
(***************************************************************************)
Dirs == {{}} \union {{tree} : tree \in Trees}

TypeOK ==
  /\ target \in Dirs /\ outer \in Dirs /\ inner \in Dirs
  /\ pc \in [Publishers -> Unguarded \union InMaterialize \union InPublish
                             \union {"discard", "return", "dropInner", "dropOuter"}]
  /\ building \in [Publishers -> Revisions]
  /\ remaining \in [Publishers -> SUBSET Files]
  /\ candidate \in [Publishers -> Dirs]
  /\ error \in [Publishers -> Errors]
  /\ reported \in SUBSET Trees
  /\ swallowed \in BOOLEAN

(***************************************************************************)
(* A published version is a write-once cell: once <name>/<version> exists  *)
(* no later run changes it, whatever failed or crashed, and a run reports  *)
(* success only about the bytes the directory holds (publishing the same   *)
(* bytes again is idempotent, other bytes are refused).                    *)
(***************************************************************************)
Promise == INSTANCE VersionStore

VersionWrittenOnce == Promise!Spec

(***************************************************************************)
(* The version directory is never a partial copy or a mixture of two       *)
(* revisions: a crash or an error while copying, and the staging           *)
(* directories it leaves, never show in what is published later, as long   *)
(* as no removal error was swallowed.                                      *)
(***************************************************************************)
VersionIsArtifact == ~swallowed => target \subseteq Artifacts

(***************************************************************************)
(* A run fails only for a reason of its own: an I/O error it met, or other *)
(* bytes already published.  What an earlier run left behind, even what a  *)
(* swallowed removal error left, never makes a rename or a fingerprint     *)
(* fail, and a refusal means that the version holds something else.        *)
(***************************************************************************)
FailuresExplained ==
  \A p \in Publishers :
    /\ error[p] # "conflict"
    /\ error[p] = "immutable" => target # {} /\ target # candidate[p]

(* What one run leaves, complete or not, spoils neither the version nor a  *)
(* later run.                                                              *)
ArtifactsSound == VersionIsArtifact /\ FailuresExplained

(***************************************************************************)
(* However many processes publish the version at once, and whatever they   *)
(* do to each other's staging directories, a version directory that holds  *)
(* a file is never replaced, emptied or added to.                          *)
(***************************************************************************)
PublishedStaysPut ==
  [][(\E tree \in target : DOMAIN tree # {}) => target' = target]_vars
=============================================================================
