-------------------------- MODULE ImportResolution --------------------------
(***************************************************************************)
(* PackageResolver::resolve: which file an import target names.  The        *)
(* importer's directory and its ancestors are numbered from the nearest; a   *)
(* file is named by where it would be looked for, so that a set of files is  *)
(* a state of the disk as far as one target can tell.                        *)
(***************************************************************************)
EXTENDS Naturals, SequencesExt

CONSTANTS Depth,               \* directories from the importer up to the root
          PackageDirectories,  \* gói, goi, packages: a sequence
          Forms                \* where a package may lie in one of them: a sequence

Home == 0   \* VPP_HOME, searched after every ancestor

Local(dir) == [kind |-> "local", dir |-> dir]
Redirected(dir) == [kind |-> "redirect", dir |-> dir]
Package(dir, directory, name, form) ==
  [kind |-> "package", dir |-> dir, directory |-> directory, name |-> name, form |-> form]

Ancestors(base) == [i \in 1 .. Depth - base + 1 |-> base + i - 1]

(* The first of the places that exists, as a set of at most one.             *)
FirstThat(files, places) ==
  IF ToSet(places) \intersect files = {} THEN {}
  ELSE {places[SelectInSeq(places, LAMBDA place : place \in files)]}

(* A bare name has no directory and no extension; only it can be a package.  *)
(* A redirect is known only for a path that starts with a package directory. *)
Targets == {[bare |-> TRUE, alias |-> FALSE, redirect |-> FALSE],
            [bare |-> TRUE, alias |-> TRUE, redirect |-> FALSE],
            [bare |-> FALSE, alias |-> FALSE, redirect |-> TRUE],
            [bare |-> FALSE, alias |-> FALSE, redirect |-> FALSE]}

(* packageCandidatesFor: the name as written, then its standard alias.       *)
Candidates(target) == IF target.alias THEN <<"name", "alias">> ELSE <<"name">>

LocalPlaces(dirs, target) == [i \in DOMAIN dirs |-> Local(dirs[i])]

RedirectPlaces(dirs, target) ==
  IF target.redirect THEN [i \in DOMAIN dirs |-> Redirected(dirs[i])] ELSE <<>>

(* resolvePackageAtBase inside the three loops: ancestors, package           *)
(* directories, candidate names.                                             *)
PackagePlaces(dirs, target) ==
  IF ~target.bare THEN <<>>
  ELSE FlattenSeq([d \in DOMAIN dirs |->
         FlattenSeq([p \in DOMAIN PackageDirectories |->
           FlattenSeq([c \in DOMAIN Candidates(target) |->
             [f \in DOMAIN Forms |->
               Package(dirs[d], PackageDirectories[p], Candidates(target)[c], Forms[f])]])])])

(* Mutant: every phase is tried in one ancestor before the next.             *)
Interleaved(files, target, base) ==
  LET dirs == Append(Ancestors(base), Home)
  IN  FirstThat(files, FlattenSeq([i \in DOMAIN dirs |->
        LocalPlaces(<<dirs[i]>>, target) \o RedirectPlaces(<<dirs[i]>>, target)
          \o PackagePlaces(<<dirs[i]>>, target)]))

Resolve(files, target, base) ==
  LET dirs       == Ancestors(base)
      local      == FirstThat(files, LocalPlaces(dirs, target))
      redirected == FirstThat(files, RedirectPlaces(dirs, target))
      package    == FirstThat(files, PackagePlaces(dirs, target))
      atHome     == FirstThat(files, LocalPlaces(<<Home>>, target)
                        \o RedirectPlaces(<<Home>>, target) \o PackagePlaces(<<Home>>, target))
  IN  IF local # {} THEN local
      ELSE IF redirected # {} THEN redirected
      ELSE IF package # {} THEN package ELSE atHome

VARIABLES files,    \* what exists
          target,   \* what is imported
          base,     \* the importer's directory
          found     \* <<>>, then <<chosen>>: a set of at most one place

vars == <<files, target, base, found>>

ResolveImport ==
  /\ found = <<>>
  /\ found' = <<Resolve(files, target, base)>>
  /\ UNCHANGED <<files, target, base>>

-----------------------------------------------------------------------------

Done == found # <<>>

Chosen == found[1]

(***************************************************************************)
(* docs/package-system.md, "Resolver": a local file anywhere above wins      *)
(* over redirects, those over packages, all of them over VPP_HOME, and       *)
(* within a phase the nearest ancestor wins.                                 *)
(***************************************************************************)
Phase(place) ==
  IF place.dir = Home THEN 4
  ELSE CASE place.kind = "local" -> 1 [] place.kind = "redirect" -> 2 [] OTHER -> 3

Visible == {place \in files : /\ place.dir = Home \/ place.dir >= base
                              /\ place.kind = "redirect" => target.redirect
                              /\ place.kind = "package" =>
                                   target.bare /\ place.name \in ToSet(Candidates(target))}

PhasesNotInterleaved ==
  Done =>
    /\ Chosen = {} <=> Visible = {}
    /\ \A chosen \in Chosen : \A other \in Visible :
         \/ Phase(chosen) < Phase(other)
         \/ Phase(chosen) = Phase(other) /\ chosen.dir <= other.dir

(***************************************************************************)
(* What exists elsewhere decides nothing: removing any file but the one      *)
(* chosen leaves the choice as it is, so that a file can be taken away       *)
(* without moving an import to a third one.                                  *)
(***************************************************************************)
OthersDoNotMatter ==
  Done => \A other \in files \ Chosen : Resolve(files \ {other}, target, base) = Chosen

(***************************************************************************)
(* "Nested import bắt đầu resolve từ thư mục chứa chính module importer": a  *)
(* module one directory deeper, with nothing of its own there, imports the   *)
(* same file as its parent directory does.                                   *)
(***************************************************************************)
NestedImportAgrees ==
  (Done /\ base < Depth /\ \A place \in files : place.dir # base) =>
    Chosen = Resolve(files, target, base + 1)
=============================================================================
