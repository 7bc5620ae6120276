-------------------------- MODULE MCPackageRegistry --------------------------
(* Two revisions of a project: the second renames one file of the first.   *)
EXTENDS PackageRegistry, TLC

CONSTANTS Manifest, OldFile, NewFile, R1, R2

MCFiles == {Manifest, OldFile, NewFile}
MCRevisions == {R1, R2}
MCFilesOf == R1 :> {Manifest, OldFile} @@ R2 :> {Manifest, NewFile}

(* For two publishers: both revisions have the manifest only.              *)
MCOneFile == {Manifest}
MCOneFileOf == [revision \in MCRevisions |-> {Manifest}]

MCPublishers == Permutations(Publishers)
=============================================================================
