SPECIFICATION Spec
CONSTANTS
  Manifest = "vpp.json"
  OldFile = "old"
  NewFile = "new"
  R1 = 1
  R2 = 2
  Torn = 0
  Files <- MCFiles
  Revisions <- MCRevisions
  FilesOf <- MCFilesOf
  Publishers = {p1}
INVARIANTS
  TypeOK
  ArtifactsSound
PROPERTIES
  VersionWrittenOnce
