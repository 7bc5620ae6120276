SPECIFICATION Spec
CONSTANTS
  Manifest = "vpp.json"
  OldFile = "old"
  NewFile = "new"
  R1 = 1
  R2 = 2
  Torn = 0
  Files <- MCOneFile
  Revisions <- MCRevisions
  FilesOf <- MCOneFileOf
  Publishers = {p1, p2}
PROPERTY PublishedStaysPut
SYMMETRY MCPublishers
