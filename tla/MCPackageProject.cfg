SPECIFICATION Spec
CONSTANTS
  A = A
  B = B
  A1 = A1
  A2 = A2
  A3 = A3
  AT = AT
  B1 = B1
  BT = BT
  None = None
  AnyVersion = 99
  Packages = {A, B}
  Trees <- MCTrees
  TreesOf <- MCTreesOf
  VersionOf <- MCVersionOf
  NeedsOf <- MCNeedsOf
  Torn <- MCTorn
  MaxEdits = 2
  MaxTampers = 1
  MaxStops = 2
CONSTRAINT TwoMishaps
INVARIANTS
  TypeOK
  Recoverable
  SuccessComplete
PROPERTIES
  RestoresExactly
