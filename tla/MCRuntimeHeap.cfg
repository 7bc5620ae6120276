CONSTANTS
    Addr = {a1, a2, a3}
    MinBudget = 1
    MaxBudget = 1
    MaxAlloc = 2
SPECIFICATION Spec
CONSTRAINT FewHandles
SYMMETRY Symmetry
INVARIANTS
  TypeOK
  Accounted
  TriggerSeesGrowth
PROPERTIES
  CollectsExactly
CHECK_DEADLOCK FALSE
