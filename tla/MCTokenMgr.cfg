CONSTANTS
  Count = 3
  SaltMod = 4
SPECIFICATION Spec
INVARIANTS
  TypeOK
  FreeListIntact
  StaleRefused
  
