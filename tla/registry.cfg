\* Three hosts on a store of two slots, so that it expands and compacts, and a
\* pool of two, so that it drops identifiers.
SPECIFICATION Spec
CONSTANTS
  Hosts = {h1, h2, h3}
  Null = Null
  Starter = 2
  POOL_SIZE_FOR_IDS = 2
  MaxId = 5
  Faults = TRUE
SYMMETRY AnyHost
INVARIANTS
  TypeOK
  
  IdsWereMade
  
  
  

  
  
