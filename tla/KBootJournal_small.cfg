SPECIFICATION Spec
CONSTANTS
  Meta = {m0, m1}
  DefaultMeta = m0
  Records = 2
  SectorRecords = 1
  HalfRange = 4
INVARIANTS
  WritesErased
  NewestSpared
  GenerationsOrdered
PROPERTY
  ImplementsBootRecord
