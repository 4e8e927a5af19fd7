CONSTANTS
  t1 = t1
  t2 = t2
  Nobody = Nobody
  Callers <- TwoCallers
  Keys <- SourceKeys
  Values <- TwoValues
  Tails <- Junk
  MaxText = 16
SPECIFICATION Spec
SYMMETRY Symmetry
CONSTRAINT NotRaced
INVARIANTS
  TypeOK
  OneInsideUnlessRaced
  HolderIsInside
PROPERTIES
  ImplementsSettings
