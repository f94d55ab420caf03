CONSTANTS
  Token = {t1, t2}
  Call = {h1, h2}
  MaxVersion = 3
  None = None
SPECIFICATION Spec
SYMMETRY Interchangeable
INVARIANTS
  SessionInv
  RotationInv
PROPERTIES
  EndedStaysEnded
