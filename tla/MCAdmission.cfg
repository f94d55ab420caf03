CONSTANTS
  AdmissionId = {1, 2}
  Request = {h1, h2}
  Pool = {2, 3}
  Radix = 3
  Full = 3
  MaxCode = 3
  ByHand = {2, 4}
  NoAdmission = 0
SPECIFICATION AdmissionFairSpec
INVARIANTS
  AdmissionInv
  NumberedInOrder
  OnlyPoolBlocks
PROPERTIES
  EveryCallAnswered
