CONSTANTS
  c1 = c1
  c2 = c2
  p1 = p1
  Camp = {c1, c2}
  Resource = {"FOOD_RATION"}
  Ration = "FOOD_RATION"
  RationsPerPerson = 1
  MaxQty = 1
  MaxItems = 1
  Opening <- MCOpening
  Workload <- MCWorkload
  Person = {p1}
  Status = {"HEALTHY", "AWAY"}
  Birth <- MCBirth
  TransferId = {i1, i2}
  Proposal <- MCProposal
  Call = {h1, h2}
  None = None
SPECIFICATION Spec
SYMMETRY Interchangeable
INVARIANTS
  TransferInv
  MovesTogether
  JourneysConnect
