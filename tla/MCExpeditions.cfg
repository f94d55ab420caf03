CONSTANTS
  c1 = c1
  food = food
  p1 = p1
  Camp = {c1, c2}
  Resource = {food}
  MaxQty = 2
  MaxItems = 1
  Opening <- MCOpening
  Workload <- MCWorkload
  Person = {p1}
  Status = {"HEALTHY", "AWAY"}
  Birth <- MCBirth
  ExpeditionId = {e1, e2}
  Proposal <- MCProposal
  Call = {h1, h2}
  Finds = {0, 1}
  None = None
SPECIFICATION Spec
SYMMETRY Interchangeable
INVARIANTS
  ExpeditionInv
  CreditsBounded
  MembersAreAway
PROPERTIES
  LegalUnlessContested
