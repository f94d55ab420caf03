CONSTANTS
  Person = {p1}
  Camp = {c1, c2}
  Status = {"HEALTHY", "AWAY", "DEAD"}
  Profession = {f1, f2}
  Call = {h1, h2, h3}
  None = None
SPECIFICATION Spec
SYMMETRY Interchangeable
INVARIANTS
  RosterInv
  LogsNameEverything
CHECK_DEADLOCK FALSE
