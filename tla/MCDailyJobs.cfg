CONSTANTS
  c1 = c1
  c2 = c2
  food = food
  Camps <- MCCamps
  Resource = {food}
  Need <- MCNeed
  Short <- MCShort
  Excess <- MCExcess
  Person = {1, 2, 3, 4, 5, 6}
  Home <- MCHome
  Grade <- MCGrade
  Yield <- MCYield
  Override <- MCOverride
  Run = {j1, j2}
  Opening <- MCOpening
  MaxStock = 12
  MaxChanges = 1
SPECIFICATION DailySpec
SYMMETRY Interchangeable
INVARIANTS
  DailyInv
PROPERTIES
  RefusedForAnother
  FedAsFarAsItGoes
  ImplementsLedger
CHECK_DEADLOCK FALSE
