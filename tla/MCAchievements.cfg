SPECIFICATION AchievementsFairSpec
CONSTANTS
  u1 = u1
  camp = camp
  first = first
  second = second
  User = {u1}
  ActingCamp = {camp}
  Achievement = {first, second}
  Seeded = {first}
  Rule <- MCRule
  Required <- MCRequired
  Novice = {}
  Offered <- MCOffered
  Check = {x1, x2}
  Batch = 1
  MaxEvents = 2
  MaxFaults = 1
  None = None
INVARIANTS
  AchievementInv
  NothingMissed
  TotalsCount
PROPERTIES
  EveryUnlockIsSent
CHECK_DEADLOCK FALSE
