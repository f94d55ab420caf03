CONSTANTS
  c1 = c1
  c2 = c2
  food = food
  Camp = {c1, c2}
  Resource = {food}
  MaxQty = 1
  MaxItems = 1
  Opening <- MCOpening
  Workload <- MCWorkload
  Asked <- MCAsked
  Request = {q1, q2}
  Review = {v1, v2, v3}
SPECIFICATION Spec
INVARIANTS
  ReviewInv
  MovedOnceIfApproved
  MovementsHaveReviews
