SPECIFICATION FairSpec
CONSTANTS
  Notifiers = {n1, n2}
  MaxChanges = 4
  MaxFailures = 1
  MaxCrashes = 3
  Budgets <- BudgetsOfDelivery
  Nobody = Nobody
  UnixTime = 100
INVARIANTS
  CardStaysWritable
PROPERTIES
  UpdatesLand
  CardFollowsUndisturbed
