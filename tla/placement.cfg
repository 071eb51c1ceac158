SPECIFICATION Spec
CONSTANTS
  Hosts = {a, b}
  Nobody = Nobody
  Callers = {c1}
  MaxWrites = 1
  Budgets <- BudgetsOfRuns
  MaxSurveys = 1
 
INVARIANT RunsNewest
PROPERTY NoGuestFenced
CHECK_DEADLOCK FALSE
SYMMETRY HostSymmetry
