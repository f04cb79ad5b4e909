CONSTANTS
  guardian = guardian  root = root  kid = kid  grandkid = grandkid
  Guardian = guardian  Root = root
  Env = {guardian, root}
  BudgetReset = TRUE
  max_restarts = 1
  max_total = 1
  max_depth = 0
  Worlds <- Switch
SPECIFICATION Spec
CHECK_DEADLOCK FALSE
INVARIANTS OneHarness
