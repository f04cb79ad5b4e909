CONSTANTS
  guardian = guardian  root = root  kid = kid  grandkid = grandkid
  Guardian = guardian  Root = root
  Env = {guardian, root, kid, grandkid}
  BudgetReset = TRUE
  max_restarts = 1
  max_total = 3
  max_depth = 2
  Worlds <- Everything
SPECIFICATION Spec
CHECK_DEADLOCK FALSE
INVARIANTS NodesAreTracked HaltsHold RestartsAreBounded TreeIsClosed
