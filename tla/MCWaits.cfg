CONSTANTS
  gate_mode = "ask"
  Modes = {"ask", "auto", "deny"}
  Failures = {"record", "sweep"}
  LIST_LIMIT = 1
  MaxRequest = 2
  MaxCrash = 1
  root = root  prov = prov  dep = dep  kid = kid  kid2 = kid2  svc = svc  ev = ev
  c1 = c1  NoOne = NoOne  inactive = inactive
  d1 = d1  m1 = m1  v = v  s1 = s1  p1 = p1  p2 = p2  t1 = t1  k1 = k1
  NoKey = NoKey  NoSince = NoSince  guardian = guardian
  Focuses = {"approvals", "kernel", "hub", "base"}
SPECIFICATION MCSpec
CHECK_DEADLOCK FALSE
INVARIANTS HeldIsOpen VerdictIsRow GateNeedsVerdict TreesAreLive
PROPERTIES DecidedIsFinal BothFilesMove EveryWaitEnds
