CONSTANTS
  d1 = d1  d2 = d2  m1 = m1  v = v
  s1 = s1  s2 = s2  p1 = p1  t1 = t1  t2 = t2  k1 = k1
  Focuses = {"log"}
  Violation = v  NoKey = NoKey  NoSince = NoSince
  Topic <- MCTopic  Key <- MCKey  Wants <- AllRows
  Event = {d1, d2, v}
  Durable = {d1, d2}
  Mortal = {}
  Blocked = {}
  Pub = {p1}
  Sub = {s1}
  Since <- FromZero
  Latest = {}
  Cap <- CapBig
  BATCH_MAX = 2
  REPLAY_MAX = 8
  MaxPublish <- Once
  MaxFault = 0
SPECIFICATION MCSpec
CHECK_DEADLOCK FALSE
INVARIANTS NothingLost
