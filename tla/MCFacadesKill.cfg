SPECIFICATION Spec
CHECK_DEADLOCK FALSE
CONSTANTS
  ctr = ctr  k1 = k1  p1 = p1  p2 = p2  tick = tick
  KvKey = {ctr, k1}  Thread = {p1, p2, tick}  Ticker = tick  NoThread = NoThread
  Counter = ctr  REV_BLOCK = 1  LeaseTtl = 1  Expect = 1  New = 0
  KvWorlds <- MCKvs
  TimerId = {a, b}  Intervals = {0, 2}  MAX_SLEEP = 3
  MaxSets = 2  MaxDels = 1  MaxTimerCrash = 1  MaxClock = 4  MaxDispatch = 1
  TrigWriter = {w1, w2}  Ids = {"r", "s", "q"}
  hop_cap = 2  calls_per_min = 1  http_retries = 2  gated_actions = {"publish"}  WINDOW = 2
  TrigWorlds <- MCTrigs
  App = {"a1", "a3"}  RouteName = {n1, n2}  EnvOf <- MCEnvOf
  max_total = 2  max_per_env = 1  PROBE_MISSES = 2  LEASE = 2  IngressGated = TRUE
  MaxRegister = 3  MaxSlow = 1  MaxDeaths = 1
  Caller = {c1, c2}  rpm = 2  rpd = 3  MINUTE = 3  DAY = 5  min_gap = 1  jitter = 1
  concurrency = 2  breaker_threshold = 1  breaker_max_opens = 2
  backoff_base = 1  backoff_max = 2  MaxGrants = 3
  LineKind = {"step", "throttled", "output"}
  CliWorlds <- ChattyRuns
  Segment = {"session", "x", "*", "**"}
  RESERVED_NAMESPACES = {"session"}  Anyone = Anyone  BindEnvs = {"e1"}
  SubscribeBodies <- MCBodies  EnvelopeInputs <- MCEnvelopes
  Setter = {s1, s2}  NoBytes = NoBytes  Torn = Torn  SecretWorlds <- MCSecrets
  Focuses = {"cli"}
PROPERTIES KillSwitchWorks
