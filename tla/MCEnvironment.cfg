SPECIFICATION Spec
CHECK_DEADLOCK FALSE
CONSTANTS
  Prompt = {"p1", "p2"}  max_steps = 2  retry_attempts = 2
  LoopWorlds <- MCLoops
  McpServer = {"s"}  McpTool = {"t1", "t2"}  ServerOf <- MCServerOf
  ToolCall = {c1}  McpMount = {m1, m2}  gated_tools = {"t1"}
  ToolWorlds <- MCTools
  TAIL_BYTES = 2  RING_BYTES = 2  CHUNK = 2  PIPE = 2  timeout_ms = 1  MaxOut = 4
  TermWorlds <- MCTerms
  keep_packs = 2  KEEP_LAST = 1  MILESTONE_EVERY = 2
  MaxCommit = 3  MaxReset = 1  MaxPull = 2  MaxFail = 1
  WireCaller = {w1, w2}  Worker = w
  WireWorlds <- MCWires
  Focuses = {"loop", "tools", "terminals", "snapshots", "wire"}
INVARIANTS TurnsAreWhole NoDanglingTools TerminalsAreTrue SnapshotsAreTrue WireIsSound
PROPERTIES EnvironmentAnswers
