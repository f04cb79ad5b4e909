--------------------------- MODULE MCEnvironment ---------------------------
(***************************************************************************)
(* Inside an environment, for TLC: the agent's turns and its tools, the    *)
(* worker's terminals and its commits, and an external plugin at the port  *)
(* of its fiber.  A behaviour is one of one of them.                       *)
(***************************************************************************)
EXTENDS AgentLoop, ToolBus, Terminals, Snapshots, KernelWire

CONSTANT Focuses        \* the components of a run

-----------------------------------------------------------------------------
(* What each component may meet, and how often. *)
LoopWorld(c, r, l, v, n) == [crashes |-> c, resumes |-> r, lapses |-> l, vetoes |-> v, calls |-> n]
MCLoops == {LoopWorld(1, 1, 0, FALSE, 1), LoopWorld(0, 0, 1, TRUE, 1), LoopWorld(0, 0, 0, FALSE, 2)}

ToolWorld(d, u, r) == [deaths |-> d, unmounts |-> u, rivals |-> r]
MCServerOf == [n \in McpTool |-> "s"]
MCTools == {ToolWorld(0, 1, 1), ToolWorld(1, 0, 0)}

TermWorld(c, e, d) == [calls |-> c, endless |-> e, deaf |-> d]
MCTerms ==
    {TermWorld("bash", FALSE, FALSE), TermWorld("pty", FALSE, FALSE),
     TermWorld("bash", TRUE, FALSE), TermWorld("pty", FALSE, TRUE)}

\* Calls of the hook, nested ones, restarts, changes of the dependency, exits.
WireWorld(c, n, r, l, d) ==
    [calls |-> c, nested |-> n, restart |-> r, flips |-> l, deaths |-> d, bad |-> 0, status |-> 0,
     unmount |-> 0, slow |-> 0, offs |-> n, pipe |-> 9]
MCWires ==
    {WireWorld(2, 0, 0, 0, 0), WireWorld(1, 1, 0, 0, 0),
     [WireWorld(2, 0, 0, 0, 0) EXCEPT !.slow = 1, !.pipe = 1],
     [WireWorld(1, 0, 0, 0, 1) EXCEPT !.status = 1, !.slow = 1],
     [WireWorld(1, 0, 1, 0, 0) EXCEPT !.slow = 1, !.pipe = 1],
     [WireWorld(0, 0, 0, 2, 0) EXCEPT !.status = 1, !.slow = 1],
     [WireWorld(1, 0, 0, 0, 0) EXCEPT !.bad = 1, !.status = 1, !.unmount = 1]}

-----------------------------------------------------------------------------
allVars == <<focus, loopVars, toolVars, termVars, snapVars, wireVars>>

\* A component outside the focus stays in one initial state of its own.
AtRest(f, world, worlds) == focus # f => world = CHOOSE w \in worlds : TRUE

Init ==
    /\ focus \in Focuses
    /\ LoopInit /\ ToolInit /\ TermInit /\ SnapInit /\ WireInit
    /\ AtRest("loop", lworld, LoopWorlds) /\ AtRest("tools", tworld, ToolWorlds)
    /\ AtRest("terminals", pworld, TermWorlds) /\ AtRest("wire", wleft, WireWorlds)

Next ==
    /\ UNCHANGED focus
    /\ \/ focus = "loop" /\ LoopNext /\ UNCHANGED <<toolVars, termVars, snapVars, wireVars>>
       \/ focus = "tools" /\ ToolNext /\ UNCHANGED <<loopVars, termVars, snapVars, wireVars>>
       \/ focus = "terminals" /\ TermNext /\ UNCHANGED <<loopVars, toolVars, snapVars, wireVars>>
       \/ focus = "snapshots" /\ SnapNext /\ UNCHANGED <<loopVars, toolVars, termVars, wireVars>>
       \/ focus = "wire" /\ WireNext /\ UNCHANGED <<loopVars, toolVars, termVars, snapVars>>

Spec ==
    /\ Init /\ [][Next]_allVars
    /\ LoopFairness /\ ToolFairness /\ TermFairness /\ SnapFairness /\ WireFairness

(***************************************************************************)
(* Nothing in an environment waits for ever but for what the code sets no  *)
(* limit to: prompts have their turn and sessions come to rest unless a    *)
(* tool never comes back (agent.rs), tool calls end unless their server    *)
(* does not answer (toolbus.rs, mcp.rs), the worker gets free unless a     *)
(* command never stops writing or a program never reads (pty.rs), commits  *)
(* reach base unless pulls keep failing (snap.rs), and calls of a plugin   *)
(* and of status() return unless the plugin stops reading (tenon.erl).     *)
(***************************************************************************)
EnvironmentAnswers ==
    /\ PromptsAreServed /\ SessionRests
    /\ ToolCallsEnd
    /\ WorkerAnswers
    /\ CommitsReachBase
    /\ WireCallsEnd /\ StatusReturns
=============================================================================
