------------------------------ MODULE CliAgent ------------------------------
(***************************************************************************)
(* tenon cli-agent run (rs/base/src/cli_agent_cmd.rs, cli_agent.rs,        *)
(* preflight.rs): one command builds a container, checks that the agent is *)
(* logged in, waits for a slot of a limiter of its own, and pumps the      *)
(* agent's lines until it exits, a budget is used up or a human stops it:  *)
(* by SIGINT, or by a file a watcher thread looks for.                     *)
(***************************************************************************)
EXTENDS RateLimit, Focus

CONSTANTS
  LineKind,      \* kinds of lines the agent prints: "step", "throttled", "output"
  CliWorlds      \* [max_steps, wall, lines, only, closes]: budgets, 0 for none, the lines
                 \* the agent prints at most, Chatty for any number, is this tenon
                 \* cli-agent preflight, which stops there, and may the agent close
                 \* its output before it exits?

Chatty == -1

\* A run's budgets.
ASSUME CliAssumption ==
  CliWorlds \subseteq [max_steps : Nat, wall : BOOLEAN, lines : Nat \cup {Chatty},
                       only : BOOLEAN, closes : BOOLEAN]

VARIABLES
  cmd,        \* where the command is: a program counter
  container,  \* "none", "up", "down", or "lost": its destruction failed
  agent,      \* the exec process of the agent: "none", "runs" or "exited"
  pipe,       \* lines read and not yet received, and those still to come
  kill,       \* the stop flag
  asked,      \* where a stop was asked for: a subset of {"sigint", "file"}
  watcher,    \* the stop file's watcher: "off", "on", "done"
  wall,       \* has wall_s passed since the pump began?
  out,        \* the outcome: steps, killed, halted, and the meta file's state
  clim,       \* the run's Limiter
  told,       \* events emitted: started, done, error
  cworld

cliVars == <<cmd, container, agent, pipe, kill, asked, watcher, wall, out, clim, told, cworld>>

NoOutcome == [steps |-> 0, killed |-> FALSE, halted |-> FALSE, meta |-> "none", failed |-> FALSE]

\* An event of the run, to the terminal and to the publisher task.
Emit(kind) == told' = Append(told, kind)

CliInit ==
  /\ cmd = "build" /\ container = "none" /\ agent = "none" /\ kill = FALSE /\ asked = {}
  /\ watcher = "off" /\ wall = FALSE /\ out = NoOutcome /\ clim = NewLimiter /\ told = <<>>
  /\ cworld \in CliWorlds /\ pipe = [buf |-> <<>>, todo |-> cworld.lines, eof |-> FALSE]

\* Instance::destroy(); every caller ignores its error.
Destroy == container' \in (IF container = "down" THEN {"down"} ELSE {"down", "lost"})

\* build_instance(): the backend starts a container or there is none.
Build ==
  /\ cmd = "build"
  /\ \/ cmd' = "preflight" /\ container' = "up" /\ UNCHANGED out
     \/ cmd' = "end" /\ out' = [out EXCEPT !.failed = TRUE] /\ UNCHANGED container
  /\ UNCHANGED <<agent, pipe, kill, asked, watcher, wall, clim, told, cworld>>

\* What one probe inside the container may come to.
ProbeOutcome == [signature : BOOLEAN, timed_out : BOOLEAN, status : {0, 1}]

\* preflight::run(): the first probe that shows a login prompt, hangs or fails
\* ends it; clean needs all of them.
Clean(probes) ==
  \A i \in DOMAIN probes : ~probes[i].signature /\ ~probes[i].timed_out /\ probes[i].status = 0

\* The container may start to spend: watcher, meta file.
Launch ==
  cmd' = "slot" /\ watcher' = "on" /\ out' = [out EXCEPT !.meta = "running"] /\ UNCHANGED container

\* do_preflight(), and what is done about it; a probe that cannot be run at all
\* ends the command the same way.
Preflight ==
  /\ cmd = "preflight" /\ ~cworld.only
  /\ \E probes \in [{"version", "models"} -> ProbeOutcome] :
       IF Clean(probes) THEN Launch
       ELSE /\ cmd' = "end" /\ Destroy /\ out' = [out EXCEPT !.failed = TRUE]
            /\ UNCHANGED watcher
  /\ UNCHANGED <<agent, pipe, kill, asked, wall, clim, told, cworld>>

\* preflight_cmd(): the container goes whatever the probes say.
PreflightOnly ==
  /\ cmd = "preflight" /\ cworld.only
  /\ cmd' = "end" /\ Destroy /\ out' = [out EXCEPT !.failed = TRUE]
  /\ UNCHANGED <<agent, pipe, kill, asked, watcher, wall, clim, told, cworld>>

\* The workspace or its snapshot repository cannot be made: run() returns the
\* error, and the container goes with its last handle.
ScaffoldFails ==
  /\ cmd = "slot" /\ told = <<>> /\ clim = NewLimiter
  /\ cmd' = "end" /\ container' = "down" /\ watcher' = "done" /\ out' = [out EXCEPT !.failed = TRUE]
  /\ UNCHANGED <<agent, pipe, kill, asked, wall, clim, told, cworld>>

\* wait_for_slot() asks the limiter.
AskSlot(g) ==
  LET t == TryAcquire(clim, g) IN
  /\ clim' = t.l /\ UNCHANGED out
  /\ IF t.allow THEN cmd' = "spawn" /\ Emit("started") ELSE UNCHANGED <<cmd, told>>

\* Mutant: a run that must not start says nothing.
WaitForSlotQuiet ==
  /\ cmd = "slot"
  /\ IF kill THEN cmd' = "joined" /\ out' = [out EXCEPT !.halted = TRUE] /\ UNCHANGED <<clim, told>>
     ELSE \E g \in min_gap .. min_gap + jitter : AskSlot(g)
  /\ UNCHANGED <<container, agent, pipe, kill, asked, watcher, wall, cworld>>

\* wait_for_slot(): the stop flag first, then the limiter.
WaitForSlot ==
  /\ cmd = "slot"
  /\ IF kill THEN /\ cmd' = "joined" /\ out' = [out EXCEPT !.halted = TRUE]
                  /\ Emit("error") /\ UNCHANGED clim
     ELSE \E g \in min_gap .. min_gap + jitter : AskSlot(g)
  /\ UNCHANGED <<container, agent, pipe, kill, asked, watcher, wall, cworld>>

\* spawn_streaming(): the agent starts, or the run ends with an error.
Spawn ==
  /\ cmd = "spawn"
  /\ \/ cmd' = "pump" /\ agent' = "runs" /\ UNCHANGED <<out, clim, told>>
     \/ /\ cmd' = "joined" /\ out' = [out EXCEPT !.halted = TRUE]
        /\ Emit("error") /\ clim' = Released(clim) /\ UNCHANGED agent
  /\ UNCHANGED <<container, pipe, kill, asked, watcher, wall, cworld>>

\* The agent prints a line, which the reader thread passes on.
AgentPrints(k) ==
  /\ agent = "runs" /\ container = "up" /\ ~pipe.eof /\ Len(pipe.buf) < 1 /\ pipe.todo # 0
  /\ pipe' = [pipe EXCEPT !.buf = Append(@, k), !.todo = IF @ = Chatty THEN @ ELSE @ - 1]
  /\ UNCHANGED <<cmd, container, agent, kill, asked, watcher, wall, out, clim, told, cworld>>

\* It exits by itself; what it forked may hold its output open for a while.
AgentExits ==
  /\ agent = "runs" /\ container = "up" /\ agent' = "exited"
  /\ UNCHANGED <<cmd, container, pipe, kill, asked, watcher, wall, out, clim, told, cworld>>

\* The pipe closes behind the last line: with the exit, or before it.
OutputEnds ==
  /\ ~pipe.eof /\ (agent = "exited" \/ (agent = "runs" /\ cworld.closes))
  /\ pipe' = [pipe EXCEPT !.eof = TRUE]
  /\ UNCHANGED <<cmd, container, agent, kill, asked, watcher, wall, out, clim, told, cworld>>

\* teardown(): the container, and the exec process is killed.
Teardown == Destroy /\ agent' = "exited" /\ cmd' = "join"

\* handle_line(): a tool call or a turn is a step; a throttled call feeds the
\* breaker, which may halt the run; the rest is output.
HandleLine(l, k) ==
  LET b == IF k = "throttled" THEN Recorded(l, TRUE) ELSE l IN
  [step |-> IF k = "step" THEN 1 ELSE 0, lim |-> b, halted |-> k = "throttled" /\ b.halted]

\* A line arrives; a halted breaker or a full step budget tears the container
\* down.
PumpLine ==
  LET h == HandleLine(clim, Head(pipe.buf))
      stop == h.halted \/ (cworld.max_steps > 0 /\ out.steps + h.step >= cworld.max_steps) IN
  /\ cmd = "pump" /\ pipe.buf # <<>>
  /\ pipe' = [pipe EXCEPT !.buf = Tail(@)] /\ clim' = h.lim
  /\ out' = [out EXCEPT !.steps = @ + h.step, !.halted = stop, !.killed = stop]
  /\ IF stop THEN Teardown ELSE UNCHANGED <<container, agent, cmd>>
  /\ UNCHANGED <<kill, asked, watcher, wall, told, cworld>>

\* No line for a poll: only now are the stop flag and the wall budget looked at.
PumpTimeout ==
  /\ cmd = "pump" /\ pipe.buf = <<>> /\ ~pipe.eof
  /\ kill \/ wall
  /\ out' = [out EXCEPT !.killed = TRUE, !.halted = ~kill]
  /\ Teardown
  /\ UNCHANGED <<pipe, kill, asked, watcher, wall, clim, told, cworld>>

\* The pipe is closed and empty.
PumpEof ==
  /\ cmd = "pump" /\ pipe.buf = <<>> /\ pipe.eof
  /\ cmd' = "join"
  /\ UNCHANGED <<container, agent, pipe, kill, asked, watcher, wall, out, clim, told, cworld>>

\* pump() ends: reader joined, child reaped, last snapshot, one closing event.
PumpEnds ==
  /\ cmd = "join" /\ agent = "exited" /\ pipe.eof
  /\ clim' = Released(Recorded(clim, FALSE))
  /\ Emit(IF out.killed THEN "error" ELSE "done")
  /\ cmd' = "joined"
  /\ UNCHANGED <<container, agent, pipe, kill, asked, watcher, wall, out, cworld>>

\* run() after the task: the container is destroyed once more whatever happened,
\* and the meta file says how it ended.
Finish ==
  /\ cmd = "joined" /\ watcher = "done"
  /\ Destroy
  /\ out' = [out EXCEPT !.meta = IF out.killed THEN "killed" ELSE "done"]
  /\ cmd' = "end"
  /\ UNCHANGED <<agent, pipe, kill, asked, watcher, wall, clim, told, cworld>>

\* SIGINT is awaited while the run's task is; stop() writes the file whenever
\* the run's directory is there.
Sigint ==
  /\ cmd \in {"slot", "spawn", "pump", "join"} /\ "sigint" \notin asked
  /\ asked' = asked \cup {"sigint"} /\ kill' = TRUE
  /\ UNCHANGED <<cmd, container, agent, pipe, watcher, wall, out, clim, told, cworld>>

StopFile ==
  /\ cmd # "end" /\ "file" \notin asked /\ asked' = asked \cup {"file"}
  /\ UNCHANGED <<cmd, container, agent, pipe, kill, watcher, wall, out, clim, told, cworld>>

\* The watcher turns the file into the flag; it ends then, or when told to.
Watch ==
  /\ watcher = "on" /\ ("file" \in asked \/ cmd = "joined")
  /\ watcher' = "done" /\ kill' = (kill \/ ("file" \in asked /\ cmd # "joined"))
  /\ UNCHANGED <<cmd, container, agent, pipe, asked, wall, out, clim, told, cworld>>

WallPasses ==
  /\ cworld.wall /\ cmd = "pump" /\ ~wall /\ wall' = TRUE
  /\ UNCHANGED <<cmd, container, agent, pipe, kill, asked, watcher, out, clim, told, cworld>>

CmdStep ==
  \/ Build \/ Preflight \/ PreflightOnly \/ ScaffoldFails \/ WaitForSlot \/ Spawn \/ PumpLine \/ PumpEof \/ PumpEnds \/ Finish

CliNext ==
  \/ CmdStep \/ PumpTimeout \/ Watch \/ WallPasses \/ Sigint \/ StopFile
  \/ AgentExits \/ OutputEnds \/ \E k \in LineKind : AgentPrints(k)

CliSpec == CliInit /\ [][CliNext]_cliVars

\* The command and its watcher run; a poll with nothing in the pipe times out;
\* time passes.  The agent owes nothing; once it has exited its output ends.
CliFairness ==
  /\ WF_cliVars(focus = "cli" /\ CmdStep) /\ WF_cliVars(focus = "cli" /\ PumpTimeout)
  /\ WF_cliVars(focus = "cli" /\ agent = "exited" /\ OutputEnds)
  /\ WF_cliVars(focus = "cli" /\ Watch) /\ WF_cliVars(focus = "cli" /\ WallPasses)

---------------------------------------------------------------------------
(* Properties.                                                             *)

\* A command that is over leaves no container, but one whose destruction failed,
\* and no exec process, and told of its run once: nothing of one that never began,
\* else one closing event, which says whether it was killed.
RunsEndClean ==
  cmd = "end" =>
    /\ container # "up" /\ agent # "runs"
    /\ out.failed <=> told = <<>>
    /\ ~out.failed => told \in {<<"error">>, <<"started", "error">>, <<"started", "done">>}
    /\ out.killed => told = <<"started", "error">>

\* An agent the breaker has given up on, or whose steps are used up, is read no
\* further: the step that finds out tears its container down (an error of destroy()
\* aside, which teardown ignores) and ends its process.
HaltTearsDown ==
  clim.halted \/ (cworld.max_steps > 0 /\ out.steps >= cworld.max_steps) =>
    container \in {"down", "lost"} /\ agent = "exited"

\* All of a run: it is paced, torn down when it must stop, and leaves nothing.
AgentsArePaced == GrantsArePaced /\ RunsEndClean /\ HaltTearsDown

\* The kill switch and the wall budget: once a stop is asked for or the time is
\* over while the agent runs, the run ends and its container is gone.
KillSwitchWorks == <>[](kill \/ wall => cmd = "end" /\ container # "up")
=============================================================================
