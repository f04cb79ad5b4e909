------------------------------- MODULE ToolBus -------------------------------
(***************************************************************************)
(* The tools bus of a harness (rs/harness/src/tools.rs) with the MCP       *)
(* servers mounted into it (mcp.rs) and the wire to the node it calls over *)
(* (wire.rs).  Calls, mounts and unmounts are tasks of their own; each     *)
(* await of theirs is a step.  A server is one child process: a writer     *)
(* task feeds it, a reader task hands its replies to whoever waits.        *)
(* The rows of a mount, and those of an unmount, are one step: each row is *)
(* written under a lock of its own, and the properties are about one row.  *)
(***************************************************************************)
EXTENDS Integers, Sequences, FiniteSets, Focus

CONSTANTS
  McpServer,              \* server names
  McpTool, ServerOf,      \* bridged tools, mcp/<server>/<tool>, and the server in the name
  ToolCall, McpMount,     \* tasks: tool executions, and mcp.mount calls
  gated_tools,            \* tools a human must agree to
  ToolWorlds              \* [deaths, unmounts, rivals]: how often at most

\* Two words of the model that are no names of servers.
ASSUME ServerNames ==
  /\ McpServer \cap {"none", "svc"} = {} /\ "bash" \notin McpTool
  /\ ServerOf \in [McpTool -> McpServer]

VARIABLES
  tools,      \* name -> its row: [owner, priority, target]
  servers,    \* name -> the instance mounted under it, 0 is none
  insts,      \* the instances ever spawned: [child, writer, unsent, tools]
  pending,    \* instance -> the tasks that wait for its reply
  task,       \* task -> [at, on, inst]
  unmounting, \* the server an mcp.unmount has taken out, its rows still there
  strays,     \* rows of an instance that another was mounted over
  node,       \* is the wire to the node open?
  tworld

toolVars == <<tools, servers, insts, pending, task, unmounting, strays, node, tworld>>

ToolName == McpTool \cup {"bash"}
ToolsOf(s) == {n \in McpTool : ServerOf[n] = s}
NoRow == [owner |-> "none", priority |-> 0, target |-> "none"]
Row(o, p, t) == [owner |-> o, priority |-> p, target |-> t]
Resting == [at |-> "no", on |-> "none", inst |-> 0]
NoUnmount == [name |-> "none", inst |-> 0]

\* builtins(): the tools every harness starts with.
Builtins(name) == IF name = "bash" THEN Row("harness", 0, "svc") ELSE NoRow

ToolInit ==
  /\ tools = [n \in ToolName |-> Builtins(n)]
  /\ servers = [s \in McpServer |-> 0] /\ insts = <<>> /\ pending = <<>>
  /\ task = [t \in ToolCall \cup McpMount |-> Resting]
  /\ unmounting = NoUnmount /\ strays = {} /\ node = TRUE /\ tworld \in ToolWorlds

At(t, at) == node /\ task[t].at = at
Go(t, at) == [task EXCEPT ![t].at = at]

\* register(): an owner may replace its own row; another needs a higher priority.
Yields(old, row) == old = NoRow \/ old.owner = row.owner \/ old.priority < row.priority
RowsWith(names, row) ==
  [n \in ToolName |-> IF n \in names /\ Yields(tools[n], row) THEN row ELSE tools[n]]
RowsWithout(names) == [n \in ToolName |-> IF n \in names THEN NoRow ELSE tools[n]]

\* tools.register and tools.unregister of a plugin.
RivalRegisters(name, priority) ==
  /\ node /\ tworld.rivals > 0 /\ tworld' = [tworld EXCEPT !.rivals = @ - 1]
  /\ tools' = RowsWith({name}, Row("plugin", priority, "svc"))
  /\ UNCHANGED <<servers, insts, pending, task, unmounting, strays, node>>
RivalUnregisters(name) ==
  /\ node /\ tworld.rivals > 0 /\ tworld' = [tworld EXCEPT !.rivals = @ - 1]
  /\ tools' = RowsWithout({name})
  /\ UNCHANGED <<servers, insts, pending, task, unmounting, strays, node>>

---------------------------------------------------------------------------
(* Server::request(): wait, then hand the frame to the writer.             *)

\* The writer has gone: an error at once, and the wait is left behind.
Request(t, i, at) ==
  /\ insts[i].writer
  /\ insts' = [insts EXCEPT ![i].unsent = @ \cup {t}]
  /\ pending' = [pending EXCEPT ![i] = @ \cup {t}]
  /\ task' = [task EXCEPT ![t].at = at, ![t].inst = i]
RequestGone(t, i, at) ==
  /\ ~insts[i].writer
  /\ pending' = [pending EXCEPT ![i] = @ \cup {t}]
  /\ task' = Go(t, at) /\ UNCHANGED insts

\* The writer task: a frame goes out, or the pipe is broken and it ends.
WriterStep(i) ==
  /\ node /\ insts[i].writer /\ insts[i].unsent # {}
  /\ insts' = [insts EXCEPT ![i] = IF @.child THEN [@ EXCEPT !.unsent = {}]
                                   ELSE [@ EXCEPT !.writer = FALSE]]
  /\ UNCHANGED <<tools, servers, pending, task, unmounting, strays, node, tworld>>

\* What a task does with the reply, a result or an error.
AfterReply(t, ok) ==
  IF t \in ToolCall THEN "post"
  ELSE CASE ~ok -> "done"
         [] ok /\ task[t].at = "initialize" -> "initialized"
         [] OTHER -> "listed"

\* The reader task: the reply goes to the task that waits.  tools/list may name
\* others than an earlier process under that name did.
Reply(t, ok) ==
  LET i == task[t].inst IN
  /\ node /\ i > 0 /\ t \in pending[i] /\ task[t].at \in {"initialize", "list", "mcp"}
  /\ insts[i].child /\ t \notin insts[i].unsent
  /\ pending' = [pending EXCEPT ![i] = @ \ {t}]
  /\ task' = Go(t, AfterReply(t, ok))
  /\ IF ok /\ task[t].at = "list"
     THEN \E listed \in SUBSET ToolsOf(task[t].on) : insts' = [insts EXCEPT ![i].tools = listed]
     ELSE UNCHANGED insts
  /\ UNCHANGED <<tools, servers, unmounting, strays, node, tworld>>

ServerDies(i) ==
  /\ node /\ insts[i].child /\ tworld.deaths > 0 /\ tworld' = [tworld EXCEPT !.deaths = @ - 1]
  /\ insts' = [insts EXCEPT ![i].child = FALSE]
  /\ UNCHANGED <<tools, servers, pending, task, unmounting, strays, node>>

---------------------------------------------------------------------------
(* mcp.mount and mcp.unmount.                                              *)

\* mount(): the name is free; a child is spawned and greeted.
MountBegin(t, s) ==
  /\ At(t, "no") /\ servers[s] = 0
  /\ insts' = Append(insts, [child |-> TRUE, writer |-> TRUE, unsent |-> {t}, tools |-> {}])
  /\ pending' = Append(pending, {t})
  /\ task' = [task EXCEPT ![t] = [at |-> "initialize", on |-> s, inst |-> Len(insts) + 1]]
  /\ UNCHANGED <<tools, servers, unmounting, strays, node, tworld>>

MountList(t) ==
  /\ At(t, "initialized")
  /\ Request(t, task[t].inst, "list") \/ RequestGone(t, task[t].inst, "done")
  /\ UNCHANGED <<tools, servers, unmounting, strays, node, tworld>>

\* Its tools, ...
MountRegister(t) ==
  LET listed == insts[task[t].inst].tools IN
  /\ At(t, "listed")
  /\ tools' = RowsWith(listed, Row(task[t].on, 0, "mcp")) /\ strays' = strays \ listed
  /\ task' = Go(t, "registered")
  /\ UNCHANGED <<servers, insts, pending, unmounting, node, tworld>>

\* Mutant: a server mounted meanwhile is not replaced.
MountInsertFirst(t) ==
  LET old == servers[task[t].on] IN
  /\ At(t, "registered")
  /\ servers' = [servers EXCEPT ![task[t].on] = IF old = 0 THEN task[t].inst ELSE old]
  /\ task' = Go(t, "done")
  /\ strays' = IF old = 0 THEN strays ELSE strays \cup (insts[old].tools \ insts[task[t].inst].tools)
  /\ UNCHANGED <<tools, insts, pending, unmounting, node, tworld>>

\* ... then the server itself, over one mounted meanwhile: of that one's rows those
\* stay that are not its own, and no unmount knows of them.
MountInsert(t) ==
  LET old == servers[task[t].on] IN
  /\ At(t, "registered")
  /\ servers' = [servers EXCEPT ![task[t].on] = task[t].inst] /\ task' = Go(t, "done")
  /\ strays' = IF old = 0 THEN strays ELSE strays \cup (insts[old].tools \ insts[task[t].inst].tools)
  /\ UNCHANGED <<tools, insts, pending, unmounting, node, tworld>>

\* unmount(): out of the map, ...
UnmountTake(s) ==
  /\ node /\ unmounting = NoUnmount /\ servers[s] > 0
  /\ tworld.unmounts > 0 /\ tworld' = [tworld EXCEPT !.unmounts = @ - 1]
  /\ unmounting' = [name |-> s, inst |-> servers[s]] /\ servers' = [servers EXCEPT ![s] = 0]
  /\ UNCHANGED <<tools, insts, pending, task, strays, node>>

\* ... the rows it listed, whoever has them now, and the child.
UnmountRows ==
  /\ node /\ unmounting # NoUnmount /\ unmounting' = NoUnmount
  /\ tools' = RowsWithout(insts[unmounting.inst].tools)
  /\ insts' = [insts EXCEPT ![unmounting.inst].child = FALSE]
  /\ UNCHANGED <<servers, pending, task, strays, node, tworld>>

---------------------------------------------------------------------------
(* execute()                                                               *)

\* The row is looked up once, at the start.
ExecuteBegin(t, name) ==
  /\ At(t, "no")
  /\ task' = [task EXCEPT ![t] =
       [at |-> IF tools[name] = NoRow THEN "done" ELSE IF name \in gated_tools THEN "gate" ELSE "pre",
        on |-> IF tools[name].target = "mcp" THEN ServerOf[name] ELSE "svc", inst |-> 0]]
  /\ UNCHANGED <<tools, servers, insts, pending, unmounting, strays, node, tworld>>

\* The human, or the gate's own timeout, then the pre-execute waterfall.
Judged(t, ok) ==
  /\ At(t, "gate") \/ At(t, "pre")
  /\ task' = Go(t, IF ~ok THEN "done" ELSE IF task[t].at = "gate" THEN "pre" ELSE "run")
  /\ UNCHANGED <<tools, servers, insts, pending, unmounting, strays, node, tworld>>

\* McpManager::call(): to the server that has the name now.
CallMcp(t, i) ==
  IF i = 0 THEN task' = Go(t, "post") /\ UNCHANGED <<insts, pending>>
  ELSE Request(t, i, "mcp") \/ RequestGone(t, i, "post")

\* To the service, or to the MCP servers.
Run(t) ==
  /\ At(t, "run")
  /\ IF task[t].on = "svc" THEN task' = Go(t, "svc") /\ UNCHANGED <<insts, pending>>
     ELSE CallMcp(t, servers[task[t].on])
  /\ UNCHANGED <<tools, servers, unmounting, strays, node, tworld>>

\* The node answers: the service, then the post-execute waterfall.
NodeAnswers(t) ==
  /\ At(t, "svc") \/ At(t, "post")
  /\ task' = Go(t, IF task[t].at = "svc" THEN "post" ELSE "done")
  /\ UNCHANGED <<tools, servers, insts, pending, unmounting, strays, node, tworld>>

\* fail_all(): the wire closes, whoever waits hears it, and the harness ends.
WireCloses ==
  /\ node /\ node' = FALSE
  /\ task' = [t \in DOMAIN task |-> [task[t] EXCEPT !.at = "done"]]
  /\ UNCHANGED <<tools, servers, insts, pending, unmounting, strays, tworld>>

OwnStep(t) ==
  \/ MountList(t) \/ MountRegister(t) \/ MountInsert(t) \/ Run(t) \/ NodeAnswers(t)
  \/ \E ok \in BOOLEAN : Judged(t, ok)
TaskStep(t) == OwnStep(t) \/ \E ok \in BOOLEAN : Reply(t, ok)
PipeStep == (\E i \in 1 .. Len(insts) : WriterStep(i)) \/ UnmountRows

ToolNext ==
  \/ \E n \in ToolName : (\E p \in 0 .. 1 : RivalRegisters(n, p)) \/ RivalUnregisters(n)
  \/ \E t \in McpMount, s \in McpServer : MountBegin(t, s)
  \/ \E t \in ToolCall, n \in ToolName : ExecuteBegin(t, n)
  \/ (\E t \in ToolCall \cup McpMount : TaskStep(t)) \/ PipeStep
  \/ (\E i \in 1 .. Len(insts) : ServerDies(i)) \/ (\E s \in McpServer : UnmountTake(s))
  \/ WireCloses

ToolSpec == ToolInit /\ [][ToolNext]_toolVars

\* Tasks run, the node and the gate answer, which have time limits of their own.
\* A server owes nothing: request() waits for it without one.
ToolFairness ==
  /\ \A t \in ToolCall \cup McpMount : WF_toolVars(focus = "tools" /\ OwnStep(t))
  /\ WF_toolVars(focus = "tools" /\ PipeStep)

---------------------------------------------------------------------------
(* Properties.                                                             *)

\* Who offers a bridged tool: the server mounted under its name, one being mounted
\* or unmounted right now.
Offers(n, i) == i > 0 /\ n \in insts[i].tools
Offered(n) ==
  \/ Offers(n, servers[ServerOf[n]])
  \/ unmounting.name = ServerOf[n] /\ Offers(n, unmounting.inst)
  \/ \E t \in McpMount :
       task[t].on = ServerOf[n] /\ task[t].at = "registered" /\ Offers(n, task[t].inst)

\* A bridged tool in the catalog leads to a server that offers it, however mounts and
\* unmounts of one name overlap and whatever each process under that name lists:
\* mount() and unmount() leave the model no tool that cannot work.  The exception is
\* the case mount() does not see: two mounts of one name that both found it free, where
\* the rows only the first one listed outlive it (mcp.rs:66 and 119-122).
NoDanglingTools ==
  node => \A n \in McpTool : tools[n].target = "mcp" => Offered(n) \/ n \in strays

\* A tool call comes to an end, and with it the turn that made it, unless it waits for
\* the reply of an MCP server: execute() has an answer for every other way a call
\* can go wrong.
WaitsForServer(t) == task[t].at = "mcp"
ToolCallsEnd ==
  <>[](\A t \in ToolCall : task[t].at \in {"no", "done"} \/ WaitsForServer(t))

=============================================================================
