------------------------- MODULE EnvironmentProofs --------------------------
(***************************************************************************)
(* Proofs about what runs in and for an environment: the tool registry and *)
(* the agent loop of its harness, the terminals of its worker, the         *)
(* snapshots of its workspace at base, and the wire of a plugin that runs  *)
(* outside its kernel.  The five share no state; each has an inductive     *)
(* invariant of its own.                                                   *)
(***************************************************************************)
EXTENDS ToolBus, AgentLoop, Terminals, Snapshots, KernelWire,
        SequenceTheorems, FiniteSetTheorems, WellFoundedInduction, TLAPS

-----------------------------------------------------------------------------
(***************************************************************************)
(* The tool registry.  A row that leads to a server is written by a mount, *)
(* after its process has listed its tools, and taken by an unmount, which  *)
(* forgets the process first; the invariant ties the two tables together   *)
(* through the tasks that are between those steps, each with a process of  *)
(* its own.                                                                *)
(***************************************************************************)

\* How far a mount, and how far a call of a tool, can be.
MountAt == {"initialize", "initialized", "list", "listed", "registered"}
CallAt == {"gate", "pre", "run", "mcp", "svc", "post"}
\* The tasks of the harness: calls of tools and mounts of servers.
ToolTask == ToolCall \cup McpMount
\* A server process that was started, a row of the registry, a task.
Instance == [child : BOOLEAN, writer : BOOLEAN, unsent : SUBSET ToolTask, tools : SUBSET McpTool]

ToolRow == [owner : McpServer \cup {"none", "harness", "plugin"}, priority : Nat,
            target : {"none", "svc", "mcp"}]
TaskRow == [at : MountAt \cup CallAt \cup {"no", "done"}, on : McpServer \cup {"none", "svc"},
            inst : Nat]

\* The tables and the tasks; a server and a task name a process that was started.
ToolTypes ==
  /\ tools \in [ToolName -> ToolRow]
  /\ insts \in Seq(Instance) /\ pending \in Seq(SUBSET ToolTask) /\ Len(pending) = Len(insts)
  /\ servers \in [McpServer -> 0 .. Len(insts)]
  /\ task \in [ToolTask -> [at : MountAt \cup CallAt \cup {"no", "done"},
                            on : McpServer \cup {"none", "svc"}, inst : 0 .. Len(insts)]]
  /\ node \in BOOLEAN

\* What a task has done says what kind of task it is, and which server is its own.
TasksAreTheirs ==
  \A t \in ToolTask :
    /\ task[t].at \in MountAt => t \in McpMount /\ task[t].on \in McpServer /\ task[t].inst > 0
    /\ task[t].at \in CallAt => t \in ToolCall /\ task[t].on \in McpServer \cup {"svc"}

\* The server of an unmount is one that ran.
UnmountIsReal == unmounting # NoUnmount => unmounting.name \in McpServer
                 /\ unmounting.inst \in 1 .. Len(insts)

\* Only a bridged tool leads to a server.
BridgedRows == \A n \in ToolName : tools[n].target = "mcp" => n \in McpTool

\* The process of a mount under way is nobody else's, and what it lists is its server's.
MountsAreOwn ==
  \A t \in McpMount : task[t].at \in MountAt =>
    /\ \A s \in McpServer : servers[s] # task[t].inst
    /\ unmounting.inst # task[t].inst
    /\ \A u \in McpMount : u # t /\ task[u].at \in MountAt => task[u].inst # task[t].inst
    /\ insts[task[t].inst].tools \subseteq ToolsOf(task[t].on)

\* The inductive invariant of the tool registry.
ToolInv ==
  /\ ToolTypes /\ BridgedRows /\ TasksAreTheirs /\ UnmountIsReal /\ MountsAreOwn
  /\ NoDanglingTools

\* A harness starts with its own tools and no server.
LEMMA ToolStart == ToolInit => ToolInv
<1> SUFFICES ASSUME ToolInit PROVE ToolInv  OBVIOUS
<1> USE DEF ToolInit
<1>1. tools \in [ToolName -> ToolRow]
  BY DEF ToolName, Builtins, Row, NoRow, ToolRow
<1>a. insts \in Seq(Instance) /\ pending \in Seq(SUBSET ToolTask) /\ Len(pending) = Len(insts)
  OBVIOUS
<1>b. servers \in [McpServer -> 0 .. Len(insts)]  OBVIOUS
<1>c. task \in [ToolTask -> [at : MountAt \cup CallAt \cup {"no", "done"},
                            on : McpServer \cup {"none", "svc"}, inst : 0 .. Len(insts)]]
  BY DEF ToolTask, Resting, MountAt, CallAt
<1>2. ToolTypes  BY <1>1, <1>a, <1>b, <1>c DEF ToolTypes
<1>3. TasksAreTheirs /\ UnmountIsReal /\ MountsAreOwn
  BY DEF TasksAreTheirs, UnmountIsReal, MountsAreOwn, Resting, MountAt, CallAt, ToolTask
<1>4. NoDanglingTools /\ BridgedRows
  BY ServerNames DEF NoDanglingTools, BridgedRows, Builtins, Row, NoRow, ToolName
<1>5. QED  BY <1>2, <1>3, <1>4 DEF ToolInv

\* register() changes at most the rows of the names it is given.
LEMMA RowsWithRow ==
  ASSUME ToolTypes, NEW S, NEW r \in ToolRow
  PROVE  /\ RowsWith(S, r) \in [ToolName -> ToolRow]
         /\ \A m \in ToolName : \/ RowsWith(S, r)[m] = tools[m]
                                \/ m \in S /\ RowsWith(S, r)[m] = r
  BY DEF RowsWith, ToolTypes

\* unregister() takes rows out.
LEMMA RowsWithoutRow ==
  ASSUME ToolTypes, NEW S
  PROVE  /\ RowsWithout(S) \in [ToolName -> ToolRow]
         /\ \A m \in ToolName : RowsWithout(S)[m] = IF m \in S THEN NoRow ELSE tools[m]
  BY DEF RowsWithout, NoRow, ToolTypes, ToolRow

\* A plugin that registers or takes back a name leads nowhere: its rows are no server's.
LEMMA RivalKeeps ==
  ASSUME ToolInv, NEW n \in ToolName, NEW q \in 0 .. 1,
         RivalRegisters(n, q) \/ RivalUnregisters(n)
  PROVE  ToolInv'
<1> USE DEF ToolInv
<1>1. /\ tools' \in [ToolName -> ToolRow]
      /\ \A m \in ToolName : tools'[m] = tools[m] \/ tools'[m].target # "mcp"
  <2>1. CASE RivalRegisters(n, q)
    <3>1. q \in Nat /\ tools' = RowsWith({n}, Row("plugin", q, "svc"))  BY <2>1 DEF RivalRegisters
    <3>2. PICK r : r = Row("plugin", q, "svc")  OBVIOUS
    <3>3. r \in ToolRow /\ r.target = "svc"  BY <3>1, <3>2 DEF Row, ToolRow
    <3>4. QED  BY <3>1, <3>2, <3>3, RowsWithRow
  <2>2. CASE RivalUnregisters(n)
    BY <2>2, RowsWithoutRow DEF RivalUnregisters, NoRow
  <2>3. QED  BY <2>1, <2>2
<1>2. UNCHANGED <<servers, insts, pending, task, unmounting, strays, node>>
  BY DEF RivalRegisters, RivalUnregisters
<1>3. ToolTypes'  BY <1>1, <1>2 DEF ToolTypes
<1>4. TasksAreTheirs' /\ UnmountIsReal' /\ MountsAreOwn'
  BY <1>2 DEF TasksAreTheirs, UnmountIsReal, MountsAreOwn
<1>a. \A m \in McpTool : Offered(m)' <=> Offered(m)
  BY <1>2 DEF Offered, Offers
<1>5. NoDanglingTools' /\ BridgedRows'
  BY <1>1, <1>2, <1>a DEF NoDanglingTools, BridgedRows, ToolName
<1>6. QED  BY <1>3, <1>4, <1>5

\* What a step of one task leaves of the lists of tools: all but that of the process it
\* is mounting, if it is at that.
ListsStay(t) ==
  \A j \in 1 .. Len(insts) :
    insts'[j].tools = insts[j].tools \/ (task[t].at \in MountAt /\ j = task[t].inst)

\* Such a step takes no offer back.
LEMMA OfferStays ==
  ASSUME ToolInv, NEW t \in ToolTask, task[t].at # "registered", ListsStay(t),
         \A u \in ToolTask : u # t => task'[u] = task[u],
         UNCHANGED <<servers, unmounting>>, NEW n \in McpTool, Offered(n)
  PROVE  Offered(n)'
<1> USE DEF ToolInv
<1>1. PICK s \in McpServer : s = ServerOf[n]  BY ServerNames
<1>2. Len(insts) \in Nat /\ servers[s] \in 0 .. Len(insts)  BY DEF ToolTypes
<1>3. task[t].at \in MountAt => t \in McpMount /\ task[t].inst > 0
  BY DEF TasksAreTheirs
<1>4. CASE Offers(n, servers[s])
  <2>1. PICK j : j = servers[s]  OBVIOUS
  <2>2. j \in 1 .. Len(insts) /\ n \in insts[j].tools  BY <1>2, <1>4, <2>1 DEF Offers
  <2>3. ~(task[t].at \in MountAt /\ j = task[t].inst)  BY <1>3, <2>1 DEF MountsAreOwn
  <2>4. insts'[j].tools = insts[j].tools  BY <2>2, <2>3 DEF ListsStay
  <2> QED  BY <1>1, <2>1, <2>2, <2>4, <1>2 DEF Offered, Offers
<1>5. CASE unmounting.name = s /\ Offers(n, unmounting.inst)
  <2>1. PICK j : j = unmounting.inst  OBVIOUS
  <2>2. unmounting # NoUnmount  BY <1>5, ServerNames DEF NoUnmount
  <2>3. j \in 1 .. Len(insts) /\ n \in insts[j].tools
    BY <1>5, <2>1, <2>2 DEF Offers, UnmountIsReal
  <2>4. ~(task[t].at \in MountAt /\ j = task[t].inst)  BY <1>3, <2>1 DEF MountsAreOwn
  <2>5. insts'[j].tools = insts[j].tools  BY <2>3, <2>4 DEF ListsStay
  <2> QED  BY <1>1, <1>2, <1>5, <2>1, <2>3, <2>5 DEF Offered, Offers
<1>6. ASSUME NEW u \in McpMount, task[u].on = s, task[u].at = "registered", Offers(n, task[u].inst)
      PROVE  Offered(n)'
  <2>1. PICK j : j = task[u].inst  OBVIOUS
  <2>2. u \in ToolTask /\ u # t /\ "registered" \in MountAt  BY <1>6 DEF ToolTask, MountAt
  <2>3. j \in 1 .. Len(insts) /\ n \in insts[j].tools
    BY <1>2, <1>6, <2>1, <2>2 DEF Offers, ToolTypes
  <2>4. ~(task[t].at \in MountAt /\ j = task[t].inst)
    BY <1>3, <1>6, <2>1, <2>2 DEF MountsAreOwn
  <2>5. insts'[j].tools = insts[j].tools /\ task'[u] = task[u]  BY <2>2, <2>3, <2>4 DEF ListsStay
  <2> QED  BY <1>1, <1>6, <2>1, <2>3, <2>5 DEF Offered, Offers
<1> QED  BY <1>1, <1>4, <1>5, <1>6 DEF Offered

\* A step of one task that leaves the catalog and the servers alone: of the task
\* itself only where it stands, its server and its instance change.
LEMMA TaskKeeps ==
  ASSUME ToolInv, NEW t \in ToolTask, NEW a \in MountAt \cup CallAt \cup {"no", "done"},
         NEW o \in McpServer \cup {"none", "svc"}, NEW i \in 0 .. Len(insts'),
         task' = [task EXCEPT ![t] = [at |-> a, on |-> o, inst |-> i]],
         task[t].at # "registered",
         a \in MountAt => t \in McpMount /\ o \in McpServer /\ i > 0,
         a \in CallAt => t \in ToolCall /\ o \in McpServer \cup {"svc"},
         a \in MountAt => i > Len(insts) \/ (task[t].at \in MountAt /\ i = task[t].inst),
         a \in MountAt => insts'[i].tools \subseteq ToolsOf(o), ListsStay(t),
         insts' \in Seq(Instance), pending' \in Seq(SUBSET ToolTask), Len(pending') = Len(insts'),
         Len(insts') >= Len(insts), UNCHANGED <<tools, servers, unmounting, strays, node>>
  PROVE  ToolInv'
<1> USE DEF ToolInv
<1>a. insts \in Seq(Instance)  BY DEF ToolTypes
<1>b. Len(insts) \in Nat  BY <1>a
<1>c. Len(insts') \in Nat  OBVIOUS
<1>0. Len(insts) \in Nat /\ Len(insts') \in Nat  BY <1>b, <1>c
<1>1. ToolTypes'
  <2>1. servers' \in [McpServer -> 0 .. Len(insts')]  BY <1>0 DEF ToolTypes
  <2>2. task' \in [ToolTask -> [at : MountAt \cup CallAt \cup {"no", "done"},
                            on : McpServer \cup {"none", "svc"}, inst : 0 .. Len(insts')]]
    <3>1. \A u \in ToolTask : task[u] \in [at : MountAt \cup CallAt \cup {"no", "done"},
                            on : McpServer \cup {"none", "svc"}, inst : 0 .. Len(insts')]
      BY <1>0 DEF ToolTypes
    <3>2. QED  BY <3>1 DEF ToolTypes
  <2>3. QED  BY <2>1, <2>2 DEF ToolTypes
<1>2. TasksAreTheirs'  BY DEF TasksAreTheirs, ToolTypes
<1>3. UnmountIsReal'  BY <1>0 DEF UnmountIsReal
<1>d. \A u \in ToolTask : u # t => task'[u] = task[u]  BY DEF ToolTypes
<1>e. task'[t] = [at |-> a, on |-> o, inst |-> i]  BY DEF ToolTypes
<1>4. NoDanglingTools'
  <2>1. \A n \in McpTool : Offered(n) => Offered(n)'  BY <1>d, OfferStays
  <2>2. QED  BY <2>1 DEF NoDanglingTools
<1>6. BridgedRows'  BY DEF BridgedRows
<1>7. MountsAreOwn'
  <2>1. \A u \in McpMount : u \in ToolTask  BY DEF ToolTask
  <2>2. \A s \in McpServer : servers[s] \in 0 .. Len(insts)  BY DEF ToolTypes
  <2>3. unmounting.inst \in 0 .. Len(insts)  BY <1>0 DEF UnmountIsReal, NoUnmount
  <2>4. ASSUME NEW u \in McpMount, task'[u].at \in MountAt, u # t
        PROVE  /\ \A s \in McpServer : servers'[s] # task'[u].inst
               /\ unmounting'.inst # task'[u].inst
               /\ \A v \in McpMount : v # u /\ task'[v].at \in MountAt => task'[v].inst # task'[u].inst
               /\ insts'[task'[u].inst].tools \subseteq ToolsOf(task'[u].on)
    <3>1. task'[u] = task[u] /\ u \in ToolTask  BY <1>d, <2>1, <2>4
    <3>2. task[u].inst \in 1 .. Len(insts)
      BY <1>0, <2>4, <3>1 DEF TasksAreTheirs, ToolTypes
    <3>3. task[t].at \in MountAt => t \in McpMount  BY DEF TasksAreTheirs
    <3>4. ~(task[t].at \in MountAt /\ task[u].inst = task[t].inst)
      BY <2>4, <3>1, <3>3 DEF MountsAreOwn
    <3>5. insts'[task[u].inst].tools = insts[task[u].inst].tools  BY <3>2, <3>4 DEF ListsStay
    <3>6. ASSUME NEW v \in McpMount, v # u, task'[v].at \in MountAt
          PROVE  task'[v].inst # task'[u].inst
      <4>1. CASE v = t  BY <1>0, <1>e, <3>1, <3>2, <3>4, <3>6, <4>1
      <4>2. CASE v # t  BY <1>d, <2>1, <2>4, <3>1, <3>6, <4>2 DEF MountsAreOwn
      <4> QED  BY <4>1, <4>2
    <3> QED  BY <2>4, <3>1, <3>5, <3>6 DEF MountsAreOwn
  <2>5. ASSUME t \in McpMount, a \in MountAt
        PROVE  /\ \A s \in McpServer : servers'[s] # i
               /\ unmounting'.inst # i
               /\ \A v \in McpMount : v # t /\ task'[v].at \in MountAt => task'[v].inst # i
    <3>1. CASE i > Len(insts)
      <4>1. ASSUME NEW v \in McpMount, v # t PROVE task'[v].inst # i
        <5>1. task'[v].inst \in 0 .. Len(insts)  BY <1>d, <2>1, <4>1 DEF ToolTypes
        <5> QED  BY <1>0, <3>1, <5>1
      <4> QED  BY <1>0, <2>2, <2>3, <3>1, <4>1
    <3>2. CASE task[t].at \in MountAt /\ i = task[t].inst
      BY <1>d, <2>1, <2>5, <3>2 DEF MountsAreOwn
    <3> QED  BY <2>5, <3>1, <3>2
  <2>6. QED  BY <1>e, <2>4, <2>5 DEF MountsAreOwn
<1>5. QED  BY <1>6, <1>7, <1>1, <1>2, <1>3, <1>4

\* The processes and their waiters are lists of one length.
LEMMA ToolSizes ==
  ASSUME ToolTypes
  PROVE  /\ Len(insts) \in Nat /\ insts \in Seq(Instance) /\ pending \in Seq(SUBSET ToolTask)
         /\ Len(pending) = Len(insts)
  BY DEF ToolTypes

\* The fields of a task.
LEMMA ToolFields ==
  ASSUME ToolTypes, NEW t \in ToolTask
  PROVE  /\ task[t] = [at |-> task[t].at, on |-> task[t].on, inst |-> task[t].inst]
         /\ task[t].at \in MountAt \cup CallAt \cup {"no", "done"}
         /\ task[t].on \in McpServer \cup {"none", "svc"} /\ task[t].inst \in 0 .. Len(insts)
  BY DEF ToolTypes

\* A task is a record of where it is, on which server and on which process of it.
LEMMA TasksAreRows == ToolTypes => task \in [ToolTask -> TaskRow]
<1> SUFFICES ASSUME ToolTypes PROVE task \in [ToolTask -> TaskRow]  OBVIOUS
<1>1. Len(insts) \in Nat  BY DEF ToolTypes
<1>2. 0 .. Len(insts) \subseteq Nat  BY <1>1
<1>3. QED  BY <1>2 DEF ToolTypes, TaskRow

\* A task that moves on keeps its server.
LEMMA RowMoved ==
  ASSUME NEW k \in TaskRow, NEW a, NEW i
  PROVE  /\ [k EXCEPT !.at = a] = [at |-> a, on |-> k.on, inst |-> k.inst]
         /\ [k EXCEPT !.at = a, !.inst = i] = [at |-> a, on |-> k.on, inst |-> i]
<1>1. [k EXCEPT !.at = a] = [at |-> a, on |-> k.on, inst |-> k.inst]  BY DEF TaskRow
<1>2. PICK m : m = [at |-> a, on |-> k.on, inst |-> k.inst]  OBVIOUS
<1>3. [k EXCEPT !.at = a, !.inst = i] = [m EXCEPT !.inst = i]  BY <1>1, <1>2
<1>4. [m EXCEPT !.inst = i] = [at |-> a, on |-> k.on, inst |-> i]  BY <1>2
<1>5. QED  BY <1>1, <1>3, <1>4

\* A list with one element replaced.
LEMMA SeqPut ==
  ASSUME NEW S, NEW x \in Seq(S), NEW i \in 1 .. Len(x), NEW v \in S
  PROVE  [x EXCEPT ![i] = v] \in Seq(S) /\ Len([x EXCEPT ![i] = v]) = Len(x)
  BY ExceptSeq

\* A task that waits for an instance, or that found its writer gone.
LEMMA RequestKeeps ==
  ASSUME ToolInv, NEW t \in ToolTask, NEW i \in 1 .. Len(insts), NEW a, NEW b,
         a \in {"list", "mcp"}, b \in {"done", "post"},
         task[t].at \notin {"no", "registered"},
         a = "list" => t \in McpMount, a = "mcp" => t \in ToolCall, b = "post" => t \in ToolCall,
         task[t].on \in McpServer, a = "list" => task[t].at \in MountAt /\ i = task[t].inst,
         Request(t, i, a) \/ RequestGone(t, i, b),
         UNCHANGED <<tools, servers, unmounting, strays, node>>
  PROVE  ToolInv'
<1>f. ToolTypes  BY DEF ToolInv
<1>s. /\ Len(insts) \in Nat /\ insts \in Seq(Instance) /\ pending \in Seq(SUBSET ToolTask)
      /\ Len(pending) = Len(insts)
  BY <1>f, ToolSizes
<1>g. PICK x \in Instance : x = insts[i]  BY <1>s
<1>h. PICK y \in SUBSET ToolTask : y = pending[i]  BY <1>s
<1>4. y \cup {t} \in SUBSET ToolTask  OBVIOUS
<1>5. [pending EXCEPT ![i] = y \cup {t}] \in Seq(SUBSET ToolTask)
      /\ Len([pending EXCEPT ![i] = y \cup {t}]) = Len(insts)
  BY <1>4, <1>s, SeqPut
<1>6. pending' = [pending EXCEPT ![i] = y \cup {t}]  BY <1>h, <1>s DEF Request, RequestGone
<1>t. task \in [ToolTask -> TaskRow]  BY <1>f, TasksAreRows
<1>k. PICK k \in TaskRow : k = task[t]  BY <1>t
<1>o. PICK o \in McpServer : o = task[t].on  OBVIOUS
<1>j. PICK j \in 0 .. Len(insts) : j = task[t].inst  BY <1>f, ToolFields
<1>1. CASE Request(t, i, a)
  <2>1. insts' = [insts EXCEPT ![i] = [x EXCEPT !.unsent = @ \cup {t}]]
    BY <1>1, <1>g, <1>s DEF Request
  <2>2. [x EXCEPT !.unsent = @ \cup {t}] \in Instance  BY DEF Instance
  <2>3. insts' \in Seq(Instance) /\ Len(insts') = Len(insts)  BY <2>1, <2>2, <1>s, SeqPut
  <2>5. task' = [task EXCEPT ![t] = [at |-> a, on |-> o, inst |-> i]]
    <3>1. task' = [task EXCEPT ![t] = [k EXCEPT !.at = a, !.inst = i]]
      BY <1>1, <1>k, <1>t DEF Request
    <3>2. [k EXCEPT !.at = a, !.inst = i] = [at |-> a, on |-> k.on, inst |-> i]  BY RowMoved
    <3>3. k.on = o  BY <1>o, <1>k
    <3>4. QED  BY <3>1, <3>2, <3>3
  <2>6. a \in MountAt \cup CallAt  BY DEF MountAt, CallAt
  <2>7. a \in MountAt => t \in McpMount /\ o \in McpServer /\ i > 0  BY <1>s DEF MountAt
  <2>8. a \in CallAt => t \in ToolCall /\ o \in McpServer \cup {"svc"}  BY DEF CallAt
  <2>9. i \in 0 .. Len(insts')  BY <2>3, <1>s
  <2>a. /\ pending' \in Seq(SUBSET ToolTask) /\ Len(pending') = Len(insts')
        /\ Len(insts') >= Len(insts)
    BY <2>3, <1>5, <1>6, <1>s
  <2>b. \A n \in 1 .. Len(insts) : insts'[n].tools = insts[n].tools
    BY <1>g, <1>s, <2>1 DEF Instance
  <2>c. ListsStay(t)  BY <2>b DEF ListsStay
  <2>d. a \in MountAt => a = "list"  BY DEF MountAt
  <2>e. a \in MountAt => insts'[i].tools \subseteq ToolsOf(o)
    BY <1>o, <2>b, <2>7, <2>d DEF ToolInv, MountsAreOwn
  <2>10. QED  BY <2>3, <2>5, <2>6, <2>7, <2>8, <2>9, <2>a, <2>c, <2>d, <2>e, TaskKeeps
<1>2. CASE RequestGone(t, i, b)
  <2>3. insts' \in Seq(Instance) /\ Len(insts') = Len(insts)  BY <1>2, <1>s DEF RequestGone
  <2>5. task' = [task EXCEPT ![t] = [at |-> b, on |-> o, inst |-> j]]
    <3>1. task' = [task EXCEPT ![t] = [k EXCEPT !.at = b]]
      BY <1>2, <1>k, <1>t DEF RequestGone, Go
    <3>2. QED  BY <3>1, <1>o, <1>j, <1>k, RowMoved
  <2>6. b \in CallAt \cup {"done"}  BY DEF CallAt
  <2>7. b \in MountAt => t \in McpMount /\ o \in McpServer /\ j > 0  BY DEF MountAt
  <2>8. b \in CallAt => t \in ToolCall /\ o \in McpServer \cup {"svc"}  BY DEF CallAt
  <2>9. j \in 0 .. Len(insts')  BY <2>3, <1>s
  <2>a. /\ pending' \in Seq(SUBSET ToolTask) /\ Len(pending') = Len(insts')
        /\ Len(insts') >= Len(insts)
    BY <2>3, <1>5, <1>6, <1>s
  <2>b. b \notin MountAt  BY DEF MountAt
  <2>c. ListsStay(t)  BY <1>2 DEF RequestGone, ListsStay
  <2>10. QED  BY <2>3, <2>5, <2>6, <2>7, <2>8, <2>9, <2>a, <2>b, <2>c, TaskKeeps
<1>3. QED  BY <1>1, <1>2

\* A step that only moves a task on.
LEMMA GoKeeps ==
  ASSUME ToolInv, NEW t \in ToolTask, NEW a, task' = Go(t, a),
         a \in (MountAt \cup CallAt \cup {"done"}) \ {"initialize"},
         task[t].at # "registered",
         a \in MountAt => task[t].at \in MountAt, a \in CallAt => task[t].at \in CallAt,
         insts' \in Seq(Instance), pending' \in Seq(SUBSET ToolTask),
         Len(pending') = Len(insts'), Len(insts') = Len(insts),
         ListsStay(t), insts'[task[t].inst].tools \subseteq ToolsOf(task[t].on) \/ UNCHANGED insts,
         UNCHANGED <<tools, servers, unmounting, strays, node>>
  PROVE  ToolInv'
<1>f. ToolTypes  BY DEF ToolInv
<1>s. Len(insts) \in Nat  BY <1>f, ToolSizes
<1>t. task \in [ToolTask -> TaskRow]  BY <1>f, TasksAreRows
<1>4. PICK o \in McpServer \cup {"none", "svc"} : o = task[t].on  BY <1>f, ToolFields
<1>5. PICK i \in 0 .. Len(insts) : i = task[t].inst  BY <1>f, ToolFields
<1>1. task' = [task EXCEPT ![t] = [at |-> a, on |-> o, inst |-> i]]
  <2>1. PICK k \in TaskRow : k = task[t]  BY <1>t
  <2>2. task' = [task EXCEPT ![t] = [k EXCEPT !.at = a]]  BY <2>1, <1>t DEF Go
  <2>3. QED  BY <2>2, <2>1, <1>4, <1>5, RowMoved
<1>2. a \in MountAt => t \in McpMount /\ o \in McpServer /\ i > 0
  BY <1>4, <1>5 DEF ToolInv, TasksAreTheirs
<1>3. a \in CallAt => t \in ToolCall /\ o \in McpServer \cup {"svc"}
  BY <1>4 DEF ToolInv, TasksAreTheirs
<1>6. i \in 0 .. Len(insts') /\ Len(insts') >= Len(insts)  BY <1>s
<1>8. a \in MountAt => insts'[i].tools \subseteq ToolsOf(o)
  BY <1>2, <1>4, <1>5 DEF ToolInv, MountsAreOwn
<1>7. QED  BY <1>1, <1>2, <1>3, <1>5, <1>6, <1>8, TaskKeeps

\* mount() starts a process; its row comes later, when the process has listed its tools.
LEMMA MountBeginKeeps ==
  ASSUME ToolInv, NEW t \in McpMount, NEW s \in McpServer, MountBegin(t, s)
  PROVE  ToolInv'
<1>f. ToolTypes  BY DEF ToolInv
<1>s. /\ Len(insts) \in Nat /\ insts \in Seq(Instance) /\ pending \in Seq(SUBSET ToolTask)
      /\ Len(pending) = Len(insts)
  BY <1>f, ToolSizes
<1>t. t \in ToolTask  BY DEF ToolTask
<1>a. PICK x : x = [child |-> TRUE, writer |-> TRUE, unsent |-> {t}, tools |-> {}]  OBVIOUS
<1>1. x \in Instance /\ x.tools = {}  BY <1>a, <1>t DEF Instance
<1>b. insts' = Append(insts, x)  BY <1>a DEF MountBegin
<1>2. insts' \in Seq(Instance) /\ Len(insts') = Len(insts) + 1  BY <1>1, <1>b, <1>s
<1>3. {t} \in SUBSET ToolTask  BY <1>t
<1>4. pending' \in Seq(SUBSET ToolTask) /\ Len(pending') = Len(pending) + 1
  BY <1>3, <1>s DEF MountBegin
<1>5. PICK i : i = Len(insts) + 1  OBVIOUS
<1>6. i \in 0 .. Len(insts') /\ i > 0  BY <1>2, <1>5, <1>s
<1>7. task' = [task EXCEPT ![t] = [at |-> "initialize", on |-> s, inst |-> i]]
  BY <1>5 DEF MountBegin
<1>8. task[t].at # "registered" /\ UNCHANGED <<tools, servers, unmounting, strays, node>>
  BY DEF MountBegin, At
<1>c. ListsStay(t) /\ insts'[i] = x /\ i > Len(insts)  BY <1>1, <1>5, <1>b, <1>s DEF ListsStay
<1>9. "initialize" \in MountAt /\ "initialize" \notin CallAt  BY DEF MountAt, CallAt
<1>10. Len(pending') = Len(insts') /\ Len(insts') >= Len(insts)  BY <1>2, <1>4, <1>s
<1>11. QED  BY <1>t, <1>1, <1>2, <1>4, <1>6, <1>7, <1>8, <1>9, <1>10, <1>c, TaskKeeps

\* execute() takes what the row says at that time.
LEMMA ExecuteBeginKeeps ==
  ASSUME ToolInv, NEW t \in ToolCall, NEW n \in ToolName, ExecuteBegin(t, n)
  PROVE  ToolInv'
<1>f. ToolTypes  BY DEF ToolInv
<1>s. /\ Len(insts) \in Nat /\ insts \in Seq(Instance) /\ pending \in Seq(SUBSET ToolTask)
      /\ Len(pending) = Len(insts)
  BY <1>f, ToolSizes
<1>t. t \in ToolTask  BY DEF ToolTask
<1>1. PICK a : a = IF tools[n] = NoRow THEN "done" ELSE IF n \in gated_tools THEN "gate" ELSE "pre"
  OBVIOUS
<1>2. PICK o : o = IF tools[n].target = "mcp" THEN ServerOf[n] ELSE "svc"  OBVIOUS
<1>3. a \in {"done", "gate", "pre"}  BY <1>1
<1>4. o \in McpServer \cup {"svc"}  BY <1>2, ServerNames DEF ToolInv, BridgedRows
<1>5. a \in CallAt \cup {"done"} /\ a \notin MountAt  BY <1>3 DEF CallAt, MountAt
<1>6. task' = [task EXCEPT ![t] = [at |-> a, on |-> o, inst |-> 0]]
  BY <1>1, <1>2 DEF ExecuteBegin
<1>7. /\ task[t].at # "registered"
      /\ UNCHANGED <<tools, servers, insts, pending, unmounting, strays, node>>
  BY DEF ExecuteBegin, At
<1>a. ListsStay(t)  BY <1>7 DEF ListsStay
<1>8. 0 \in 0 .. Len(insts') /\ Len(insts') >= Len(insts)  BY <1>7, <1>s
<1>9. insts' \in Seq(Instance) /\ pending' \in Seq(SUBSET ToolTask) /\ Len(pending') = Len(insts')
  BY <1>7, <1>s
<1>10. QED  BY <1>t, <1>4, <1>5, <1>6, <1>7, <1>8, <1>9, <1>a, TaskKeeps

\* Every later step of a call and of a mount; a mount writes its row while its process is known.
LEMMA TaskStepKeeps ==
  ASSUME ToolInv, NEW t \in ToolTask, TaskStep(t)
  PROVE  ToolInv'
<1>f. ToolTypes /\ TasksAreTheirs  BY DEF ToolInv
<1>s. /\ Len(insts) \in Nat /\ insts \in Seq(Instance) /\ pending \in Seq(SUBSET ToolTask)
      /\ Len(pending) = Len(insts)
  BY <1>f, ToolSizes
<1>t. task \in [ToolTask -> TaskRow]  BY <1>f, TasksAreRows
<1>i. task[t].inst \in 0 .. Len(insts)  BY <1>f, ToolFields
<1>1. CASE MountList(t)
  <2>1. task[t].at = "initialized" /\ UNCHANGED <<tools, servers, unmounting, strays, node>>
    BY <1>1 DEF MountList, At
  <2>2. t \in McpMount /\ task[t].on \in McpServer /\ task[t].inst > 0
    BY <2>1, <1>f DEF TasksAreTheirs, MountAt
  <2>3. PICK i \in 1 .. Len(insts) : i = task[t].inst  BY <2>2, <1>i, <1>s
  <2>4. Request(t, i, "list") \/ RequestGone(t, i, "done")  BY <1>1, <2>3 DEF MountList
  <2>5. task[t].at \notin {"no", "registered"}  BY <2>1
  <2>6. PICK a, b : a = "list" /\ b = "done"  OBVIOUS
  <2>7. /\ a \in {"list", "mcp"} /\ b \in {"done", "post"} /\ (a = "list" => t \in McpMount)
        /\ (a = "mcp" => t \in ToolCall) /\ (b = "post" => t \in ToolCall)
        /\ (Request(t, i, a) \/ RequestGone(t, i, b))
    BY <2>2, <2>4, <2>6
  <2>a. a = "list" => task[t].at \in MountAt /\ i = task[t].inst  BY <2>1, <2>3 DEF MountAt
  <2>8. UNCHANGED <<tools, servers, unmounting, strays, node>> /\ task[t].on \in McpServer  BY <2>1, <2>2
  <2> HIDE <1>1
  <2>9. QED  BY <2>5, <2>7, <2>8, <2>a, RequestKeeps
<1>2. CASE MountRegister(t)
  <2>9. PICK j \in 0 .. Len(insts) : j = task[t].inst  BY <1>i
  <2>c. PICK listed : listed = insts[j].tools  OBVIOUS
  <2>1. /\ task[t].at = "listed" /\ task' = Go(t, "registered")
        /\ tools' = RowsWith(listed, Row(task[t].on, 0, "mcp")) /\ strays' = strays \ listed
        /\ UNCHANGED <<servers, insts, pending, unmounting, node>>
    BY <1>2, <2>9, <2>c DEF MountRegister, At
  <2>2. t \in McpMount /\ task[t].on \in McpServer /\ task[t].inst > 0 /\ task[t].at \in MountAt
    BY <2>1, <1>f DEF TasksAreTheirs, MountAt
  <2>3. PICK o \in McpServer : o = task[t].on  BY <2>2
  <2>d. listed \subseteq ToolsOf(o)  BY <2>2, <2>3, <2>9, <2>c DEF ToolInv, MountsAreOwn
  <2>4. PICK r : r = Row(o, 0, "mcp")  OBVIOUS
  <2>5. r \in ToolRow  BY <2>4 DEF Row, ToolRow
  <2>6. /\ tools' \in [ToolName -> ToolRow]
        /\ \A m \in ToolName : tools'[m] = tools[m] \/ m \in listed
    BY <2>1, <2>3, <2>4, <2>5, <1>f, RowsWithRow
  <2>7. PICK k \in TaskRow : k = task[t]  BY <1>t
  <2>8. task' = [task EXCEPT ![t] = [k EXCEPT !.at = "registered"]]  BY <2>1, <2>7, <1>t DEF Go
  <2>10. task' = [task EXCEPT ![t] = [at |-> "registered", on |-> o, inst |-> j]]
    BY <2>3, <2>7, <2>8, <2>9, RowMoved
  <2>e. /\ task'[t] = [at |-> "registered", on |-> o, inst |-> j]
        /\ \A u \in ToolTask : u # t => task'[u] = task[u]
    BY <2>10, <1>t
  <2>a. task' \in [ToolTask -> [at : MountAt \cup CallAt \cup {"no", "done"},
                            on : McpServer \cup {"none", "svc"}, inst : 0 .. Len(insts)]]
    <3>1. "registered" \in MountAt  BY DEF MountAt
    <3>2. QED  BY <2>10, <3>1, <1>f DEF ToolTypes
  <2>11. ToolTypes'  BY <2>1, <2>6, <2>a, <1>f DEF ToolTypes
  <2>12. TasksAreTheirs'
    BY <2>2, <2>3, <2>9, <2>10, <1>f, <1>t DEF TasksAreTheirs, MountAt, CallAt
  <2>13. ASSUME NEW n \in McpTool, node', tools'[n].target = "mcp"
         PROVE  Offered(n)' \/ n \in strays'
    <3>1. CASE n \in listed
      <4>1. ServerOf[n] = o  BY <2>d, <3>1 DEF ToolsOf
      <4>2. Offers(n, j)'  BY <2>1, <2>2, <2>9, <2>c, <3>1 DEF Offers
      <4>3. task'[t].on = o /\ task'[t].at = "registered" /\ task'[t].inst = j  BY <2>e
      <4> QED  BY <2>2, <4>1, <4>2, <4>3 DEF Offered
    <3>2. CASE n \notin listed
      <4>1. tools[n].target = "mcp" /\ node  BY <2>1, <2>6, <2>13, <3>2 DEF ToolName
      <4>2. Offered(n) \/ n \in strays  BY <4>1 DEF ToolInv, NoDanglingTools
      <4>3. ListsStay(t)  BY <2>1 DEF ListsStay
      <4>4. Offered(n) => Offered(n)'  BY <2>1, <2>e, <4>3, OfferStays
      <4> QED  BY <2>1, <3>2, <4>2, <4>4
    <3> QED  BY <3>1, <3>2
  <2>14. BridgedRows' /\ UnmountIsReal'
    BY <2>1, <2>6, <2>d DEF ToolInv, BridgedRows, UnmountIsReal, ToolsOf
  <2>16. MountsAreOwn'
    <3>1. \A u \in McpMount : u \in ToolTask  BY DEF ToolTask
    <3>2. \A u \in McpMount : task'[u].inst = task[u].inst /\ task'[u].on = task[u].on
      BY <2>3, <2>9, <2>e, <3>1
    <3>3. \A u \in McpMount : task'[u].at \in MountAt => task[u].at \in MountAt
      BY <2>2, <2>e, <3>1
    <3> QED  BY <2>1, <3>2, <3>3 DEF ToolInv, MountsAreOwn
  <2>17. NoDanglingTools'  BY <2>13 DEF NoDanglingTools
  <2>15. QED  BY <2>11, <2>12, <2>14, <2>16, <2>17 DEF ToolInv
<1>3. CASE MountInsert(t)
  <2>9. PICK j \in 0 .. Len(insts) : j = task[t].inst  BY <1>i
  <2>1. /\ task[t].at = "registered" /\ task' = Go(t, "done")
        /\ servers' = [servers EXCEPT ![task[t].on] = task[t].inst]
        /\ UNCHANGED <<tools, insts, pending, unmounting, node>>
    BY <1>3 DEF MountInsert, At
  <2>2. t \in McpMount /\ task[t].on \in McpServer /\ task[t].inst > 0 /\ task[t].at \in MountAt
    BY <2>1, <1>f DEF TasksAreTheirs, MountAt
  <2>3. PICK o \in McpServer : o = task[t].on  BY <2>2
  <2>c. PICK old : old = servers[o]  OBVIOUS
  <2>d. strays' = IF old = 0 THEN strays ELSE strays \cup (insts[old].tools \ insts[j].tools)
    BY <1>3, <2>3, <2>9, <2>c DEF MountInsert
  <2>7. PICK k \in TaskRow : k = task[t]  BY <1>t
  <2>8. task' = [task EXCEPT ![t] = [k EXCEPT !.at = "done"]]  BY <2>1, <2>7, <1>t DEF Go
  <2>10. task' = [task EXCEPT ![t] = [at |-> "done", on |-> o, inst |-> j]]
    BY <2>3, <2>7, <2>8, <2>9, RowMoved
  <2>e. /\ task'[t] = [at |-> "done", on |-> o, inst |-> j]
        /\ \A u \in ToolTask : u # t => task'[u] = task[u]
    BY <2>10, <1>t
  <2>a. task' \in [ToolTask -> [at : MountAt \cup CallAt \cup {"no", "done"},
                            on : McpServer \cup {"none", "svc"}, inst : 0 .. Len(insts)]]
    BY <2>10, <1>f DEF ToolTypes
  <2>b. servers' \in [McpServer -> 0 .. Len(insts)]  BY <2>1, <2>3, <2>9, <1>f DEF ToolTypes
  <2>f. servers'[o] = j /\ \A r \in McpServer : r # o => servers'[r] = servers[r]
    BY <2>1, <2>3, <2>9, <1>f DEF ToolTypes
  <2>11. ToolTypes'  BY <2>1, <2>a, <2>b, <1>f DEF ToolTypes
  <2>12. TasksAreTheirs'
    BY <2>10, <1>f, <1>t DEF TasksAreTheirs, MountAt, CallAt
  <2>13. ASSUME NEW n \in McpTool, node', tools'[n].target = "mcp"
         PROVE  Offered(n)' \/ n \in strays'
    <3>1. PICK s \in McpServer : s = ServerOf[n]  BY ServerNames
    <3>2. Offered(n) \/ n \in strays  BY <2>1, <2>13 DEF ToolInv, NoDanglingTools
    <3>3. CASE n \in strays  BY <2>d, <3>3
    <3>4. CASE Offers(n, servers[s])
      <4>1. CASE s # o  BY <2>1, <2>f, <3>1, <3>4, <4>1 DEF Offered, Offers
      <4>2. CASE s = o
        <5>1. old > 0 /\ n \in insts[old].tools  BY <2>c, <3>4, <4>2 DEF Offers
        <5>2. CASE n \in insts[j].tools
          BY <2>1, <2>2, <2>9, <2>f, <3>1, <4>2, <5>2 DEF Offered, Offers
        <5>3. CASE n \notin insts[j].tools  BY <2>d, <5>1, <5>3
        <5> QED  BY <5>2, <5>3
      <4> QED  BY <4>1, <4>2
    <3>5. CASE unmounting.name = s /\ Offers(n, unmounting.inst)
      BY <2>1, <3>1, <3>5 DEF Offered, Offers
    <3>6. ASSUME NEW u \in McpMount, task[u].on = s, task[u].at = "registered",
                 Offers(n, task[u].inst)
          PROVE  Offered(n)'
      <4>1. CASE u = t
        BY <2>1, <2>3, <2>9, <2>f, <3>1, <3>6, <4>1 DEF Offered, Offers
      <4>2. CASE u # t
        <5>1. task'[u] = task[u]  BY <2>e, <3>6, <4>2 DEF ToolTask
        <5> QED  BY <2>1, <3>1, <3>6, <5>1 DEF Offered, Offers
      <4> QED  BY <4>1, <4>2
    <3> QED  BY <3>1, <3>2, <3>3, <3>4, <3>5, <3>6 DEF Offered
  <2>14. BridgedRows' /\ UnmountIsReal'
    BY <2>1 DEF ToolInv, BridgedRows, UnmountIsReal
  <2>16. MountsAreOwn'
    <3>1. \A u \in McpMount : u \in ToolTask  BY DEF ToolTask
    <3>2. "done" \notin MountAt  BY DEF MountAt
    <3>3. \A u \in McpMount : task'[u].at \in MountAt => u # t /\ task'[u] = task[u]
      BY <2>e, <3>1, <3>2
    <3>4. \A u \in McpMount : task'[u].at \in MountAt => task[u].inst # j
      BY <2>2, <2>9, <3>3 DEF ToolInv, MountsAreOwn
    <3>5. ASSUME NEW u \in McpMount, task'[u].at \in MountAt
          PROVE  /\ \A r \in McpServer : servers'[r] # task'[u].inst
                 /\ unmounting'.inst # task'[u].inst
                 /\ insts'[task'[u].inst].tools \subseteq ToolsOf(task'[u].on)
      BY <2>1, <2>f, <3>3, <3>4, <3>5 DEF ToolInv, MountsAreOwn
    <3>6. ASSUME NEW u \in McpMount, task'[u].at \in MountAt,
                 NEW v \in McpMount, v # u, task'[v].at \in MountAt
          PROVE  task'[v].inst # task'[u].inst
      BY <3>3, <3>6 DEF ToolInv, MountsAreOwn
    <3> QED  BY <3>5, <3>6 DEF MountsAreOwn
  <2>17. NoDanglingTools'  BY <2>13 DEF NoDanglingTools
  <2>15. QED  BY <2>11, <2>12, <2>14, <2>16, <2>17 DEF ToolInv
<1>4. CASE Run(t)
  <2>1. task[t].at = "run" /\ UNCHANGED <<tools, servers, unmounting, strays, node>>
    BY <1>4 DEF Run, At
  <2>2. t \in ToolCall /\ task[t].on \in McpServer \cup {"svc"}
    BY <2>1, <1>f DEF TasksAreTheirs, CallAt
  <2>3. CASE task[t].on = "svc"
    <3>1. task' = Go(t, "svc") /\ UNCHANGED <<insts, pending>>  BY <1>4, <2>3 DEF Run
    <3>2. "svc" \in CallAt /\ "run" \in CallAt /\ "svc" \notin MountAt  BY DEF CallAt, MountAt
    <3>3. insts' \in Seq(Instance) /\ pending' \in Seq(SUBSET ToolTask)
          /\ Len(pending') = Len(insts') /\ Len(insts') = Len(insts)
      BY <3>1, <1>s
    <3>5. ListsStay(t)  BY <3>1 DEF ListsStay
    <3>4. QED  BY <2>1, <3>1, <3>2, <3>3, <3>5, GoKeeps
  <2>4. CASE task[t].on # "svc"
    <3>1. task[t].on \in McpServer  BY <2>2, <2>4
    <3>2. PICK i \in 0 .. Len(insts) : i = servers[task[t].on]  BY <3>1, <1>f DEF ToolTypes
    <3>3. CallMcp(t, i)  BY <1>4, <2>4, <3>2 DEF Run
    <3>4. CASE i = 0
      <4>1. task' = Go(t, "post") /\ UNCHANGED <<insts, pending>>  BY <3>3, <3>4 DEF CallMcp
      <4>2. "post" \in CallAt /\ "run" \in CallAt /\ "post" \notin MountAt  BY DEF CallAt, MountAt
      <4>3. insts' \in Seq(Instance) /\ pending' \in Seq(SUBSET ToolTask)
            /\ Len(pending') = Len(insts') /\ Len(insts') = Len(insts)
        BY <4>1, <1>s
      <4>5. ListsStay(t)  BY <4>1 DEF ListsStay
      <4>4. QED  BY <2>1, <4>1, <4>2, <4>3, <4>5, GoKeeps
    <3>5. CASE i # 0
      <4>1. Request(t, i, "mcp") \/ RequestGone(t, i, "post")  BY <3>3, <3>5 DEF CallMcp
      <4>2. i \in 1 .. Len(insts)  BY <3>5, <1>s
      <4>3. QED  BY <2>1, <2>2, <3>1, <4>1, <4>2, RequestKeeps
    <3>6. QED  BY <3>4, <3>5
  <2>5. QED  BY <2>3, <2>4
<1>5. CASE NodeAnswers(t)
  <2>1. /\ task[t].at \in {"svc", "post"}
           /\ UNCHANGED <<tools, servers, insts, pending, unmounting, strays, node>>
        /\ task' = Go(t, IF task[t].at = "svc" THEN "post" ELSE "done")
    BY <1>5 DEF NodeAnswers, At
  <2>2. PICK a : a = IF task[t].at = "svc" THEN "post" ELSE "done"  OBVIOUS
  <2>3. a \in {"post", "done"}  BY <2>2
  <2>4. a \in CallAt \cup {"done"} /\ a \notin MountAt /\ task[t].at \in CallAt
    BY <2>1, <2>3 DEF CallAt, MountAt
  <2>5. task[t].at # "registered" /\ a # "initialize"  BY <2>1, <2>3
  <2>7. ListsStay(t)  BY <2>1 DEF ListsStay
  <2>6. QED  BY <2>1, <2>2, <2>4, <2>5, <2>7, <1>s, GoKeeps
<1>6. ASSUME NEW ok \in BOOLEAN, Judged(t, ok) PROVE ToolInv'
  <2>1. /\ task[t].at \in {"gate", "pre"}
           /\ UNCHANGED <<tools, servers, insts, pending, unmounting, strays, node>>
        /\ task' = Go(t, IF ~ok THEN "done" ELSE IF task[t].at = "gate" THEN "pre" ELSE "run")
    BY <1>6 DEF Judged, At
  <2>2. PICK a : a = IF ~ok THEN "done" ELSE IF task[t].at = "gate" THEN "pre" ELSE "run"  OBVIOUS
  <2>3. a \in {"pre", "run", "done"}  BY <2>2, <2>1
  <2>4. a \in CallAt \cup {"done"} /\ a \notin MountAt /\ task[t].at \in CallAt
    BY <2>1, <2>3 DEF CallAt, MountAt
  <2>5. task[t].at # "registered" /\ a # "initialize"  BY <2>1, <2>3
  <2>7. ListsStay(t)  BY <2>1 DEF ListsStay
  <2>6. QED  BY <2>1, <2>2, <2>4, <2>5, <2>7, <1>s, GoKeeps
<1>7. ASSUME NEW ok \in BOOLEAN, Reply(t, ok) PROVE ToolInv'
  <2>1. /\ task[t].at \in {"initialize", "list", "mcp"} /\ task[t].inst > 0
        /\ UNCHANGED <<tools, servers, unmounting, strays, node>>
        /\ task' = Go(t, AfterReply(t, ok))
        /\ pending' = [pending EXCEPT ![task[t].inst] = @ \ {t}]
    BY <1>7 DEF Reply
  <2>2. PICK i \in 1 .. Len(insts) : i = task[t].inst  BY <2>1, <1>i, <1>s
  <2>3. PICK y \in SUBSET ToolTask : y = pending[i]  BY <1>s
  <2>4. pending' = [pending EXCEPT ![i] = y \ {t}]  BY <2>1, <2>2, <2>3
  <2>5. y \ {t} \in SUBSET ToolTask  OBVIOUS
  <2>6. pending' \in Seq(SUBSET ToolTask) /\ Len(pending') = Len(insts)
    BY <2>4, <2>5, <1>s, SeqPut
  <2>x. PICK x \in Instance : x = insts[i]  BY <1>s
  <2>l. \/ UNCHANGED insts
        \/ /\ task[t].at = "list"
           /\ \E listed \in SUBSET ToolsOf(task[t].on) :
                insts' = [insts EXCEPT ![i] = [x EXCEPT !.tools = listed]]
    BY <1>7, <2>2, <2>x, <1>s DEF Reply
  <2>m. insts' \in Seq(Instance) /\ Len(insts') = Len(insts) /\ ListsStay(t)
        /\ (UNCHANGED insts \/ insts'[i].tools \subseteq ToolsOf(task[t].on))
    <3>1. CASE UNCHANGED insts  BY <3>1, <1>s DEF ListsStay
    <3>2. ASSUME task[t].at = "list", NEW listed \in SUBSET ToolsOf(task[t].on),
                 insts' = [insts EXCEPT ![i] = [x EXCEPT !.tools = listed]]
          PROVE  /\ insts' \in Seq(Instance) /\ Len(insts') = Len(insts) /\ ListsStay(t)
                 /\ insts'[i].tools \subseteq ToolsOf(task[t].on)
      <4>1. listed \subseteq McpTool  BY DEF ToolsOf
      <4>2. PICK z : z = [x EXCEPT !.tools = listed]  OBVIOUS
      <4>3. z \in Instance /\ z.tools = listed  BY <4>1, <4>2 DEF Instance
      <4>4. insts' \in Seq(Instance) /\ Len(insts') = Len(insts)
        BY <3>2, <4>2, <4>3, <1>s, SeqPut
      <4>5. insts'[i] = z /\ \A n \in 1 .. Len(insts) : n # i => insts'[n] = insts[n]
        BY <3>2, <4>2, <1>s
      <4>6. task[t].at \in MountAt  BY <3>2 DEF MountAt
      <4>7. ListsStay(t)  BY <2>2, <4>5, <4>6 DEF ListsStay
      <4> QED  BY <4>3, <4>4, <4>5, <4>7
    <3> QED  BY <2>l, <3>1, <3>2
  <2>7. PICK a : a = AfterReply(t, ok)  OBVIOUS
  <2>8. /\ a \in {"post", "done", "initialized", "listed"}
        /\ a = "post" => t \in ToolCall
        /\ a \in {"initialized", "listed"} => t \notin ToolCall
    BY <2>7 DEF AfterReply
  <2>9. task[t].at = "mcp" => t \in ToolCall  BY <1>f DEF TasksAreTheirs, CallAt
  <2>10. CASE t \in ToolCall
    <3>1. a = "post"  BY <2>7, <2>10 DEF AfterReply
    <3>2. PICK k \in TaskRow : k = task[t]  BY <1>t
    <3>3. task' = [task EXCEPT ![t] = [k EXCEPT !.at = "post"]]
      BY <2>1, <2>7, <3>1, <3>2, <1>t DEF Go
    <3>4. PICK o : o = task[t].on  OBVIOUS
    <3>5. task' = [task EXCEPT ![t] = [at |-> "post", on |-> o, inst |-> i]]
      BY <2>2, <3>2, <3>3, <3>4, RowMoved
    <3>6. o \in McpServer \cup {"svc"}
      BY <2>1, <3>4, <1>f DEF TasksAreTheirs, CallAt, MountAt
    <3>7. "post" \in CallAt /\ "post" \notin MountAt  BY DEF CallAt, MountAt
    <3>8. i \in 0 .. Len(insts') /\ insts' \in Seq(Instance) /\ Len(pending') = Len(insts')
          /\ Len(insts') >= Len(insts)
      BY <2>1, <2>6, <2>m, <1>s
    <3>9. task[t].at # "registered"  BY <2>1
    <3>10. QED  BY <2>1, <2>6, <2>10, <2>m, <3>5, <3>6, <3>7, <3>8, <3>9, TaskKeeps
  <2>11. CASE t \notin ToolCall
    <3>1. task[t].at \in MountAt /\ task[t].at # "registered"  BY <2>1, <2>9, <2>11 DEF MountAt
    <3>2. a \in MountAt \cup {"done"} /\ a \notin CallAt /\ a # "initialize"
      BY <2>8, <2>11 DEF MountAt, CallAt
    <3>3. insts' \in Seq(Instance) /\ Len(pending') = Len(insts') /\ Len(insts') = Len(insts)
      BY <2>1, <2>6, <2>m, <1>s
    <3>4. QED  BY <2>1, <2>2, <2>6, <2>7, <2>m, <3>1, <3>2, <3>3, GoKeeps
  <2>12. QED  BY <2>10, <2>11
<1>8. QED  BY <1>1, <1>2, <1>3, <1>4, <1>5, <1>6, <1>7 DEF TaskStep, OwnStep

\* A process dies or answers, or an unmount that waits for it takes the row away.
LEMMA PipeKeeps ==
  ASSUME ToolInv, NEW i \in 1 .. Len(insts), NEW x \in Instance, x.tools = insts[i].tools,
         insts' = [insts EXCEPT ![i] = x], UNCHANGED <<servers, pending, task, strays, node>>,
         \/ UNCHANGED <<tools, unmounting>>
         \/ /\ unmounting # NoUnmount /\ unmounting' = NoUnmount
            /\ tools' = RowsWithout(insts[unmounting.inst].tools)
  PROVE  ToolInv'
<1>f. ToolTypes /\ UnmountIsReal  BY DEF ToolInv
<1>s. /\ Len(insts) \in Nat /\ insts \in Seq(Instance)  BY <1>f, ToolSizes
<1>1. insts' \in Seq(Instance) /\ Len(insts') = Len(insts)  BY <1>s, SeqPut
<1>2. TasksAreTheirs'  BY DEF ToolInv, TasksAreTheirs
<1>t. \A j \in 1 .. Len(insts) : insts'[j].tools = insts[j].tools  BY <1>s
<1>o. \A s \in McpServer : servers[s] \in 0 .. Len(insts)  BY <1>f DEF ToolTypes
<1>u. \A t \in McpMount : task[t].inst \in 0 .. Len(insts)  BY <1>f DEF ToolTypes, ToolTask
<1>v. \A n \in McpTool, j \in 0 .. Len(insts) : Offers(n, j)' <=> Offers(n, j)
  BY <1>t, <1>s DEF Offers
<1>m. ASSUME unmounting' = unmounting \/ unmounting' = NoUnmount PROVE MountsAreOwn'
  <2>1. ASSUME NEW t \in McpMount, task[t].at \in MountAt PROVE task[t].inst \in 1 .. Len(insts)
    BY <1>u, <1>s, <2>1 DEF ToolInv, TasksAreTheirs, ToolTask
  <2>2. ASSUME NEW t \in McpMount, task[t].at \in MountAt PROVE unmounting'.inst # task[t].inst
    BY <1>m, <1>s, <2>1, <2>2 DEF ToolInv, MountsAreOwn, NoUnmount
  <2> QED  BY <1>t, <2>1, <2>2 DEF ToolInv, MountsAreOwn
<1>3. CASE UNCHANGED <<tools, unmounting>>
  <2>1. ToolTypes'  BY <1>1, <1>3, <1>f DEF ToolTypes
  <2>2. UnmountIsReal'  BY <1>1, <1>3, <1>f DEF UnmountIsReal
  <2>3. BridgedRows' /\ MountsAreOwn'  BY <1>3, <1>m DEF ToolInv, BridgedRows
  <2>5. unmounting.inst \in 0 .. Len(insts)  BY <1>f, <1>s DEF UnmountIsReal, NoUnmount
  <2>6. \A n \in McpTool : Offered(n)' <=> Offered(n)
    BY <1>3, <1>o, <1>u, <1>v, <2>5, ServerNames DEF Offered
  <2>7. NoDanglingTools'  BY <1>3, <2>6 DEF ToolInv, NoDanglingTools
  <2>4. QED  BY <2>1, <2>2, <2>3, <2>7, <1>2 DEF ToolInv
<1>4. CASE /\ unmounting # NoUnmount /\ unmounting' = NoUnmount
           /\ tools' = RowsWithout(insts[unmounting.inst].tools)
  <2>1. PICK gone : gone = insts[unmounting.inst].tools  OBVIOUS
  <2>3. tools' \in [ToolName -> ToolRow]
        /\ \A m \in ToolName : tools'[m] = IF m \in gone THEN NoRow ELSE tools[m]
    BY <1>4, <1>f, <2>1, RowsWithoutRow
  <2>4. ToolTypes'  BY <1>1, <2>3, <1>f DEF ToolTypes
  <2>5. UnmountIsReal'  BY <1>4 DEF UnmountIsReal
  <2>6. BridgedRows' /\ MountsAreOwn'  BY <1>4, <1>m, <2>3 DEF ToolInv, BridgedRows, NoRow
  <2>7. ASSUME NEW n \in McpTool, node', tools'[n].target = "mcp"
        PROVE  Offered(n)' \/ n \in strays'
    <3>1. n \notin gone /\ tools[n].target = "mcp"  BY <2>3, <2>7 DEF ToolName, NoRow
    <3>2. ~Offers(n, unmounting.inst)  BY <2>1, <3>1 DEF Offers
    <3>3. Offered(n) \/ n \in strays  BY <2>7, <3>1 DEF ToolInv, NoDanglingTools
    <3>4. Offered(n) => Offered(n)'
      BY <1>o, <1>u, <1>v, <3>2, ServerNames DEF Offered
    <3> QED  BY <3>3, <3>4
  <2>9. NoDanglingTools'  BY <2>7 DEF NoDanglingTools
  <2>8. QED  BY <2>4, <2>5, <2>6, <2>9, <1>2 DEF ToolInv
<1>5. QED  BY <1>3, <1>4

\* unmount() forgets the process before the rows go, and says so until they are gone.
LEMMA UnmountTakeKeeps ==
  ASSUME ToolInv, NEW s \in McpServer, UnmountTake(s)
  PROVE  ToolInv'
<1> USE DEF ToolInv
<1>1. /\ servers[s] > 0 /\ unmounting = NoUnmount
      /\ unmounting' = [name |-> s, inst |-> servers[s]] /\ servers' = [servers EXCEPT ![s] = 0]
      /\ UNCHANGED <<tools, insts, pending, task, strays, node>>
  BY DEF UnmountTake
<1>2. Len(insts) \in Nat /\ servers[s] \in 0 .. Len(insts)  BY DEF ToolTypes
<1>3. servers' \in [McpServer -> 0 .. Len(insts)]  BY <1>1, <1>2 DEF ToolTypes
<1>4. ToolTypes'  BY <1>1, <1>3 DEF ToolTypes
<1>5. UnmountIsReal'  BY <1>1, <1>2 DEF UnmountIsReal
<1>6. TasksAreTheirs' /\ BridgedRows'  BY <1>1 DEF TasksAreTheirs, BridgedRows
<1>a. servers'[s] = 0 /\ \A r \in McpServer : r # s => servers'[r] = servers[r]
  BY <1>1 DEF ToolTypes
<1>7. ASSUME NEW n \in McpTool, Offered(n) PROVE Offered(n)'
  <2>1. PICK r \in McpServer : r = ServerOf[n]  BY ServerNames
  <2>2. unmounting.name # r  BY <1>1, ServerNames DEF NoUnmount
  <2>3. CASE Offers(n, servers[r])
    <3>1. CASE r = s
      <4>1. unmounting'.name = s /\ unmounting'.inst = servers[s]  BY <1>1
      <4> QED  BY <1>1, <2>1, <2>3, <3>1, <4>1 DEF Offered, Offers
    <3>2. CASE r # s  BY <1>1, <1>a, <2>1, <2>3, <3>2 DEF Offered, Offers
    <3> QED  BY <3>1, <3>2
  <2>4. ASSUME NEW u \in McpMount, task[u].on = r, task[u].at = "registered",
               Offers(n, task[u].inst)
        PROVE  Offered(n)'
    BY <1>1, <2>1, <2>4 DEF Offered, Offers
  <2> QED  BY <1>7, <2>1, <2>2, <2>3, <2>4 DEF Offered
<1>8. NoDanglingTools'  BY <1>7, <1>1 DEF NoDanglingTools
<1>b. MountsAreOwn'
  <2>1. ASSUME NEW t \in McpMount, task[t].at \in MountAt
        PROVE  task[t].inst > 0 /\ task[t].inst # servers[s]
    BY <2>1 DEF TasksAreTheirs, MountsAreOwn, ToolTask
  <2>2. ASSUME NEW t \in McpMount, task[t].at \in MountAt, NEW r \in McpServer
        PROVE  servers'[r] # task[t].inst
    BY <1>a, <2>1, <2>2 DEF MountsAreOwn
  <2>3. unmounting'.inst = servers[s]  BY <1>1
  <2> QED  BY <1>1, <2>1, <2>2, <2>3 DEF MountsAreOwn
<1>9. QED  BY <1>4, <1>5, <1>6, <1>8, <1>b

\* The node loses base: no row changes.
LEMMA WireClosesKeeps == ASSUME ToolInv, WireCloses PROVE ToolInv'
<1> USE DEF ToolInv
<1>1. /\ ~node' /\ UNCHANGED <<tools, servers, insts, pending, unmounting>>
      /\ task' = [t \in DOMAIN task |-> [task[t] EXCEPT !.at = "done"]]
  BY DEF WireCloses
<1>2. task' = [t \in ToolTask |-> [task[t] EXCEPT !.at = "done"]]  BY <1>1 DEF ToolTypes
<1>3. task' \in [ToolTask -> [at : MountAt \cup CallAt \cup {"no", "done"},
                              on : McpServer \cup {"none", "svc"}, inst : 0 .. Len(insts)]]
  BY <1>2 DEF ToolTypes
<1>4. ToolTypes'
  <2>1. node' \in BOOLEAN  BY DEF WireCloses
  <2>2. QED  BY <1>1, <1>3, <2>1 DEF ToolTypes
<1>5. \A t \in ToolTask : task'[t].at = "done"
  <2>1. task \in [ToolTask -> TaskRow]  BY TasksAreRows
  <2>2. QED  BY <1>2, <2>1 DEF TaskRow
<1>6. TasksAreTheirs' /\ MountsAreOwn'
  BY <1>5 DEF TasksAreTheirs, MountsAreOwn, MountAt, CallAt, ToolTask
<1>7. BridgedRows' /\ UnmountIsReal' /\ NoDanglingTools'
  BY <1>1 DEF BridgedRows, UnmountIsReal, NoDanglingTools
<1>8. QED  BY <1>4, <1>6, <1>7

\* ToolInv is inductive: each step of the harness keeps it.
LEMMA ToolStepKeeps == ASSUME ToolInv, [ToolNext]_toolVars PROVE ToolInv'
<1>f. ToolTypes /\ UnmountIsReal  BY DEF ToolInv
<1>s. /\ Len(insts) \in Nat /\ insts \in Seq(Instance)  BY <1>f, ToolSizes
<1>1. ASSUME NEW n \in ToolName, NEW q \in 0 .. 1, RivalRegisters(n, q) PROVE ToolInv'
  BY <1>1, RivalKeeps
<1>2. ASSUME NEW n \in ToolName, RivalUnregisters(n) PROVE ToolInv'
  <2>1. 0 \in 0 .. 1  OBVIOUS
  <2>2. QED  BY <1>2, <2>1, RivalKeeps
<1>3. ASSUME NEW t \in McpMount, NEW s \in McpServer, MountBegin(t, s) PROVE ToolInv'
  BY <1>3, MountBeginKeeps
<1>4. ASSUME NEW t \in ToolCall, NEW n \in ToolName, ExecuteBegin(t, n) PROVE ToolInv'
  BY <1>4, ExecuteBeginKeeps
<1>5. ASSUME NEW t \in ToolCall \cup McpMount, TaskStep(t) PROVE ToolInv'
  BY <1>5, TaskStepKeeps DEF ToolTask
<1>6. ASSUME NEW i \in 1 .. Len(insts), WriterStep(i) \/ ServerDies(i) PROVE ToolInv'
  <2>1. PICK y \in Instance : y = insts[i]  BY <1>s
  <2>2. \E x \in Instance : x.tools = y.tools /\ insts' = [insts EXCEPT ![i] = x]
    <3>1. CASE WriterStep(i)
      <4>1. PICK x : x = IF y.child THEN [y EXCEPT !.unsent = {}] ELSE [y EXCEPT !.writer = FALSE]
        OBVIOUS
      <4>2. x \in Instance /\ x.tools = y.tools  BY <4>1 DEF Instance
      <4>3. insts' = [insts EXCEPT ![i] = x]  BY <3>1, <4>1, <2>1, <1>s DEF WriterStep
      <4>4. QED  BY <4>2, <4>3
    <3>2. CASE ServerDies(i)
      <4>1. PICK x : x = [y EXCEPT !.child = FALSE]  OBVIOUS
      <4>2. x \in Instance /\ x.tools = y.tools  BY <4>1 DEF Instance
      <4>3. insts' = [insts EXCEPT ![i] = x]  BY <3>2, <4>1, <2>1, <1>s DEF ServerDies
      <4>4. QED  BY <4>2, <4>3
    <3>3. QED  BY <1>6, <3>1, <3>2
  <2>3. UNCHANGED <<tools, servers, pending, task, unmounting, strays, node>>
    BY <1>6 DEF WriterStep, ServerDies
  <2>4. QED  BY <2>1, <2>2, <2>3, PipeKeeps
<1>7. CASE UnmountRows
  <2>1. /\ unmounting # NoUnmount /\ unmounting' = NoUnmount
        /\ tools' = RowsWithout(insts[unmounting.inst].tools)
        /\ UNCHANGED <<servers, pending, task, strays, node>>
    BY <1>7 DEF UnmountRows
  <2>2. PICK i \in 1 .. Len(insts) : i = unmounting.inst  BY <2>1, <1>f DEF UnmountIsReal
  <2>3. PICK y \in Instance : y = insts[i]  BY <1>s
  <2>4. PICK x : x = [y EXCEPT !.child = FALSE]  OBVIOUS
  <2>5. x \in Instance /\ x.tools = y.tools  BY <2>4 DEF Instance
  <2>6. insts' = [insts EXCEPT ![i] = x]  BY <1>7, <2>2, <2>3, <2>4, <1>s DEF UnmountRows
  <2>7. QED  BY <2>1, <2>3, <2>5, <2>6, PipeKeeps
<1>8. ASSUME NEW s \in McpServer, UnmountTake(s) PROVE ToolInv'
  BY <1>8, UnmountTakeKeeps
<1>9. CASE WireCloses  BY <1>9, WireClosesKeeps
<1>10. CASE UNCHANGED toolVars
  BY <1>10 DEF toolVars, ToolInv, ToolTypes, BridgedRows, TasksAreTheirs, UnmountIsReal,
               MountsAreOwn, NoDanglingTools, Offered, Offers
<1>11. QED
  BY <1>1, <1>2, <1>3, <1>4, <1>5, <1>6, <1>7, <1>8, <1>9, <1>10 DEF ToolNext, PipeStep

\* For any tools, servers, calls and mounts, and whatever each process lists: a name in
\* the registry that leads to a server leads to one that offers it, or whose mount or
\* unmount is about to set it right, but for the rows of a server that a second mount of
\* its name replaced (mcp.rs mount and unmount, tools.rs register and unregister).
THEOREM ToolsDoNotDangle == ToolSpec => []NoDanglingTools
<1>1. ToolSpec => []ToolInv
  BY ToolStart, ToolStepKeeps, PTL DEF ToolSpec
<1>2. ToolInv => NoDanglingTools  BY DEF ToolInv
<1>3. QED  BY <1>1, <1>2, PTL

-----------------------------------------------------------------------------
(***************************************************************************)
(* The agent loop.  The pump is a lock that enqueue() takes and the pump   *)
(* itself gives back; all that is said of turns follows from there being   *)
(* one pump, and of the context from its last message owing as many tool   *)
(* results as that pump has calls left to run.                             *)
(***************************************************************************)

\* Where a pump can be; the first three are between a tool call and its result.
InCall == {"call", "tool", "result"}
PumpAt == InCall \cup {"none", "pop", "begin", "model", "answer", "stopping", "end"}
\* A pump, and a message of the context.
PumpTask == [at : PumpAt, turn : Prompt \cup {"none"}, step : Nat, try : Nat, left : Nat]
Message ==
  [role : {"user", "call", "answer", "result"}, of : Prompt \cup {"none", "continue"}, owes : Nat]

\* The context, the log, the queue and the pumps.
LoopTypes ==
  /\ messages \in Seq(Message) /\ events \in Seq(Message)
  /\ queue \in Seq(Prompt) /\ pushed \in Seq(Prompt) /\ served \in Seq(Prompt)
  /\ calls \in [Prompt -> {"no", "first", "queued", "done"}]
  /\ pump \in [Prompt -> PumpTask] /\ resume \subseteq Seq(Message)

\* The prompts that have a pump or are about to.
Pumping(p) == pump[p].at # "none" \/ calls[p] = "first"
\* There is at most one pump, and running says whether there is one.
ThePump ==
  /\ \A p, q \in Prompt : Pumping(p) /\ Pumping(q) => p = q
  /\ running <=> \E p \in Prompt : Pumping(p)

\* A pump has come from a prompt that was logged.
PumpsAreStarted == \A p \in Prompt : pump[p].at # "none" => calls[p] = "done"

\* What was taken and what is queued is what was pushed, in that order.
QueueIsKept == served \o queue = pushed

\* A pump between a call and its result has a call to run.
CallsAreLeft == \A p \in Prompt : pump[p].at \in InCall => pump[p].left > 0

\* A context in which every call is followed by its results, and one that owes some.
WellFormed(m) ==
  \A i \in 1 .. Len(m) :
    /\ m[i].role = "result" =>
         i > 1 /\ m[i - 1].owes = m[i].owes + 1 /\ m[i - 1].of = m[i].of
    /\ m[i].owes > 0 /\ i < Len(m) => m[i + 1].role = "result"
LastOwes(m) == m # <<>> /\ m[Len(m)].owes > 0

\* The last message of the context owes results exactly while a pump runs calls: as many as
\* that pump has left, and of its turn.
CallIsOpen ==
  ~replayed =>
    /\ \A p \in Prompt : pump[p].at \in InCall =>
         /\ messages # <<>> /\ messages[Len(messages)].owes = pump[p].left
         /\ messages[Len(messages)].of = pump[p].turn
    /\ LastOwes(messages) => \E p \in Prompt : pump[p].at \in InCall

\* The inductive invariant of the agent loop.
LoopInv ==
  LoopTypes /\ running \in BOOLEAN /\ ThePump /\ PumpsAreStarted /\ QueueIsKept /\ CallsAreLeft
  /\ CallIsOpen /\ ContextIsWellFormed

\* A message that is no result may follow one that owes none.
LEMMA AppendPlain ==
  ASSUME NEW m \in Seq(Message), NEW x \in Message, WellFormed(m), ~LastOwes(m), x.role # "result"
  PROVE  /\ Append(m, x) \in Seq(Message) /\ WellFormed(Append(m, x))
         /\ Append(m, x) # <<>> /\ Append(m, x)[Len(Append(m, x))] = x
<1>1. PICK n : n = Append(m, x)  OBVIOUS
<1>2. /\ n \in Seq(Message) /\ Len(n) = Len(m) + 1 /\ n[Len(m) + 1] = x /\ Len(m) \in Nat
      /\ \A i \in 1 .. Len(m) : n[i] = m[i]
  BY <1>1
<1>3. n # <<>>  BY <1>2
<1>4. ASSUME NEW i \in 1 .. Len(n)
      PROVE  /\ n[i].role = "result" =>
                  i > 1 /\ n[i - 1].owes = n[i].owes + 1 /\ n[i - 1].of = n[i].of
             /\ n[i].owes > 0 /\ i < Len(n) => n[i + 1].role = "result"
  <2>1. CASE i = Len(m) + 1  BY <2>1, <1>2
  <2>2. CASE i \in 1 .. Len(m)
    <3>1. n[i] = m[i]  BY <1>2, <2>2
    <3>2. ASSUME n[i].role = "result"
          PROVE  i > 1 /\ n[i - 1].owes = n[i].owes + 1 /\ n[i - 1].of = n[i].of
      <4>1. i > 1 /\ m[i - 1].owes = m[i].owes + 1 /\ m[i - 1].of = m[i].of
        BY <2>2, <3>1, <3>2 DEF WellFormed
      <4>2. i - 1 \in 1 .. Len(m)  BY <4>1, <2>2, <1>2
      <4>3. QED  BY <4>1, <4>2, <3>1, <1>2
    <3>3. ASSUME n[i].owes > 0 PROVE n[i + 1].role = "result"
      <4>1. m # <<>>  BY <2>2, <1>2
      <4>2. i # Len(m)  BY <4>1, <3>1, <3>3 DEF LastOwes
      <4>3. i < Len(m) /\ i + 1 \in 1 .. Len(m)  BY <4>2, <2>2, <1>2
      <4>4. m[i + 1].role = "result"  BY <4>3, <3>1, <3>3, <2>2 DEF WellFormed
      <4>5. QED  BY <4>3, <4>4, <1>2
    <3>4. QED  BY <3>2, <3>3
  <2>3. QED  BY <2>1, <2>2, <1>2
<1>5. WellFormed(n)  BY <1>4 DEF WellFormed
<1>6. QED  BY <1>1, <1>2, <1>3, <1>5

\* A result that is owed may follow the message that owes it.
LEMMA AppendResult ==
  ASSUME NEW m \in Seq(Message), NEW x \in Message, WellFormed(m), m # <<>>, x.role = "result",
         m[Len(m)].owes = x.owes + 1, m[Len(m)].of = x.of
  PROVE  /\ Append(m, x) \in Seq(Message) /\ WellFormed(Append(m, x))
         /\ Append(m, x) # <<>> /\ Append(m, x)[Len(Append(m, x))] = x
<1>b. PICK n : n = Append(m, x)  OBVIOUS
<1>2. /\ n \in Seq(Message) /\ Len(n) = Len(m) + 1 /\ n[Len(m) + 1] = x /\ Len(m) \in Nat
      /\ \A i \in 1 .. Len(m) : n[i] = m[i]
  BY <1>b
<1>3. Len(m) > 0 /\ n # <<>>  BY <1>2
<1>4. ASSUME NEW i \in 1 .. Len(n)
      PROVE  /\ n[i].role = "result" =>
                  i > 1 /\ n[i - 1].owes = n[i].owes + 1 /\ n[i - 1].of = n[i].of
             /\ n[i].owes > 0 /\ i < Len(n) => n[i + 1].role = "result"
  <2>1. CASE i = Len(m) + 1
    <3>1. n[i - 1] = m[Len(m)]  BY <2>1, <1>2, <1>3
    <3>2. QED  BY <2>1, <3>1, <1>2, <1>3
  <2>2. CASE i \in 1 .. Len(m)
    <3>1. n[i] = m[i]  BY <1>2, <2>2
    <3>2. ASSUME n[i].role = "result"
          PROVE  i > 1 /\ n[i - 1].owes = n[i].owes + 1 /\ n[i - 1].of = n[i].of
      <4>1. i > 1 /\ m[i - 1].owes = m[i].owes + 1 /\ m[i - 1].of = m[i].of
        BY <2>2, <3>1, <3>2 DEF WellFormed
      <4>2. i - 1 \in 1 .. Len(m)  BY <4>1, <2>2, <1>2
      <4>3. QED  BY <4>1, <4>2, <3>1, <1>2
    <3>3. ASSUME n[i].owes > 0 PROVE n[i + 1].role = "result"
      <4>1. CASE i = Len(m)  BY <4>1, <1>2
      <4>2. CASE i # Len(m)
        <5>1. i < Len(m) /\ i + 1 \in 1 .. Len(m)  BY <4>2, <2>2, <1>2
        <5>2. m[i + 1].role = "result"  BY <5>1, <3>1, <3>3, <2>2 DEF WellFormed
        <5>3. QED  BY <5>1, <5>2, <1>2
      <4>3. QED  BY <4>1, <4>2
    <3>4. QED  BY <3>2, <3>3
  <2>3. QED  BY <2>1, <2>2, <1>2
<1>5. WellFormed(n)  BY <1>4 DEF WellFormed
<1>6. QED  BY <1>b, <1>2, <1>3, <1>5

\* A pump that moves on keeps the rest of its record.
LEMMA PumpMoved ==
  ASSUME NEW r \in PumpTask, NEW a \in PumpAt, NEW n \in Nat
  PROVE  /\ [r EXCEPT !.at = a] =
              [at |-> a, turn |-> r.turn, step |-> r.step, try |-> r.try, left |-> r.left]
         /\ [r EXCEPT !.left = n] =
              [at |-> r.at, turn |-> r.turn, step |-> r.step, try |-> r.try, left |-> n]
         /\ [r EXCEPT !.at = a, !.step = n] =
              [at |-> a, turn |-> r.turn, step |-> n, try |-> r.try, left |-> r.left]
         /\ [r EXCEPT !.step = n, !.at = a] =
              [at |-> a, turn |-> r.turn, step |-> n, try |-> r.try, left |-> r.left]
         /\ [r EXCEPT !.at = a, !.try = n] =
              [at |-> a, turn |-> r.turn, step |-> r.step, try |-> n, left |-> r.left]
         /\ [r EXCEPT !.try = n, !.at = a] =
              [at |-> a, turn |-> r.turn, step |-> r.step, try |-> n, left |-> r.left]
<1>1. /\ [r EXCEPT !.at = a] =
            [at |-> a, turn |-> r.turn, step |-> r.step, try |-> r.try, left |-> r.left]
      /\ [r EXCEPT !.left = n] =
            [at |-> r.at, turn |-> r.turn, step |-> r.step, try |-> r.try, left |-> n]
  BY DEF PumpTask
<1>2. PICK m : m = [at |-> a, turn |-> r.turn, step |-> r.step, try |-> r.try, left |-> r.left]
  OBVIOUS
<1>3. /\ [r EXCEPT !.at = a, !.step = n] = [m EXCEPT !.step = n]
      /\ [r EXCEPT !.at = a, !.try = n] = [m EXCEPT !.try = n]
  BY <1>1, <1>2
<1>4. /\ [m EXCEPT !.step = n] =
            [at |-> a, turn |-> r.turn, step |-> n, try |-> r.try, left |-> r.left]
      /\ [m EXCEPT !.try = n] =
            [at |-> a, turn |-> r.turn, step |-> r.step, try |-> n, left |-> r.left]
  BY <1>2
<1>5. PICK u : u = [r EXCEPT !.step = n]  OBVIOUS
<1>6. u = [at |-> r.at, turn |-> r.turn, step |-> n, try |-> r.try, left |-> r.left]
  BY <1>5 DEF PumpTask
<1>7. [u EXCEPT !.at = a] =
        [at |-> a, turn |-> r.turn, step |-> n, try |-> r.try, left |-> r.left]
  BY <1>6
<1>8. PICK v : v = [r EXCEPT !.try = n]  OBVIOUS
<1>9. v = [at |-> r.at, turn |-> r.turn, step |-> r.step, try |-> n, left |-> r.left]
  BY <1>8 DEF PumpTask
<1>10. [v EXCEPT !.at = a] =
         [at |-> a, turn |-> r.turn, step |-> r.step, try |-> n, left |-> r.left]
  BY <1>9
<1>11. QED  BY <1>1, <1>3, <1>4, <1>5, <1>7, <1>8, <1>10

\* A harness starts with nothing queued and no pump.
LEMMA LoopStart == LoopInit => LoopInv
<1> SUFFICES ASSUME LoopInit PROVE LoopInv  OBVIOUS
<1> USE DEF LoopInit
<1>1. messages \in Seq(Message) /\ events \in Seq(Message) /\ queue \in Seq(Prompt)
      /\ pushed \in Seq(Prompt) /\ served \in Seq(Prompt)
  OBVIOUS
<1>2. calls \in [Prompt -> {"no", "first", "queued", "done"}]  OBVIOUS
<1>3. pump \in [Prompt -> PumpTask]  BY DEF PumpTask, NoPump, PumpAt, InCall
<1>4. ThePump /\ PumpsAreStarted /\ running \in BOOLEAN
  BY DEF ThePump, Pumping, PumpsAreStarted, NoPump
<1>5. QueueIsKept  BY DEF QueueIsKept
<1>6. CallIsOpen /\ CallsAreLeft  BY DEF CallIsOpen, CallsAreLeft, LastOwes, NoPump, InCall
<1>7. ContextIsWellFormed  BY DEF ContextIsWellFormed
<1>8. resume \subseteq Seq(Message)  OBVIOUS
<1>9. QED  BY <1>1, <1>2, <1>3, <1>4, <1>5, <1>6, <1>7, <1>8 DEF LoopInv, LoopTypes

\* Where the one pump moves on, it stays the one pump.
LEMMA PumpMoves ==
  ASSUME LoopInv, NEW p \in Prompt, NEW k \in PumpTask, k.at # "none", pump[p].at # "none",
         pump' = [pump EXCEPT ![p] = k], UNCHANGED <<calls, running>>
  PROVE  /\ pump' \in [Prompt -> PumpTask] /\ calls' \in [Prompt -> {"no", "first", "queued", "done"}]
         /\ ThePump' /\ PumpsAreStarted' /\ running' \in BOOLEAN
         /\ \A q \in Prompt : q # p => pump[q].at = "none" /\ pump'[q] = pump[q]
         /\ pump'[p] = k
<1>1. pump \in [Prompt -> PumpTask] /\ calls \in [Prompt -> {"no", "first", "queued", "done"}]
  BY DEF LoopInv, LoopTypes
<1>2. pump' \in [Prompt -> PumpTask] /\ pump'[p] = k
      /\ \A q \in Prompt : q # p => pump'[q] = pump[q]
  BY <1>1
<1>3. Pumping(p) /\ \A q \in Prompt : q # p => ~Pumping(q)
  BY DEF LoopInv, ThePump, Pumping
<1>4. \A q \in Prompt : Pumping(q)' <=> Pumping(q)  BY <1>2, <1>3 DEF Pumping
<1>5. ThePump'  BY <1>4 DEF LoopInv, ThePump
<1>6. PumpsAreStarted'  BY <1>2 DEF LoopInv, PumpsAreStarted
<1>7. running' \in BOOLEAN  BY DEF LoopInv
<1>8. QED  BY <1>1, <1>2, <1>3, <1>5, <1>6, <1>7 DEF Pumping

\* Outside a tool call the context does not end in one.
LEMMA NoCallOpen ==
  ASSUME LoopInv, NEW p \in Prompt, pump[p].at \notin InCall, pump[p].at # "none", ~replayed
  PROVE  ~LastOwes(messages) /\ WellFormed(messages)
<1>1. \A q \in Prompt : q # p => pump[q].at = "none"
  BY DEF LoopInv, ThePump, Pumping
<1>2. ~\E q \in Prompt : pump[q].at \in InCall  BY <1>1 DEF InCall
<1>3. QED  BY <1>2 DEF LoopInv, CallIsOpen, ContextIsWellFormed, WellFormed

\* The pump moves on and the context stays.
LEMMA PumpMovesAlone ==
  ASSUME LoopInv, NEW p \in Prompt, NEW k \in PumpTask, k.at # "none", pump[p].at # "none",
         pump' = [pump EXCEPT ![p] = k], k.at \in InCall <=> pump[p].at \in InCall,
         k.at \in InCall => k.turn = pump[p].turn /\ k.left = pump[p].left,
         events' \in Seq(Message), queue' \in Seq(Prompt), served' \in Seq(Prompt), QueueIsKept',
         UNCHANGED <<messages, calls, running, replayed, pushed, resume>>
  PROVE  LoopInv'
<1>1. /\ pump' \in [Prompt -> PumpTask] /\ calls' \in [Prompt -> {"no", "first", "queued", "done"}]
      /\ ThePump' /\ PumpsAreStarted' /\ running' \in BOOLEAN
      /\ \A q \in Prompt : q # p => pump[q].at = "none" /\ pump'[q] = pump[q]
      /\ pump'[p] = k
  BY PumpMoves
<1>2. LoopTypes'  BY <1>1 DEF LoopInv, LoopTypes
<1>3. CallIsOpen' /\ CallsAreLeft'
  <2>1. \A q \in Prompt :
          /\ pump'[q].at \in InCall <=> pump[q].at \in InCall
          /\ pump'[q].at \in InCall => pump'[q].turn = pump[q].turn /\ pump'[q].left = pump[q].left
    BY <1>1
  <2>2. CallIsOpen'  BY <2>1 DEF LoopInv, CallIsOpen, LastOwes
  <2>3. CallsAreLeft'  BY <2>1 DEF LoopInv, CallsAreLeft
  <2>4. QED  BY <2>2, <2>3
<1>4. ContextIsWellFormed'  BY DEF LoopInv, ContextIsWellFormed
<1>5. QED  BY <1>1, <1>2, <1>3, <1>4 DEF LoopInv

\* The pump moves on and says something: what it owes is what it has left.
LEMMA PumpSpeaks ==
  ASSUME LoopInv, NEW p \in Prompt, NEW k \in PumpTask, k.at # "none", pump[p].at # "none",
         pump' = [pump EXCEPT ![p] = k], NEW x \in Message, messages' = Append(messages, x),
         \/ pump[p].at \notin InCall /\ x.role # "result"
         \/ /\ pump[p].at \in InCall /\ x.role = "result"
            /\ pump[p].left = x.owes + 1 /\ x.of = pump[p].turn,
         k.at \in InCall <=> x.owes > 0,
         k.at \in InCall => x.owes = k.left /\ x.of = k.turn,
         UNCHANGED <<events, queue, served, calls, running, replayed, pushed, resume>>
  PROVE  LoopInv'
<1>1. /\ pump' \in [Prompt -> PumpTask] /\ calls' \in [Prompt -> {"no", "first", "queued", "done"}]
      /\ ThePump' /\ PumpsAreStarted' /\ running' \in BOOLEAN
      /\ \A q \in Prompt : q # p => pump[q].at = "none" /\ pump'[q] = pump[q]
      /\ pump'[p] = k
  BY PumpMoves
<1>2. messages \in Seq(Message) /\ messages' \in Seq(Message)  BY DEF LoopInv, LoopTypes
<1>3. LoopTypes'  BY <1>1, <1>2 DEF LoopInv, LoopTypes
<1>4. \A q \in Prompt : pump'[q].at \in InCall <=> q = p /\ k.at \in InCall
  BY <1>1 DEF InCall
<1>5. ASSUME ~replayed
      PROVE  WellFormed(messages') /\ messages' # <<>> /\ messages'[Len(messages')] = x
  <2>1. PICK m \in Seq(Message) : m = messages  BY <1>2
  <2>2. messages' = Append(m, x)  BY <2>1
  <2>3. CASE pump[p].at \notin InCall
    <3>1. ~LastOwes(m) /\ WellFormed(m)  BY <1>5, <2>1, <2>3, NoCallOpen
    <3>2. WellFormed(Append(m, x)) /\ Append(m, x) # <<>> /\ Append(m, x)[Len(Append(m, x))] = x
      BY <3>1, <2>3, AppendPlain
    <3>3. QED  BY <3>2, <2>2
  <2>4. CASE pump[p].at \in InCall
    <3>1. m # <<>> /\ m[Len(m)].owes = pump[p].left /\ m[Len(m)].of = pump[p].turn
      BY <1>5, <2>1, <2>4 DEF LoopInv, CallIsOpen
    <3>2. WellFormed(m)  BY <1>5, <2>1 DEF LoopInv, ContextIsWellFormed, WellFormed
    <3>3. x.role = "result" /\ m[Len(m)].owes = x.owes + 1 /\ m[Len(m)].of = x.of
      BY <2>4, <3>1
    <3>4. WellFormed(Append(m, x)) /\ Append(m, x) # <<>> /\ Append(m, x)[Len(Append(m, x))] = x
      BY <3>1, <3>2, <3>3, AppendResult
    <3>5. QED  BY <3>4, <2>2
  <2>5. QED  BY <2>3, <2>4
<1>6. CallIsOpen'
  <2>1. ASSUME ~replayed, NEW q \in Prompt, pump'[q].at \in InCall
        PROVE  /\ messages' # <<>> /\ messages'[Len(messages')].owes = pump'[q].left
               /\ messages'[Len(messages')].of = pump'[q].turn
    <3>1. q = p /\ k.at \in InCall  BY <2>1, <1>4
    <3>2. QED  BY <2>1, <3>1, <1>1, <1>5
  <2>2. ASSUME ~replayed, LastOwes(messages') PROVE \E q \in Prompt : pump'[q].at \in InCall
    BY <2>2, <1>1, <1>5 DEF LastOwes
  <2>3. QED  BY <2>1, <2>2 DEF CallIsOpen, LastOwes
<1>7. ContextIsWellFormed'  BY <1>5 DEF ContextIsWellFormed, WellFormed
<1>8. QueueIsKept'  BY DEF LoopInv, QueueIsKept
<1>9. CallsAreLeft'  BY <1>1, <1>4 DEF CallsAreLeft
<1>10. QED  BY <1>1, <1>3, <1>6, <1>7, <1>8, <1>9 DEF LoopInv

\* What is logged are messages.
LEMMA TalkKeeps ==
  ASSUME LoopTypes, NEW e \in Message, Talk(e)
  PROVE  events' \in Seq(Message)
<1>1. events \in Seq(Message) /\ <<e, e>> \in Seq(Message)  BY DEF LoopTypes
<1>2. Append(events, e) \in Seq(Message) /\ events \o <<e, e>> \in Seq(Message)  BY <1>1
<1>3. \/ events' = Append(events, e) \/ events' = events \/ events' = events \o <<e, e>>
  BY DEF Talk
<1>4. QED  BY <1>1, <1>2, <1>3

\* enqueue() pushes the prompt and becomes the pump exactly when there was none.
LEMMA PushKeeps == ASSUME LoopInv, NEW p \in Prompt, EnqueuePush(p) PROVE LoopInv'
<1> USE DEF LoopInv
<1>1. /\ calls[p] = "no" /\ queue' = Append(queue, p) /\ running' = TRUE
      /\ pushed' = Append(pushed, p)
      /\ calls' = [calls EXCEPT ![p] = IF running THEN "queued" ELSE "first"]
      /\ UNCHANGED <<messages, events, pump, served, replayed, resume>>
  BY DEF EnqueuePush
<1>2. queue \in Seq(Prompt) /\ served \in Seq(Prompt) /\ pushed \in Seq(Prompt)  BY DEF LoopTypes
<1>3. queue' \in Seq(Prompt) /\ pushed' \in Seq(Prompt)  BY <1>1, <1>2
<1>4. calls \in [Prompt -> {"no", "first", "queued", "done"}]  BY DEF LoopTypes
<1>5. calls' \in [Prompt -> {"no", "first", "queued", "done"}]  BY <1>1, <1>4
<1>6. LoopTypes'  BY <1>1, <1>3, <1>5 DEF LoopTypes
<1>7. QueueIsKept'
  <2>1. served \o queue = pushed  BY DEF QueueIsKept
  <2>2. served \o Append(queue, p) = Append(served \o queue, p)  BY <1>2
  <2>3. QED  BY <1>1, <2>1, <2>2 DEF QueueIsKept
<1>8. pump[p].at = "none"  BY <1>1 DEF PumpsAreStarted
<1>9. ThePump' /\ running' \in BOOLEAN
  <2>1. CASE running
    <3>1. \A q \in Prompt : Pumping(q)' <=> Pumping(q)  BY <1>1, <1>4, <2>1 DEF Pumping
    <3>2. QED  BY <3>1, <2>1, <1>1 DEF ThePump
  <2>2. CASE ~running
    <3>1. \A q \in Prompt : ~Pumping(q)  BY <2>2 DEF ThePump
    <3>2. \A q \in Prompt : Pumping(q)' <=> q = p  BY <3>1, <1>1, <1>4, <2>2 DEF Pumping
    <3>3. QED  BY <3>2, <1>1 DEF ThePump
  <2>3. QED  BY <2>1, <2>2
<1>10. PumpsAreStarted'  BY <1>1, <1>4, <1>8 DEF PumpsAreStarted
<1>11. CallIsOpen' /\ CallsAreLeft' /\ ContextIsWellFormed'
  BY <1>1 DEF CallIsOpen, CallsAreLeft, LastOwes, ContextIsWellFormed
<1>12. QED  BY <1>6, <1>7, <1>9, <1>10, <1>11

\* enqueue() logs its prompt and starts the pump.
LEMMA LogKeeps == ASSUME LoopInv, NEW p \in Prompt, EnqueueLog(p) PROVE LoopInv'
<1> USE DEF LoopInv
<1>1. /\ calls[p] \in {"first", "queued"} /\ calls' = [calls EXCEPT ![p] = "done"]
      /\ pump' = IF calls[p] = "first" THEN [pump EXCEPT ![p].at = "pop"] ELSE pump
      /\ UNCHANGED <<messages, queue, running, pushed, served, replayed, resume>>
  BY DEF EnqueueLog
<1>2. Msg("user", p, 0) \in Message  BY DEF Msg, Message
<1>3. events' \in Seq(Message)  BY <1>2, TalkKeeps DEF EnqueueLog, Log
<1>4. calls \in [Prompt -> {"no", "first", "queued", "done"}] /\ pump \in [Prompt -> PumpTask]
  BY DEF LoopTypes
<1>5. calls' \in [Prompt -> {"no", "first", "queued", "done"}]  BY <1>1, <1>4
<1>6. pump[p].at = "none"  BY <1>1 DEF PumpsAreStarted
<1>7. PICK r \in PumpTask : r = pump[p]  BY <1>4
<1>8. "pop" \in PumpAt /\ "pop" \notin InCall  BY DEF PumpAt, InCall
<1>9. PICK k : k = [r EXCEPT !.at = "pop"]  OBVIOUS
<1>10. k \in PumpTask /\ k.at = "pop"  BY <1>8, <1>9 DEF PumpTask
<1>11. pump' = IF calls[p] = "first" THEN [pump EXCEPT ![p] = k] ELSE pump  BY <1>1, <1>4, <1>7, <1>9
<1>12. pump' \in [Prompt -> PumpTask]  BY <1>4, <1>10, <1>11
<1>13. LoopTypes'  BY <1>1, <1>3, <1>5, <1>12 DEF LoopTypes
<1>14. \A q \in Prompt : Pumping(q)' <=> Pumping(q)
  BY <1>1, <1>4, <1>6, <1>10, <1>11 DEF Pumping
<1>15. ThePump' /\ running' \in BOOLEAN  BY <1>1, <1>14 DEF ThePump
<1>16. PumpsAreStarted'  BY <1>1, <1>4, <1>11 DEF PumpsAreStarted
<1>17. \A q \in Prompt : pump'[q].at \in InCall <=> pump[q].at \in InCall
  BY <1>4, <1>6, <1>8, <1>10, <1>11 DEF InCall
<1>18. \A q \in Prompt : pump'[q].at \in InCall => pump'[q] = pump[q]
  BY <1>4, <1>8, <1>10, <1>11
<1>19. CallIsOpen' /\ CallsAreLeft' /\ ContextIsWellFormed'
  BY <1>1, <1>17, <1>18 DEF CallIsOpen, CallsAreLeft, LastOwes, ContextIsWellFormed
<1>20. QueueIsKept'  BY <1>1 DEF QueueIsKept
<1>21. QED  BY <1>13, <1>15, <1>16, <1>19, <1>20

\* The pump takes the oldest prompt, or ends and is not running any more.
LEMMA PopKeeps == ASSUME LoopInv, NEW p \in Prompt, PumpPop(p) PROVE LoopInv'
<1> USE DEF LoopInv
<1>1. pump[p].at = "pop" /\ UNCHANGED <<messages, events, calls, pushed, replayed, resume>>
  BY DEF PumpPop
<1>2. queue \in Seq(Prompt) /\ served \in Seq(Prompt) /\ pump \in [Prompt -> PumpTask]
      /\ events \in Seq(Message)
  BY DEF LoopTypes
<1>3. CASE queue = <<>>
  <2>1. running' = FALSE /\ pump' = [pump EXCEPT ![p] = NoPump] /\ UNCHANGED <<queue, served>>
    BY <1>3 DEF PumpPop
  <2>2. NoPump \in PumpTask /\ NoPump.at = "none"  BY DEF NoPump, PumpTask, PumpAt, InCall
  <2>3. LoopTypes'  BY <1>1, <1>2, <2>1, <2>2 DEF LoopTypes
  <2>4. calls[p] = "done"  BY <1>1 DEF PumpsAreStarted
  <2>5. \A q \in Prompt : ~Pumping(q)'
    <3>1. \A q \in Prompt : q # p => ~Pumping(q)  BY <1>1 DEF ThePump, Pumping
    <3>2. QED  BY <3>1, <1>1, <1>2, <2>1, <2>2, <2>4 DEF Pumping
  <2>6. ThePump' /\ running' \in BOOLEAN  BY <2>1, <2>5 DEF ThePump
  <2>7. PumpsAreStarted'  BY <2>5 DEF PumpsAreStarted, Pumping
  <2>8. QueueIsKept'  BY <1>1, <2>1 DEF QueueIsKept
  <2>9. \A q \in Prompt : pump'[q].at \notin InCall  BY <2>5 DEF Pumping, InCall
  <2>10. ~replayed => ~LastOwes(messages)  BY <1>1, NoCallOpen DEF InCall
  <2>11. CallIsOpen' /\ CallsAreLeft'
    BY <1>1, <2>9, <2>10 DEF CallIsOpen, CallsAreLeft, LastOwes
  <2>12. ContextIsWellFormed'  BY <1>1 DEF ContextIsWellFormed
  <2>13. QED  BY <2>3, <2>6, <2>7, <2>8, <2>11, <2>12
<1>4. CASE queue # <<>>
  <2>1. /\ queue' = Tail(queue) /\ served' = Append(served, Head(queue)) /\ UNCHANGED running
        /\ pump' = [pump EXCEPT ![p] = [NoPump EXCEPT !.at = "begin", !.turn = Head(queue)]]
    BY <1>4 DEF PumpPop
  <2>2. Head(queue) \in Prompt /\ Tail(queue) \in Seq(Prompt)  BY <1>2, <1>4
  <2>3. PICK h \in Prompt : h = Head(queue)  BY <2>2
  <2>4. PICK k : k = [NoPump EXCEPT !.at = "begin", !.turn = h]  OBVIOUS
  <2>5. k = [at |-> "begin", turn |-> h, step |-> 0, try |-> 0, left |-> 0]  BY <2>4 DEF NoPump
  <2>6. k \in PumpTask /\ k.at = "begin"  BY <2>5 DEF PumpTask, PumpAt, InCall
  <2>7. "begin" \notin InCall /\ "pop" \notin InCall  BY DEF InCall
  <2>8. queue' \in Seq(Prompt) /\ served' \in Seq(Prompt)  BY <1>2, <2>1, <2>2
  <2>9. QueueIsKept'
    <3>1. served \o queue = pushed  BY DEF QueueIsKept
    <3>2. Append(served, Head(queue)) \o Tail(queue) = served \o queue  BY <1>2, <1>4, <2>2
    <3>3. QED  BY <1>1, <2>1, <3>1, <3>2 DEF QueueIsKept
  <2>10. pump' = [pump EXCEPT ![p] = k] /\ events' \in Seq(Message)  BY <1>1, <1>2, <2>1, <2>3, <2>4
  <2>11. QED  BY <1>1, <2>1, <2>6, <2>7, <2>8, <2>9, <2>10, PumpMovesAlone
<1>5. QED  BY <1>3, <1>4

\* Each step of a turn.
LEMMA TurnKeeps == ASSUME LoopInv, NEW p \in Prompt, PumpStep(p) PROVE LoopInv'
<1>0. LoopTypes /\ pump \in [Prompt -> PumpTask] /\ queue \in Seq(Prompt) /\ served \in Seq(Prompt)
      /\ events \in Seq(Message)
  BY DEF LoopInv, LoopTypes
<1>r. PICK r \in PumpTask : r = pump[p]  BY <1>0
<1>t. r.turn \in Prompt \cup {"none"} /\ r.step \in Nat /\ r.try \in Nat /\ r.at \in PumpAt
      /\ r.left \in Nat
  BY DEF PumpTask
<1>p. {"pop", "begin", "model", "call", "answer", "tool", "result", "stopping",
        "end"} \subseteq PumpAt
  BY DEF PumpAt, InCall
<1>c. InCall = {"call", "tool", "result"}  BY DEF InCall
<1>l. r.at \in InCall => r.left > 0  BY <1>r DEF LoopInv, CallsAreLeft
\* A move that leaves the context alone.
<1>m. ASSUME NEW k \in PumpTask, pump' = [pump EXCEPT ![p] = k], k.turn = r.turn, k.left = r.left,
             r.at # "none",
             k.at # "none", k.at \in InCall <=> r.at \in InCall, events' \in Seq(Message),
             UNCHANGED <<messages, queue, served, calls, running, replayed, pushed, resume>>
      PROVE  LoopInv'
  <2>1. QueueIsKept'  BY <1>m DEF LoopInv, QueueIsKept
  <2>2. queue' \in Seq(Prompt) /\ served' \in Seq(Prompt)  BY <1>m, <1>0
  <2>3. QED  BY <1>m, <1>r, <2>1, <2>2, PumpMovesAlone
<1>1. CASE EnqueueLog(p)  BY <1>1, LogKeeps
<1>2. CASE PumpPop(p)  BY <1>2, PopKeeps
<1>3. CASE TurnBegin(p)
  <2>1. /\ r.at = "begin" /\ messages' = Append(messages, Msg("user", r.turn, 0))
        /\ UNCHANGED <<events, queue, running, calls, pushed, served, replayed, resume>>
    BY <1>3, <1>r DEF TurnBegin
  <2>2. PICK k : k = [r EXCEPT !.at = "model", !.step = 1]  OBVIOUS
  <2>3. pump' = [pump EXCEPT ![p] = k]  BY <1>3, <1>0, <1>r, <2>2 DEF TurnBegin
  <2>4. k = [at |-> "model", turn |-> r.turn, step |-> 1, try |-> r.try, left |-> r.left]
    BY <2>2, <1>p, PumpMoved
  <2>5. k \in PumpTask /\ k.at = "model"  BY <2>4, <1>t, <1>p DEF PumpTask
  <2>6. PICK x : x = Msg("user", r.turn, 0)  OBVIOUS
  <2>7. x \in Message /\ x.role = "user" /\ x.owes = 0  BY <2>6, <1>t DEF Msg, Message
  <2>8. pump[p].at \notin InCall /\ k.at \notin InCall /\ pump[p].at # "none" /\ k.at # "none"
        /\ x.role # "result" /\ ~(x.owes > 0)
    BY <2>1, <2>5, <2>7, <1>c, <1>r
  <2>9. QED  BY <2>1, <2>3, <2>5, <2>6, <2>7, <2>8, PumpSpeaks
<1>4. ASSUME NEW n \in 0 .. lworld.calls, ModelReplies(p, n) PROVE LoopInv'
  <2>0. n \in Nat  OBVIOUS
  <2>1. /\ r.at = "model" /\ messages' = Append(messages, Msg(RoleOf(n), r.turn, n))
        /\ UNCHANGED <<events, queue, running, calls, pushed, served, replayed, resume>>
    BY <1>4, <1>r DEF ModelReplies
  <2>2. PICK a : a = RoleOf(n)  OBVIOUS
  <2>3. a \in {"call", "answer"} /\ (a = "call" <=> n > 0)  BY <2>0, <2>2 DEF RoleOf
  <2>4. PICK k : k = [r EXCEPT !.at = a, !.try = 0, !.left = n]  OBVIOUS
  <2>5. pump' = [pump EXCEPT ![p] = k]  BY <1>4, <1>0, <1>r, <2>2, <2>4 DEF ModelReplies
  <2>6. k = [at |-> a, turn |-> r.turn, step |-> r.step, try |-> 0, left |-> n]
    <3>1. PICK u : u = [r EXCEPT !.at = a, !.try = 0]  OBVIOUS
    <3>2. u = [at |-> a, turn |-> r.turn, step |-> r.step, try |-> 0, left |-> r.left]
      BY <3>1, <2>3, <1>p, PumpMoved
    <3>3. k = [u EXCEPT !.left = n]  BY <2>4, <3>1
    <3>4. QED  BY <3>2, <3>3
  <2>7. k \in PumpTask /\ k.at = a /\ k.turn = r.turn /\ k.left = n
    BY <2>0, <2>3, <2>6, <1>t, <1>p DEF PumpTask
  <2>8. PICK x : x = Msg(a, r.turn, n)  OBVIOUS
  <2>9. x \in Message /\ x.role = a /\ x.owes = n /\ x.of = r.turn
    BY <2>0, <2>3, <2>8, <1>t DEF Msg, Message
  <2>10. pump[p].at \notin InCall /\ pump[p].at # "none" /\ k.at # "none" /\ x.role # "result"
    BY <2>1, <2>3, <2>7, <2>9, <1>c, <1>r
  <2>11. k.at \in InCall <=> x.owes > 0
    <3>1. k.at \in InCall <=> a = "call"  BY <2>3, <2>7, <1>c
    <3>2. QED  BY <3>1, <2>3, <2>9
  <2>12. messages' = Append(messages, x)  BY <2>1, <2>2, <2>8
  <2>13. QED  BY <2>1, <2>5, <2>7, <2>9, <2>10, <2>11, <2>12, PumpSpeaks
<1>5. CASE ModelFails(p)
  <2>1. r.at = "model" /\ UNCHANGED <<messages, events, queue, running, calls, pushed, served,
          replayed, resume>>
    BY <1>5, <1>r DEF ModelFails
  <2>2. PICK a : a = IF r.try + 1 < retry_attempts THEN "model" ELSE "end"  OBVIOUS
  <2>3. a \in {"model", "end"}  BY <2>2
  <2>4. PICK n \in Nat : n = r.try + 1  BY <1>t
  <2>5. PICK k : k = [r EXCEPT !.try = n, !.at = a]  OBVIOUS
  <2>6. pump' = [pump EXCEPT ![p] = k]  BY <1>5, <1>0, <1>r, <2>2, <2>4, <2>5 DEF ModelFails
  <2>7. k = [at |-> a, turn |-> r.turn, step |-> r.step, try |-> n, left |-> r.left]
    BY <2>3, <2>5, <1>p, PumpMoved
  <2>8. k \in PumpTask /\ k.at = a /\ k.turn = r.turn /\ k.left = r.left
    BY <2>3, <2>7, <1>t, <1>p DEF PumpTask
  <2>9. k.at # "none" /\ r.at # "none" /\ (k.at \in InCall <=> r.at \in InCall)
    BY <2>1, <2>3, <2>8, <1>c
  <2>10. QED  BY <2>1, <2>6, <2>8, <2>9, <1>0, <1>m
<1>6. ASSUME NEW a, Goto(p, a), events' \in Seq(Message),
             UNCHANGED <<messages, queue, running, calls, pushed, served, replayed, resume>>,
             \/ r.at \in {"call", "tool"} /\ a \in {"tool", "result"}
             \/ r.at \in {"model", "answer", "stopping", "end"} /\ a \in {"stopping", "end", "pop"}
      PROVE  LoopInv'
  <2>2. PICK k : k = [r EXCEPT !.at = a]  OBVIOUS
  <2>3. pump' = [pump EXCEPT ![p] = k]  BY <1>6, <1>0, <1>r, <2>2 DEF Goto
  <2>4. a \in PumpAt  BY <1>6, <1>p
  <2>5. k = [at |-> a, turn |-> r.turn, step |-> r.step, try |-> r.try, left |-> r.left]
    <3>1. 0 \in Nat  OBVIOUS
    <3>2. QED  BY <2>2, <2>4, <3>1, PumpMoved
  <2>6. k \in PumpTask /\ k.at = a /\ k.turn = r.turn /\ k.left = r.left
    BY <2>4, <2>5, <1>t DEF PumpTask
  <2>7. k.at # "none" /\ r.at # "none" /\ (k.at \in InCall <=> r.at \in InCall)
    BY <1>6, <2>6, <1>c
  <2>8. QED  BY <1>6, <2>3, <2>6, <2>7, <1>m
<1>7. CASE ModelRefuses(p)  BY <1>7, <1>6, <1>0, <1>r DEF ModelRefuses
<1>8. CASE LogReply(p)
  <2>1. r.at \in {"call", "answer"}
        /\ Goto(p, IF r.at = "call" THEN "tool" ELSE "stopping")
        /\ UNCHANGED <<messages, queue, running, calls, pushed, served, replayed, resume>>
    BY <1>8, <1>r DEF LogReply
  <2>2. Msg(r.at, r.turn, r.left) \in Message  BY <2>1, <1>t DEF Msg, Message
  <2>3. events' \in Seq(Message)  BY <1>8, <1>r, <1>0, <2>2, TalkKeeps DEF LogReply, Log
  <2>4. PICK a : a = IF r.at = "call" THEN "tool" ELSE "stopping"  OBVIOUS
  <2>5. QED  BY <2>1, <2>3, <2>4, <1>6
<1>9. CASE ToolDone(p)
  <2>1. r.at = "tool" /\ Goto(p, "result")
        /\ UNCHANGED <<messages, queue, running, calls, pushed, served, replayed, resume>>
    BY <1>9, <1>r DEF ToolDone
  <2>2. r.left - 1 \in Nat  BY <2>1, <1>c, <1>l, <1>t
  <2>5. Msg("result", r.turn, r.left - 1) \in Message  BY <2>2, <1>t DEF Msg, Message
  <2>3. events' \in Seq(Message)  BY <1>9, <1>r, <1>0, <2>5, TalkKeeps DEF ToolDone, Log
  <2>4. QED  BY <2>1, <2>3, <1>6
\* A message, and then the next step.
<1>10. ASSUME NEW x \in Message, messages' = Append(messages, x), NEW f, NEW s \in PumpTask,
              f = [pump EXCEPT ![p] = s], pump' = Stepped(f, p), x.owes = 0,
              UNCHANGED <<events, queue, running, calls, pushed, served, replayed, resume>>,
              \/ r.at = "result" /\ x.role = "result" /\ r.left = 1 /\ x.of = r.turn
              \/ r.at = "stopping" /\ x.role # "result"
       PROVE  LoopInv'
  <2>2. PICK a : a = IF s.step < max_steps THEN "model" ELSE "end"  OBVIOUS
  <2>3. a \in {"model", "end"}  BY <2>2
  <2>t. s.turn \in Prompt \cup {"none"} /\ s.step \in Nat /\ s.try \in Nat /\ s.left \in Nat
    BY DEF PumpTask
  <2>4. PICK n \in Nat : n = s.step + 1  BY <2>t
  <2>5. PICK k : k = [s EXCEPT !.step = n, !.at = a]  OBVIOUS
  <2>f. f \in [Prompt -> PumpTask] /\ f[p] = s  BY <1>10, <1>0
  <2>6. pump' = [pump EXCEPT ![p] = k]
    <3>1. pump' = [f EXCEPT ![p] = k]  BY <1>10, <2>f, <2>2, <2>4, <2>5 DEF Stepped
    <3>2. QED  BY <3>1, <1>10, <1>0
  <2>p. a \in PumpAt  BY <2>3, <1>p
  <2>7. k = [at |-> a, turn |-> s.turn, step |-> n, try |-> s.try, left |-> s.left]
    BY <2>p, <2>5, PumpMoved
  <2>8. k \in PumpTask /\ k.at = a  BY <2>3, <2>7, <2>t, <1>p DEF PumpTask
  <2>9. k.at # "none" /\ pump[p].at # "none" /\ k.at \notin InCall
    BY <1>10, <2>3, <2>8, <1>c, <1>r
  <2>10. \/ pump[p].at \notin InCall /\ x.role # "result"
         \/ /\ pump[p].at \in InCall /\ x.role = "result"
            /\ pump[p].left = x.owes + 1 /\ x.of = pump[p].turn
    BY <1>10, <1>c, <1>r
  <2>12. ~(x.owes > 0)  BY <1>10
  <2>11. QED  BY <1>10, <2>6, <2>8, <2>9, <2>10, <2>12, PumpSpeaks
<1>11. CASE ToolPush(p)
  <2>1. r.at = "result" /\ UNCHANGED <<events, queue, running, calls, pushed, served, replayed, resume>>
    BY <1>11, <1>r DEF ToolPush
  <2>2. PICK n \in Nat : n = r.left - 1 /\ r.left = n + 1  BY <2>1, <1>c, <1>l, <1>t
  <2>n. n > 0 <=> r.left > 1  BY <2>2
  <2>3. PICK x : x = Msg("result", r.turn, n)  OBVIOUS
  <2>4. x \in Message /\ x.role = "result" /\ x.owes = n /\ x.of = r.turn
    BY <2>3, <1>t DEF Msg, Message
  <2>5. PICK s : s = [r EXCEPT !.left = n]  OBVIOUS
  <2>6. s = [at |-> r.at, turn |-> r.turn, step |-> r.step, try |-> r.try, left |-> n]
    BY <2>5, <1>t, PumpMoved
  <2>7. s \in PumpTask /\ s.turn = r.turn /\ s.left = n  BY <2>6, <1>t DEF PumpTask
  <2>8. PICK f : f = [pump EXCEPT ![p].left = @ - 1]  OBVIOUS
  <2>9. f = [pump EXCEPT ![p] = s]  BY <2>8, <2>5, <2>2, <1>r, <1>0
  <2>10. /\ messages' = Append(messages, x)
         /\ pump' = IF r.left > 1 THEN [f EXCEPT ![p].at = "tool"] ELSE Stepped(f, p)
    BY <1>11, <1>r, <2>2, <2>3, <2>8 DEF ToolPush
  <2>11. CASE r.left > 1
    <3>1. PICK k : k = [s EXCEPT !.at = "tool"]  OBVIOUS
    <3>2. k = [at |-> "tool", turn |-> r.turn, step |-> r.step, try |-> r.try, left |-> n]
      BY <3>1, <2>6
    <3>3. k \in PumpTask /\ k.at = "tool" /\ k.turn = r.turn /\ k.left = n
      BY <3>2, <1>t, <1>p DEF PumpTask
    <3>4. f \in [Prompt -> PumpTask] /\ f[p] = s  BY <2>7, <2>9, <1>0
    <3>5. pump' = [f EXCEPT ![p] = k]  BY <2>10, <2>11, <3>1, <3>4
    <3>6. pump' = [pump EXCEPT ![p] = k]  BY <3>5, <2>9, <1>0
    <3>7. pump[p].at \in InCall /\ pump[p].at # "none" /\ k.at \in InCall /\ k.at # "none"
      BY <2>1, <3>3, <1>c, <1>r
    <3>8. x.owes > 0 /\ pump[p].left = x.owes + 1  BY <2>2, <2>n, <2>4, <2>11, <1>r
    <3>9. QED  BY <2>1, <2>4, <2>10, <3>3, <3>6, <3>7, <3>8, <1>r, PumpSpeaks
  <2>12. CASE ~(r.left > 1)
    <3>1. r.left = 1 /\ x.owes = 0
      <4>1. n = 0  BY <2>n, <2>12
      <4>2. QED  BY <4>1, <2>2, <2>4
    <3>2. pump' = Stepped(f, p)  BY <2>10, <2>12
    <3>3. QED  BY <2>1, <2>4, <2>7, <2>9, <2>10, <3>1, <3>2, <1>10
  <2>13. QED  BY <2>11, <2>12
<1>12. CASE TurnVetoed(p)
  <2>1. PICK x : x = Msg("user", "continue", 0)  OBVIOUS
  <2>2. x \in Message /\ x.role = "user" /\ x.owes = 0  BY <2>1 DEF Msg, Message
  <2>3. pump = [pump EXCEPT ![p] = r]  BY <1>0, <1>r
  <2>4. /\ r.at = "stopping" /\ messages' = Append(messages, x) /\ pump' = Stepped(pump, p)
        /\ UNCHANGED <<events, queue, running, calls, pushed, served, replayed, resume>>
    BY <1>12, <2>1, <1>r DEF TurnVetoed
  <2>5. QED  BY <2>2, <2>3, <2>4, <1>10
<1>13. CASE TurnStops(p)  BY <1>13, <1>6, <1>0, <1>r DEF TurnStops
<1>14. CASE TurnEnd(p)  BY <1>14, <1>6, <1>0, <1>r DEF TurnEnd
<1>15. QED
  BY <1>1, <1>2, <1>3, <1>4, <1>5, <1>7, <1>8, <1>9, <1>11, <1>12, <1>13, <1>14
  DEF PumpStep, TurnStep

\* A harness that dies starts again from its log, with no pump.
LEMMA DeathKeeps == ASSUME LoopInv, HarnessDies PROVE LoopInv'
<1> USE DEF LoopInv
<1>1. /\ messages' = <<>> /\ queue' = <<>> /\ running' = FALSE
      /\ calls' = [p \in Prompt |-> IF calls[p] \in {"first", "queued"} THEN "done" ELSE calls[p]]
      /\ pump' = [p \in Prompt |-> NoPump] /\ pushed' = <<>> /\ served' = <<>>
      /\ UNCHANGED <<events, replayed>> /\ resume' = {}
  BY DEF HarnessDies
<1>2. NoPump \in PumpTask /\ NoPump.at = "none"  BY DEF NoPump, PumpTask, PumpAt, InCall
<1>3. calls \in [Prompt -> {"no", "first", "queued", "done"}] /\ events \in Seq(Message)
  BY DEF LoopTypes
<1>4. calls' \in [Prompt -> {"no", "first", "queued", "done"}]  BY <1>1, <1>3
<1>5. pump' \in [Prompt -> PumpTask]  BY <1>1, <1>2
<1>6. messages' \in Seq(Message) /\ queue' \in Seq(Prompt) /\ pushed' \in Seq(Prompt)
      /\ served' \in Seq(Prompt) /\ events' \in Seq(Message)
  BY <1>1, <1>3
<1>7. LoopTypes'  BY <1>1, <1>4, <1>5, <1>6 DEF LoopTypes
<1>8. \A p \in Prompt : ~Pumping(p)'  BY <1>1, <1>2 DEF Pumping
<1>9. ThePump' /\ running' \in BOOLEAN  BY <1>1, <1>8 DEF ThePump
<1>10. PumpsAreStarted'  BY <1>8 DEF PumpsAreStarted, Pumping
<1>11. QueueIsKept'  BY <1>1 DEF QueueIsKept
<1>12. \A p \in Prompt : pump'[p].at \notin InCall  BY <1>1, <1>2 DEF InCall
<1>13. CallIsOpen' /\ CallsAreLeft'  BY <1>1, <1>12 DEF CallIsOpen, CallsAreLeft, LastOwes
<1>14. ContextIsWellFormed'  BY <1>1 DEF ContextIsWellFormed
<1>15. QED  BY <1>7, <1>9, <1>10, <1>11, <1>13, <1>14

\* LoopInv is inductive: each step of the loop keeps it.
LEMMA LoopStepKeeps == ASSUME LoopInv, [LoopNext]_loopVars PROVE LoopInv'
<1>1. CASE ResumeFold
  <2>1. /\ messages' \in resume /\ resume' \subseteq resume /\ replayed' = TRUE
        /\ UNCHANGED <<events, queue, running, calls, pump, pushed, served>>
    BY <1>1 DEF ResumeFold
  <2>2. LoopTypes'  BY <2>1 DEF LoopInv, LoopTypes
  <2>3. ThePump' /\ PumpsAreStarted' /\ QueueIsKept' /\ running' \in BOOLEAN /\ CallsAreLeft'
    BY <2>1 DEF LoopInv, ThePump, Pumping, PumpsAreStarted, QueueIsKept, CallsAreLeft
  <2>4. CallIsOpen' /\ ContextIsWellFormed'  BY <2>1 DEF CallIsOpen, ContextIsWellFormed
  <2>5. QED  BY <2>2, <2>3, <2>4 DEF LoopInv
<1>2. CASE UNCHANGED loopVars \/ ResumeTail
  <2>1. /\ UNCHANGED <<messages, events, queue, running, calls, pump, pushed, served, replayed>>
        /\ resume' \subseteq resume \cup {events}
    BY <1>2 DEF loopVars, ResumeTail
  <2>2. LoopTypes'  BY <2>1 DEF LoopInv, LoopTypes
  <2>3. ThePump' /\ PumpsAreStarted' /\ QueueIsKept' /\ running' \in BOOLEAN /\ CallsAreLeft'
    BY <2>1 DEF LoopInv, ThePump, Pumping, PumpsAreStarted, QueueIsKept, CallsAreLeft
  <2>4. CallIsOpen' /\ ContextIsWellFormed'
    BY <2>1 DEF LoopInv, CallIsOpen, LastOwes, ContextIsWellFormed
  <2>5. QED  BY <2>2, <2>3, <2>4 DEF LoopInv
<1>3. CASE HarnessDies  BY <1>3, DeathKeeps
<1>4. ASSUME NEW p \in Prompt, EnqueuePush(p) PROVE LoopInv'  BY <1>4, PushKeeps
<1>5. ASSUME NEW p \in Prompt, PumpStep(p) PROVE LoopInv'  BY <1>5, TurnKeeps
<1>6. QED  BY <1>1, <1>2, <1>3, <1>4, <1>5 DEF LoopNext

\* LoopInv says what TurnsAreWhole does.
LEMMA LoopImplies == LoopInv => TurnsAreWhole
<1> SUFFICES ASSUME LoopInv PROVE TurnsAreWhole  OBVIOUS
<1> USE DEF LoopInv
<1>1. OnePump
  <2>1. PICK S : S = Active \cup {p \in Prompt : calls[p] = "first"}  OBVIOUS
  <2>2. S = {p \in Prompt : Pumping(p)}  BY <2>1 DEF Active, Pumping
  <2>3. running <=> S # {}  BY <2>2 DEF ThePump
  <2>4. Cardinality(S) <= 1
    <3>1. CASE S = {}  BY <3>1, FS_EmptySet
    <3>2. CASE S # {}
      <4>1. PICK p : p \in S  BY <3>2
      <4>2. S = {p}  BY <2>2, <4>1 DEF ThePump
      <4>3. Cardinality({p}) = 1  BY FS_Singleton
      <4>4. QED  BY <4>2, <4>3
    <3>3. QED  BY <3>1, <3>2
  <2>5. QED  BY <2>1, <2>3, <2>4 DEF OnePump
<1>2. TurnsKeepOrder
  <2>1. PICK a \in Seq(Prompt), b \in Seq(Prompt) : a = served /\ b = queue  BY DEF LoopTypes
  <2>2. pushed = a \o b  BY <2>1 DEF QueueIsKept
  <2>3. Len(a) \in Nat /\ Len(b) \in Nat /\ a \o b \in Seq(Prompt) /\ Len(a \o b) = Len(a) + Len(b)
        /\ \A i \in 1 .. Len(a) : (a \o b)[i] = a[i]
    BY ConcatProperties
  <2>4. PICK c \in Seq(Prompt) : c = a \o b  BY <2>3
  <2>5. SubSeq(a, 1, Len(a)) = SubSeq(c, 1, Len(a))
    BY <2>3, <2>4 DEF SubSeq
  <2>6. Len(a) <= Len(c)  BY <2>3, <2>4
  <2>7. QED  BY <2>1, <2>2, <2>4, <2>5, <2>6 DEF TurnsKeepOrder, IsPrefix
<1>3. QED  BY <1>1, <1>2 DEF TurnsAreWhole

\* For any prompts: turns never overlap, prompts are served in their order, and a context
\* that was not put in place by session.resume has the calls of a reply, however many,
\* answered one by one by results of its own turn before anything else is said (agent.rs
\* enqueue, pump, turn and the loop over the calls at 293-295).
THEOREM LoopIsWhole == LoopSpec => []TurnsAreWhole
<1>1. LoopSpec => []LoopInv  BY LoopStart, LoopStepKeeps, PTL DEF LoopSpec
<1>2. QED  BY <1>1, LoopImplies, PTL

-----------------------------------------------------------------------------
(***************************************************************************)
(* Terminals.  Output is numbered byte by byte; the proofs are about what  *)
(* part of the numbers a buffer holds.                                     *)
(***************************************************************************)

\* usize::min of two numbers.
LEMMA LeastIs ==
  ASSUME NEW a \in Int, NEW b \in Int
  PROVE  Least(a, b) \in Int /\ Least(a, b) <= a /\ Least(a, b) <= b
         /\ (Least(a, b) = a \/ Least(a, b) = b)
  BY DEF Least

\* The n bytes after the a-th.
LEMMA BytesAre ==
  ASSUME NEW a \in Int, NEW n \in Nat
  PROVE  /\ Bytes(a, n) \in Seq(Int) /\ Len(Bytes(a, n)) = n
         /\ \A i \in 1 .. n : Bytes(a, n)[i] = a + i
<1>1. PICK f : f = [i \in 1 .. n |-> a + i]  OBVIOUS
<1>2. f \in Seq(Int) /\ Len(f) = n /\ \A i \in 1 .. n : f[i] = a + i
  BY <1>1
<1>3. QED  BY <1>1, <1>2 DEF Bytes

\* A list of consecutive bytes is Bytes.
LEMMA SameBytes ==
  ASSUME NEW q \in Seq(Int), NEW a \in Int, \A i \in 1 .. Len(q) : q[i] = a + i
  PROVE  q = Bytes(a, Len(q))
<1>1. Len(q) \in Nat /\ DOMAIN q = 1 .. Len(q)  OBVIOUS
<1>2. q = [i \in 1 .. Len(q) |-> q[i]]  OBVIOUS
<1>3. QED  BY <1>2 DEF Bytes

\* Bytes read one after the other are bytes read at once.
LEMMA BytesConcat ==
  ASSUME NEW a \in Int, NEW n \in Nat, NEW m \in Nat
  PROVE  Bytes(a, n) \o Bytes(a + n, m) = Bytes(a, n + m)
<1>1. PICK p \in Seq(Int), q \in Seq(Int) : p = Bytes(a, n) /\ q = Bytes(a + n, m)  BY BytesAre
<1>2. /\ Len(p) = n /\ (\A i \in 1 .. n : p[i] = a + i)
      /\ Len(q) = m /\ (\A i \in 1 .. m : q[i] = a + n + i)
  <2>1. a + n \in Int  OBVIOUS
  <2>2. QED  BY <1>1, <2>1, BytesAre
<1>a. p \o q \in Seq(Int)  BY ConcatProperties
<1>3. PICK r \in Seq(Int) : r = p \o q  BY <1>a
<1>4. Len(r) = n + m /\ \A i \in 1 .. n + m : r[i] = IF i <= n THEN p[i] ELSE q[i - n]
  BY <1>2, <1>3, ConcatProperties
<1>5. ASSUME NEW i \in 1 .. Len(r) PROVE r[i] = a + i
  <2>1. CASE i <= n  BY <2>1, <1>2, <1>4
  <2>2. CASE i > n
    <3>1. i - n \in 1 .. m /\ r[i] = q[i - n]  BY <2>2, <1>4
    <3>2. q[i - n] = a + n + (i - n)  BY <3>1, <1>2
    <3>3. QED  BY <3>1, <3>2
  <2>3. QED  BY <2>1, <2>2
<1>6. r = Bytes(a, Len(r))  BY <1>5, SameBytes
<1>7. QED  BY <1>1, <1>3, <1>4, <1>6

\* A part of consecutive bytes is consecutive.
LEMMA BytesPart ==
  ASSUME NEW a \in Int, NEW n \in Nat, NEW k \in Nat, NEW m \in Nat, k <= m, m <= n
  PROVE  SubSeq(Bytes(a, n), k + 1, m) = Bytes(a + k, m - k)
<1>1. PICK p \in Seq(Int) : p = Bytes(a, n)  BY BytesAre
<1>2. Len(p) = n /\ \A i \in 1 .. n : p[i] = a + i  BY <1>1, BytesAre
<1>3. PICK q : q = SubSeq(p, k + 1, m)  OBVIOUS
<1>4. /\ q \in Seq(Int) /\ Len(q) = m - k
      /\ \A i \in 1 .. m - k : q[i] = p[k + i]
  <2>1. q = [i \in 1 .. m - k |-> p[k + i]]  BY <1>3
  <2>2. \A i \in 1 .. m - k : p[k + i] \in Int  BY <1>2
  <2>3. m - k \in Nat  OBVIOUS
  <2>4. QED  BY <2>1, <2>2, <2>3
<1>5. \A i \in 1 .. m - k : q[i] = a + k + i  BY <1>2, <1>4
<1>6. q = Bytes(a + k, Len(q))
  <2>1. a + k \in Int  OBVIOUS
  <2>2. QED  BY <1>4, <1>5, <2>1, SameBytes
<1>7. QED  BY <1>1, <1>3, <1>4, <1>6

\* split_off of a buffer of consecutive bytes.
LEMMA BytesSplit ==
  ASSUME NEW a \in Int, NEW l \in Nat, NEW n \in Nat, n <= l
  PROVE  SubSeq(Bytes(a, l), 1, n) = Bytes(a, n)
         /\ SubSeq(Bytes(a, l), n + 1, l) = Bytes(a + n, l - n)
<1>1. 0 \in Nat /\ 0 <= n /\ l <= l /\ 0 + 1 = 1 /\ a + 0 = a /\ n - 0 = n  OBVIOUS
<1>2. SubSeq(Bytes(a, l), 0 + 1, n) = Bytes(a + 0, n - 0)  BY <1>1, BytesPart
<1>3. SubSeq(Bytes(a, l), n + 1, l) = Bytes(a + n, l - n)  BY <1>1, BytesPart
<1>4. QED  BY <1>1, <1>2, <1>3

\* The end of a buffer of consecutive bytes.
LEMMA BytesLast ==
  ASSUME NEW a \in Int, NEW n \in Nat, NEW m \in Nat
  PROVE  LastOf(Bytes(a, n), m) = Bytes(a + n - Least(m, n), Least(m, n))
<1>1. Len(Bytes(a, n)) = n  BY BytesAre
<1>2. PICK l : l = Least(m, n)  OBVIOUS
<1>3. l \in Nat /\ l <= n  BY <1>2 DEF Least
<1>4. PICK k \in Nat : k = n - l  BY <1>3
<1>5. LastOf(Bytes(a, n), m) = SubSeq(Bytes(a, n), k + 1, n)
  <2>1. n - l + 1 = k + 1  BY <1>3, <1>4
  <2>2. QED  BY <1>1, <1>2, <2>1 DEF LastOf
<1>6. k <= n /\ n - k = l /\ a + k = a + n - l /\ n <= n  BY <1>3, <1>4
<1>7. SubSeq(Bytes(a, n), k + 1, n) = Bytes(a + k, n - k)  BY <1>6, BytesPart
<1>8. QED  BY <1>2, <1>5, <1>6, <1>7

\* The command that bash() runs, where bash() can be, and its state.
Cmd == [shell : BOOLEAN, bg : BOOLEAN, avail : Nat, out : Nat, due : Nat]
BashAt == {"no", "poll", "drain", "last", "check", "stop", "again", "done", "failed"}
Bash == [at : BashAt, clock : Nat, eof : BOOLEAN, timed_out : BOOLEAN, left : Nat]

\* What bash() has read and what is still in the pipe is what was written.
PipeIsCounted ==
  ~pworld.endless => /\ sink.bytes + cmd.avail = cmd.out /\ cmd.out <= MaxOut /\ cmd.due <= cmd.out

\* How far bash() is says what has become of the shell.
BashPhases ==
  /\ bash.eof => ~cmd.shell /\ ~cmd.bg /\ cmd.avail = 0
  /\ bash.at = "no" => ~bash.eof
  /\ bash.at \in {"again", "last", "done"} => ~cmd.shell
  /\ bash.at = "stop" => bash.left = 3
  /\ bash.at = "again" /\ bash.left < 3 /\ ~pworld.endless => sink.bytes >= cmd.due

\* The inductive invariant of bash().
BashInv ==
  /\ cmd \in Cmd /\ bash \in Bash /\ sink.bytes \in Nat
  /\ PipeIsCounted /\ BashPhases /\ OutputIsWhole /\ LastWordsAreKept

\* bash() is not called and nothing was written.
LEMMA BashStart == ASSUME TermInit PROVE BashInv
<1> USE TermBounds DEF TermInit
<1>1. cmd \in Cmd /\ bash \in Bash /\ sink.bytes \in Nat  BY DEF Cmd, Bash, BashAt
<1>2. PipeIsCounted /\ BashPhases /\ LastWordsAreKept
  BY DEF PipeIsCounted, BashPhases, LastWordsAreKept
<1>3. OutputIsWhole
  <2>1. 0 \in Int /\ 0 \in Nat /\ TAIL_BYTES \in Nat  OBVIOUS
  <2>2. Bytes(0, 0) \in Seq(Int) /\ Len(Bytes(0, 0)) = 0  BY <2>1, BytesAre
  <2>3. Bytes(0, 0) = <<>>  BY <2>2
  <2>4. LastOf(Bytes(0, 0), TAIL_BYTES) = Bytes(0 + 0 - Least(TAIL_BYTES, 0), Least(TAIL_BYTES, 0))
    BY <2>1, BytesLast
  <2>5. Least(TAIL_BYTES, 0) = 0  BY <2>1 DEF Least
  <2>6. 0 + 0 - 0 = 0  OBVIOUS
  <2>7. QED  BY <2>1, <2>3, <2>4, <2>5, <2>6 DEF OutputIsWhole
<1>4. QED  BY <1>1, <1>2, <1>3 DEF BashInv

\* Sink::push() keeps what it has told.
LEMMA PushIsWhole ==
  ASSUME OutputIsWhole, sink.bytes \in Nat, NEW n \in Nat, sink' = Pushed(n)
  PROVE  OutputIsWhole' /\ sink'.bytes = sink.bytes + n
<1> USE TermBounds
<1>1. PICK b \in Nat, t \in Nat : b = sink.bytes /\ t = TAIL_BYTES  OBVIOUS
<1>2. PICK l : l = Least(t, b)  OBVIOUS
<1>3. l \in Nat /\ l <= b /\ l <= t /\ (l = t \/ l = b)  BY <1>2 DEF Least
<1>4. sink.tail = Bytes(b - l, l)
  <2>1. LastOf(Bytes(0, b), t) = Bytes(0 + b - l, l)  BY <1>2, BytesLast
  <2>2. 0 + b - l = b - l  BY <1>3
  <2>3. QED  BY <2>1, <2>2, <1>1 DEF OutputIsWhole
<1>5. PICK all : all = sink.tail \o Bytes(sink.bytes, n)  OBVIOUS
<1>6. all = Bytes(b - l, l + n)
  <2>1. b - l \in Int /\ b - l + l = b  BY <1>3
  <2>2. Bytes(b - l, l) \o Bytes(b - l + l, n) = Bytes(b - l, l + n)  BY <1>3, <2>1, BytesConcat
  <2>3. QED  BY <2>1, <2>2, <1>1, <1>4, <1>5
<1>7. PICK c \in Nat : c = b + n  OBVIOUS
<1>8. Least(t, l + n) = Least(t, c)  BY <1>3, <1>7 DEF Least
<1>9. LastOf(all, t) = LastOf(Bytes(0, c), t)
  <2>1. b - l \in Int /\ l + n \in Nat /\ 0 \in Int  BY <1>3
  <2>2. LastOf(all, t) = Bytes(b - l + (l + n) - Least(t, l + n), Least(t, l + n))
    BY <2>1, <1>6, BytesLast
  <2>3. LastOf(Bytes(0, c), t) = Bytes(0 + c - Least(t, c), Least(t, c))  BY <2>1, BytesLast
  <2>4. Least(t, c) \in Nat  BY DEF Least
  <2>5. b - l + (l + n) - Least(t, l + n) = 0 + c - Least(t, c)  BY <1>3, <1>7, <1>8, <2>4
  <2>6. QED  BY <2>2, <2>3, <2>5, <1>8
<1>10. PICK sp : sp = IF b + n <= t THEN <<>> ELSE IF sink.spill = <<>> THEN all
                      ELSE sink.spill \o Bytes(b, n)
  OBVIOUS
<1>11. sink' = [bytes |-> c, tail |-> LastOf(all, t), spill |-> sp]
  BY <1>1, <1>5, <1>7, <1>10 DEF Pushed
<1>12. sp = IF c > t THEN Bytes(0, c) ELSE <<>>
  <2>1. CASE c <= t  BY <2>1, <1>7, <1>10
  <2>2. CASE c > t
    <3>1. CASE b <= t
      <4>1. sink.spill = <<>>  BY <3>1, <1>1 DEF OutputIsWhole
      <4>2. l = b  BY <3>1, <1>3
      <4>3. b - l = 0 /\ l + n = c  BY <4>2, <1>7
      <4>4. sp = all  BY <4>1, <2>2, <1>7, <1>10
      <4>5. QED  BY <4>3, <4>4, <1>6, <2>2
    <3>2. CASE b > t
      <4>1. sink.spill = Bytes(0, b)  BY <3>2, <1>1 DEF OutputIsWhole
      <4>2. Len(Bytes(0, b)) = b /\ b > 0
        <5>1. PICK z \in Int : z = 0  OBVIOUS
        <5>2. Len(Bytes(z, b)) = b  BY BytesAre
        <5>3. QED  BY <5>1, <5>2, <1>1, <3>2
      <4>3. sink.spill # <<>>  BY <4>1, <4>2
      <4>4. sp = Bytes(0, b) \o Bytes(b, n)  BY <4>1, <4>3, <2>2, <1>7, <1>10
      <4>5. 0 \in Int /\ 0 + b = b  OBVIOUS
      <4>6. Bytes(0, b) \o Bytes(0 + b, n) = Bytes(0, b + n)  BY <4>5, BytesConcat
      <4>7. QED  BY <4>4, <4>5, <4>6, <1>7, <2>2
    <3>3. QED  BY <3>1, <3>2
  <2>3. QED  BY <2>1, <2>2
<1>13. sink'.bytes = c /\ sink'.tail = LastOf(Bytes(0, c), t) /\ sink'.spill = sp
  BY <1>9, <1>11
<1>14. QED  BY <1>1, <1>7, <1>12, <1>13 DEF OutputIsWhole

\* A step of the command or of bash() that leaves the output of bash() alone.
LEMMA BashKeeps ==
  ASSUME BashInv, UNCHANGED <<sink, pworld>>, cmd' \in Cmd, bash' \in Bash,
         PipeIsCounted', BashPhases', LastWordsAreKept'
  PROVE  BashInv'
  BY DEF BashInv, OutputIsWhole

\* The fields of the command and of bash().
LEMMA BashFields ==
  ASSUME BashInv
  PROVE  /\ cmd.shell \in BOOLEAN /\ cmd.bg \in BOOLEAN /\ cmd.avail \in Nat /\ cmd.out \in Nat
         /\ cmd.due \in Nat /\ bash.at \in BashAt /\ bash.clock \in Nat /\ bash.eof \in BOOLEAN
         /\ bash.timed_out \in BOOLEAN /\ bash.left \in Nat /\ sink.bytes \in Nat
  BY DEF BashInv, Cmd, Bash

\* The command writes or exits: bash() finds out later.
LEMMA CommandKeeps ==
  ASSUME BashInv, CommandWrites \/ ShellExits \/ BackgroundExits
  PROVE  BashInv'
<1> USE BashFields, TermBounds
<1>0. cmd \in Cmd /\ bash \in Bash /\ UNCHANGED <<bash, sink, pworld>>
  BY DEF BashInv, CommandWrites, ShellExits, BackgroundExits
<1>1. CASE CommandWrites
  <2>1. cmd' = [cmd EXCEPT !.avail = @ + 1, !.out = IF @ < MaxOut THEN @ + 1 ELSE @]
        /\ (cmd.shell \/ cmd.bg) /\ (cmd.out < MaxOut \/ pworld.endless)
    BY <1>1 DEF CommandWrites
  <2>2. cmd' \in Cmd /\ cmd'.shell = cmd.shell /\ cmd'.bg = cmd.bg /\ cmd'.due = cmd.due
        /\ cmd'.avail = cmd.avail + 1 /\ cmd'.out = IF cmd.out < MaxOut THEN cmd.out + 1 ELSE cmd.out
    <3>1. PICK o : o = IF cmd.out < MaxOut THEN cmd.out + 1 ELSE cmd.out  OBVIOUS
    <3>2. PICK v : v = cmd.avail + 1  OBVIOUS
    <3>3. o \in Nat /\ v \in Nat  BY <3>1, <3>2
    <3>4. cmd' = [cmd EXCEPT !.avail = v, !.out = o]  BY <2>1, <3>1, <3>2, <1>0 DEF Cmd
    <3>5. QED  BY <3>1, <3>2, <3>3, <3>4, <1>0 DEF Cmd
  <2>3. PipeIsCounted'  BY <1>0, <2>1, <2>2 DEF BashInv, PipeIsCounted
  <2>4. BashPhases'  BY <1>0, <2>1, <2>2 DEF BashInv, BashPhases
  <2>5. LastWordsAreKept'  BY <1>0, <2>2 DEF BashInv, LastWordsAreKept
  <2>6. QED  BY <1>0, <2>2, <2>3, <2>4, <2>5, BashKeeps
<1>2. CASE ShellExits
  <2>1. cmd' = [cmd EXCEPT !.shell = FALSE, !.due = cmd.out] /\ cmd.shell
    BY <1>2 DEF ShellExits
  <2>2. cmd' \in Cmd /\ cmd'.shell = FALSE /\ cmd'.bg = cmd.bg /\ cmd'.due = cmd.out
        /\ cmd'.avail = cmd.avail /\ cmd'.out = cmd.out
    BY <2>1, <1>0 DEF Cmd
  <2>3. PipeIsCounted'  BY <1>0, <2>1, <2>2 DEF BashInv, PipeIsCounted
  <2>4. BashPhases'  BY <1>0, <2>1, <2>2 DEF BashInv, BashPhases
  <2>5. LastWordsAreKept'  BY <1>0, <2>1, <2>2 DEF BashInv, BashPhases, LastWordsAreKept
  <2>6. QED  BY <1>0, <2>2, <2>3, <2>4, <2>5, BashKeeps
<1>3. CASE BackgroundExits
  <2>1. cmd' = [cmd EXCEPT !.bg = FALSE]  BY <1>3 DEF BackgroundExits
  <2>2. cmd' \in Cmd /\ cmd'.shell = cmd.shell /\ cmd'.bg = FALSE /\ cmd'.due = cmd.due
        /\ cmd'.avail = cmd.avail /\ cmd'.out = cmd.out
    BY <2>1, <1>0 DEF Cmd
  <2>3. PipeIsCounted'  BY <1>0, <2>2 DEF BashInv, PipeIsCounted
  <2>4. BashPhases'  BY <1>0, <2>2 DEF BashInv, BashPhases
  <2>5. LastWordsAreKept'  BY <1>0, <2>2 DEF BashInv, LastWordsAreKept
  <2>6. QED  BY <1>0, <2>2, <2>3, <2>4, <2>5, BashKeeps
<1>4. QED  BY <1>1, <1>2, <1>3

\* stop_group() kills the shell, and leaves the pipe as it is.
LEMMA GroupStops ==
  ASSUME NEW g \in Cmd
  PROVE  /\ StopGroup(g) \in Cmd /\ ~StopGroup(g).shell /\ (StopGroup(g).bg => g.bg)
         /\ StopGroup(g).avail = g.avail /\ StopGroup(g).out = g.out /\ StopGroup(g).due = g.due
  BY DEF StopGroup, Cmd

\* bash(), one step of it.
LEMMA WatchKeeps ==
  ASSUME BashInv, Clock \/ BashBegin \/ Poll \/ Check \/ TimesOut \/ Again \/ SpillFails
  PROVE  BashInv'
<1> USE BashFields, TermBounds
<1>0. cmd \in Cmd /\ bash \in Bash /\ UNCHANGED <<sink, pworld>>
  BY DEF BashInv, Clock, BashBegin, Poll, Check, TimesOut, Again, SpillFails
<1>1. CASE Clock
  <2>1. bash' = [bash EXCEPT !.clock = @ + 1] /\ UNCHANGED cmd  BY <1>1 DEF Clock
  <2>2. bash' \in Bash /\ bash'.at = bash.at /\ bash'.eof = bash.eof /\ bash'.left = bash.left
    BY <2>1, <1>0 DEF Bash
  <2>3. PipeIsCounted' /\ LastWordsAreKept'
    BY <1>0, <2>1, <2>2 DEF BashInv, PipeIsCounted, LastWordsAreKept
  <2>4. BashPhases'  BY <1>0, <2>1, <2>2 DEF BashInv, BashPhases
  <2>5. QED  BY <1>0, <2>1, <2>2, <2>3, <2>4, BashKeeps
<1>2. CASE BashBegin
  <2>1. bash.at = "no" /\ bash' = [bash EXCEPT !.at = "poll"]  BY <1>2 DEF BashBegin
  <2>2. PICK bg \in BOOLEAN : cmd' = [cmd EXCEPT !.shell = TRUE, !.bg = bg]
    BY <1>2 DEF BashBegin
  <2>3. bash' \in Bash /\ bash'.at = "poll" /\ bash'.eof = bash.eof /\ bash'.left = bash.left
    BY <2>1, <1>0 DEF Bash, BashAt
  <2>4. cmd' \in Cmd /\ cmd'.due = cmd.due /\ cmd'.avail = cmd.avail /\ cmd'.out = cmd.out
    BY <2>2, <1>0 DEF Cmd
  <2>5. PipeIsCounted' /\ LastWordsAreKept'
    BY <1>0, <2>3, <2>4 DEF BashInv, PipeIsCounted, LastWordsAreKept
  <2>6. BashPhases'  BY <1>0, <2>1, <2>3, <2>4 DEF BashInv, BashPhases
  <2>7. QED  BY <1>0, <2>3, <2>4, <2>5, <2>6, BashKeeps
<1>3. CASE Poll
  <2>1. bash.at = "poll" /\ UNCHANGED cmd
        /\ bash' = [bash EXCEPT !.at = IF ~bash.eof /\ cmd.avail > 0 THEN "drain" ELSE "check"]
    BY <1>3 DEF Poll
  <2>2. bash' \in Bash /\ bash'.at \in {"drain", "check"} /\ bash'.eof = bash.eof
    BY <2>1, <1>0 DEF Bash, BashAt
  <2>3. PipeIsCounted' /\ LastWordsAreKept'
    BY <1>0, <2>1, <2>2 DEF BashInv, PipeIsCounted, LastWordsAreKept
  <2>4. BashPhases'  BY <1>0, <2>1, <2>2 DEF BashInv, BashPhases
  <2>5. QED  BY <1>0, <2>1, <2>2, <2>3, <2>4, BashKeeps
<1>4. CASE Check
  <2>1. /\ bash.at = "check" /\ UNCHANGED cmd
        /\ bash' = [bash EXCEPT !.left = 3, !.at = IF ~cmd.shell THEN "again"
                                            ELSE IF bash.clock >= timeout_ms THEN "stop" ELSE "poll"]
    BY <1>4 DEF Check
  <2>2. bash' \in Bash /\ bash'.at \in {"again", "stop", "poll"} /\ bash'.eof = bash.eof
        /\ bash'.left = 3 /\ (bash'.at = "again" => ~cmd.shell)
    BY <2>1, <1>0 DEF Bash, BashAt
  <2>3. PipeIsCounted' /\ LastWordsAreKept'
    BY <1>0, <2>1, <2>2 DEF BashInv, PipeIsCounted, LastWordsAreKept
  <2>4. BashPhases'  BY <1>0, <2>1, <2>2 DEF BashInv, BashPhases
  <2>5. QED  BY <1>0, <2>1, <2>2, <2>3, <2>4, BashKeeps
<1>5. CASE TimesOut
  <2>1. bash.at = "stop" /\ bash' = [bash EXCEPT !.timed_out = TRUE, !.at = "again"]
        /\ cmd' = StopGroup(cmd)
    BY <1>5 DEF TimesOut
  <2>2. bash' \in Bash /\ bash'.at = "again" /\ bash'.eof = bash.eof /\ bash'.left = bash.left
    BY <2>1, <1>0 DEF Bash, BashAt
  <2>3. cmd' \in Cmd /\ ~cmd'.shell /\ (cmd'.bg => cmd.bg) /\ cmd'.avail = cmd.avail
        /\ cmd'.out = cmd.out /\ cmd'.due = cmd.due
    BY <2>1, <1>0, GroupStops
  <2>4. PipeIsCounted' /\ LastWordsAreKept'
    BY <1>0, <2>2, <2>3 DEF BashInv, PipeIsCounted, LastWordsAreKept
  <2>5. BashPhases'  BY <1>0, <2>1, <2>2, <2>3 DEF BashInv, BashPhases
  <2>6. QED  BY <1>0, <2>2, <2>3, <2>4, <2>5, BashKeeps
<1>6. CASE Again
  <2> DEFINE more == bash.left > 0 /\ ~bash.eof /\ cmd.avail > 0
  <2>1. bash.at = "again" /\ UNCHANGED cmd
        /\ bash' = [bash EXCEPT !.at = IF more THEN "last" ELSE "done", !.left = IF more THEN @ - 1
             ELSE @]
    BY <1>6 DEF Again
  <2>2. bash' \in Bash /\ bash'.at = (IF more THEN "last" ELSE "done") /\ bash'.eof = bash.eof
    <3>1. PICK a : a = IF more THEN "last" ELSE "done"  OBVIOUS
    <3>2. PICK l : l = IF more THEN bash.left - 1 ELSE bash.left  OBVIOUS
    <3>3. a \in BashAt  BY <3>1 DEF BashAt
    <3>4. l \in Nat  BY <3>2
    <3>5. bash' = [bash EXCEPT !.at = a, !.left = l]  BY <2>1, <3>1, <3>2, <1>0 DEF Bash
    <3>6. QED  BY <3>1, <3>3, <3>4, <3>5, <1>0 DEF Bash
  <2>3. PipeIsCounted'  BY <1>0, <2>1 DEF BashInv, PipeIsCounted
  <2>4. BashPhases'  BY <1>0, <2>1, <2>2 DEF BashInv, BashPhases
  <2>5. LastWordsAreKept'
    <3>1. ASSUME ~more, ~pworld.endless PROVE sink.bytes >= cmd.due
      <4>1. sink.bytes + cmd.avail = cmd.out /\ cmd.due <= cmd.out
        BY <3>1 DEF BashInv, PipeIsCounted
      <4>2. CASE cmd.avail = 0  BY <4>1, <4>2
      <4>3. CASE bash.eof  BY <4>3, <4>2 DEF BashInv, BashPhases
      <4>4. CASE bash.left = 0  BY <4>4, <3>1, <2>1 DEF BashInv, BashPhases
      <4>5. QED  BY <3>1, <4>2, <4>3, <4>4
    <3>2. QED  BY <3>1, <1>0, <2>1, <2>2 DEF LastWordsAreKept
  <2>6. QED  BY <1>0, <2>1, <2>2, <2>3, <2>4, <2>5, BashKeeps
<1>7. CASE SpillFails
  <2>1. bash.at \in {"drain", "last"} /\ bash' = [bash EXCEPT !.at = "failed"]
        /\ cmd' = StopGroup(cmd)
    BY <1>7 DEF SpillFails
  <2>2. bash' \in Bash /\ bash'.at = "failed" /\ bash'.eof = bash.eof
    BY <2>1, <1>0 DEF Bash, BashAt
  <2>3. cmd' \in Cmd /\ ~cmd'.shell /\ (cmd'.bg => cmd.bg) /\ cmd'.avail = cmd.avail
        /\ cmd'.out = cmd.out /\ cmd'.due = cmd.due
    BY <2>1, <1>0, GroupStops
  <2>4. PipeIsCounted' /\ LastWordsAreKept'
    BY <1>0, <2>2, <2>3 DEF BashInv, PipeIsCounted, LastWordsAreKept
  <2>5. BashPhases'  BY <1>0, <2>1, <2>2, <2>3 DEF BashInv, BashPhases
  <2>6. QED  BY <1>0, <2>2, <2>3, <2>4, <2>5, BashKeeps
<1>8. QED  BY <1>1, <1>2, <1>3, <1>4, <1>5, <1>6, <1>7

\* A read of the pipe moves its bytes to the sink, in order.
LEMMA DrainKeeps == ASSUME BashInv, Drain PROVE BashInv'
<1> USE BashFields, TermBounds
<1>0. cmd \in Cmd /\ bash \in Bash /\ UNCHANGED pworld /\ bash.at \in {"drain", "last"}
  BY DEF BashInv, Drain
<1>1. PICK n : n = Least(cmd.avail, CHUNK)  OBVIOUS
<1>2. n \in Nat /\ n <= cmd.avail /\ (n = 0 => cmd.avail = 0)  BY <1>1 DEF Least
<1>3. CASE n > 0
  <2>1. /\ sink' = IF sink.bytes + n <= MaxOut THEN Pushed(n) ELSE sink
        /\ cmd' = [cmd EXCEPT !.avail = @ - n] /\ UNCHANGED bash
    BY <1>1, <1>3 DEF Drain
  <2>2. cmd' \in Cmd /\ cmd'.avail = cmd.avail - n /\ cmd'.out = cmd.out /\ cmd'.due = cmd.due
        /\ cmd'.shell = cmd.shell /\ cmd'.bg = cmd.bg
    BY <2>1, <1>0, <1>2 DEF Cmd
  <2>3. OutputIsWhole' /\ sink'.bytes \in Nat /\ sink'.bytes >= sink.bytes
        /\ (sink.bytes + n <= MaxOut => sink'.bytes = sink.bytes + n)
    <3>1. CASE sink.bytes + n <= MaxOut
      <4>1. sink' = Pushed(n)  BY <2>1, <3>1
      <4>2. OutputIsWhole' /\ sink'.bytes = sink.bytes + n
        BY <4>1, <1>2, PushIsWhole DEF BashInv
      <4>3. QED  BY <4>2, <1>2
    <3>2. CASE ~(sink.bytes + n <= MaxOut)
      BY <3>2, <2>1 DEF BashInv, OutputIsWhole
    <3>3. QED  BY <3>1, <3>2
  <2>4. ~pworld.endless => sink.bytes + n <= MaxOut
    BY <1>2 DEF BashInv, PipeIsCounted
  <2>5. PipeIsCounted'  BY <1>0, <1>2, <2>2, <2>3, <2>4 DEF BashInv, PipeIsCounted
  <2>6. ~bash.eof  BY <1>2, <1>3 DEF BashInv, BashPhases
  <2>7. BashPhases' /\ LastWordsAreKept'
    BY <1>0, <2>1, <2>2, <2>6 DEF BashInv, BashPhases, LastWordsAreKept
  <2>8. QED  BY <1>0, <2>1, <2>2, <2>3, <2>5, <2>7 DEF BashInv
<1>4. CASE n = 0
  <2>1. /\ bash' = [bash EXCEPT !.eof = ~(cmd.shell \/ cmd.bg),
                                !.at = IF @ = "drain" THEN "check" ELSE "again"]
        /\ UNCHANGED <<sink, cmd>>
    BY <1>1, <1>4 DEF Drain
  <2>2. bash' \in Bash /\ bash'.at = (IF bash.at = "drain" THEN "check" ELSE "again")
        /\ (bash'.eof => ~cmd.shell /\ ~cmd.bg) /\ bash'.left = bash.left
    BY <2>1, <1>0 DEF Bash, BashAt
  <2>3. cmd.avail = 0  BY <1>2, <1>4
  <2>4. PipeIsCounted' /\ LastWordsAreKept'
    BY <1>0, <2>1, <2>2 DEF BashInv, PipeIsCounted, LastWordsAreKept
  <2>5. ~pworld.endless => sink.bytes >= cmd.due  BY <2>3 DEF BashInv, PipeIsCounted
  <2>6. BashPhases'  BY <1>0, <2>1, <2>2, <2>3, <2>5 DEF BashInv, BashPhases
  <2>7. QED  BY <1>0, <2>1, <2>2, <2>4, <2>6, BashKeeps DEF BashInv
<1>5. QED  BY <1>2, <1>3, <1>4

\* A terminal.
Pty == [open : BOOLEAN, shell : BOOLEAN, bg : BOOLEAN, avail : Nat, out : Nat, input : Int]

\* The ring holds the bytes from where its reader will be, up to what was read of the terminal.
PtyInv ==
  /\ pty \in Pty /\ busy.left \in Int
  /\ ring.dropped \in Nat /\ seen \in Nat /\ Len(ring.buf) \in Nat
  /\ ring.buf = Bytes(seen + ring.dropped, Len(ring.buf))
  /\ seen + ring.dropped + Len(ring.buf) = pty.out - pty.avail
  /\ ~missed

\* No terminal is open and its ring is empty.
LEMMA PtyStart == ASSUME TermInit PROVE PtyInv
<1>1. Bytes(0 + 0, 0) = <<>>
  <2>1. 0 + 0 \in Int /\ 0 \in Nat  OBVIOUS
  <2>2. Bytes(0 + 0, 0) \in Seq(Int) /\ Len(Bytes(0 + 0, 0)) = 0  BY <2>1, BytesAre
  <2>3. QED  BY <2>2
<1>2. pty \in Pty /\ busy.left \in Int  BY DEF TermInit, Pty, Free
<1>3. ring.buf = <<>> /\ Len(ring.buf) = 0 /\ ring.dropped = 0 /\ seen = 0 /\ ~missed
      /\ pty.out = 0 /\ pty.avail = 0
  BY DEF TermInit
<1>4. ring.buf = Bytes(seen + ring.dropped, Len(ring.buf))  BY <1>1, <1>3
<1>5. QED  BY <1>2, <1>3, <1>4 DEF PtyInv

\* A step of a terminal that leaves its ring alone.
LEMMA PtyKeeps ==
  ASSUME PtyInv, pty' \in Pty, busy'.left \in Int, pty'.out - pty'.avail = pty.out - pty.avail,
         UNCHANGED <<ring, seen, missed>>
  PROVE  PtyInv'
  BY DEF PtyInv

\* The steps of a terminal that leave its ring alone.
LEMMA PtyStepKeeps ==
  ASSUME PtyInv, \/ PtyOpen \/ PtyWrites \/ PtyExits \/ PtyReadsInput \/ SendWrites \/ CloseBegin
                 \/ CloseJoins \/ ReaderEnds \/ \E n \in 1 .. PIPE + 1 : SendBegin(n)
  PROVE  PtyInv'
<1> USE TermBounds
<1>0. /\ pty \in Pty /\ busy.left \in Int /\ pty.open \in BOOLEAN /\ pty.shell \in BOOLEAN
      /\ pty.bg \in BOOLEAN /\ pty.avail \in Nat /\ pty.out \in Nat /\ pty.input \in Int
  BY DEF PtyInv, Pty
<1>f. Free.left \in Int  BY DEF Free
<1>1. CASE PtyOpen
  <2>1. PICK bg \in BOOLEAN : pty' = [pty EXCEPT !.open = TRUE, !.shell = TRUE, !.bg = bg]
    BY <1>1 DEF PtyOpen
  <2>2. pty' \in Pty /\ pty'.out = pty.out /\ pty'.avail = pty.avail  BY <2>1, <1>0 DEF Pty
  <2>3. UNCHANGED <<ring, seen, missed, busy>>  BY <1>1 DEF PtyOpen
  <2>4. QED  BY <2>2, <2>3, <1>0, PtyKeeps
<1>2. CASE PtyWrites
  <2>1. pty' = [pty EXCEPT !.avail = @ + 1, !.out = @ + 1]  BY <1>2 DEF PtyWrites
  <2>2. pty' \in Pty /\ pty'.out = pty.out + 1 /\ pty'.avail = pty.avail + 1
    <3>1. PICK v \in Nat, o \in Nat : v = pty.avail + 1 /\ o = pty.out + 1  BY <1>0
    <3>2. pty' = [pty EXCEPT !.avail = v, !.out = o]  BY <2>1, <3>1, <1>0 DEF Pty
    <3>3. QED  BY <3>1, <3>2, <1>0 DEF Pty
  <2>3. UNCHANGED <<ring, seen, missed, busy>>  BY <1>2 DEF PtyWrites
  <2>4. pty'.out - pty'.avail = pty.out - pty.avail  BY <2>2, <1>0
  <2>5. QED  BY <2>2, <2>3, <2>4, <1>0, PtyKeeps
<1>3. CASE PtyExits
  <2>1. pty' = [pty EXCEPT !.shell = FALSE]  BY <1>3 DEF PtyExits
  <2>2. pty' \in Pty /\ pty'.out = pty.out /\ pty'.avail = pty.avail  BY <2>1, <1>0 DEF Pty
  <2>3. UNCHANGED <<ring, seen, missed, busy>>  BY <1>3 DEF PtyExits
  <2>4. QED  BY <2>2, <2>3, <1>0, PtyKeeps
<1>4. CASE PtyReadsInput
  <2>1. pty' = [pty EXCEPT !.input = 0]  BY <1>4 DEF PtyReadsInput
  <2>2. pty' \in Pty /\ pty'.out = pty.out /\ pty'.avail = pty.avail  BY <2>1, <1>0 DEF Pty
  <2>3. UNCHANGED <<ring, seen, missed, busy>>  BY <1>4 DEF PtyReadsInput
  <2>4. QED  BY <2>2, <2>3, <1>0, PtyKeeps
<1>5. CASE SendWrites
  <2>1. PICK n : n = Least(busy.left, PIPE - pty.input)  OBVIOUS
  <2>2. n \in Int  BY <2>1, <1>0 DEF Least
  <2>3. UNCHANGED <<ring, seen, missed>>  BY <1>5 DEF SendWrites
  <2>4. CASE ~pty.shell
    <3>1. busy' = Free /\ UNCHANGED pty  BY <1>5, <2>4 DEF SendWrites
    <3>2. QED  BY <3>1, <2>3, <1>0, <1>f, PtyKeeps
  <2>5. CASE pty.shell
    <3>1. /\ pty' = [pty EXCEPT !.input = @ + n]
          /\ busy' = IF busy.left = n THEN Free ELSE [busy EXCEPT !.left = @ - n]
      BY <1>5, <2>1, <2>5 DEF SendWrites
    <3>2. pty' \in Pty /\ pty'.out = pty.out /\ pty'.avail = pty.avail
      BY <3>1, <2>2, <1>0 DEF Pty
    <3>3. busy'.left \in Int
      <4>1. CASE busy.left = n  BY <4>1, <3>1, <1>f
      <4>2. CASE busy.left # n  BY <4>2, <3>1, <2>2, <1>0
      <4>3. QED  BY <4>1, <4>2
    <3>4. QED  BY <3>2, <3>3, <2>3, <1>0, PtyKeeps
  <2>6. QED  BY <2>4, <2>5
<1>6. CASE CloseBegin
  <2>1. pty' = [StopGroup(pty) EXCEPT !.open = FALSE] /\ busy' = [call |-> "close", left |-> 0]
        /\ UNCHANGED <<ring, seen, missed>>
    BY <1>6 DEF CloseBegin
  <2>2. PICK g : g = StopGroup(pty)  OBVIOUS
  <2>3. g \in Pty /\ g.out = pty.out /\ g.avail = pty.avail  BY <2>2, <1>0 DEF StopGroup, Pty
  <2>4. pty' \in Pty /\ pty'.out = pty.out /\ pty'.avail = pty.avail
    BY <2>1, <2>2, <2>3 DEF Pty
  <2>5. QED  BY <2>1, <2>4, <1>0, PtyKeeps
<1>7. CASE CloseJoins
  <2>1. busy' = Free /\ UNCHANGED <<pty, ring, seen, missed>>  BY <1>7 DEF CloseJoins, ptyPart
  <2>2. QED  BY <2>1, <1>0, <1>f, PtyKeeps
<1>8. CASE ReaderEnds
  <2>1. UNCHANGED <<pty, ring, seen, missed, busy>>  BY <1>8 DEF ReaderEnds
  <2>2. QED  BY <2>1, <1>0, PtyKeeps
<1>9. ASSUME NEW n \in 1 .. PIPE + 1, SendBegin(n) PROVE PtyInv'
  <2>1. busy' = [call |-> "send", left |-> n] /\ UNCHANGED <<pty, ring, seen, missed>>
    BY <1>9 DEF SendBegin, ptyPart
  <2>2. QED  BY <2>1, <1>0, PtyKeeps
<1>10. QED  BY <1>1, <1>2, <1>3, <1>4, <1>5, <1>6, <1>7, <1>8, <1>9

\* The reader thread appends to the ring, and what falls out of it is counted as dropped.
LEMMA ReadsKeep == ASSUME PtyInv, ReaderReads PROVE PtyInv'
<1> USE TermBounds
<1>0. /\ pty \in Pty /\ busy.left \in Int /\ pty.avail \in Nat /\ pty.out \in Nat
  BY DEF PtyInv, Pty
<1>a. PICK e : e = seen + ring.dropped  OBVIOUS
<1>1. PICK d \in Nat, s \in Nat, l \in Nat, r \in Nat, v \in Nat, o \in Nat :
           /\ d = ring.dropped /\ s = seen /\ l = Len(ring.buf) /\ r = RING_BYTES
           /\ v = pty.avail /\ o = pty.out
  BY <1>0 DEF PtyInv
<1>b. e \in Nat /\ e = s + d  BY <1>a, <1>1
<1>2. ring.buf = Bytes(e, l) /\ e + l = o - v  BY <1>a, <1>1 DEF PtyInv
<1>3. PICK n : n = Least(v, CHUNK)  OBVIOUS
<1>4. n \in Nat /\ n <= v  BY <1>3 DEF Least
<1>5. PICK all, kept : all = ring.buf \o Bytes(o - v, n) /\ kept = LastOf(all, r)
  OBVIOUS
<1>6. /\ ring' = [buf |-> kept, dropped |-> d + Len(all) - Len(kept)]
      /\ pty' = [pty EXCEPT !.avail = @ - n] /\ UNCHANGED <<seen, missed, busy>>
  BY <1>1, <1>3, <1>5 DEF ReaderReads, RingPush
<1>c. PICK m \in Nat : m = l + n  BY <1>4
<1>7. all = Bytes(e, m)
  <2>1. Bytes(e, l) \o Bytes(e + l, n) = Bytes(e, l + n)
    <3>1. e \in Int  BY <1>b
    <3>2. QED  BY <3>1, <1>4, BytesConcat
  <2>2. QED  BY <2>1, <1>2, <1>5, <1>c
<1>8. PICK k : k = Least(r, m)  OBVIOUS
<1>9. k \in Nat /\ k <= m  BY <1>8 DEF Least
<1>d. PICK f \in Int : f = e + m - k  BY <1>b, <1>9
<1>10. kept = Bytes(f, k)
  <2>0. e \in Int  BY <1>b
  <2>1. LastOf(Bytes(e, m), r) = Bytes(e + m - Least(r, m), Least(r, m))  BY <2>0, BytesLast
  <2>2. QED  BY <2>1, <1>5, <1>7, <1>8, <1>d
<1>11. Len(all) = m /\ Len(kept) = k
  <2>1. e \in Int  BY <1>b
  <2>2. QED  BY <2>1, <1>7, <1>9, <1>10, BytesAre
<1>12. ring'.buf = kept /\ ring'.dropped = d + m - k  BY <1>6, <1>11
<1>13. pty' \in Pty /\ pty'.out = o /\ pty'.avail = v - n
  <2>1. PICK w \in Nat : w = v - n  BY <1>4
  <2>2. pty' = [pty EXCEPT !.avail = w]  BY <2>1, <1>1, <1>6, <1>0 DEF Pty
  <2>3. QED  BY <2>1, <2>2, <1>0, <1>1 DEF Pty
<1>14. PICK g \in Nat : g = ring'.dropped /\ g = d + m - k  BY <1>9, <1>12
<1>15. s + g = f  BY <1>14, <1>b, <1>d, <1>9
<1>16. seen' = s /\ Len(ring'.buf) = k  BY <1>1, <1>6, <1>11, <1>12
<1>17. ring'.buf = Bytes(seen' + ring'.dropped, Len(ring'.buf))
  BY <1>10, <1>12, <1>14, <1>15, <1>16
<1>e. s + g + k = o - (v - n)  BY <1>2, <1>b, <1>c, <1>d, <1>15, <1>9, <1>4
<1>18. seen' + ring'.dropped + Len(ring'.buf) = pty'.out - pty'.avail
  BY <1>e, <1>13, <1>14, <1>16
<1>19. ~missed' /\ seen' \in Nat  BY <1>6 DEF PtyInv
<1>20. busy'.left \in Int  BY <1>0, <1>6
<1>21. QED  BY <1>9, <1>13, <1>14, <1>16, <1>17, <1>18, <1>19, <1>20 DEF PtyInv

\* pty_read() takes the oldest bytes of the ring and says how many were dropped before them.
LEMMA PtyReadKeeps == ASSUME PtyInv, NEW most \in Nat, PtyRead(most) PROVE PtyInv'
<1>0. pty \in Pty /\ busy.left \in Int /\ pty.avail \in Nat /\ pty.out \in Nat
  BY DEF PtyInv, Pty
<1>d. seen + ring.dropped \in Int  BY DEF PtyInv
<1>a. PICK e \in Int : e = seen + ring.dropped  BY <1>d
<1>1. PICK l \in Nat, v \in Nat, o \in Nat : l = Len(ring.buf) /\ v = pty.avail /\ o = pty.out
  BY <1>0 DEF PtyInv
<1>b. e \in Nat /\ e \in Int  BY <1>a DEF PtyInv
<1>2. ring.buf = Bytes(e, l) /\ e + l = o - v  BY <1>a, <1>1 DEF PtyInv
<1>c. Least(most, l) \in Nat  BY DEF Least
<1>3. PICK n \in Nat : n = Least(most, l)  BY <1>c
<1>4. n \in Nat /\ n <= l  BY <1>3 DEF Least
<1>5. /\ ring' = [buf |-> SubSeq(ring.buf, n + 1, l), dropped |-> 0] /\ seen' = e + n
      /\ missed' = (missed \/ SubSeq(ring.buf, 1, n) # Bytes(e, n))
      /\ UNCHANGED <<pty, busy>>
  BY <1>1, <1>3, <1>a DEF PtyRead
<1>e. n <= l  BY <1>4
<1>f. SubSeq(Bytes(e, l), 1, n) = Bytes(e, n) /\ SubSeq(Bytes(e, l), n + 1, l) = Bytes(e + n, l - n)
  BY <1>e, BytesSplit
<1>6. SubSeq(ring.buf, 1, n) = Bytes(e, n)  BY <1>2, <1>f
<1>7. SubSeq(ring.buf, n + 1, l) = Bytes(e + n, l - n)  BY <1>2, <1>f
<1>8. ~missed'  BY <1>5, <1>6 DEF PtyInv
<1>9. PICK f \in Nat, m \in Nat : f = e + n /\ m = l - n  BY <1>4, <1>b
<1>10. Len(Bytes(f, m)) = m
  <2>1. f \in Int  BY <1>9
  <2>2. QED  BY <2>1, BytesAre
<1>11. ring'.buf = Bytes(f, m) /\ ring'.dropped = 0 /\ Len(ring'.buf) = m
  BY <1>5, <1>7, <1>9, <1>10
<1>12. seen' = f  BY <1>5, <1>9
<1>13. f + 0 = f  OBVIOUS
<1>14. ring'.buf = Bytes(seen' + ring'.dropped, Len(ring'.buf))  BY <1>11, <1>12, <1>13
<1>15. f + 0 + m = o - v  BY <1>2, <1>4, <1>9, <1>b
<1>16. seen' + ring'.dropped + Len(ring'.buf) = pty'.out - pty'.avail
  BY <1>1, <1>5, <1>11, <1>12, <1>15
<1>17. pty' \in Pty /\ busy'.left \in Int  BY <1>0, <1>5
<1>18. QED  BY <1>8, <1>11, <1>12, <1>14, <1>16, <1>17 DEF PtyInv

\* Each step keeps both invariants: bash() and a terminal share no state.
LEMMA TermStepKeeps == ASSUME BashInv, PtyInv, [TermNext]_termVars PROVE BashInv' /\ PtyInv'
<1>b. ASSUME UNCHANGED <<bashPart, pworld>> PROVE BashInv'
  BY <1>b DEF bashPart, BashInv, PipeIsCounted, BashPhases, OutputIsWhole, LastWordsAreKept
<1>p. ASSUME UNCHANGED ptyPart, busy'.left \in Int PROVE PtyInv'
  BY <1>p DEF ptyPart, PtyInv
<1>0. busy.left \in Int /\ Free.left \in Int  BY DEF PtyInv, Free
<1>1. CASE \/ CommandWrites \/ ShellExits \/ BackgroundExits
  <2>1. UNCHANGED ptyPart /\ UNCHANGED busy  BY <1>1 DEF CommandWrites, ShellExits, BackgroundExits
  <2>2. QED  BY <1>1, <2>1, <1>0, <1>p, CommandKeeps
<1>2. CASE Clock \/ BashBegin \/ Poll \/ Check \/ TimesOut \/ Again \/ SpillFails
  <2>1. UNCHANGED ptyPart
    BY <1>2 DEF Clock, BashBegin, Poll, Check, TimesOut, Again, SpillFails
  <2>2. busy' = busy \/ busy' = Free \/ busy' = [call |-> "bash", left |-> 0]
    BY <1>2 DEF Clock, BashBegin, Poll, Check, TimesOut, Again, SpillFails
  <2>3. busy'.left \in Int  BY <2>2, <1>0
  <2>4. QED  BY <1>2, <2>1, <2>3, <1>p, WatchKeeps
<1>3. CASE Drain
  <2>1. UNCHANGED ptyPart /\ UNCHANGED busy  BY <1>3 DEF Drain
  <2>2. QED  BY <1>3, <2>1, <1>0, <1>p, DrainKeeps
<1>4. CASE \/ PtyOpen \/ PtyWrites \/ PtyExits \/ PtyReadsInput \/ SendWrites \/ CloseBegin
           \/ CloseJoins \/ ReaderEnds \/ \E n \in 1 .. PIPE + 1 : SendBegin(n)
  <2>1. UNCHANGED <<bashPart, pworld>>
    BY <1>4 DEF PtyOpen, PtyWrites, PtyExits, PtyReadsInput, SendWrites, CloseBegin, CloseJoins,
                ReaderEnds, SendBegin
  <2>2. QED  BY <1>4, <2>1, <1>b, PtyStepKeeps
<1>5. CASE ReaderReads
  <2>1. UNCHANGED <<bashPart, pworld>>  BY <1>5 DEF ReaderReads
  <2>2. QED  BY <1>5, <2>1, <1>b, ReadsKeep
<1>6. ASSUME NEW n \in 1 .. PIPE + 1, PtyRead(n) PROVE BashInv' /\ PtyInv'
  <2>1. UNCHANGED <<bashPart, pworld>>  BY <1>6 DEF PtyRead
  <2>2. n \in Nat  BY TermBounds
  <2>3. QED  BY <1>6, <2>1, <2>2, <1>b, PtyReadKeeps
<1>7. CASE UNCHANGED termVars
  <2>1. UNCHANGED <<bashPart, pworld>> /\ UNCHANGED ptyPart /\ UNCHANGED busy
    BY <1>7 DEF termVars, bashPart, ptyPart
  <2>2. QED  BY <2>1, <1>0, <1>b, <1>p
<1>8. QED
  BY <1>1, <1>2, <1>3, <1>4, <1>5, <1>6, <1>7 DEF TermNext, WorkerStep, ReaderStep

\* For any sizes of the pipe, the tail and the ring: bash() tells the size and the true end
\* of the output, with the last words of a command that ends in time, and the reads of a
\* terminal are its output with no byte twice, out of order or missing without being counted
\* (terminal.rs bash, drain and Ring).
THEOREM TerminalsTellTheTruth == TermSpec => []TerminalsAreTrue
<1>1. TermSpec => [](BashInv /\ PtyInv)
  BY BashStart, PtyStart, TermStepKeeps, PTL DEF TermSpec
<1>2. BashInv /\ PtyInv => TerminalsAreTrue
  BY DEF BashInv, PtyInv, TerminalsAreTrue, ReaderKnowsItsPlace
<1>3. QED  BY <1>1, <1>2, PTL

-----------------------------------------------------------------------------
(***************************************************************************)
(* Snapshots.  A commit is known under its step in three places, the       *)
(* workspace, base's packs and the pulls on their way; the invariant says  *)
(* that the three agree, and which of them is ahead.                       *)
(***************************************************************************)

\* Commits by step: a repository, the packs of base. A pull that is under way.
Rows == [Step -> Nat]
PullRow == [life : Nat, since : Nat, step : Nat, commit : Nat]

\* The workspace, its packs and what is staged.
SnapTypes ==
  /\ repo \in Rows /\ packs \in Rows /\ staged \in Rows /\ restore \in Rows
  /\ ws \in Nat /\ made \in Nat /\ life \in Nat /\ owed \in Nat
  /\ pulling \subseteq PullRow

\* Commit c is known under step s: in the workspace, at base, or on its way.
Known(s, c) ==
  \/ repo[s] = c
  \/ packs[s] = c
  \/ \E p \in pulling : p.life = life /\ p.step = s /\ p.commit = c

\* A step has one commit wherever it is known, and a later step a later one.
KnownOnce ==
  \A s, t \in Step : \A c, d \in Nat \ {0} :
    Known(s, c) /\ Known(t, d) => c <= made /\ (s < t => c < d) /\ (s = t => c = d)

\* A restore is on its way: base has staged it, or the node has it.
Pending == staged # NoRows \/ restore # NoRows

\* It is of the packs base has, for a workspace that has nothing yet.
PendingIsPacks ==
  /\ staged # NoRows => staged = packs /\ restore = NoRows /\ wstate # "ready" /\ repo = NoRows
  /\ restore # NoRows => restore = packs /\ staged = NoRows /\ wstate = "ready" /\ repo = NoRows

\* Without one the workspace has the newest step there is.
KnownIsHere ==
  ~Pending => \A s \in Step : \A c \in Nat \ {0} : Known(s, c) => s <= NewestStep(repo)

\* A pull was begun in this life of the workspace or before, and an answered one has a commit.
PullsAreReal ==
  \A p \in pulling :
    /\ p.life <= life
    /\ p.step # 0 => p.step \in Step /\ p.commit # 0

\* The commit of the newest step.
TopOf(f) == IF NewestStep(f) = 0 THEN 0 ELSE f[NewestStep(f)]

\* What base has promised to keep is not newer than its newest pack.
OwedIsKept == owed <= TopOf(packs)

\* Until something is written, a workspace that was restored is what base has.
FreshIsWhole ==
  /\ fresh \/ Pending =>
       \A p \in pulling : p.life = life => p.step = 0 /\ p.since = NewestStep(packs)
  /\ fresh => /\ ~Pending
              /\ NewestStep(packs) # 0 /\ NewestStep(repo) = NewestStep(packs)
              /\ ws = packs[NewestStep(packs)]

\* The inductive invariant, as long as no restore has crossed another.
SnapGood ==
  /\ SnapTypes /\ KnownOnce /\ PendingIsPacks /\ KnownIsHere /\ PullsAreReal
  /\ OwedIsKept /\ FreshIsWhole

SnapInv == ~crossed => SnapGood
---------------------------------------------------------------------------
\* There are finitely many steps, so a set of them has a greatest.
LEMMA GreatestStep ==
  ASSUME NEW T, T \subseteq Step, T # {}
  PROVE  Max(T) \in T /\ \A y \in T : y <= Max(T)
<1>0. MaxCommit \in Nat
  BY SnapBounds
<1>1. PICK R : R = {ss \in Nat \X Nat : ss[1] < ss[2]}
  OBVIOUS
<1>2. IsWellFoundedOn(R, Nat)
  BY <1>1, NatLessThanWellFounded DEF OpToRel
<1>3. PICK U : U = {MaxCommit - y : y \in T}
  OBVIOUS
<1>4. U \subseteq Nat /\ U # {}
  <2>1. \A y \in T : y \in Nat /\ y <= MaxCommit
    BY <1>0 DEF Step
  <2>2. \A y \in T : MaxCommit - y \in Nat
    BY <1>0, <2>1
  <2>3. PICK y : y \in T
    OBVIOUS
  <2>4. MaxCommit - y \in U
    BY <1>3, <2>3
  <2> QED
    BY <1>3, <2>2, <2>4
<1>5. PICK x \in U : \A y \in U : ~(<<y, x>> \in R)
  BY <1>2, <1>4, WFMin
<1>6. \A y \in U : ~(y < x)
  BY <1>1, <1>4, <1>5
<1>7. PICK z \in T : x = MaxCommit - z
  BY <1>3, <1>5
<1>8. \A y \in T : z >= y
  <2> SUFFICES ASSUME NEW y \in T PROVE z >= y
    OBVIOUS
  <2>1. MaxCommit - y \in U
    BY <1>3
  <2> QED
    BY <2>1, <1>0, <1>6, <1>7 DEF Step
<1>9. Max(T) \in T /\ \A y \in T : Max(T) >= y
  BY <1>7, <1>8 DEF Max
<1> QED
  BY <1>0, <1>9 DEF Step

\* newest_step(): the last step that has a commit, 0 for none.
LEMMA NewestIs ==
  ASSUME NEW f \in Rows
  PROVE  /\ NewestStep(f) \in Nat
         /\ NewestStep(f) = 0 <=> f = NoRows
         /\ NewestStep(f) # 0 => NewestStep(f) \in Step /\ f[NewestStep(f)] # 0
         /\ \A s \in Step : f[s] # 0 => s <= NewestStep(f)
<1>0. MaxCommit \in Nat /\ Step \subseteq Nat \ {0}
  BY SnapBounds DEF Step
<1>1. CASE Steps(f) = {}
  <2>1. NewestStep(f) = 0
    BY <1>1 DEF NewestStep
  <2>2. \A s \in Step : f[s] = 0
    BY <1>1 DEF Steps
  <2> QED
    BY <2>1, <2>2 DEF Rows, NoRows
<1>2. CASE Steps(f) # {}
  <2>1. Max(Steps(f)) \in Steps(f) /\ \A y \in Steps(f) : y <= Max(Steps(f))
    BY <1>2, GreatestStep DEF Steps
  <2>2. NewestStep(f) = Max(Steps(f))
    BY <1>2 DEF NewestStep
  <2>3. NewestStep(f) \in Step /\ f[NewestStep(f)] # 0
    BY <2>1, <2>2 DEF Steps
  <2>4. \A s \in Step : f[s] # 0 => s <= NewestStep(f)
    BY <2>1, <2>2 DEF Steps
  <2>5. f # NoRows
    BY <2>3 DEF NoRows
  <2> QED
    BY <2>3, <2>4, <2>5, <1>0
<1> QED
  BY <1>1, <1>2

\* A step with a commit and none after it is the newest.
LEMMA NewestMeans ==
  ASSUME NEW f \in Rows, NEW n \in Step, f[n] # 0, \A s \in Step : f[s] # 0 => s <= n
  PROVE  NewestStep(f) = n
<1>0. MaxCommit \in Nat /\ Step \subseteq Nat \ {0}
  BY SnapBounds DEF Step
<1>1. n <= NewestStep(f) /\ NewestStep(f) \in Nat
  BY NewestIs
<1>2. NewestStep(f) # 0
  BY <1>0, <1>1
<1>3. NewestStep(f) \in Step /\ f[NewestStep(f)] # 0
  BY <1>2, NewestIs
<1>4. NewestStep(f) <= n
  BY <1>3
<1> QED
  BY <1>0, <1>1, <1>4

\* A row with none after it is spared by a bound of one.
LEMMA SparedIsNewest ==
  ASSUME NEW f \in Rows, NEW keep \in Nat \ {0}, NEW s \in Step,
         \A t \in Step : f[t] # 0 => t <= s
  PROVE  Cardinality({t \in Steps(f) : t > s}) < keep
<1>0. MaxCommit \in Nat /\ Step \subseteq Nat \ {0}
  BY SnapBounds DEF Step
<1>1. \A t \in Steps(f) : ~(t > s)
  BY <1>0 DEF Steps
<1>2. Cardinality({t \in Steps(f) : t > s}) = 0
  BY <1>1, FS_EmptySet
<1> QED
  BY <1>2

\* g is f without some rows, and its newest row is still there.
Thinned(f, g) ==
  /\ g \in Rows
  /\ \A s \in Step : g[s] = f[s] \/ g[s] = 0
  /\ NewestStep(f) # 0 => g[NewestStep(f)] = f[NewestStep(f)]

\* Taking out rows other than the newest leaves the newest.
LEMMA ThinnedTop ==
  ASSUME NEW f \in Rows, NEW g, Thinned(f, g)
  PROVE  NewestStep(g) = NewestStep(f) /\ TopOf(g) = TopOf(f)
<1>0. MaxCommit \in Nat /\ Step \subseteq Nat \ {0} /\ g \in Rows
  BY SnapBounds DEF Step, Thinned
<1>1. CASE NewestStep(f) = 0
  <2>1. \A s \in Step : f[s] = 0
    BY <1>1, NewestIs DEF NoRows
  <2>2. g = NoRows
    BY <2>1, <1>0 DEF Thinned, Rows, NoRows
  <2>3. NewestStep(g) = 0
    BY <2>2, <1>0, NewestIs
  <2> QED
    BY <2>3, <1>1 DEF TopOf
<1>2. CASE NewestStep(f) # 0
  <2>1. PICK n \in Step : n = NewestStep(f)
    BY <1>2, NewestIs
  <2>2. f[n] # 0 /\ g[n] = f[n] /\ \A s \in Step : f[s] # 0 => s <= n
    BY <2>1, <1>2, NewestIs DEF Thinned
  <2>3. \A s \in Step : g[s] # 0 => s <= n
    BY <2>2 DEF Thinned
  <2>4. g[n] # 0
    BY <2>2
  <2>5. NewestStep(g) = n
    BY <2>3, <2>4, <1>0, NewestMeans
  <2> QED
    BY <2>5, <2>1, <2>2 DEF TopOf
<1> QED
  BY <1>1, <1>2

\* keep_packs is at least one, so prune() takes out older rows only.
LEMMA PrunedIsThinned ==
  ASSUME NEW f \in Rows
  PROVE  Thinned(f, Pruned(f))
<1>1. Pruned(f) \in Rows /\ \A s \in Step : Pruned(f)[s] = f[s] \/ Pruned(f)[s] = 0
  BY DEF Pruned, Rows
<1>2. ASSUME NewestStep(f) # 0 PROVE Pruned(f)[NewestStep(f)] = f[NewestStep(f)]
  <2>1. PICK n \in Step : n = NewestStep(f)
    BY <1>2, NewestIs
  <2>2. \A s \in Step : f[s] # 0 => s <= n
    BY <2>1, NewestIs
  <2>3. keep_packs \in Nat \ {0}
    BY SnapBounds
  <2>4. Cardinality({t \in Steps(f) : t > n}) < keep_packs
    BY <2>2, <2>3, SparedIsNewest
  <2> QED
    BY <2>1, <2>4 DEF Pruned
<1> QED
  BY <1>1, <1>2 DEF Thinned

\* put_pack() of a row, then prune(): the newest is the new row or what it was.
LEMMA PutNewest ==
  ASSUME NEW f \in Rows, NEW n \in Step, NEW c \in Nat \ {0}
  PROVE  /\ PutPack(f, n, c) \in Rows
         /\ n >= NewestStep(f) => NewestStep(PutPack(f, n, c)) = n /\ TopOf(PutPack(f, n, c)) = c
         /\ n < NewestStep(f) => /\ NewestStep(PutPack(f, n, c)) = NewestStep(f)
                                 /\ TopOf(PutPack(f, n, c)) = TopOf(f)
<1>0. MaxCommit \in Nat /\ Step \subseteq Nat \ {0} /\ n \in Nat /\ n # 0
  BY SnapBounds DEF Step
<1>1. PICK g : g = PutPack(f, n, c)
  OBVIOUS
<1>2. g \in Rows /\ g[n] = c /\ \A s \in Step : s # n => g[s] = f[s]
  BY <1>1 DEF PutPack, Rows
<1>3. NewestStep(f) \in Nat /\ \A s \in Step : f[s] # 0 => s <= NewestStep(f)
  BY NewestIs
<1>4. ASSUME n >= NewestStep(f) PROVE NewestStep(g) = n /\ TopOf(g) = c
  <2>1. \A s \in Step : g[s] # 0 => s <= n
    BY <1>0, <1>2, <1>3, <1>4
  <2>2. NewestStep(g) = n
    BY <2>1, <1>2, NewestMeans
  <2> QED
    BY <2>2, <1>0, <1>2 DEF TopOf
<1>5. ASSUME n < NewestStep(f) PROVE NewestStep(g) = NewestStep(f) /\ TopOf(g) = TopOf(f)
  <2>0. NewestStep(f) # 0
    BY <1>0, <1>3, <1>5
  <2>1. PICK m \in Step : m = NewestStep(f)
    BY <2>0, NewestIs
  <2>2. f[m] # 0
    BY <2>0, <2>1, NewestIs
  <2>3. g[m] # 0 /\ g[m] = f[m]
    BY <2>1, <2>2, <1>0, <1>2, <1>5
  <2>4. \A s \in Step : g[s] # 0 => s <= m
    BY <1>0, <1>2, <1>3, <1>5, <2>1
  <2>5. NewestStep(g) = m
    BY <2>3, <2>4, <1>2, NewestMeans
  <2> QED
    BY <2>0, <2>1, <2>3, <2>5 DEF TopOf
<1> QED
  BY <1>1, <1>2, <1>4, <1>5

---------------------------------------------------------------------------
\* Steps count from one.
LEMMA StepsAreNat == MaxCommit \in Nat /\ Step \subseteq Nat \ {0} /\ NoRows \in Rows
  BY SnapBounds DEF Step, NoRows, Rows

\* Where nothing new is known, KnownOnce stays.
LEMMA NothingNewer ==
  ASSUME KnownOnce, made' \in Nat, made \in Nat, made <= made',
         \A s \in Step : \A c \in Nat \ {0} : Known(s, c)' => Known(s, c)
  PROVE  KnownOnce'
<1> SUFFICES ASSUME NEW s \in Step, NEW t \in Step, NEW c \in Nat \ {0}, NEW d \in Nat \ {0},
                    Known(s, c)', Known(t, d)'
             PROVE  c <= made' /\ (s < t => c < d) /\ (s = t => c = d)
  BY DEF KnownOnce
<1>1. Known(s, c) /\ Known(t, d)
  OBVIOUS
<1>2. c <= made /\ (s < t => c < d) /\ (s = t => c = d)
  BY <1>1 DEF KnownOnce
<1> QED
  BY <1>2

\* What is known stays the same where the rows, the pulls and the life do.
LEMMA KnownKept ==
  ASSUME UNCHANGED <<repo, packs, pulling, life>>
  PROVE  \A s, c : Known(s, c)' <=> Known(s, c)
  BY DEF Known

\* The agent edits its workspace.
LEMMA EditKeeps ==
  ASSUME SnapGood, Edit PROVE SnapGood'
<1>1. UNCHANGED <<repo, packs, made, wstate, staged, restore, pulling, life, owed>> /\ ws' = 0
      /\ fresh' = FALSE
  BY DEF Edit
<1>2. SnapTypes'
  BY <1>1 DEF SnapGood, SnapTypes
<1>3. KnownOnce'
  BY <1>1, KnownKept, NothingNewer DEF SnapGood, SnapTypes
<1>4. PendingIsPacks' /\ KnownIsHere' /\ PullsAreReal' /\ OwedIsKept'
  BY <1>1, KnownKept DEF SnapGood, PendingIsPacks, KnownIsHere, PullsAreReal, OwedIsKept, Pending
<1>5. FreshIsWhole'
  BY <1>1 DEF SnapGood, FreshIsWhole, Pending
<1> QED
  BY <1>2, <1>3, <1>4, <1>5 DEF SnapGood

\* restore() puts an old commit into the workspace.
LEMMA RestoreKeeps ==
  ASSUME SnapGood, NEW s \in Step, Restore(s) PROVE SnapGood'
<1>1. /\ UNCHANGED <<repo, packs, made, wstate, staged, restore, pulling, life, owed>>
      /\ ws' = repo[s] /\ fresh' = FALSE
  BY DEF Restore, Checkout
<1>2. SnapTypes'
  BY <1>1 DEF SnapGood, SnapTypes, Rows
<1>3. KnownOnce'
  BY <1>1, KnownKept, NothingNewer DEF SnapGood, SnapTypes
<1>4. PendingIsPacks' /\ KnownIsHere' /\ PullsAreReal' /\ OwedIsKept'
  BY <1>1, KnownKept DEF SnapGood, PendingIsPacks, KnownIsHere, PullsAreReal, OwedIsKept, Pending
<1>5. FreshIsWhole'
  BY <1>1 DEF SnapGood, FreshIsWhole, Pending
<1> QED
  BY <1>2, <1>3, <1>4, <1>5 DEF SnapGood

\* The worker is gone, with its workspace; what the node was given is staged again.
LEMMA WorkerFailsKeeps ==
  ASSUME SnapGood, WorkerFails PROVE SnapGood'
<1>1. /\ UNCHANGED <<ws, repo, packs, made, staged, restore, pulling, life, fresh, owed>>
      /\ wstate = "booting" /\ wstate' = "failed"
  BY DEF WorkerFails
<1>2. SnapTypes'
  BY <1>1 DEF SnapGood, SnapTypes
<1>3. KnownOnce'
  BY <1>1, KnownKept, NothingNewer DEF SnapGood, SnapTypes
<1>4. PendingIsPacks' /\ KnownIsHere' /\ PullsAreReal' /\ OwedIsKept'
  BY <1>1, KnownKept DEF SnapGood, PendingIsPacks, KnownIsHere, PullsAreReal, OwedIsKept, Pending
<1>5. FreshIsWhole'
  BY <1>1 DEF SnapGood, FreshIsWhole, Pending
<1> QED
  BY <1>2, <1>3, <1>4, <1>5 DEF SnapGood

\* A worker that is ready is given what was staged.
LEMMA WorkerReadyKeeps ==
  ASSUME SnapGood, WorkerReady PROVE SnapGood'
<1>1. /\ UNCHANGED <<ws, repo, packs, made, pulling, life, fresh, owed>>
      /\ wstate = "booting" /\ wstate' = "ready" /\ restore' = staged /\ staged' = NoRows
  BY DEF WorkerReady
<1>0. restore = NoRows
  BY <1>1 DEF SnapGood, PendingIsPacks
<1>2. SnapTypes'
  BY <1>1, StepsAreNat DEF SnapGood, SnapTypes
<1>3. KnownOnce'
  BY <1>1, KnownKept, NothingNewer DEF SnapGood, SnapTypes
<1>6. Pending' <=> Pending
  BY <1>0, <1>1 DEF Pending
<1>4. PendingIsPacks' /\ KnownIsHere' /\ PullsAreReal' /\ OwedIsKept'
  BY <1>0, <1>1, <1>6, KnownKept DEF SnapGood, PendingIsPacks, KnownIsHere, PullsAreReal, OwedIsKept
<1>5. FreshIsWhole'
  BY <1>1, <1>6 DEF SnapGood, FreshIsWhole
<1> QED
  BY <1>2, <1>3, <1>4, <1>5 DEF SnapGood

\* A node that starts again with no restore under way finds its repository.
LEMMA NodeRestartsKeeps ==
  ASSUME SnapGood, NodeRestarts, restore = NoRows PROVE SnapGood'
<1>1. /\ UNCHANGED <<ws, repo, packs, made, staged, pulling, life, fresh, owed>>
      /\ wstate' = "booting" /\ restore' = restore
  BY DEF NodeRestarts
<1>2. SnapTypes'
  BY <1>1 DEF SnapGood, SnapTypes
<1>3. KnownOnce'
  BY <1>1, KnownKept, NothingNewer DEF SnapGood, SnapTypes
<1>4. PendingIsPacks' /\ KnownIsHere' /\ PullsAreReal' /\ OwedIsKept'
  BY <1>1, KnownKept DEF SnapGood, PendingIsPacks, KnownIsHere, PullsAreReal, OwedIsKept, Pending
<1>5. FreshIsWhole'
  BY <1>1 DEF SnapGood, FreshIsWhole, Pending
<1> QED
  BY <1>2, <1>3, <1>4, <1>5 DEF SnapGood

\* Base asks for what is newer than its newest pack.
LEMMA PullBeginKeeps ==
  ASSUME SnapGood, PullBegin PROVE SnapGood'
<1>1. /\ UNCHANGED <<ws, repo, packs, made, wstate, staged, restore, life, fresh, owed>>
      /\ pulling' = pulling \cup {[life |-> life, since |-> NewestStep(packs), step |-> 0,
             commit |-> 0]}
  BY DEF PullBegin
<1>2. PICK n : n = NewestStep(packs) /\ n \in Nat
  BY NewestIs DEF SnapGood, SnapTypes
<1>3. PICK p : p = [life |-> life, since |-> n, step |-> 0, commit |-> 0]
  OBVIOUS
<1>4. p \in PullRow /\ p.life = life /\ p.since = n /\ p.step = 0 /\ p.commit = 0
  BY <1>2, <1>3 DEF SnapGood, SnapTypes, PullRow
<1>5. pulling' = pulling \cup {p}
  BY <1>1, <1>2, <1>3
<1>6. SnapTypes'
  BY <1>1, <1>4, <1>5 DEF SnapGood, SnapTypes
<1>7. \A s \in Step : \A c \in Nat \ {0} : Known(s, c)' => Known(s, c)
  BY <1>1, <1>4, <1>5, StepsAreNat DEF Known
<1>8. KnownOnce'
  BY <1>1, <1>7, NothingNewer DEF SnapGood, SnapTypes
<1>9. PendingIsPacks' /\ OwedIsKept'
  BY <1>1 DEF SnapGood, PendingIsPacks, OwedIsKept
<1>10. KnownIsHere'
  BY <1>1, <1>7 DEF SnapGood, KnownIsHere, Pending
<1>11. PullsAreReal'
  BY <1>1, <1>4, <1>5 DEF SnapGood, PullsAreReal, SnapTypes
<1>12. FreshIsWhole'
  <2>1. UNCHANGED <<NewestStep(packs), NewestStep(repo)>> /\ (Pending' <=> Pending)
    BY <1>1 DEF Pending
  <2> QED
    BY <2>1, <1>1, <1>2, <1>4, <1>5 DEF SnapGood, FreshIsWhole
<1> QED
  BY <1>6, <1>8, <1>9, <1>10, <1>11, <1>12 DEF SnapGood

\* commit() takes the next step and the next commit.
LEMMA CommitKeeps ==
  ASSUME SnapGood, Commit, restore = NoRows PROVE SnapGood'
<1>1. PICK n : n = CommitStep /\ n \in Step
  BY DEF Commit
<1>2. /\ UNCHANGED <<packs, wstate, staged, restore, pulling, life, owed>>
      /\ wstate = "ready" /\ made' = made + 1 /\ ws' = made + 1 /\ fresh' = FALSE
      /\ repo' = [repo EXCEPT ![n] = made + 1]
  BY <1>1 DEF Commit
<1>3. made \in Nat /\ made + 1 \in Nat \ {0} /\ repo \in Rows /\ repo' \in Rows
  <2>1. made \in Nat /\ repo \in Rows
    BY DEF SnapGood, SnapTypes
  <2>2. made + 1 \in Nat \ {0}
    BY <2>1
  <2>3. PICK k \in Nat : k = made + 1
    BY <2>2
  <2>4. repo' = [repo EXCEPT ![n] = k]
    BY <1>2, <2>3
  <2>5. repo' \in Rows
    BY <2>1, <2>4 DEF Rows
  <2> QED
    BY <2>1, <2>2, <2>5
<1>4. ~Pending /\ ~Pending'
  BY <1>2 DEF SnapGood, PendingIsPacks, Pending
<1>5. n = NewestStep(repo) + 1 /\ NewestStep(repo) \in Nat
  BY <1>1, <1>3, NewestIs DEF CommitStep
<1>6. \A s \in Step : \A c \in Nat \ {0} : Known(s, c) => s < n /\ c < made + 1
  <2> SUFFICES ASSUME NEW s \in Step, NEW c \in Nat \ {0}, Known(s, c) PROVE s < n /\ c < made + 1
    OBVIOUS
  <2>1. s <= NewestStep(repo)
    BY <1>4 DEF SnapGood, KnownIsHere
  <2>2. c <= made
    BY DEF SnapGood, KnownOnce
  <2> QED
    BY <2>1, <2>2, <1>3, <1>5, StepsAreNat
<1>7. repo'[n] = made + 1 /\ \A s \in Step : s # n => repo'[s] = repo[s]
  BY <1>2, <1>3 DEF Rows
<1>8. \A s \in Step : \A c \in Nat \ {0} :
        Known(s, c)' => Known(s, c) \/ (s = n /\ c = made + 1)
  BY <1>2, <1>7 DEF Known
<1>9. SnapTypes'
  BY <1>2, <1>3 DEF SnapGood, SnapTypes
<1>10. KnownOnce'
  <2> SUFFICES ASSUME NEW s \in Step, NEW t \in Step, NEW c \in Nat \ {0}, NEW d \in Nat \ {0},
                      Known(s, c)', Known(t, d)'
               PROVE  c <= made' /\ (s < t => c < d) /\ (s = t => c = d)
    BY DEF KnownOnce
  <2>1. /\ Known(s, c) \/ (s = n /\ c = made + 1)
        /\ Known(t, d) \/ (t = n /\ d = made + 1)
    BY <1>8
  <2>2. Known(s, c) => s < n /\ c < made + 1
    BY <1>6
  <2>3. Known(t, d) => t < n /\ d < made + 1
    BY <1>6
  <2>4. Known(s, c) /\ Known(t, d) => (s < t => c < d) /\ (s = t => c = d)
    BY DEF SnapGood, KnownOnce
  <2> QED
    BY <2>1, <2>2, <2>3, <2>4, <1>2, <1>3, StepsAreNat
<1>11. PendingIsPacks' /\ OwedIsKept'
  BY <1>2, <1>4 DEF SnapGood, PendingIsPacks, OwedIsKept, Pending
<1>12. KnownIsHere'
  <2>1. \A s \in Step : repo'[s] # 0 => s <= n
    <3> SUFFICES ASSUME NEW s \in Step, repo'[s] # 0, s # n PROVE s <= n
      BY StepsAreNat
    <3>1. repo[s] \in Nat \ {0}
      BY <1>3, <1>7 DEF Rows
    <3>2. Known(s, repo[s])
      BY DEF Known
    <3> QED
      BY <3>1, <3>2, <1>1, <1>6, StepsAreNat
  <2>2. repo'[n] # 0
    BY <1>3, <1>7
  <2>3. NewestStep(repo') = n
    BY <2>1, <2>2, <1>1, <1>3, NewestMeans
  <2>4. \A s \in Step : \A c \in Nat \ {0} : Known(s, c)' => s <= n
    BY <1>6, <1>8, <1>1, StepsAreNat
  <2> QED
    BY <2>3, <2>4 DEF KnownIsHere
<1>13. PullsAreReal'
  BY <1>2 DEF SnapGood, PullsAreReal
<1>14. FreshIsWhole'
  BY <1>2, <1>4 DEF FreshIsWhole
<1> QED
  BY <1>9, <1>10, <1>11, <1>12, <1>13, <1>14 DEF SnapGood

\* The node thins its own old steps out, never the newest.
LEMMA ExpireKeeps ==
  ASSUME SnapGood, Expire PROVE SnapGood'
<1>1. UNCHANGED <<ws, packs, made, wstate, staged, restore, pulling, life, fresh, owed>>
  BY DEF Expire
<1>2. repo \in Rows
  BY DEF SnapGood, SnapTypes
<1>3. Thinned(repo, repo')
  <2>1. repo' \in Rows /\ \A s \in Step : repo'[s] = repo[s] \/ repo'[s] = 0
    BY <1>2 DEF Expire, Rows
  <2>2. ASSUME NewestStep(repo) # 0 PROVE repo'[NewestStep(repo)] = repo[NewestStep(repo)]
    <3>1. PICK n \in Step : n = NewestStep(repo)
      BY <2>2, <1>2, NewestIs
    <3>2. \A s \in Step : repo[s] # 0 => s <= n
      BY <3>1, <1>2, NewestIs
    <3>3. KEEP_LAST \in Nat \ {0}
      BY SnapBounds
    <3>4. Cardinality({t \in Steps(repo) : t > n}) < KEEP_LAST
      BY <3>2, <3>3, <1>2, SparedIsNewest
    <3>5. repo'[n] = repo[n]
      BY <3>4 DEF Expire
    <3> QED
      BY <3>1, <3>5
  <2> QED
    BY <2>1, <2>2 DEF Thinned
<1>4. NewestStep(repo') = NewestStep(repo)
  BY <1>2, <1>3, ThinnedTop
<1>5. \A s \in Step : \A c \in Nat \ {0} : Known(s, c)' => Known(s, c)
  BY <1>1, <1>3 DEF Known, Thinned
<1>6. SnapTypes'
  BY <1>1, <1>3 DEF SnapGood, SnapTypes, Thinned
<1>7. KnownOnce'
  BY <1>1, <1>5, NothingNewer DEF SnapGood, SnapTypes
<1>8. repo = NoRows => repo' = NoRows
  BY <1>2, <1>3, <1>4, NewestIs DEF Thinned
<1>9. PendingIsPacks' /\ OwedIsKept' /\ PullsAreReal'
  BY <1>1, <1>8 DEF SnapGood, PendingIsPacks, OwedIsKept, PullsAreReal
<1>10. KnownIsHere'
  BY <1>1, <1>4, <1>5 DEF SnapGood, KnownIsHere, Pending
<1>11. FreshIsWhole'
  BY <1>1, <1>4 DEF SnapGood, FreshIsWhole, Pending
<1> QED
  BY <1>6, <1>7, <1>9, <1>10, <1>11 DEF SnapGood

\* A pull that ends without a row leaves everything else as it is.
LEMMA PullEnds ==
  ASSUME SnapGood, pulling' \subseteq pulling,
         UNCHANGED <<ws, repo, packs, made, wstate, staged, restore, life, fresh, owed>>
  PROVE  SnapGood'
<1>2. SnapTypes'
  BY DEF SnapGood, SnapTypes
<1>3. \A s \in Step : \A c \in Nat \ {0} : Known(s, c)' => Known(s, c)
  BY DEF Known
<1>4. KnownOnce'
  BY <1>3, NothingNewer DEF SnapGood, SnapTypes
<1>5. PendingIsPacks' /\ OwedIsKept' /\ PullsAreReal'
  BY DEF SnapGood, PendingIsPacks, OwedIsKept, PullsAreReal
<1>6. KnownIsHere'
  BY <1>3 DEF SnapGood, KnownIsHere, Pending
<1>7. FreshIsWhole'
  BY DEF SnapGood, FreshIsWhole, Pending
<1> QED
  BY <1>2, <1>4, <1>5, <1>6, <1>7 DEF SnapGood

\* The node answers with its newest step, or with nothing.
LEMMA PullAnswerKeeps ==
  ASSUME SnapGood, NEW p \in pulling, PullAnswer(p) PROVE SnapGood'
<1>1. UNCHANGED <<ws, repo, packs, made, wstate, staged, restore, life, fresh, owed>>
  BY DEF PullAnswer
<1>2. repo \in Rows /\ p \in PullRow /\ pulling \subseteq PullRow /\ packs \in Rows
  BY DEF SnapGood, SnapTypes
<1>3. NewestStep(repo) \in Nat
  BY <1>2, NewestIs
<1>4. PICK n \in Nat : n = NewestStep(repo)
  BY <1>3
<1>5. CASE ~(p.life = life /\ n > p.since /\ n > 0) \/ wstate # "ready"
  <2>1. pulling' \subseteq pulling
    BY <1>4, <1>5 DEF PullAnswer, Packed
  <2> QED
    BY <1>1, <2>1, PullEnds
<1>6. CASE p.life = life /\ n > p.since /\ n > 0 /\ wstate = "ready"
  <2>0. NewestStep(repo) # 0 /\ repo # NoRows
    BY <1>2, <1>4, <1>6, NewestIs
  <2>1. n \in Step /\ repo[n] \in Nat \ {0}
    BY <2>0, <1>2, <1>4, NewestIs DEF Rows
  <2>2. PICK c \in Nat \ {0} : c = repo[n]
    BY <2>1
  <2>3. PICK q : q = [p EXCEPT !.step = n, !.commit = c]
    OBVIOUS
  <2>4. /\ q \in PullRow /\ q.life = life /\ q.since = p.since /\ q.step = n /\ q.commit = c
    BY <1>2, <1>6, <2>2, <2>3 DEF PullRow
  <2>5. Packed(p.since) = [step |-> n, commit |-> c]
    BY <1>4, <1>6, <2>2 DEF Packed
  <2>6. pulling' = (pulling \ {p}) \cup {q}
    BY <2>3, <2>5, <1>6 DEF PullAnswer
  <2>7. ~Pending
    BY <2>0 DEF SnapGood, PendingIsPacks, Pending
  <2>8. ~fresh
    BY <1>4, <1>6 DEF SnapGood, FreshIsWhole
  <2>9. Known(n, c)
    BY <2>2 DEF Known
  <2>10. \A s \in Step : \A d \in Nat \ {0} : Known(s, d)' => Known(s, d)
    BY <1>1, <2>4, <2>6, <2>9 DEF Known
  <2>11. SnapTypes'
    BY <1>1, <2>4, <2>6 DEF SnapGood, SnapTypes
  <2>12. KnownOnce'
    BY <1>1, <2>10, NothingNewer DEF SnapGood, SnapTypes
  <2>13. PendingIsPacks' /\ OwedIsKept'
    BY <1>1 DEF SnapGood, PendingIsPacks, OwedIsKept
  <2>14. PullsAreReal'
    BY <1>1, <2>1, <2>4, <2>6 DEF SnapGood, PullsAreReal, SnapTypes
  <2>15. KnownIsHere'
    BY <1>1, <2>10 DEF SnapGood, KnownIsHere, Pending
  <2>16. FreshIsWhole'
    BY <1>1, <2>7, <2>8 DEF FreshIsWhole, Pending
  <2> QED
    BY <2>11, <2>12, <2>13, <2>14, <2>15, <2>16 DEF SnapGood
<1> QED
  BY <1>5, <1>6

\* apply_restore(): the workspace becomes what base has.
LEMMA ApplyKeeps ==
  ASSUME SnapGood, Apply PROVE SnapGood'
<1>1. /\ UNCHANGED <<packs, made, wstate, staged, pulling, life, owed>>
      /\ restore # NoRows /\ restore' = NoRows /\ fresh' = TRUE
      /\ repo' = Folded(restore) /\ ws' = restore[NewestStep(restore)]
  BY DEF Apply, Checkout
<1>2. restore = packs /\ staged = NoRows /\ repo = NoRows /\ packs \in Rows
  BY <1>1 DEF SnapGood, PendingIsPacks, SnapTypes
<1>3. repo' = packs
  BY <1>1, <1>2 DEF Folded, Rows, NoRows
<1>4. Pending /\ ~Pending'
  BY <1>1, <1>2 DEF Pending
<1>5. NewestStep(packs) # 0 /\ packs # NoRows
  BY <1>1, <1>2, NewestIs
<1>6. packs[NewestStep(packs)] \in Nat
  BY <1>2, <1>5, NewestIs DEF Rows
<1>7. SnapTypes'
  BY <1>1, <1>2, <1>3, <1>6, StepsAreNat DEF SnapGood, SnapTypes
<1>8. \A s \in Step : \A c \in Nat \ {0} : Known(s, c)' => Known(s, c) /\ packs[s] = c
  <2>1. \A q \in pulling : q.life = life => q.step = 0
    BY <1>4 DEF SnapGood, FreshIsWhole
  <2> QED
    BY <2>1, <1>1, <1>3, StepsAreNat DEF Known
<1>9. KnownOnce'
  BY <1>1, <1>8, NothingNewer DEF SnapGood, SnapTypes
<1>10. PendingIsPacks' /\ OwedIsKept' /\ PullsAreReal'
  BY <1>1, <1>2 DEF SnapGood, PendingIsPacks, OwedIsKept, PullsAreReal
<1>11. KnownIsHere'
  <2>1. \A s \in Step : packs[s] # 0 => s <= NewestStep(packs)
    BY <1>2, NewestIs
  <2> QED
    BY <2>1, <1>3, <1>8 DEF KnownIsHere
<1>12. FreshIsWhole'
  BY <1>1, <1>2, <1>3, <1>4, <1>5 DEF SnapGood, FreshIsWhole
<1> QED
  BY <1>7, <1>9, <1>10, <1>11, <1>12 DEF SnapGood

\* A pack of this workspace that is newer than none of base's rows forgets nothing.
LEMMA PackStoredKeeps ==
  ASSUME SnapGood, NEW p \in pulling, PackStored(p), p.life = life PROVE SnapGood'
<1>1. /\ UNCHANGED <<ws, repo, made, wstate, staged, restore, life, fresh, owed>>
      /\ pulling' = pulling \ {p} /\ p.step > 0
      /\ packs' = Pruned(PutPack(packs, p.step, p.commit))
  BY DEF PackStored
<1>2. packs \in Rows /\ p \in PullRow /\ pulling \subseteq PullRow /\ owed \in Nat
  BY DEF SnapGood, SnapTypes
<1>3. p.step # 0 /\ p.step \in Nat /\ p.commit \in Nat
  BY <1>1, <1>2 DEF PullRow
<1>4. p.step \in Step /\ p.commit # 0
  BY <1>3 DEF SnapGood, PullsAreReal
<1>5. PICK n \in Step, c \in Nat \ {0} : n = p.step /\ c = p.commit
  BY <1>3, <1>4
<1>6. ~Pending /\ ~fresh
  BY <1>3 DEF SnapGood, FreshIsWhole
<1>7. PICK f : f = PutPack(packs, n, c)
  OBVIOUS
<1>8. f \in Rows /\ f[n] = c /\ \A s \in Step : s # n => f[s] = packs[s]
  BY <1>2, <1>7 DEF PutPack, Rows
<1>9. Thinned(f, packs')
  BY <1>1, <1>5, <1>7, <1>8, PrunedIsThinned
<1>10. Known(n, c)
  BY <1>5 DEF Known
<1>11. \A s \in Step : \A d \in Nat \ {0} : Known(s, d)' => Known(s, d)
  BY <1>1, <1>8, <1>9, <1>10 DEF Known, Thinned
<1>12. SnapTypes'
  BY <1>1, <1>9 DEF SnapGood, SnapTypes, Thinned
<1>13. KnownOnce'
  BY <1>1, <1>11, NothingNewer DEF SnapGood, SnapTypes
<1>14. PendingIsPacks'
  BY <1>1, <1>6 DEF PendingIsPacks, Pending
<1>15. PullsAreReal'
  BY <1>1 DEF SnapGood, PullsAreReal
<1>16. KnownIsHere'
  BY <1>1, <1>11 DEF SnapGood, KnownIsHere, Pending
<1>17. FreshIsWhole'
  BY <1>1, <1>6 DEF FreshIsWhole, Pending
<1>18. OwedIsKept'
  <2>1. TopOf(packs') = TopOf(f)
    BY <1>8, <1>9, ThinnedTop
  <2>2. NewestStep(packs) \in Nat /\ n \in Nat
    BY <1>2, NewestIs, StepsAreNat
  <2>3. owed <= TopOf(packs)
    BY DEF SnapGood, OwedIsKept
  <2>4. CASE n < NewestStep(packs)
    <3>1. TopOf(f) = TopOf(packs)
      BY <2>4, <1>2, <1>7, PutNewest
    <3> QED
      BY <3>1, <2>1, <2>3, <1>1 DEF OwedIsKept
  <2>5. CASE n >= NewestStep(packs)
    <3>1. TopOf(f) = c
      BY <2>5, <1>2, <1>7, PutNewest
    <3>2. TopOf(packs) \in Nat /\ TopOf(packs) <= c
      <4>1. CASE NewestStep(packs) = 0
        BY <4>1 DEF TopOf
      <4>2. CASE NewestStep(packs) # 0
        <5>1. PICK m \in Step : m = NewestStep(packs)
          BY <4>2, <1>2, NewestIs
        <5>2. packs[m] \in Nat \ {0}
          BY <5>1, <4>2, <1>2, NewestIs DEF Rows
        <5>3. PICK e \in Nat \ {0} : e = packs[m]
          BY <5>2
        <5>4. Known(m, e)
          BY <5>3 DEF Known
        <5>5. (m < n => e < c) /\ (m = n => e = c)
          BY <5>4, <1>10 DEF SnapGood, KnownOnce
        <5>6. e <= c
          BY <5>5, <5>1, <2>5, StepsAreNat
        <5> QED
          BY <5>6, <5>3, <5>1, <4>2 DEF TopOf
      <4> QED
        BY <4>1, <4>2
    <3> QED
      BY <3>1, <3>2, <2>1, <2>3, <1>1, <1>2 DEF OwedIsKept
  <2> QED
    BY <2>2, <2>4, <2>5
<1> QED
  BY <1>12, <1>13, <1>14, <1>15, <1>16, <1>17, <1>18 DEF SnapGood

\* Where the packs are laid anew, nothing but them is known.
LEMMA StagedIsKnown ==
  ASSUME SnapGood, NEW k \in Rows, packs' = k, StageRestore(k), ~crossed', made' = made,
         \A s \in Step : \A c \in Nat \ {0} : k[s] = c => Known(s, c),
         \A q \in pulling' : q \in pulling,
         owed' \in Nat, owed' <= TopOf(k)
  PROVE  SnapGood'
<1>1. /\ staged' = k /\ ws' = 0 /\ repo' = NoRows /\ wstate' = "booting" /\ restore' = NoRows
      /\ life' = life + 1 /\ fresh' = FALSE
  BY DEF StageRestore
<1>2. life \in Nat /\ pulling \subseteq PullRow /\ life' \in Nat
  BY <1>1 DEF SnapGood, SnapTypes
<1>3. SnapTypes'
  BY <1>1, <1>2, StepsAreNat DEF SnapGood, SnapTypes
<1>4. \A q \in pulling' : q.life < life'
  BY <1>1, <1>2 DEF SnapGood, PullsAreReal, PullRow
<1>5. \A q \in pulling' : q.life # life'
  BY <1>2, <1>4 DEF PullRow
<1>6. \A s \in Step : \A c \in Nat \ {0} : Known(s, c)' => k[s] = c
  BY <1>1, <1>5 DEF Known, NoRows
<1>7. KnownOnce'
  BY <1>6, NothingNewer DEF SnapGood, SnapTypes
<1>8. PendingIsPacks'
  BY <1>1 DEF PendingIsPacks
<1>9. KnownIsHere'
  <2> SUFFICES ASSUME ~Pending', NEW s \in Step, NEW c \in Nat \ {0}, Known(s, c)' PROVE FALSE
    BY DEF KnownIsHere
  <2>1. k = NoRows
    BY <1>1 DEF Pending
  <2> QED
    BY <2>1, <1>6 DEF NoRows
<1>10. PullsAreReal'
  BY <1>2, <1>4 DEF SnapGood, PullsAreReal, PullRow
<1>11. OwedIsKept'
  BY DEF OwedIsKept
<1>12. FreshIsWhole'
  BY <1>1, <1>5 DEF FreshIsWhole
<1> QED
  BY <1>3, <1>7, <1>8, <1>9, <1>10, <1>11, <1>12 DEF SnapGood

\* The commit of the newest step is a number, 0 for none.
LEMMA TopIsNat ==
  ASSUME NEW f \in Rows PROVE TopOf(f) \in Nat
  BY NewestIs DEF TopOf, Rows

\* reset: the workspace is made anew from the packs.
LEMMA ResetKeeps ==
  ASSUME SnapGood, Reset, ~crossed' PROVE SnapGood'
<1>1. packs \in Rows /\ packs' = packs /\ made' = made /\ pulling' = pulling /\ owed' = 0
  BY DEF SnapGood, SnapTypes, Reset
<1>2. StageRestore(packs)
  BY DEF Reset
<1>3. \A s \in Step : \A c \in Nat \ {0} : packs[s] = c => Known(s, c)
  BY DEF Known
<1>4. TopOf(packs) \in Nat
  BY <1>1, TopIsNat
<1>5. owed' \in Nat /\ owed' <= TopOf(packs)
  BY <1>1, <1>4
<1>6. \A q \in pulling' : q \in pulling
  BY <1>1
<1> QED
  BY <1>1, <1>2, <1>3, <1>5, <1>6, StagedIsKnown

\* A stop pulls and waits, a start stages what is there; a flush that fails leaves base
\* with the packs it had.
LEMMA StopAndStartKeeps ==
  ASSUME SnapGood, StopAndStart, ~crossed' PROVE SnapGood'
<1>1. /\ made' = made /\ pulling' = {} /\ StageRestore(packs')
      /\ \/ /\ packs' = Flushed
            /\ owed' = IF wstate = "ready" /\ NewestStep(repo) > 0 THEN repo[NewestStep(repo)] ELSE 0
         \/ packs' = packs /\ owed' = 0
  BY DEF StopAndStart
<1>2. CASE packs' = packs /\ owed' = 0
  <2>1. packs \in Rows /\ TopOf(packs) \in Nat
    BY TopIsNat DEF SnapGood, SnapTypes
  <2>2. owed' \in Nat /\ owed' <= TopOf(packs)
    BY <1>2, <2>1
  <2>3. \A s \in Step : \A c \in Nat \ {0} : packs[s] = c => Known(s, c)
    BY DEF Known
  <2>4. StageRestore(packs)
    BY <1>1, <1>2
  <2>5. \A q \in pulling' : q \in pulling
    BY <1>1
  <2> QED
    BY <1>1, <1>2, <2>1, <2>2, <2>3, <2>4, <2>5, StagedIsKnown
<1>3. CASE /\ packs' = Flushed
           /\ owed' = IF wstate = "ready" /\ NewestStep(repo) > 0 THEN repo[NewestStep(repo)] ELSE 0
  <2>1. /\ packs' = Flushed /\ made' = made /\ pulling' = {} /\ StageRestore(packs')
        /\ owed' = IF wstate = "ready" /\ NewestStep(repo) > 0 THEN repo[NewestStep(repo)] ELSE 0
    BY <1>1, <1>3
  <2>2. packs \in Rows /\ repo \in Rows
    BY DEF SnapGood, SnapTypes
  <2>3. PICK n \in Nat, m \in Nat : n = NewestStep(repo) /\ m = NewestStep(packs)
    BY <2>2, NewestIs
  <2>4. \A q \in pulling' : q \in pulling
    BY <2>1
  <2>5. CASE wstate = "ready" /\ n > m
    <3>1. n # 0 /\ repo # NoRows
      BY <2>2, <2>3, <2>5, NewestIs
    <3>2. n \in Step /\ repo[n] \in Nat \ {0}
      BY <3>1, <2>2, <2>3, NewestIs DEF Rows
    <3>3. PICK c \in Nat \ {0} : c = repo[n]
      BY <3>2
    <3>4. Packed(m) = [step |-> n, commit |-> c]
      BY <2>3, <2>5, <3>3 DEF Packed
    <3>5. PICK f : f = PutPack(packs, n, c)
      OBVIOUS
    <3>6. n > 0
      BY <2>3, <3>1
    <3>7. packs' = Pruned(f)
      BY <2>1, <2>3, <2>5, <3>4, <3>5, <3>6 DEF Flushed
    <3>8. f \in Rows /\ f[n] = c /\ \A s \in Step : s # n => f[s] = packs[s]
      BY <2>2, <3>2, <3>5 DEF PutPack, Rows
    <3>9. Thinned(f, packs')
      BY <3>7, <3>8, PrunedIsThinned
    <3>10. PICK k \in Rows : k = packs'
      BY <3>9 DEF Thinned
    <3>11. TopOf(k) = c
      <4>1. TopOf(k) = TopOf(f)
        BY <3>8, <3>9, <3>10, ThinnedTop
      <4>2. TopOf(f) = c
        BY <2>2, <2>3, <2>5, <3>2, <3>5, PutNewest
      <4> QED
        BY <4>1, <4>2
    <3>12. owed' = c
      BY <2>1, <2>3, <2>5, <3>3, <3>6
    <3>13. \A s \in Step : \A d \in Nat \ {0} : k[s] = d => Known(s, d)
      BY <3>3, <3>8, <3>9, <3>10 DEF Known, Thinned
    <3>14. owed' \in Nat /\ owed' <= TopOf(k)
      BY <3>11, <3>12
    <3>15. packs' = k /\ StageRestore(k)
      BY <2>1, <3>10
    <3> QED
      BY <2>1, <2>4, <3>13, <3>14, <3>15, StagedIsKnown
  <2>6. CASE ~(wstate = "ready" /\ n > m)
    <3>1. packs' = packs
      <4>1. CASE wstate # "ready"
        BY <2>1, <4>1 DEF Flushed
      <4>2. CASE ~(n > m)
        <5>1. Packed(m) = [step |-> 0, commit |-> 0]
          BY <2>3, <4>2 DEF Packed
        <5> QED
          BY <2>1, <2>3, <5>1 DEF Flushed
      <4> QED
        BY <2>6, <4>1, <4>2
    <3>2. TopOf(packs) \in Nat
      BY <2>2, TopIsNat
    <3>3. owed' \in Nat /\ owed' <= TopOf(packs)
      <4>1. CASE ~(wstate = "ready" /\ n > 0)
        BY <2>1, <2>3, <3>2, <4>1
      <4>2. CASE wstate = "ready" /\ n > 0
        <5>1. n \in Step /\ repo[n] \in Nat \ {0} /\ repo # NoRows
          BY <4>2, <2>2, <2>3, NewestIs DEF Rows
        <5>2. PICK c \in Nat \ {0} : c = repo[n]
          BY <5>1
        <5>3. owed' = c
          BY <2>1, <2>3, <4>2, <5>2
        <5>4. ~Pending
          BY <5>1 DEF SnapGood, PendingIsPacks, Pending
        <5>5. m # 0 /\ m >= n
          BY <2>3, <2>6, <4>2
        <5>6. m \in Step /\ packs[m] \in Nat \ {0}
          BY <5>5, <2>2, <2>3, NewestIs DEF Rows
        <5>7. PICK e \in Nat \ {0} : e = packs[m]
          BY <5>6
        <5>8. Known(n, c) /\ Known(m, e)
          BY <5>2, <5>7 DEF Known
        <5>9. (n < m => c < e) /\ (n = m => c = e)
          BY <5>1, <5>6, <5>8 DEF SnapGood, KnownOnce
        <5>10. TopOf(packs) = e
          BY <2>3, <5>5, <5>7 DEF TopOf
        <5> QED
          BY <2>3, <5>3, <5>5, <5>9, <5>10
      <4> QED
        BY <4>1, <4>2
    <3>4. \A s \in Step : \A c \in Nat \ {0} : packs[s] = c => Known(s, c)
      BY DEF Known
    <3>5. StageRestore(packs)
      BY <2>1, <3>1
    <3> QED
      BY <2>1, <2>2, <2>4, <3>1, <3>3, <3>4, <3>5, StagedIsKnown
  <2> QED
    BY <2>5, <2>6
<1> QED
  BY <1>1, <1>2, <1>3

\* An environment starts with an empty workspace and no packs.
LEMMA SnapInitHolds ==
  ASSUME SnapInit PROVE SnapInv
<1>1. NewestStep(NoRows) = 0
  BY StepsAreNat, NewestIs
<1>2. SnapTypes /\ PendingIsPacks /\ PullsAreReal /\ FreshIsWhole
  BY StepsAreNat DEF SnapInit, SnapTypes, PendingIsPacks, PullsAreReal, FreshIsWhole, Pending
<1>3. \A s \in Step : \A c \in Nat \ {0} : ~Known(s, c)
  BY DEF SnapInit, Known, NoRows
<1>4. KnownOnce /\ KnownIsHere
  BY <1>3 DEF KnownOnce, KnownIsHere
<1>5. OwedIsKept
  BY <1>1 DEF SnapInit, OwedIsKept, TopOf
<1> QED
  BY <1>2, <1>4, <1>5 DEF SnapInv, SnapGood

\* SnapInv is inductive: once a restore has crossed another, nothing is claimed.
LEMMA SnapNextKeeps ==
  ASSUME SnapInv, [SnapNext]_snapVars PROVE SnapInv'
<1> SUFFICES ASSUME ~crossed' PROVE SnapGood'
  BY DEF SnapInv
<1>1. CASE UNCHANGED snapVars
  <2>1. SnapGood
    BY <1>1 DEF SnapInv, snapVars
  <2> QED
    BY <2>1, <1>1 DEF snapVars, SnapGood, SnapTypes, KnownOnce, Known, PendingIsPacks, Pending,
       KnownIsHere, PullsAreReal, OwedIsKept, FreshIsWhole
<1>2. CASE Edit
  BY <1>2, EditKeeps DEF SnapInv, Edit
<1>3. CASE Commit
  BY <1>3, CommitKeeps DEF SnapInv, Commit
<1>4. CASE \E s \in Step : Restore(s)
  <2>1. PICK s \in Step : Restore(s)
    BY <1>4
  <2>2. SnapGood
    BY <2>1 DEF SnapInv, Restore
  <2> QED
    BY <2>1, <2>2, RestoreKeeps
<1>5. CASE Expire
  BY <1>5, ExpireKeeps DEF SnapInv, Expire
<1>6. CASE PullBegin
  BY <1>6, PullBeginKeeps DEF SnapInv, PullBegin
<1>7. CASE Answering
  <2>1. PICK p \in pulling : PullAnswer(p)
    BY <1>7 DEF Answering
  <2>2. SnapGood
    BY <2>1 DEF SnapInv, PullAnswer
  <2> QED
    BY <2>1, <2>2, PullAnswerKeeps
<1>8. CASE Storing
  BY <1>8, PackStoredKeeps DEF SnapInv, Storing, PackStored
<1>9. CASE Reset
  <2>1. SnapGood
    BY <1>9 DEF SnapInv, Reset, StageRestore
  <2> QED
    BY <1>9, <2>1, ResetKeeps
<1>10. CASE StopAndStart
  <2>1. SnapGood
    BY <1>10 DEF SnapInv, StopAndStart, StageRestore
  <2> QED
    BY <1>10, <2>1, StopAndStartKeeps
<1>11. CASE NodeRestarts
  BY <1>11, NodeRestartsKeeps DEF SnapInv, NodeRestarts
<1>12. CASE WorkerFails
  BY <1>12, WorkerFailsKeeps DEF SnapInv, WorkerFails
<1>13. CASE WorkerReady
  BY <1>13, WorkerReadyKeeps DEF SnapInv, WorkerReady
<1>14. CASE Apply
  BY <1>14, ApplyKeeps DEF SnapInv, Apply
<1>15. CASE ApplyFails
  BY <1>15 DEF ApplyFails
<1>16. CASE Losing
  <2>1. PICK p \in pulling : PullFails(p)
    BY <1>16 DEF Losing
  <2>2. SnapGood
    BY <2>1 DEF SnapInv, PullFails
  <2> QED
    BY <2>1, <2>2, PullEnds DEF PullFails
<1> QED
  BY <1>1, <1>2, <1>3, <1>4, <1>5, <1>6, <1>7, <1>8, <1>9, <1>10, <1>11, <1>12, <1>13, <1>14, <1>15,
     <1>16 DEF SnapNext

\* SnapInv says what SnapshotsAreTrue does.
LEMMA SnapInvIsEnough ==
  ASSUME SnapInv PROVE SnapshotsAreTrue
<1>1. AckIsTrue
  <2> SUFFICES ASSUME ~crossed, NEW s \in Steps(repo)
               PROVE  /\ packs[s] # 0 => repo[s] = packs[s]
                      /\ s > NewestStep(packs) \/ packs[NewestStep(packs)] >= repo[s]
    BY DEF AckIsTrue
  <2>1. SnapGood /\ packs \in Rows /\ repo \in Rows
    BY DEF SnapInv, SnapGood, SnapTypes
  <2>2. s \in Step /\ repo[s] \in Nat \ {0}
    BY <2>1 DEF Steps, Rows
  <2>3. PICK c \in Nat \ {0} : c = repo[s]
    BY <2>2
  <2>4. Known(s, c)
    BY <2>3 DEF Known
  <2>5. ASSUME packs[s] # 0 PROVE repo[s] = packs[s]
    <3>1. PICK d \in Nat \ {0} : d = packs[s]
      BY <2>1, <2>2, <2>5 DEF Rows
    <3>2. Known(s, d)
      BY <3>1 DEF Known
    <3>3. c = d
      BY <2>1, <2>2, <2>4, <3>2 DEF SnapGood, KnownOnce
    <3> QED
      BY <3>1, <3>3, <2>3
  <2>6. ASSUME ~(s > NewestStep(packs)) PROVE packs[NewestStep(packs)] >= repo[s]
    <3>1. NewestStep(packs) \in Nat
      BY <2>1, NewestIs
    <3>2. NewestStep(packs) # 0
      BY <3>1, <2>2, <2>6, StepsAreNat
    <3>3. PICK m \in Step : m = NewestStep(packs)
      BY <3>2, <2>1, NewestIs
    <3>4. packs[m] \in Nat \ {0}
      BY <3>2, <3>3, <2>1, NewestIs DEF Rows
    <3>5. PICK e \in Nat \ {0} : e = packs[m]
      BY <3>4
    <3>6. Known(m, e)
      BY <3>5 DEF Known
    <3>7. (s < m => c < e) /\ (s = m => c = e)
      BY <2>1, <2>2, <2>4, <3>6 DEF SnapGood, KnownOnce
    <3>8. e >= c
      BY <3>7, <3>3, <2>2, <2>6, StepsAreNat
    <3> QED
      BY <3>8, <3>3, <3>5, <2>3
  <2> QED
    BY <2>5, <2>6
<1>2. ResetBringsBack
  <2> SUFFICES ASSUME fresh, ~crossed PROVE ws = Max({packs[s] : s \in Step}) /\ ws >= owed
    BY DEF ResetBringsBack
  <2>1. SnapGood /\ packs \in Rows /\ owed \in Nat
    BY DEF SnapInv, SnapGood, SnapTypes
  <2>2. NewestStep(packs) # 0 /\ ws = packs[NewestStep(packs)] /\ owed <= TopOf(packs)
    BY <2>1 DEF SnapGood, FreshIsWhole, OwedIsKept
  <2>3. PICK m \in Step : m = NewestStep(packs)
    BY <2>1, <2>2, NewestIs
  <2>4. packs[m] \in Nat \ {0} /\ \A s \in Step : packs[s] # 0 => s <= m
    BY <2>1, <2>2, <2>3, NewestIs DEF Rows
  <2>5. PICK e \in Nat \ {0} : e = packs[m]
    BY <2>4
  <2>6. \A s \in Step : packs[s] <= e
    <3> SUFFICES ASSUME NEW s \in Step, packs[s] # 0 PROVE packs[s] <= e
      BY <2>5
    <3>1. PICK d \in Nat \ {0} : d = packs[s]
      BY <2>1 DEF Rows
    <3>2. Known(s, d) /\ Known(m, e)
      BY <3>1, <2>5 DEF Known
    <3>3. (s < m => d < e) /\ (s = m => d = e)
      BY <2>1, <3>2 DEF SnapGood, KnownOnce
    <3>4. s <= m
      BY <2>4
    <3> QED
      BY <3>1, <3>3, <3>4, StepsAreNat
  <2>7. PICK T : T = {packs[s] : s \in Step}
    OBVIOUS
  <2>8. e \in T /\ T \subseteq Nat /\ \A y \in T : e >= y
    BY <2>1, <2>5, <2>6, <2>7 DEF Rows
  <2>9. Max(T) \in T /\ \A y \in T : Max(T) >= y
    BY <2>8 DEF Max
  <2>10. Max(T) = e
    <3>1. PICK x \in T : x = Max(T)
      BY <2>9
    <3>2. x >= e /\ e >= x /\ x \in Nat
      BY <3>1, <2>8, <2>9
    <3> QED
      BY <3>1, <3>2
  <2>11. ws = e /\ TopOf(packs) = e
    BY <2>2, <2>3, <2>5 DEF TopOf
  <2> QED
    BY <2>1, <2>2, <2>7, <2>10, <2>11
<1> QED
  BY <1>1, <1>2 DEF SnapshotsAreTrue

\* For any number of commits, of packs kept and of pulls, rows and flushes that fail: as
\* long as nothing crosses from one workspace into the next and every restore that was
\* staged was staged whole, a step is never two commits, a restored workspace is the newest
\* pack, and a stop whose flush went through costs no commit (base snap.rs snap_packed,
\* flush_envs and stage_restore; packs.rs put_pack and prune_packs).
THEOREM SnapshotsHold == SnapSpec => []SnapshotsAreTrue
<1>1. SnapInit => SnapInv
  BY SnapInitHolds
<1>2. SnapInv /\ [SnapNext]_snapVars => SnapInv'
  BY SnapNextKeeps
<1>3. SnapInv => SnapshotsAreTrue
  BY SnapInvIsEnough
<1> QED
  BY <1>1, <1>2, <1>3, PTL DEF SnapSpec

-----------------------------------------------------------------------------
(***************************************************************************)
(* KernelWire.  FiberGood says what the fiber holds, Serves that a         *)
(* function of tenon.erl forgets nobody, Moves that it leaves no process   *)
(* behind; every handler is shown to be such a turn, and FiberTurns that   *)
(* such a turn keeps the invariant.                                        *)
(***************************************************************************)

\* The vocabulary of the mailbox and of the wire (tenon.erl, lib.rs).
Word == {"hook_call", "hook_result", "status", "refresh", "restart", "unmount", "deadline", "exit",
         "worker_reply", "frame"}
FrameWord == {"none", "hello", "on", "off", "next", "call", "rep"}
Ref == Req \cup {"none"}
LetterSet == [m : Word, r : Ref, p : Nat, t : FrameWord, ok : BOOLEAN, v : Ref]
OutSet == [t : {"load", "hook", "result", "rep"}, r : Req, v : Req]
AnswerSet ==
  [t : {"none", "no_plugin", "frame_too_large", "plugin_gone", "timeout", "error", "exit", "next"}]
  \cup [t : {"rep"}, v : Ref]
FiberSet ==
  [status : {"pending", "loading", "active", "failed", "unloading", "disposed"},
   phase : {"hello", "loading", "ready"}, epoch : Int, port : Nat, spawned : Nat,
   pending : [Req -> {"none", "load", "call"}], armed : SUBSET Req, rows : BOOLEAN,
   waiters : {"none", "waiting", "told"}, out : Seq(OutSet), ans : [Callers -> AnswerSet]]

\* A frame for the plugin carries what its caller's chain made (send_frame).
FrameIsOwn(fr) == fr.v = fr.r /\ (IF fr.t = "load" THEN fr.r = "load" ELSE fr.r \in Callers)

\* What holds of the fiber's state between two of its functions.
FiberGood(S) ==
  /\ S \in FiberSet
  /\ S.port <= S.spawned
  /\ S.port = 0 => \A r \in Req : S.pending[r] = "none"
  /\ \A r \in Req : (S.pending[r] = "call" => r \in Callers)
     /\ (S.pending[r] = "load" => r \notin Callers)
  /\ \A i \in 1 .. Len(S.out) : FrameIsOwn(S.out[i])
  /\ \A c \in Callers : S.ans[c].t = "rep" => S.ans[c].v = c

\* A letter of the mailbox is about a request it can be about.
LetterIsGood(l) ==
  /\ l.m \in {"hook_call", "hook_result"} => l.r \in Callers
  /\ l.m = "deadline" => l.r \in Req
  /\ l.m = "frame" => l.p # 0 /\ l.t # "none"
  /\ l.m = "frame" /\ l.t = "rep" => l.r \in Req /\ l.v = l.r
  /\ l.m = "frame" /\ l.t = "next" => l.r \in Callers

HandlerSet == [r : Callers \cup {"load"}, waits : {"no", "result", "rep"}, got : Ref, nexts : BOOLEAN]

WireTypes ==
  /\ mail \in Seq(LetterSet) /\ \A i \in 1 .. Len(mail) : LetterIsGood(mail[i])
  /\ caller \in [Callers -> {"idle", "found", "sent", "chain", "back", "done"}]
  /\ dep \in Int /\ wleft \in [WireBound -> Nat]

\* What the plugin holds: a handler has what is its own, a reply is under its slot.
PlugIsGood ==
  /\ plug.hello \in BOOLEAN /\ plug.hooks \in BOOLEAN
  /\ plug = [hello |-> plug.hello, hooks |-> plug.hooks, stack |-> plug.stack,
       replies |-> plug.replies]
  /\ plug.stack \in Seq(HandlerSet)
  /\ \A i \in 1 .. Len(plug.stack) : plug.stack[i].got = plug.stack[i].r
  /\ \A k \in DOMAIN plug.replies : plug.replies[k] = k[2]

\* A request that is parked has a timer, or its deadline is in the mailbox.
TimersAreSet ==
  \A r \in Req : fib.pending[r] # "none" => r \in fib.armed \/ InMail("deadline", r)

\* A caller that waits is in the mailbox or parked.
WaitersAreKnown ==
  \A c \in Callers : caller[c] \in {"sent", "back"} /\ fib.ans[c] = Nothing =>
    InMail("hook_call", c) \/ InMail("hook_result", c) \/ fib.pending[c] # "none"

\* The invariant: what the fiber holds, who waits for it and what the plugin holds.
WireInv ==
  /\ FiberGood(fib) /\ WireTypes /\ PlugIsGood /\ TimersAreSet /\ WaitersAreKnown /\ NoStrayPlugin
  /\ 0 \notin live
\* T has the requests of S, and the answers.
Alike(S, T) ==
  /\ T \in FiberSet /\ T.port = S.port /\ T.spawned = S.spawned /\ T.pending = S.pending
  /\ T.armed = S.armed /\ T.out = S.out /\ T.ans = S.ans

\* Nobody who is parked or answered in S is forgotten in T, and what is parked is timed.
Serves(S, T) ==
  /\ \A c \in Callers : S.ans[c] # Nothing => T.ans[c] # Nothing
  /\ \A c \in Callers : S.pending[c] # "none" => T.pending[c] # "none" \/ T.ans[c] # Nothing
  /\ \A r \in Req : T.pending[r] # "none" /\ r \notin T.armed => S.pending[r] # "none"
     /\ r \notin S.armed

\* What becomes of the port.
SamePort(S, T) == T.port = S.port /\ T.spawned = S.spawned
Shuts(S, T) == T.spawned = S.spawned /\ T.port \in {S.port, 0}
Opens(S, T) == T.port = T.spawned /\ T.spawned > S.spawned
Moves(S, T) == Shuts(S, T) \/ Opens(S, T)

\* A step that touches only the status, the phase, the epoch, the rows or the waiters of
\* the fiber (tenon.erl) keeps its requests and its port.
LEMMA AlikeIsGood ==
  ASSUME NEW S, NEW T, FiberGood(S), Alike(S, T)
  PROVE  FiberGood(T) /\ Serves(S, T) /\ SamePort(S, T)
BY DEF FiberGood, Alike, Serves, SamePort, FiberSet

\* Nobody is forgotten by two functions of tenon.erl in a row if neither forgets anybody.
LEMMA ServesThrough ==
  ASSUME NEW S, NEW T, NEW U, FiberGood(S), FiberGood(T), FiberGood(U), Serves(S, T), Serves(T, U)
  PROVE  Serves(S, U)
BY DEF Serves, Req

\* Closing the port (close_port) and opening one (open_plugin) in a row: at most one opens.
LEMMA PortsThrough ==
  ASSUME NEW S, NEW T, NEW U, FiberGood(S), FiberGood(T), FiberGood(U)
  PROVE  /\ Shuts(S, T) /\ Shuts(T, U) => Shuts(S, U)
         /\ Shuts(S, T) /\ Moves(T, U) => Moves(S, U)
         /\ Moves(S, T) /\ SamePort(T, U) => Moves(S, U)
BY DEF Shuts, Moves, Opens, SamePort, FiberGood, FiberSet

\* notify_waiters() leaves the requests alone.
LEMMA SettleIsAlike ==
  ASSUME NEW S, FiberGood(S) PROVE Alike(S, settle(S))
BY DEF FiberGood, FiberSet, Alike, settle

\* arm(): the request is parked and has its timer.
LEMMA ArmIsGood ==
  ASSUME NEW S, FiberGood(S), S.port # 0, NEW r \in Req, NEW x,
         x = IF r \in Callers THEN "call" ELSE "load"
  PROVE  /\ FiberGood(arm(S, r, x)) /\ Serves(S, arm(S, r, x)) /\ SamePort(S, arm(S, r, x))
         /\ arm(S, r, x).pending[r] # "none"
<1>1. PICK T : T = arm(S, r, x) OBVIOUS
<1>2. T \in FiberSet /\ T.port = S.port /\ T.spawned = S.spawned /\ T.out = S.out /\ T.ans = S.ans
      /\ T.pending = [S.pending EXCEPT ![r] = x] /\ T.armed = S.armed \cup {r}
  BY <1>1 DEF arm, FiberGood, FiberSet
<1>3. S.pending \in [Req -> {"none", "load", "call"}] BY DEF FiberGood, FiberSet
<1>4. T.pending[r] # "none" BY <1>2, <1>3
<1>5. Serves(S, T) BY <1>2, <1>3 DEF Serves, Req
<1>6. FiberGood(T) BY <1>2, <1>3 DEF FiberGood
<1> QED BY <1>1, <1>2, <1>4, <1>5, <1>6 DEF SamePort

\* send_frame(): the frame is put behind the others.
LEMMA SendIsGood ==
  ASSUME NEW S, FiberGood(S), NEW fr \in OutSet, FrameIsOwn(fr)
  PROVE  /\ FiberGood(send_frame(S, fr)) /\ Serves(S, send_frame(S, fr))
            /\ SamePort(S, send_frame(S, fr))
<1>1. PICK T : T = send_frame(S, fr) OBVIOUS
<1>2. S \in FiberSet /\ S.out \in Seq(OutSet) BY DEF FiberGood, FiberSet
<1>3. PICK o : o = Append(S.out, fr) OBVIOUS
<1>4. o \in Seq(OutSet) /\ Len(o) = Len(S.out) + 1 /\ o[Len(S.out) + 1] = fr
      /\ (\A i \in 1 .. Len(S.out) : o[i] = S.out[i]) /\ Len(S.out) \in Nat
  BY <1>2, <1>3, AppendProperties, LenProperties
<1>5. T = [S EXCEPT !.out = o] BY <1>1, <1>3 DEF send_frame
<1>6. T \in FiberSet /\ T.port = S.port /\ T.spawned = S.spawned /\ T.out = o /\ T.ans = S.ans
      /\ T.pending = S.pending /\ T.armed = S.armed
  BY <1>2, <1>4, <1>5 DEF FiberSet
<1>7. \A i \in 1 .. Len(o) : i \in 1 .. Len(S.out) \/ i = Len(S.out) + 1 BY <1>4
<1>8. \A i \in 1 .. Len(o) : FrameIsOwn(o[i]) BY <1>4, <1>7 DEF FiberGood
<1>9. FiberGood(T) BY <1>6, <1>8 DEF FiberGood
<1> QED BY <1>1, <1>6, <1>9 DEF SamePort, Serves

\* close_port() with cancel_all(): whoever is parked is told that the plugin is gone.
LEMMA CloseIsGood ==
  ASSUME NEW S, FiberGood(S)
  PROVE  /\ FiberGood(close_port(S)) /\ Serves(S, close_port(S)) /\ Shuts(S, close_port(S))
         /\ close_port(S).port = 0 /\ close_port(S).phase = S.phase
<1>1. CASE S.port = 0 BY <1>1 DEF close_port, Serves, Shuts, FiberGood
<1>2. CASE S.port # 0
  <2>1. PICK T : T = close_port(S) OBVIOUS
  <2>2. S \in FiberSet BY DEF FiberGood
  <2>3. T = [[S EXCEPT !.port = 0, !.out = <<>>] EXCEPT !.pending = Unparked, !.armed = {},
               !.ans = [c \in Callers |->
                       IF S.pending[c] # "none" THEN [t |-> "plugin_gone"] ELSE S.ans[c]]]
    BY <1>2, <2>1, <2>2 DEF close_port, cancel_all, FiberSet
  <2>4. S.ans \in [Callers -> AnswerSet] /\ [t |-> "plugin_gone"] \in AnswerSet
        /\ Unparked \in [Req -> {"none", "load", "call"}]
    BY <2>2 DEF FiberSet, AnswerSet, Unparked
  <2>5. /\ T \in FiberSet /\ T.port = 0 /\ T.spawned = S.spawned /\ T.out = <<>> /\ T.phase = S.phase
        /\ T.pending = Unparked /\ T.armed = {}
        /\ T.ans = [c \in Callers |-> IF S.pending[c] # "none" THEN [t |-> "plugin_gone"]
             ELSE S.ans[c]]
    BY <2>2, <2>3, <2>4, EmptySeq DEF FiberSet
  <2>6. FiberGood(T) BY <2>5 DEF FiberGood, Unparked, FiberSet
  <2>7. [t |-> "plugin_gone"] # Nothing BY DEF Nothing
  <2>8. Serves(S, T) BY <2>5, <2>7 DEF Serves, Unparked
  <2> QED BY <2>1, <2>5, <2>6, <2>8 DEF Shuts
<1> QED BY <1>1, <1>2

\* A whole turn of the fiber, and one that opens no port.
Turns(S, T) == FiberGood(T) /\ Serves(S, T) /\ Moves(S, T)
Keeps(S, T) == FiberGood(T) /\ Serves(S, T) /\ Shuts(S, T)

\* How the functions of tenon.erl compose.
LEMMA Through ==
  ASSUME NEW S, NEW T, NEW U, FiberGood(S)
  PROVE  /\ Alike(S, T) => Keeps(S, T)
         /\ Keeps(S, T) => Turns(S, T)
         /\ Keeps(S, T) /\ Keeps(T, U) => Keeps(S, U)
         /\ Keeps(S, T) /\ Turns(T, U) => Turns(S, U)
         /\ Keeps(S, T) /\ Alike(T, U) => Keeps(S, U)
         /\ Turns(S, T) /\ Alike(T, U) => Turns(S, U)
<1>1. Alike(S, T) => Keeps(S, T) BY AlikeIsGood DEF Keeps, Shuts, SamePort
<1>2. Keeps(S, T) => Turns(S, T) BY DEF Keeps, Turns, Moves
<1>3. Keeps(S, T) /\ Keeps(T, U) => Keeps(S, U) BY ServesThrough, PortsThrough DEF Keeps
<1>4. Keeps(S, T) /\ Turns(T, U) => Turns(S, U) BY ServesThrough, PortsThrough DEF Keeps, Turns
<1>5. FiberGood(T) /\ Alike(T, U) => Keeps(T, U)
      /\ SamePort(T, U) BY AlikeIsGood DEF Keeps, Shuts, SamePort
<1>6. Turns(S, T) /\ Alike(T, U) => Turns(S, U)
  BY <1>5, ServesThrough, PortsThrough DEF Keeps, Turns
<1> QED BY <1>1, <1>2, <1>3, <1>4, <1>5, <1>6 DEF Keeps

\* do_unload(): the rows go, then the port.
LEMMA UnloadIsGood ==
  ASSUME NEW S, FiberGood(S)
  PROVE  Keeps(S, do_unload(S)) /\ do_unload(S).port = 0 /\ do_unload(S).status = "unloading"
<1>1. PICK T : T = [S EXCEPT !.rows = FALSE, !.status = "unloading"] OBVIOUS
<1>2. Alike(S, T) /\ T.status = "unloading" BY <1>1 DEF FiberGood, FiberSet, Alike
<1>3. Keeps(S, T) /\ FiberGood(T) BY <1>2, Through DEF Keeps
<1>4. Keeps(T, close_port(T)) /\ close_port(T).port = 0 BY <1>3, CloseIsGood DEF Keeps
<1>5. close_port(T).status = T.status BY <1>3 DEF close_port, cancel_all, FiberGood, FiberSet
<1>6. Keeps(S, close_port(T)) BY <1>3, <1>4, Through
<1> QED BY <1>1, <1>2, <1>4, <1>5, <1>6 DEF do_unload

\* A function of tenon.erl that ends in notify_waiters().
LEMMA SettledIsGood ==
  ASSUME NEW S, NEW T, FiberGood(S), Turns(S, T)
  PROVE  Turns(S, settle(T))
<1>1. FiberGood(T) BY DEF Turns
<1>2. Alike(T, settle(T)) BY <1>1, SettleIsAlike
<1> QED BY <1>2, Through

\* fail_external() after the port was closed.
LEMMA FailIsGood ==
  ASSUME NEW S, NEW T, FiberGood(S), Keeps(S, T), dep \in Int
  PROVE  Turns(S, settle(fail_external([T EXCEPT !.phase = "ready"])))
<1>1. PICK e : e = dep OBVIOUS
<1>2. PICK U : U = [T EXCEPT !.phase = "ready"] OBVIOUS
<1>3. PICK V : V = [U EXCEPT !.epoch = e] OBVIOUS
<1>4. PICK W : W = [V EXCEPT !.status = "failed"] OBVIOUS
<1>5. FiberGood(T) BY DEF Keeps
<1>6. Alike(T, U) BY <1>2, <1>5 DEF FiberGood, FiberSet, Alike
<1>7. FiberGood(U) /\ Keeps(S, U) BY <1>5, <1>6, Through DEF Keeps
<1>8. Alike(U, V) BY <1>1, <1>3, <1>7 DEF FiberGood, FiberSet, Alike
<1>9. FiberGood(V) /\ Keeps(S, V) BY <1>7, <1>8, Through DEF Keeps
<1>10. Alike(V, W) BY <1>4, <1>9 DEF FiberGood, FiberSet, Alike
<1>11. Turns(S, W) BY <1>9, <1>10, Through
<1>12. W = fail_external(U) BY <1>1, <1>3, <1>4 DEF fail_external, fail, compute_epoch
<1> QED BY <1>2, <1>11, <1>12, SettledIsGood

\* open_plugin(): one more process, and a timer for its hello, or none.
LEMMA OpenIsGood ==
  ASSUME NEW S, FiberGood(S), S.port = 0, NEW bad, dep \in Int
  PROVE  Turns(S, open_plugin(S, bad))
<1>a. CASE bad
  <2>1. Keeps(S, S) BY DEF Keeps, Serves, Shuts
  <2>2. PICK T : T = settle(fail_external([S EXCEPT !.phase = "ready"])) OBVIOUS
  <2>3. Turns(S, T) BY <2>1, <2>2, FailIsGood
  <2>4. open_plugin(S, bad) = T BY <1>a, <2>2 DEF open_plugin
  <2> QED BY <2>3, <2>4
<1>b. CASE ~bad
  <2>0. S \in FiberSet /\ S.spawned \in Nat BY DEF FiberGood, FiberSet
  <2>1. PICK n \in Nat : n = S.spawned + 1 BY <2>0
  <2>2. PICK o \in Seq(OutSet) : o = <<>> BY EmptySeq
  <2>21. PICK T : T = [S EXCEPT !.port = n, !.spawned = n, !.out = o] OBVIOUS
  <2>22. /\ T \in FiberSet /\ T.port = n /\ T.spawned = n /\ T.out = o
         /\ T.pending = S.pending /\ T.armed = S.armed /\ T.ans = S.ans
    BY <2>0, <2>21 DEF FiberSet
  <2>3. Len(o) = 0 BY <2>2, EmptySeq
  <2>4. FiberGood(T) /\ Serves(S, T) /\ Opens(S, T)
    BY <2>0, <2>1, <2>22, <2>3 DEF FiberGood, Serves, Opens
  <2>5. "hello" \in Req /\ "hello" \notin Callers BY WireAssumption DEF Req
  <2>6. PICK h, x : h = "hello" /\ x = "load" OBVIOUS
  <2>7. T.port # 0 BY <2>0, <2>1, <2>22
  <2>8. PICK U : U = arm(T, h, x) OBVIOUS
  <2>9. FiberGood(U) /\ Serves(T, U) /\ SamePort(T, U) BY <2>4, <2>5, <2>6, <2>7, <2>8, ArmIsGood
  <2>10. Serves(S, U) BY <2>4, <2>9, ServesThrough
  <2>11. Opens(S, U) BY <2>4, <2>9 DEF Opens, SamePort
  <2>12. open_plugin(S, bad) = U BY <1>b, <2>0, <2>1, <2>2, <2>21, <2>6, <2>8 DEF open_plugin, FiberSet
  <2> QED BY <2>9, <2>10, <2>11, <2>12 DEF Turns, Moves
<1> QED BY <1>a, <1>b

\* wire_load(): the load frame goes out under a timer, or is over the cap.
LEMMA WireLoadIsGood ==
  ASSUME NEW S, FiberGood(S), S.port # 0, NEW bad
  PROVE  Turns(S, wire_load(S, bad))
<1>1. CASE bad
  <2>1. PICK T : T = [S EXCEPT !.phase = "ready"] OBVIOUS
  <2>2. Alike(S, T) BY <2>1 DEF FiberGood, FiberSet, Alike
  <2>3. FiberGood(T) BY <2>2, AlikeIsGood
  <2>4. PICK U : U = fail(T) OBVIOUS
  <2>5. Alike(T, U) BY <2>3, <2>4 DEF FiberGood, FiberSet, Alike, fail
  <2>6. FiberGood(U) BY <2>3, <2>5, AlikeIsGood
  <2>7. Alike(U, settle(U)) BY <2>6, SettleIsAlike
  <2>8. Keeps(S, U) BY <2>2, <2>5, Through
  <2>9. Keeps(S, settle(U)) BY <2>7, <2>8, Through
  <2>10. wire_load(S, bad) = settle(U) BY <1>1, <2>1, <2>4 DEF wire_load
  <2> QED BY <2>9, <2>10, Through
<1>2. CASE ~bad
  <2>1. PICK T : T = [S EXCEPT !.phase = "loading"] OBVIOUS
  <2>2. Alike(S, T) BY <2>1 DEF FiberGood, FiberSet, Alike
  <2>3. FiberGood(T) /\ T.port # 0 BY <2>2, AlikeIsGood DEF Alike
  <2>4. PICK fr, l : fr = Frame("load", "load") /\ l = "load" OBVIOUS
  <2>5. fr \in OutSet /\ FrameIsOwn(fr) BY <2>4 DEF Frame, OutSet, FrameIsOwn, Req
  <2>6. PICK U : U = send_frame(T, fr) OBVIOUS
  <2>7. FiberGood(U) /\ Serves(T, U) /\ SamePort(T, U) BY <2>3, <2>5, <2>6, SendIsGood
  <2>8. l \in Req /\ l \notin Callers BY <2>4, WireAssumption DEF Req
  <2>9. PICK V : V = arm(U, l, l) OBVIOUS
  <2>10. U.port # 0 BY <2>3, <2>7 DEF SamePort
  <2>11. FiberGood(V) /\ Serves(U, V) /\ SamePort(U, V) BY <2>4, <2>7, <2>8, <2>9, <2>10, ArmIsGood
  <2>12. Keeps(S, T) /\ Keeps(T, U)
         /\ Keeps(U, V) BY <2>2, <2>7, <2>11, Through DEF Keeps, Shuts, SamePort
  <2>13. Keeps(S, V) BY <2>3, <2>7, <2>12, Through
  <2>14. wire_load(S, bad) = V BY <1>2, <2>1, <2>4, <2>6, <2>9 DEF wire_load
  <2> QED BY <2>13, <2>14, Through
<1> QED BY <1>1, <1>2

\* do_load(): over the port there is, or a new one.
LEMMA DoLoadIsGood ==
  ASSUME NEW S, FiberGood(S), NEW bad, dep \in Int
  PROVE  Turns(S, do_load(S, bad))
<1>1. PICK T : T = [S EXCEPT !.status = "loading"] OBVIOUS
<1>2. Alike(S, T) /\ T.port = S.port BY <1>1 DEF FiberGood, FiberSet, Alike
<1>3. FiberGood(T) BY <1>2, AlikeIsGood
<1>4. CASE S.port # 0
  <2>1. do_load(S, bad) = wire_load(T, bad) BY <1>1, <1>4 DEF do_load
  <2>2. Turns(T, wire_load(T, bad)) BY <1>2, <1>3, <1>4, WireLoadIsGood
  <2> QED BY <1>2, <2>1, <2>2, Through
<1>5. CASE S.port = 0
  <2>1. PICK U : U = [T EXCEPT !.phase = "hello"] OBVIOUS
  <2>2. Alike(T, U) /\ U.port = 0 BY <1>2, <1>3, <1>5, <2>1 DEF FiberGood, FiberSet, Alike
  <2>3. FiberGood(U) BY <1>3, <2>2, AlikeIsGood
  <2>4. Turns(U, open_plugin(U, bad)) BY <2>2, <2>3, OpenIsGood
  <2>5. Keeps(S, U) BY <1>2, <2>2, Through
  <2>6. do_load(S, bad) = open_plugin(U, bad) BY <1>1, <1>5, <2>1 DEF do_load
  <2> QED BY <2>4, <2>5, <2>6, Through
<1> QED BY <1>4, <1>5

\* refresh(): nothing, a load, an unload or both, by the epoch.
LEMMA RefreshIsGood ==
  ASSUME NEW S, FiberGood(S), NEW bad, dep \in Int
  PROVE  Turns(S, refresh(S, bad))
<1>1. PICK e : e = dep OBVIOUS
<1>2. PICK U : U = do_unload(S) OBVIOUS
<1>3. Keeps(S, U) /\ FiberGood(U) BY <1>2, UnloadIsGood DEF Keeps
<1>4. Turns(S, S) BY DEF Turns, Serves, Moves, Shuts
<1>5. PICK T : T = [S EXCEPT !.epoch = e] OBVIOUS
<1>6. Alike(S, T) BY <1>1, <1>5 DEF FiberGood, FiberSet, Alike
<1>7. FiberGood(T) BY <1>6, AlikeIsGood
<1>8. Turns(S, do_load(T, bad)) BY <1>6, <1>7, DoLoadIsGood, Through
<1>01. PICK z \in Int : z = inactive BY DEF inactive
<1>9. PICK V : V = [U EXCEPT !.epoch = z, !.status = "pending"] OBVIOUS
<1>10. Alike(U, V) BY <1>3, <1>9 DEF FiberGood, FiberSet, Alike
<1>11. Turns(S, V) BY <1>3, <1>10, Through
<1>12. PICK W : W = [U EXCEPT !.epoch = e] OBVIOUS
<1>13. Alike(U, W) BY <1>1, <1>3, <1>12 DEF FiberGood, FiberSet, Alike
<1>14. Keeps(S, W) /\ FiberGood(W) BY <1>3, <1>13, Through DEF Keeps
<1>15. Turns(S, do_load(W, bad)) BY <1>14, DoLoadIsGood, Through
<1>16. CASE S.phase # "ready" \/ e = S.epoch
  BY <1>1, <1>4, <1>16 DEF refresh, compute_epoch
<1>17. CASE S.phase = "ready" /\ e # S.epoch /\ S.epoch = inactive /\ e # inactive
  BY <1>1, <1>5, <1>8, <1>17 DEF refresh, compute_epoch
<1>18. CASE S.phase = "ready" /\ S.epoch # inactive /\ e = inactive
  BY <1>1, <1>2, <1>01, <1>9, <1>11, <1>18 DEF refresh, compute_epoch
<1>19. CASE S.phase = "ready" /\ e # S.epoch /\ S.epoch # inactive /\ e # inactive
  BY <1>1, <1>2, <1>12, <1>15, <1>19 DEF refresh, compute_epoch
<1> QED BY <1>16, <1>17, <1>18, <1>19

\* reload(): unload, and a refresh from nothing.
LEMMA ReloadIsGood ==
  ASSUME NEW S, FiberGood(S), NEW bad, dep \in Int
  PROVE  Turns(S, reload(S, bad))
<1>1. PICK U : U = do_unload(S) OBVIOUS
<1>2. Keeps(S, U) /\ FiberGood(U) BY <1>1, UnloadIsGood DEF Keeps
<1>3. PICK z \in Int : z = inactive BY DEF inactive
<1>4. PICK V : V = [U EXCEPT !.epoch = z, !.phase = "ready", !.status = "pending"] OBVIOUS
<1>5. Alike(U, V) BY <1>2, <1>4 DEF FiberGood, FiberSet, Alike
<1>6. Keeps(S, V) /\ FiberGood(V) BY <1>2, <1>5, Through DEF Keeps
<1>7. Turns(S, refresh(V, bad)) BY <1>6, RefreshIsGood, Through
<1>8. Turns(S, settle(refresh(V, bad))) BY <1>7, SettledIsGood
<1> QED BY <1>1, <1>3, <1>4, <1>8 DEF reload

\* port_gone(): the plugin's process went by itself.
LEMMA PortGoneIsGood ==
  ASSUME NEW S, FiberGood(S), dep \in Int
  PROVE  Turns(S, port_gone(S))
<1>1. PICK T : T = close_port(S) OBVIOUS
<1>2. Keeps(S, T) /\ FiberGood(T) BY <1>1, CloseIsGood DEF Keeps
<1>3. PICK U : U = do_unload(T) OBVIOUS
<1>4. Keeps(T, U) BY <1>2, <1>3, UnloadIsGood
<1>5. Keeps(S, U) BY <1>2, <1>4, Through
<1> QED BY <1>1, <1>3, <1>5, FailIsGood DEF port_gone

\* A request is taken from those parked; if it is a caller's, the caller is answered.
LEMMA TakeIsGood ==
  ASSUME NEW S, FiberGood(S), NEW T, T \in FiberSet, NEW r \in Req, NEW a \in AnswerSet, a # Nothing,
         r \in Callers /\ a.t = "rep" => a.v = r,
         T.armed = S.armed \/ T.armed = S.armed \ {r},
         T.port = S.port, T.spawned = S.spawned, T.out = S.out,
         T.pending = [S.pending EXCEPT ![r] = "none"],
         \/ r \in Callers /\ T.ans = [S.ans EXCEPT ![r] = a]
         \/ r \notin Callers /\ T.ans = S.ans
  PROVE  Keeps(S, T)
<1>1. S \in FiberSet BY DEF FiberGood
<1>2. S.pending \in [Req -> {"none", "load", "call"}] /\ S.ans \in [Callers -> AnswerSet]
  BY <1>1 DEF FiberSet
<1>3. \A c \in Callers : T.ans[c] = S.ans[c] \/ (c = r /\ T.ans[c] = a) BY <1>2
<1>31. \A q \in Req : T.pending[q] = IF q = r THEN "none" ELSE S.pending[q] BY <1>2
<1>4. FiberGood(T) BY <1>2, <1>3, <1>31 DEF FiberGood
<1>5. \A c \in Callers : S.ans[c] # Nothing => T.ans[c] # Nothing BY <1>3
<1>6. \A c \in Callers : S.pending[c] # "none" => T.pending[c] # "none" \/ T.ans[c] # Nothing
  BY <1>2, <1>31 DEF Req
<1>7. \A q \in Req : T.pending[q] # "none" /\ q \notin T.armed => S.pending[q] # "none"
      /\ q \notin S.armed
  BY <1>31
<1>8. Serves(S, T) BY <1>5, <1>6, <1>7 DEF Serves
<1> QED BY <1>4, <1>8 DEF Keeps, Shuts

\* The answer of the plugin to a caller (reply_frame, next).
LEMMA AnswerIsGood ==
  ASSUME NEW S, FiberGood(S), NEW r \in Callers, NEW a \in AnswerSet, a # Nothing,
         a.t = "rep" => a.v = r
  PROVE  Turns(S, answer(S, r, a))
<1>1. PICK T : T = [S EXCEPT !.pending[r] = "none", !.armed = S.armed \ {r}, !.ans[r] = a] OBVIOUS
<1>2. r \in Req BY DEF Req
<1>31. /\ T \in FiberSet /\ T.port = S.port /\ T.spawned = S.spawned /\ T.out = S.out
       /\ T.pending = [S.pending EXCEPT ![r] = "none"] /\ T.armed = S.armed \ {r}
       /\ T.ans = [S.ans EXCEPT ![r] = a]
  BY <1>1, <1>2 DEF FiberGood, FiberSet
<1>4. Keeps(S, T) BY <1>31, <1>2, TakeIsGood
<1>5. T = answer(S, r, a) BY <1>1 DEF answer, take_pending, FiberGood, FiberSet
<1> QED BY <1>4, <1>5, Through

\* expire(): the deadline of a load closes the port, that of a call answers the caller.
LEMMA ExpireIsGood ==
  ASSUME NEW S, FiberGood(S), NEW r \in Req, dep \in Int
  PROVE  Turns(S, expire(S, r)) /\ expire(S, r).pending[r] = "none"
<1>0. S.pending \in [Req -> {"none", "load", "call"}] BY DEF FiberGood, FiberSet
<1>1. CASE S.pending[r] = "none" BY <1>1 DEF expire, Turns, Serves, Moves, Shuts
<1>2. CASE S.pending[r] = "load"
  <2>1. r \notin Callers BY <1>2 DEF FiberGood
  <2>2. PICK T : T = [S EXCEPT !.pending[r] = "none"] OBVIOUS
  <2>3. PICK a \in AnswerSet : a = [t |-> "timeout"] BY DEF AnswerSet
  <2>4. a # Nothing BY <2>3 DEF Nothing
  <2>5. /\ T \in FiberSet /\ T.port = S.port /\ T.spawned = S.spawned /\ T.out = S.out
        /\ T.pending = [S.pending EXCEPT ![r] = "none"] /\ T.armed = S.armed /\ T.ans = S.ans
    BY <2>2 DEF FiberGood, FiberSet
  <2>7. Keeps(S, T) /\ FiberGood(T) BY <2>1, <2>3, <2>4, <2>5, TakeIsGood DEF Keeps
  <2>8. PICK U : U = close_port(T) OBVIOUS
  <2>9. Keeps(T, U) /\ U.port = 0 BY <2>7, <2>8, CloseIsGood DEF Keeps
  <2>10. Keeps(S, U) BY <2>7, <2>9, Through
  <2>11. PICK V : V = settle(fail_external([U EXCEPT !.phase = "ready"])) OBVIOUS
  <2>12. Turns(S, V) BY <2>10, <2>11, FailIsGood
  <2>13. expire(S, r) = V BY <1>2, <2>2, <2>8, <2>11 DEF expire
  <2>14. V.pending = U.pending
    BY <2>9, <2>11 DEF Keeps, FiberGood, FiberSet, settle, fail_external, fail
  <2>15. U.pending[r] = "none" BY <2>9 DEF Keeps, FiberGood
  <2> QED BY <2>12, <2>13, <2>14, <2>15
<1>3. CASE S.pending[r] = "call"
  <2>1. r \in Callers BY <1>3 DEF FiberGood
  <2>2. PICK a \in AnswerSet : a = [t |-> "timeout"] BY DEF AnswerSet
  <2>3. a # Nothing /\ a.t # "rep" BY <2>2 DEF Nothing
  <2>4. PICK d : d = S.armed \ {r} OBVIOUS
  <2>5. PICK T : T = [S EXCEPT !.pending[r] = "none", !.armed = d, !.ans[r] = a] OBVIOUS
  <2>51. /\ T \in FiberSet /\ T.port = S.port /\ T.spawned = S.spawned /\ T.out = S.out
        /\ T.pending = [S.pending EXCEPT ![r] = "none"] /\ T.armed = S.armed \ {r}
        /\ T.ans = [S.ans EXCEPT ![r] = a]
    BY <2>1, <2>4, <2>5 DEF FiberGood, FiberSet
  <2>6. Keeps(S, T) BY <2>1, <2>3, <2>51, TakeIsGood
  <2>7. expire(S, r) = T BY <1>3, <2>2, <2>4, <2>5 DEF expire, FiberGood, FiberSet
  <2> QED BY <1>0, <2>51, <2>6, <2>7, Through
<1> QED BY <1>0, <1>1, <1>2, <1>3

\* A caller that cannot be parked is answered at once (park).
LEMMA TellIsGood ==
  ASSUME NEW S, FiberGood(S), NEW c \in Callers, NEW a \in AnswerSet, a # Nothing, a.t # "rep"
  PROVE  Turns(S, [S EXCEPT !.ans[c] = a]) /\ [S EXCEPT !.ans[c] = a].ans[c] # Nothing
<1>1. PICK T : T = [S EXCEPT !.ans[c] = a] OBVIOUS
<1>2. S \in FiberSet /\ S.ans \in [Callers -> AnswerSet] BY DEF FiberGood, FiberSet
<1>3. /\ T \in FiberSet /\ T.port = S.port /\ T.spawned = S.spawned /\ T.out = S.out
      /\ T.pending = S.pending /\ T.armed = S.armed /\ T.ans = [S.ans EXCEPT ![c] = a]
  BY <1>1, <1>2 DEF FiberSet
<1>4. FiberGood(T) BY <1>2, <1>3 DEF FiberGood
<1>5. Serves(S, T) BY <1>2, <1>3 DEF Serves
<1> QED BY <1>1, <1>2, <1>3, <1>4, <1>5 DEF Turns, Moves, Shuts

\* park(): the caller is parked under a timer, or answered.
LEMMA ParkIsGood ==
  ASSUME NEW S, FiberGood(S), NEW c \in Callers, NEW fr \in OutSet, FrameIsOwn(fr),
         NEW bad \in BOOLEAN
  PROVE  /\ Turns(S, park(S, c, fr, bad))
         /\ park(S, c, fr, bad).ans[c] # Nothing \/ park(S, c, fr, bad).pending[c] # "none"
<1>1. CASE S.port = 0
  <2>1. PICK a \in AnswerSet : a = [t |-> "no_plugin"] BY DEF AnswerSet
  <2>2. a # Nothing /\ a.t # "rep" BY <2>1 DEF Nothing
  <2>3. park(S, c, fr, bad) = [S EXCEPT !.ans[c] = a] BY <1>1, <2>1 DEF park
  <2> QED BY <2>2, <2>3, TellIsGood
<1>2. CASE S.port # 0 /\ bad
  <2>1. PICK a \in AnswerSet : a = [t |-> "frame_too_large"] BY DEF AnswerSet
  <2>2. a # Nothing /\ a.t # "rep" BY <2>1 DEF Nothing
  <2>3. park(S, c, fr, bad) = [S EXCEPT !.ans[c] = a] BY <1>2, <2>1 DEF park
  <2> QED BY <2>2, <2>3, TellIsGood
<1>3. CASE S.port # 0 /\ ~bad
  <2>1. PICK T : T = send_frame(S, fr) OBVIOUS
  <2>2. FiberGood(T) /\ Serves(S, T) /\ SamePort(S, T) BY <2>1, SendIsGood
  <2>3. PICK x : x = "call" OBVIOUS
  <2>4. PICK U : U = arm(T, c, x) OBVIOUS
  <2>5. c \in Req /\ T.port # 0 BY <1>3, <2>2 DEF Req, SamePort
  <2>6. FiberGood(U) /\ Serves(T, U) /\ SamePort(T, U) /\ U.pending[c] # "none"
    BY <2>2, <2>3, <2>4, <2>5, ArmIsGood
  <2>7. park(S, c, fr, bad) = U BY <1>3, <2>1, <2>3, <2>4 DEF park
  <2>8. Keeps(S, T) /\ Keeps(T, U) BY <2>2, <2>6 DEF Keeps, Shuts, SamePort
  <2>9. Turns(S, U) BY <2>8, Through
  <2> QED BY <2>6, <2>7, <2>9
<1> QED BY <1>1, <1>2, <1>3

\* take_pending() of the fiber's own request, for a hello or a load.
LEMMA TakeLoadIsGood ==
  ASSUME NEW S, FiberGood(S), NEW r \in Req, r \notin Callers
  PROVE  Keeps(S, take_pending(S, r)) /\ take_pending(S, r).port = S.port
<1>1. PICK T : T = take_pending(S, r) OBVIOUS
<1>2. /\ T \in FiberSet /\ T.port = S.port /\ T.spawned = S.spawned /\ T.out = S.out
      /\ T.pending = [S.pending EXCEPT ![r] = "none"] /\ T.armed = S.armed \ {r} /\ T.ans = S.ans
  BY <1>1 DEF FiberGood, FiberSet, take_pending
<1>3. PICK a \in AnswerSet : a = [t |-> "timeout"] BY DEF AnswerSet
<1>4. a # Nothing BY <1>3 DEF Nothing
<1> QED BY <1>1, <1>2, <1>4, TakeIsGood

\* reply_frame(): a reply to a load, to a caller, or to nobody any more.
LEMMA ReplyIsGood ==
  ASSUME NEW S, FiberGood(S), NEW fr \in LetterSet, fr.r \in Req, fr.v = fr.r
  PROVE  Turns(S, reply_frame(S, fr))
<1>0. S.pending \in [Req -> {"none", "load", "call"}] BY DEF FiberGood, FiberSet
<1>1. CASE S.pending[fr.r] = "none" BY <1>1 DEF reply_frame, Turns, Serves, Moves, Shuts
<1>2. CASE S.pending[fr.r] = "load"
  <2>1. PICK r : r = fr.r OBVIOUS
  <2>2. r \in Req /\ r \notin Callers BY <1>2, <2>1 DEF FiberGood
  <2>3. PICK T : T = take_pending(S, r) OBVIOUS
  <2>4. Keeps(S, T) /\ FiberGood(T) BY <2>2, <2>3, TakeLoadIsGood DEF Keeps
  <2>5. PICK U : U = [T EXCEPT !.phase = "ready", !.status = "active"] OBVIOUS
  <2>6. PICK V : V = [T EXCEPT !.phase = "ready"] OBVIOUS
  <2>7. PICK W : W = [V EXCEPT !.status = "failed"] OBVIOUS
  <2>8. Alike(T, U) BY <2>4, <2>5 DEF FiberGood, FiberSet, Alike
  <2>9. Alike(T, W) BY <2>4, <2>6, <2>7 DEF FiberGood, FiberSet, Alike
  <2>10. Turns(S, U) /\ Turns(S, W) BY <2>4, <2>8, <2>9, Through
  <2>11. Turns(S, settle(U)) /\ Turns(S, settle(W)) BY <2>10, SettledIsGood
  <2>12. reply_frame(S, fr) = settle(IF fr.ok THEN U ELSE W)
    BY <1>2, <2>1, <2>3, <2>5, <2>6, <2>7 DEF reply_frame, fail
  <2>13. CASE fr.ok BY <2>11, <2>12, <2>13
  <2>14. CASE ~fr.ok BY <2>11, <2>12, <2>14
  <2> QED BY <2>13, <2>14
<1>3. CASE S.pending[fr.r] = "call"
  <2>1. PICK r : r = fr.r OBVIOUS
  <2>2. r \in Callers BY <1>3, <2>1 DEF FiberGood
  <2>3. PICK a : a = IF fr.ok THEN [t |-> "rep", v |-> fr.v] ELSE [t |-> "error"] OBVIOUS
  <2>4. fr.v \in Ref BY DEF LetterSet
  <2>5. a \in AnswerSet /\ a # Nothing /\ (a.t = "rep" => a.v = r)
    <3>1. CASE fr.ok BY <2>1, <2>3, <2>4, <3>1 DEF AnswerSet, Nothing
    <3>2. CASE ~fr.ok BY <2>1, <2>3, <3>2 DEF AnswerSet, Nothing
    <3> QED BY <3>1, <3>2
  <2>6. reply_frame(S, fr) = answer(S, r, a) BY <1>3, <2>1, <2>3 DEF reply_frame
  <2> QED BY <2>2, <2>5, <2>6, AnswerIsGood
<1> QED BY <1>0, <1>1, <1>2, <1>3

\* The plugin says hello, and the load that waits for it goes on (resume_load).
LEMMA HelloIsGood ==
  ASSUME NEW S, FiberGood(S), S.port # 0, NEW bad, dep \in Int
  PROVE  Turns(S, hello(S, bad))
<1>1. PICK r : r = "hello" OBVIOUS
<1>2. r \in Req /\ r \notin Callers BY <1>1, WireAssumption DEF Req
<1>3. PICK T : T = take_pending(S, r) OBVIOUS
<1>4. Keeps(S, T) /\ FiberGood(T) /\ T.port # 0 BY <1>2, <1>3, TakeLoadIsGood DEF Keeps
<1>5. PICK U : U = [T EXCEPT !.phase = "ready"] OBVIOUS
<1>6. Alike(T, U) /\ U.port # 0 BY <1>4, <1>5 DEF FiberGood, FiberSet, Alike
<1>7. Keeps(S, U) /\ FiberGood(U) BY <1>4, <1>6, Through DEF Keeps
<1>8. Turns(U, resume_load(U, bad))
  <2>1. CASE U.status = "loading" BY <1>6, <1>7, <2>1, WireLoadIsGood DEF resume_load
  <2>2. CASE U.status # "loading" BY <1>7, <2>2, RefreshIsGood DEF resume_load
  <2> QED BY <2>1, <2>2
<1>9. Turns(S, resume_load(U, bad)) BY <1>7, <1>8, Through
<1>10. hello(S, bad) = settle(resume_load(U, bad)) BY <1>1, <1>3, <1>5 DEF hello
<1> QED BY <1>9, <1>10, SettledIsGood

\* What is in a mailbox whose first letter is taken.
LEMMA MailTail ==
  ASSUME NEW q \in Seq(LetterSet), q # <<>>
  PROVE  /\ Tail(q) \in Seq(LetterSet) /\ Len(Tail(q)) = Len(q) - 1 /\ Len(q) \in Nat /\ Len(q) >= 1
         /\ Head(q) = q[1] /\ q[1] \in LetterSet
         /\ \A i \in 1 .. Len(Tail(q)) : Tail(q)[i] = q[i + 1] /\ i + 1 \in 1 .. Len(q)
<1>1. Len(q) \in Nat /\ Len(q) # 0 BY EmptySeq, LenProperties
<1>2. Tail(q) \in Seq(LetterSet) /\ Len(Tail(q)) = Len(q) - 1 /\ Head(q) = q[1]
      /\ Head(q) \in LetterSet
  BY HeadTailProperties
<1>3. \A i \in 1 .. Len(Tail(q)) : Tail(q)[i] = q[i + 1] BY <1>1, <1>2, HeadTailProperties
<1> QED BY <1>1, <1>2, <1>3

\* What is in a mailbox that gets one more letter (gen_server's mailbox).
LEMMA MailAppend ==
  ASSUME NEW q \in Seq(LetterSet), NEW l \in LetterSet
  PROVE  /\ Append(q, l) \in Seq(LetterSet) /\ Len(Append(q, l)) = Len(q) + 1 /\ Len(q) \in Nat
         /\ Append(q, l)[Len(q) + 1] = l
         /\ \A i \in 1 .. Len(q) : Append(q, l)[i] = q[i]
BY AppendProperties, LenProperties

\* The letters of a mailbox are what it held and one more.
LEMMA Mailed ==
  ASSUME WireTypes, NEW l \in LetterSet, LetterIsGood(l), mail' = Append(mail, l)
  PROVE  /\ mail' \in Seq(LetterSet) /\ \A i \in 1 .. Len(mail') : LetterIsGood(mail'[i])
         /\ \A m, k : InMail(m, k) => InMail(m, k)'
         /\ InMail(l.m, l.r)'
<1>1. PICK q : q = mail OBVIOUS
<1>2. PICK s : s = mail' OBVIOUS
<1>3. q \in Seq(LetterSet) BY <1>1 DEF WireTypes
<1>4. /\ s \in Seq(LetterSet) /\ Len(s) = Len(q) + 1 /\ Len(q) \in Nat /\ s[Len(q) + 1] = l
      /\ \A i \in 1 .. Len(q) : s[i] = q[i]
  BY <1>1, <1>2, <1>3, MailAppend
<1>5. \A i \in 1 .. Len(s) : i \in 1 .. Len(q) \/ i = Len(q) + 1 BY <1>4
<1>6. \A i \in 1 .. Len(q) : LetterIsGood(q[i]) BY <1>1 DEF WireTypes
<1>7. \A i \in 1 .. Len(s) : LetterIsGood(s[i]) BY <1>4, <1>5, <1>6
<1>8. DOMAIN q = 1 .. Len(q) /\ DOMAIN s = 1 .. Len(s) BY <1>3, <1>4, LenProperties
<1>9. \A i \in 1 .. Len(q) : i \in 1 .. Len(s) BY <1>4
<1>10. \A m, k : InMail(m, k) => InMail(m, k)' BY <1>1, <1>2, <1>4, <1>8, <1>9 DEF InMail
<1>11. Len(q) + 1 \in 1 .. Len(s) BY <1>4
<1>12. InMail(l.m, l.r)' BY <1>2, <1>4, <1>8, <1>11 DEF InMail
<1> QED BY <1>2, <1>4, <1>7, <1>10, <1>12

\* The letters of a mailbox are the first and what is left.
LEMMA Unmailed ==
  ASSUME WireTypes, mail # <<>>, mail' = Tail(mail)
  PROVE  /\ mail' \in Seq(LetterSet) /\ \A i \in 1 .. Len(mail') : LetterIsGood(mail'[i])
         /\ Head(mail) \in LetterSet /\ LetterIsGood(Head(mail))
         /\ \A m, k : InMail(m, k) => InMail(m, k)' \/ (Head(mail).m = m /\ Head(mail).r = k)
<1>1. PICK q : q = mail OBVIOUS
<1>2. PICK s : s = mail' OBVIOUS
<1>3. q \in Seq(LetterSet) /\ q # <<>> BY <1>1 DEF WireTypes
<1>4. /\ s \in Seq(LetterSet) /\ Len(s) = Len(q) - 1 /\ Len(q) \in Nat /\ Len(q) >= 1
      /\ Head(q) = q[1] /\ q[1] \in LetterSet
      /\ \A i \in 1 .. Len(s) : s[i] = q[i + 1] /\ i + 1 \in 1 .. Len(q)
  BY <1>1, <1>2, <1>3, MailTail
<1>5. \A i \in 1 .. Len(q) : LetterIsGood(q[i]) BY <1>1 DEF WireTypes
<1>6. \A i \in 1 .. Len(s) : LetterIsGood(s[i]) BY <1>4, <1>5
<1>7. 1 \in 1 .. Len(q) BY <1>4
<1>8. DOMAIN q = 1 .. Len(q) /\ DOMAIN s = 1 .. Len(s) BY <1>3, <1>4, LenProperties
<1>9. \A i \in 1 .. Len(q) : i = 1 \/ (i - 1 \in 1 .. Len(s) /\ s[i - 1] = q[i])
  <2> SUFFICES ASSUME NEW i \in 1 .. Len(q), i # 1 PROVE i - 1 \in 1 .. Len(s) /\ s[i - 1] = q[i]
    OBVIOUS
  <2>1. i - 1 \in 1 .. Len(s) BY <1>4
  <2>2. (i - 1) + 1 = i BY <1>4
  <2> QED BY <2>1, <2>2, <1>4
<1>10. \A m, k : InMail(m, k) => InMail(m, k)' \/ (Head(mail).m = m /\ Head(mail).r = k)
  <2> SUFFICES ASSUME NEW m, NEW k, NEW i \in 1 .. Len(q), q[i].m = m, q[i].r = k
               PROVE  InMail(m, k)' \/ (Head(mail).m = m /\ Head(mail).r = k)
    BY <1>1, <1>8 DEF InMail
  <2>1. CASE i = 1 BY <2>1, <1>1, <1>4
  <2>2. CASE i # 1
    <3>1. i - 1 \in DOMAIN s /\ s[i - 1].m = m /\ s[i - 1].r = k BY <2>2, <1>8, <1>9
    <3> QED BY <3>1, <1>2 DEF InMail
  <2> QED BY <2>1, <2>2
<1> QED BY <1>1, <1>2, <1>4, <1>5, <1>6, <1>7, <1>10

\* A turn of the fiber on its first letter keeps the invariant if the one the letter is
\* about is parked or answered (handle_call, handle_cast, handle_info).
LEMMA FiberTurns ==
  ASSUME WireInv, mail # <<>>, mail' = Tail(mail), Turns(fib, fib'), Becomes(fib'),
         Head(mail).m \in {"hook_call", "hook_result"} =>
           fib'.ans[Head(mail).r] # Nothing \/ fib'.pending[Head(mail).r] # "none",
         Head(mail).m = "deadline" => fib'.pending[Head(mail).r] = "none",
         caller' = caller \/ caller' = [caller EXCEPT ![Worker] = "found"],
         UNCHANGED <<dep, wleft>>
  PROVE  WireInv'
<1>1. /\ mail' \in Seq(LetterSet) /\ \A i \in 1 .. Len(mail') : LetterIsGood(mail'[i])
      /\ Head(mail) \in LetterSet /\ LetterIsGood(Head(mail))
      /\ \A m, k : InMail(m, k) => InMail(m, k)' \/ (Head(mail).m = m /\ Head(mail).r = k)
  BY Unmailed DEF WireInv
<1>2. FiberGood(fib)' BY DEF Turns, FiberGood, FiberSet
<1>3. /\ caller' \in [Callers -> {"idle", "found", "sent", "chain", "back", "done"}]
      /\ \A c \in Callers : caller'[c] \in {"sent", "back"} => caller[c] = caller'[c]
  BY DEF WireInv, WireTypes, Callers
<1>4. WireTypes' BY <1>1, <1>3 DEF WireInv, WireTypes
<1>5. TimersAreSet'
  <2> SUFFICES ASSUME NEW r \in Req, fib'.pending[r] # "none", r \notin fib'.armed
               PROVE  InMail("deadline", r)'
    BY DEF TimersAreSet
  <2>1. fib.pending[r] # "none" /\ r \notin fib.armed BY DEF Turns, Serves
  <2>2. InMail("deadline", r) BY <2>1 DEF WireInv, TimersAreSet
  <2> QED BY <1>1, <2>2
<1>6. WaitersAreKnown'
  <2> SUFFICES ASSUME NEW c \in Callers, caller'[c] \in {"sent", "back"}, fib'.ans[c] = Nothing
               PROVE  InMail("hook_call", c)' \/ InMail("hook_result", c)' \/ fib'.pending[c] # "none"
    BY DEF WaitersAreKnown
  <2>1. caller[c] \in {"sent", "back"} /\ fib.ans[c] = Nothing BY <1>3 DEF Turns, Serves
  <2>2. InMail("hook_call", c) \/ InMail("hook_result", c) \/ fib.pending[c] # "none"
    BY <2>1 DEF WireInv, WaitersAreKnown
  <2>3. CASE fib.pending[c] # "none" BY <2>3 DEF Turns, Serves
  <2>4. CASE InMail("hook_call", c) BY <1>1, <2>4
  <2>5. CASE InMail("hook_result", c) BY <1>1, <2>5
  <2> QED BY <2>2, <2>3, <2>4, <2>5
<1>7. PlugIsGood'
  <2>1. CASE plug' = plug BY <2>1 DEF WireInv, PlugIsGood
  <2>2. CASE plug' = FreshPlug
    <3>1. << >> \in Seq(HandlerSet) /\ Len(<< >>) = 0 BY EmptySeq
    <3> QED BY <2>2, <3>1 DEF PlugIsGood, FreshPlug
  <2> QED BY <2>1, <2>2 DEF Becomes
<1>8. fib.port \in Nat /\ fib.spawned \in Nat /\ fib.port <= fib.spawned /\ fib'.port \in Nat
      /\ fib'.spawned \in Nat
  BY <1>2 DEF WireInv, FiberGood, FiberSet
<1>9. live' \subseteq {fib'.port} /\ 0 \notin live'
  <2>1. CASE Shuts(fib, fib') BY <2>1, <1>8 DEF Shuts, Becomes, WireInv, NoStrayPlugin
  <2>2. CASE Opens(fib, fib')
    <3>1. fib'.port # fib.port /\ fib'.spawned # fib.spawned /\ fib'.port = fib'.spawned
          /\ fib'.spawned # 0
      BY <2>2, <1>8 DEF Opens
    <3> QED BY <3>1 DEF Becomes, WireInv, NoStrayPlugin
  <2> QED BY <2>1, <2>2 DEF Turns, Moves
<1> QED BY <1>2, <1>4, <1>5, <1>6, <1>7, <1>9 DEF WireInv, NoStrayPlugin

\* The frames for hooks, results and replies carry what is their caller's.
LEMMA FramesForHooks ==
  ASSUME NEW c \in Callers, NEW w \in {"hook", "result", "rep"}
  PROVE  Frame(w, c) \in OutSet /\ FrameIsOwn(Frame(w, c))
BY DEF Frame, OutSet, FrameIsOwn, Req

\* handle_call({hook_call, ..}): the caller is parked or answered.
LEMMA HandleCallKeeps ==
  ASSUME WireInv, HandleCall PROVE WireInv'
<1>1. PICK bad \in Bad : Becomes(park(fib, Head(mail).r, Frame("hook", Head(mail).r), bad))
  BY DEF HandleCall, Speaks
<1>2. bad \in BOOLEAN BY DEF Bad
<1>3. PICK S, c, w : S = fib /\ c = Head(mail).r /\ w = "hook" OBVIOUS
<1>4. mail # <<>> /\ mail' = Tail(mail) /\ Head(mail).m = "hook_call"
      /\ UNCHANGED <<caller, dep, wleft>>
  BY DEF HandleCall, First
<1>5. c \in Callers BY <1>3, <1>4, Unmailed DEF WireInv, LetterIsGood
<1>6. FiberGood(S) BY <1>3 DEF WireInv
<1>7. PICK fr : fr = Frame(w, c) OBVIOUS
<1>8. fr \in OutSet /\ FrameIsOwn(fr) BY <1>3, <1>5, <1>7, FramesForHooks
<1>9. fib' = park(S, c, fr, bad) /\ Becomes(fib') BY <1>1, <1>3, <1>7 DEF Becomes
<1>10. Turns(fib, fib') /\ (fib'.ans[c] # Nothing \/ fib'.pending[c] # "none")
  BY <1>2, <1>3, <1>5, <1>6, <1>8, <1>9, ParkIsGood
<1> QED BY <1>3, <1>4, <1>9, <1>10, FiberTurns

\* handle_call({hook_result, ..}): the caller comes back and is parked again.
LEMMA HandleResultKeeps ==
  ASSUME WireInv, HandleResult PROVE WireInv'
<1>1. PICK bad \in Bad : Becomes(park(fib, Head(mail).r, Frame("result", Head(mail).r), bad))
  BY DEF HandleResult, Speaks
<1>2. bad \in BOOLEAN BY DEF Bad
<1>3. PICK S, c, w : S = fib /\ c = Head(mail).r /\ w = "result" OBVIOUS
<1>4. mail # <<>> /\ mail' = Tail(mail) /\ Head(mail).m = "hook_result"
      /\ UNCHANGED <<caller, dep, wleft>>
  BY DEF HandleResult, First
<1>5. c \in Callers BY <1>3, <1>4, Unmailed DEF WireInv, LetterIsGood
<1>6. FiberGood(S) BY <1>3 DEF WireInv
<1>7. PICK fr : fr = Frame(w, c) OBVIOUS
<1>8. fr \in OutSet /\ FrameIsOwn(fr) BY <1>3, <1>5, <1>7, FramesForHooks
<1>9. fib' = park(S, c, fr, bad) /\ Becomes(fib') BY <1>1, <1>3, <1>7 DEF Becomes
<1>10. Turns(fib, fib') /\ (fib'.ans[c] # Nothing \/ fib'.pending[c] # "none")
  BY <1>2, <1>3, <1>5, <1>6, <1>8, <1>9, ParkIsGood
<1> QED BY <1>3, <1>4, <1>9, <1>10, FiberTurns

\* The letters that are about no caller: the fiber only has to take its turn.
LEMMA QuietTurn ==
  ASSUME WireInv, NEW m, First(m), m \notin {"hook_call", "hook_result", "deadline"},
         Turns(fib, fib'), Becomes(fib'),
         caller' = caller \/ caller' = [caller EXCEPT ![Worker] = "found"], UNCHANGED <<dep, wleft>>
  PROVE  WireInv'
BY FiberTurns DEF First

\* handle_call(status): a refresh, and who asks waits.
LEMMA HandleStatusKeeps ==
  ASSUME WireInv, HandleStatus PROVE WireInv'
<1>1. PICK bad \in Bad : Becomes(settle([refresh(fib, bad) EXCEPT !.waiters = "waiting"]))
  BY DEF HandleStatus, Speaks
<1>2. PICK S : S = fib OBVIOUS
<1>3. FiberGood(S) /\ dep \in Int BY <1>2 DEF WireInv, WireTypes
<1>4. PICK T : T = refresh(S, bad) OBVIOUS
<1>5. Turns(S, T) /\ FiberGood(T) BY <1>3, <1>4, RefreshIsGood DEF Turns
<1>6. PICK U : U = [T EXCEPT !.waiters = "waiting"] OBVIOUS
<1>7. Alike(T, U) BY <1>5, <1>6 DEF FiberGood, FiberSet, Alike
<1>8. Turns(S, settle(U)) BY <1>3, <1>5, <1>7, Through, SettledIsGood
<1>9. fib' = settle(U) /\ Becomes(fib') BY <1>1, <1>2, <1>4, <1>6 DEF Becomes
<1>10. Turns(fib, fib') BY <1>2, <1>8, <1>9
<1>11. First("status") /\ UNCHANGED <<caller, dep, wleft>> BY DEF HandleStatus
<1> QED BY <1>9, <1>10, <1>11, QuietTurn

\* handle_cast(refresh).
LEMMA HandleRefreshKeeps ==
  ASSUME WireInv, HandleRefresh PROVE WireInv'
<1>1. PICK bad \in Bad : Becomes(settle(refresh(fib, bad))) BY DEF HandleRefresh, Speaks
<1>2. PICK S : S = fib OBVIOUS
<1>3. FiberGood(S) /\ dep \in Int BY <1>2 DEF WireInv, WireTypes
<1>4. PICK T : T = refresh(S, bad) OBVIOUS
<1>5. Turns(S, T) BY <1>3, <1>4, RefreshIsGood
<1>8. Turns(S, settle(T)) BY <1>3, <1>5, SettledIsGood
<1>9. fib' = settle(T) /\ Becomes(fib') BY <1>1, <1>2, <1>4 DEF Becomes
<1>10. Turns(fib, fib') BY <1>2, <1>8, <1>9
<1>11. First("refresh") /\ UNCHANGED <<caller, dep, wleft>> BY DEF HandleRefresh
<1> QED BY <1>9, <1>10, <1>11, QuietTurn

\* handle_call(restart): reload().
LEMMA HandleRestartKeeps ==
  ASSUME WireInv, HandleRestart PROVE WireInv'
<1>1. PICK bad \in Bad : Becomes(reload(fib, bad)) BY DEF HandleRestart, Speaks
<1>2. PICK S : S = fib OBVIOUS
<1>3. FiberGood(S) /\ dep \in Int BY <1>2 DEF WireInv, WireTypes
<1>9. fib' = reload(S, bad) /\ Becomes(fib') BY <1>1, <1>2 DEF Becomes
<1>10. Turns(fib, fib') BY <1>2, <1>3, <1>9, ReloadIsGood
<1>11. First("restart") /\ UNCHANGED <<caller, dep, wleft>> BY DEF HandleRestart
<1> QED BY <1>9, <1>10, <1>11, QuietTurn

\* handle_info({deadline, ..}): expire().
LEMMA HandleDeadlineKeeps ==
  ASSUME WireInv, HandleDeadline PROVE WireInv'
<1>1. Becomes(expire(fib, Head(mail).r)) /\ First("deadline") /\ UNCHANGED <<caller, dep, wleft>>
  BY DEF HandleDeadline
<1>2. PICK S, r : S = fib /\ r = Head(mail).r OBVIOUS
<1>3. FiberGood(S) /\ dep \in Int BY <1>2 DEF WireInv, WireTypes
<1>4. mail # <<>> /\ mail' = Tail(mail) /\ Head(mail).m = "deadline" BY <1>1 DEF First
<1>5. r \in Req BY <1>2, <1>4, Unmailed DEF WireInv, LetterIsGood
<1>9. fib' = expire(S, r) /\ Becomes(fib') BY <1>1, <1>2 DEF Becomes
<1>10. Turns(fib, fib') /\ fib'.pending[r] = "none" BY <1>2, <1>3, <1>5, <1>9, ExpireIsGood
<1> QED BY <1>1, <1>2, <1>4, <1>9, <1>10, FiberTurns

\* handle_info of the port's exit; one of an earlier port is dropped.
LEMMA HandleExitKeeps ==
  ASSUME WireInv, HandleExit PROVE WireInv'
<1>1. Becomes(IF Head(mail).p = fib.port THEN port_gone(fib) ELSE fib) /\ First("exit")
      /\ UNCHANGED <<caller, dep, wleft>>
  BY DEF HandleExit
<1>2. PICK S : S = fib OBVIOUS
<1>3. FiberGood(S) /\ dep \in Int BY <1>2 DEF WireInv, WireTypes
<1>4. Turns(S, S) BY <1>3 DEF Turns, Serves, Moves, Shuts
<1>9. (fib' = port_gone(S) \/ fib' = S) /\ Becomes(fib') BY <1>1, <1>2 DEF Becomes
<1>10. Turns(fib, fib') BY <1>2, <1>3, <1>4, <1>9, PortGoneIsGood
<1> QED BY <1>1, <1>9, <1>10, QuietTurn

\* The answer to the plugin's own call goes to the plugin there is.
LEMMA HandleWorkerReplyKeeps ==
  ASSUME WireInv, HandleWorkerReply PROVE WireInv'
<1>1. Becomes(IF fib.port = 0 THEN fib ELSE send_frame(fib, Frame("rep", Worker)))
      /\ First("worker_reply")
      /\ UNCHANGED <<caller, dep, wleft>>
  BY DEF HandleWorkerReply, Speaks
<1>2. PICK S, c, w : S = fib /\ c = Worker /\ w = "rep" OBVIOUS
<1>3. FiberGood(S) /\ c \in Callers BY <1>2 DEF WireInv, Callers
<1>4. Turns(S, S) BY <1>3 DEF Turns, Serves, Moves, Shuts
<1>5. PICK fr : fr = Frame(w, c) OBVIOUS
<1>6. fr \in OutSet /\ FrameIsOwn(fr) BY <1>2, <1>3, <1>5, FramesForHooks
<1>7. Turns(S, send_frame(S, fr)) BY <1>3, <1>6, SendIsGood DEF Turns, Moves, Shuts, SamePort
<1>9. (fib' = send_frame(S, fr) \/ fib' = S) /\ Becomes(fib') BY <1>1, <1>2, <1>5 DEF Becomes
<1>10. Turns(fib, fib') BY <1>2, <1>4, <1>7, <1>9
<1> QED BY <1>1, <1>9, <1>10, QuietTurn

\* terminate(): who is in the mailbox gets the exit.
LEMMA UnmountIsGood ==
  ASSUME NEW S, FiberGood(S), NEW a, a \subseteq Callers, NEW w \in {"none", "waiting", "told"},
         NEW T, T = [S EXCEPT !.status = "disposed", !.phase = "ready", !.waiters = w,
                       !.ans = [c \in Callers |-> IF c \in a THEN [t |-> "exit"] ELSE S.ans[c]]]
  PROVE  Keeps(S, T)
<1>1. S \in FiberSet /\ S.ans \in [Callers -> AnswerSet] BY DEF FiberGood, FiberSet
<1>2. [t |-> "exit"] \in AnswerSet /\ [t |-> "exit"] # Nothing BY DEF AnswerSet, Nothing
<1>3. PICK e : e = [t |-> "exit"] OBVIOUS
<1>4. PICK f : f = [c \in Callers |-> IF c \in a THEN e ELSE S.ans[c]] OBVIOUS
<1>5. f \in [Callers -> AnswerSet] BY <1>1, <1>2, <1>3, <1>4
<1>6. T = [S EXCEPT !.status = "disposed", !.phase = "ready", !.waiters = w, !.ans = f] BY <1>3, <1>4
<1>7. /\ T \in FiberSet /\ T.port = S.port /\ T.spawned = S.spawned /\ T.out = S.out
      /\ T.pending = S.pending /\ T.armed = S.armed /\ T.ans = f
  BY <1>1, <1>5, <1>6 DEF FiberSet
<1>8. \A c \in Callers : T.ans[c] = e \/ T.ans[c] = S.ans[c] BY <1>4, <1>7
<1>9. e.t # "rep" BY <1>3
<1>10. FiberGood(T) BY <1>7, <1>8, <1>9 DEF FiberGood
<1>11. Serves(S, T) BY <1>2, <1>3, <1>7, <1>8 DEF Serves
<1> QED BY <1>7, <1>10, <1>11 DEF Keeps, Shuts

\* handle_call(unmount): do_unload(), then the process stops.
LEMMA HandleUnmountKeeps ==
  ASSUME WireInv, HandleUnmount PROVE WireInv'
<1>1. PICK S : S = fib OBVIOUS
<1>2. PICK U : U = do_unload(S) OBVIOUS
<1>3. FiberGood(S) BY <1>1 DEF WireInv
<1>4. Keeps(S, U) /\ FiberGood(U) BY <1>2, <1>3, UnloadIsGood DEF Keeps
<1>5. PICK a : a = {c \in Callers : \E i \in DOMAIN mail :
                      mail[i].m \in {"hook_call", "hook_result"} /\ mail[i].r = c}
  OBVIOUS
<1>6. PICK w : w = IF U.waiters = "waiting" \/ \E i \in DOMAIN mail : mail[i].m = "status"
                   THEN "told" ELSE U.waiters
  OBVIOUS
<1>7. w \in {"none", "waiting", "told"} BY <1>4, <1>6 DEF FiberGood, FiberSet
<1>8. PICK T : T = [U EXCEPT !.status = "disposed", !.phase = "ready", !.waiters = w,
                       !.ans = [c \in Callers |-> IF c \in a THEN [t |-> "exit"] ELSE U.ans[c]]]
  OBVIOUS
<1>9. Keeps(U, T) BY <1>4, <1>5, <1>7, <1>8, UnmountIsGood
<1>10. Turns(S, T) BY <1>3, <1>4, <1>9, Through
<1>11. Becomes(T) BY <1>1, <1>2, <1>5, <1>6, <1>8, <1>4 DEF HandleUnmount, Speaks,
       FiberGood, FiberSet
<1>12. fib' = T /\ Becomes(fib') BY <1>11 DEF Becomes
<1>13. Turns(fib, fib') BY <1>1, <1>10, <1>12
<1>14. First("unmount") /\ UNCHANGED <<caller, dep, wleft>> BY DEF HandleUnmount
<1> QED BY <1>12, <1>13, <1>14, QuietTurn

\* handle_frame(): one case per frame of the plugin, none for one of an earlier port.
LEMMA HandleFrameKeeps ==
  ASSUME WireInv, HandleFrame PROVE WireInv'
<1>1. First("frame") /\ UNCHANGED <<dep, wleft>> BY DEF HandleFrame
<1>2. PICK S, fr : S = fib /\ fr = Head(mail) OBVIOUS
<1>3. FiberGood(S) /\ dep \in Int BY <1>2 DEF WireInv, WireTypes
<1>4. mail # <<>> /\ mail' = Tail(mail) /\ fr.m = "frame" BY <1>1, <1>2 DEF First
<1>5. fr \in LetterSet /\ LetterIsGood(fr) BY <1>2, <1>4, Unmailed DEF WireInv
<1>6. Turns(S, S) BY <1>3 DEF Turns, Serves, Moves, Shuts
<1> SUFFICES Turns(fib, fib') /\ Becomes(fib')
             /\ (caller' = caller \/ caller' = [caller EXCEPT ![Worker] = "found"])
  BY <1>1, QuietTurn
<1>7. PICK bad \in Bad :
       IF fr.p # fib.port THEN Becomes(fib) /\ UNCHANGED caller
       ELSE CASE fr.t = "hello" -> Speaks(hello(fib, bad)) /\ UNCHANGED caller
              [] fr.t = "on" -> Becomes([fib EXCEPT !.rows = TRUE]) /\ UNCHANGED caller
              [] fr.t = "off" -> Becomes([fib EXCEPT !.rows = FALSE]) /\ UNCHANGED caller
              [] fr.t = "next" ->
                   /\ Becomes(IF fib.pending[fr.r] # "none" THEN answer(fib, fr.r, [t |-> "next"])
                        ELSE fib)
                   /\ UNCHANGED caller
              [] fr.t = "call" -> Becomes(fib) /\ caller' = [caller EXCEPT ![Worker] = "found"]
              [] fr.t = "rep" -> Becomes(reply_frame(fib, fr)) /\ UNCHANGED caller
  BY <1>2 DEF HandleFrame
<1>8. CASE fr.p # fib.port BY <1>2, <1>6, <1>7, <1>8 DEF Becomes
<1>9. CASE fr.p = fib.port /\ fr.t = "hello"
  <2>0. Speaks(hello(S, bad)) /\ UNCHANGED caller BY <1>2, <1>7, <1>9
  <2>1. fib' = hello(S, bad) /\ Becomes(fib') /\ UNCHANGED caller BY <2>0 DEF Speaks, Becomes
  <2>2. S.port # 0 BY <1>2, <1>4, <1>5, <1>9 DEF LetterIsGood
  <2>3. Turns(S, fib') BY <1>3, <2>1, <2>2, HelloIsGood
  <2> QED BY <1>2, <2>1, <2>3
<1>10. CASE fr.p = fib.port /\ fr.t \in {"on", "off"}
  <2>1. PICK h \in BOOLEAN : Becomes([fib EXCEPT !.rows = h]) /\ UNCHANGED caller BY <1>7, <1>10
  <2>2. PICK T : T = [S EXCEPT !.rows = h] OBVIOUS
  <2>3. Alike(S, T) BY <1>3, <2>2 DEF FiberGood, FiberSet, Alike
  <2>4. fib' = T /\ Becomes(fib') BY <1>2, <2>1, <2>2 DEF Becomes
  <2>5. Turns(S, T) BY <1>3, <2>3, Through
  <2> QED BY <1>2, <2>1, <2>4, <2>5
<1>11. CASE fr.p = fib.port /\ fr.t = "next"
  <2>1. PICK r, a : r = fr.r /\ a = [t |-> "next"] OBVIOUS
  <2>2. r \in Callers BY <1>4, <1>5, <1>11, <2>1 DEF LetterIsGood
  <2>3. a \in AnswerSet /\ a # Nothing /\ a.t # "rep" BY <2>1 DEF AnswerSet, Nothing
  <2>4. Turns(S, answer(S, r, a)) BY <1>3, <2>2, <2>3, AnswerIsGood
  <2>5. (fib' = answer(S, r, a) \/ fib' = S) /\ Becomes(fib') /\ UNCHANGED caller
    BY <1>2, <1>7, <1>11, <2>1 DEF Becomes
  <2> QED BY <1>2, <1>6, <2>4, <2>5
<1>12. CASE fr.p = fib.port /\ fr.t = "call" BY <1>2, <1>6, <1>7, <1>12 DEF Becomes
<1>13. CASE fr.p = fib.port /\ fr.t = "rep"
  <2>1. fr.r \in Req /\ fr.v = fr.r BY <1>4, <1>5, <1>13 DEF LetterIsGood
  <2>2. Turns(S, reply_frame(S, fr)) BY <1>3, <1>5, <2>1, ReplyIsGood
  <2>3. fib' = reply_frame(S, fr) /\ Becomes(fib')
        /\ UNCHANGED caller BY <1>2, <1>7, <1>13 DEF Becomes
  <2> QED BY <1>2, <2>2, <2>3
<1>14. CASE fr.p = fib.port /\ fr.t = "none"
  <2> QED BY <1>4, <1>5, <1>14 DEF LetterIsGood
<1> QED BY <1>5, <1>8, <1>9, <1>10, <1>11, <1>12, <1>13, <1>14 DEF LetterSet, FrameWord

\* Steps that leave the fiber's requests and answers and the plugin alone, but for letters.
LEMMA OthersKeep ==
  ASSUME WireInv, FiberGood(fib)', fib'.pending = fib.pending, fib'.armed = fib.armed,
         fib'.port = fib.port, WireTypes', PlugIsGood', live' \subseteq live,
         \A m, k : InMail(m, k) => InMail(m, k)',
         \A c \in Callers : caller'[c] \in {"sent", "back"} /\ fib'.ans[c] = Nothing =>
            \/ InMail("hook_call", c)' \/ InMail("hook_result", c)'
            \/ caller[c] \in {"sent", "back"} /\ fib.ans[c] = Nothing
  PROVE  WireInv'
<1>1. TimersAreSet' BY DEF WireInv, TimersAreSet
<1>2. WaitersAreKnown' BY DEF WireInv, WaitersAreKnown, Req
<1>3. NoStrayPlugin' /\ 0 \notin live' BY DEF WireInv, NoStrayPlugin
<1> QED BY <1>1, <1>2, <1>3 DEF WireInv

\* The timer of a request fires, and its deadline is in the mailbox (arm).
LEMMA TimerFiresKeeps ==
  ASSUME WireInv, NEW r \in Req, TimerFires(r) PROVE WireInv'
<1>1. /\ fib' = [fib EXCEPT !.armed = fib.armed \ {r}] /\ mail' = Append(mail, Letter("deadline", r))
      /\ UNCHANGED <<live, plug, caller, dep, wleft>>
  BY DEF TimerFires, Mail, WireInv, FiberGood, FiberSet
<1>2. PICK l : l = Letter("deadline", r) OBVIOUS
<1>3. l \in LetterSet /\ LetterIsGood(l) /\ l.m = "deadline" /\ l.r = r
  BY <1>2 DEF Letter, LetterSet, LetterIsGood, Word, FrameWord, Ref
<1>4. /\ mail' \in Seq(LetterSet) /\ \A i \in 1 .. Len(mail') : LetterIsGood(mail'[i])
      /\ \A m, k : InMail(m, k) => InMail(m, k)'
      /\ InMail(l.m, l.r)'
  BY <1>1, <1>2, <1>3, Mailed DEF WireInv
<1>5. /\ FiberGood(fib)' /\ fib'.pending = fib.pending /\ fib'.armed = fib.armed \ {r}
      /\ fib'.ans = fib.ans /\ fib'.port = fib.port
  BY <1>1 DEF WireInv, FiberGood, FiberSet
<1>6. WireTypes' BY <1>1, <1>4 DEF WireInv, WireTypes
<1>7. TimersAreSet' BY <1>3, <1>4, <1>5 DEF WireInv, TimersAreSet
<1>8. WaitersAreKnown' BY <1>1, <1>4, <1>5 DEF WireInv, WaitersAreKnown
<1>9. PlugIsGood' /\ NoStrayPlugin'
      /\ 0 \notin live' BY <1>1, <1>5 DEF WireInv, PlugIsGood, NoStrayPlugin
<1> QED BY <1>5, <1>6, <1>7, <1>8, <1>9 DEF WireInv

\* The letters that the steps of tenon.erl and of the plugin put in the mailbox are good.
LEMMA Letters ==
  ASSUME NEW m \in Word
  PROVE  /\ m \notin {"hook_call", "hook_result", "deadline", "frame"} =>
              Plain(m) \in LetterSet /\ LetterIsGood(Plain(m))
         /\ \A c \in Callers : m \in {"hook_call", "hook_result"} =>
              /\ Letter(m, c) \in LetterSet /\ LetterIsGood(Letter(m, c))
              /\ Letter(m, c).m = m /\ Letter(m, c).r = c
         /\ \A p \in Nat, t \in FrameWord, r \in Ref, ok \in BOOLEAN :
              p # 0 /\ t # "none" /\ (t = "rep" => r \in Req) /\ (t = "next" => r \in Callers) =>
                From(p, t, r, ok, r) \in LetterSet /\ LetterIsGood(From(p, t, r, ok, r))
<1>1. m \notin {"hook_call", "hook_result", "deadline", "frame"} => Plain(m) \in LetterSet
      /\ LetterIsGood(Plain(m))
  BY DEF Plain, Letter, LetterSet, LetterIsGood, Ref, FrameWord
<1>2. \A c \in Callers : m \in {"hook_call", "hook_result"} =>
         /\ Letter(m, c) \in LetterSet /\ LetterIsGood(Letter(m, c))
         /\ Letter(m, c).m = m /\ Letter(m, c).r = c
  BY DEF Letter, LetterSet, LetterIsGood, Ref, Req, FrameWord
<1>3. "frame" \in Word BY DEF Word
<1>4. \A p \in Nat, t \in FrameWord, r \in Ref, ok \in BOOLEAN :
         p # 0 /\ t # "none" /\ (t = "rep" => r \in Req) /\ (t = "next" => r \in Callers) =>
              From(p, t, r, ok, r) \in LetterSet /\ LetterIsGood(From(p, t, r, ok, r))
  BY <1>3 DEF From, LetterSet, LetterIsGood
<1> QED BY <1>1, <1>2, <1>4

\* The answer of one caller changes and nothing else (wire_waterfall).
LEMMA AnsweredIsGood ==
  ASSUME NEW S, FiberGood(S), NEW c \in Callers, NEW a \in AnswerSet, a.t # "rep",
         NEW T, T = [S EXCEPT !.ans[c] = a]
  PROVE  /\ FiberGood(T) /\ T.pending = S.pending /\ T.armed = S.armed /\ T.port = S.port
         /\ T.ans = [S.ans EXCEPT ![c] = a]
<1>1. S \in FiberSet /\ S.ans \in [Callers -> AnswerSet] BY DEF FiberGood, FiberSet
<1>2. /\ T \in FiberSet /\ T.port = S.port /\ T.spawned = S.spawned /\ T.out = S.out
      /\ T.pending = S.pending /\ T.armed = S.armed /\ T.ans = [S.ans EXCEPT ![c] = a]
  BY <1>1 DEF FiberSet
<1>3. FiberGood(T) BY <1>1, <1>2 DEF FiberGood
<1> QED BY <1>2, <1>3

CallerWord == {"idle", "found", "sent", "chain", "back", "done"}

\* wire_waterfall(): a caller that sends is in the mailbox.
LEMMA CallerKeeps ==
  ASSUME WireInv, NEW c \in Callers, CallerStep(c) PROVE WireInv'
<1>0. UNCHANGED <<live, plug, dep, wleft>>
  BY DEF CallerStep, CallerSends, CallerGoesOn, ChainReturns, ChainRaises, CallerReturns
<1>1. PICK S, e, z : S = fib /\ e = [t |-> "exit"] /\ z = Nothing OBVIOUS
<1>2. e \in AnswerSet /\ e.t # "rep" /\ e # Nothing /\ z \in AnswerSet /\ z.t # "rep"
  BY <1>1 DEF AnswerSet, Nothing
<1>3. FiberGood(S) /\ FiberGood(fib) BY <1>1 DEF WireInv
<1>4. caller \in [Callers -> CallerWord]
      /\ mail \in Seq(LetterSet) BY DEF WireInv, WireTypes, CallerWord
<1>5. PlugIsGood' BY <1>0 DEF WireInv, PlugIsGood
<1>6. PICK x \in CallerWord : caller' = [caller EXCEPT ![c] = x]
                              /\ (x \in {"sent", "back"} <=> caller'[c] \in {"sent", "back"})
  BY <1>4 DEF CallerStep, CallerSends, CallerGoesOn, ChainReturns, ChainRaises, CallerReturns,
  CallerWord
<1>7. caller' \in [Callers -> CallerWord]
      /\ \A d \in Callers : d # c => caller'[d] = caller[d] BY <1>4, <1>6
<1>8. PICK T : T = fib' OBVIOUS
<1>9. \/ T = S \/ T = [S EXCEPT !.ans[c] = e]
      \/ (T = [S EXCEPT !.ans[c] = z] /\ x \notin {"sent", "back"})
  BY <1>1, <1>4, <1>6, <1>8 DEF CallerStep, CallerSends, CallerGoesOn, ChainReturns, ChainRaises,
  CallerReturns
<1>10. /\ FiberGood(T) /\ T.pending = S.pending /\ T.armed = S.armed /\ T.port = S.port
       /\ (T.ans = S.ans \/ T.ans = [S.ans EXCEPT ![c] = e] \/ (T.ans = [S.ans EXCEPT ![c] = z]
              /\ x \notin {"sent", "back"}))
  BY <1>2, <1>3, <1>9, AnsweredIsGood
<1>11. S.ans \in [Callers -> AnswerSet] BY <1>3 DEF FiberGood, FiberSet
<1>12. FiberGood(fib)' BY <1>8, <1>10 DEF FiberGood, FiberSet
<1>13. PICK l : /\ l \in LetterSet /\ LetterIsGood(l) /\ (mail' = mail \/ mail' = Append(mail, l))
                /\ x \in {"sent", "back"} => l.m \in {"hook_call", "hook_result"} /\ l.r = c
                   /\ mail' = Append(mail, l)
  <2>1. "hook_call" \in Word /\ "hook_result" \in Word /\ "worker_reply" \in Word BY DEF Word
  <2>2. CASE mail' = Append(mail, Letter("hook_call", c)) BY <2>1, <2>2, Letters
  <2>3. CASE mail' = Append(mail, Letter("hook_result", c)) BY <2>1, <2>3, Letters
  <2>4. CASE mail' \in {mail, Append(mail, Plain("worker_reply"))} /\ x \notin {"sent", "back"}
    BY <2>1, <2>4, Letters
  <2> QED BY <1>4, <1>6, <2>2, <2>3, <2>4
        DEF CallerStep, CallerSends, CallerGoesOn, ChainReturns, ChainRaises, CallerReturns, Mail
<1>14. /\ mail' \in Seq(LetterSet) /\ \A i \in 1 .. Len(mail') : LetterIsGood(mail'[i])
       /\ \A m, k : InMail(m, k) => InMail(m, k)'
       /\ x \in {"sent", "back"} => InMail(l.m, l.r)'
  <2>1. CASE mail' = mail BY <2>1, <1>13 DEF WireInv, WireTypes, InMail
  <2>2. CASE mail' = Append(mail, l) BY <2>2, <1>13, Mailed DEF WireInv
  <2> QED BY <1>13, <2>1, <2>2
<1>15. WireTypes' BY <1>0, <1>7, <1>14 DEF WireInv, WireTypes, CallerWord
<1>16. \A d \in Callers : caller'[d] \in {"sent", "back"} /\ fib'.ans[d] = Nothing =>
            \/ InMail("hook_call", d)' \/ InMail("hook_result", d)'
            \/ caller[d] \in {"sent", "back"} /\ fib.ans[d] = Nothing
  <2> SUFFICES ASSUME NEW d \in Callers, caller'[d] \in {"sent", "back"}, T.ans[d] = Nothing
               PROVE  \/ InMail("hook_call", d)' \/ InMail("hook_result", d)'
                      \/ caller[d] \in {"sent", "back"} /\ S.ans[d] = Nothing
    BY <1>1, <1>8
  <2>1. CASE d = c BY <2>1, <1>6, <1>13, <1>14
  <2>2. CASE d # c BY <2>2, <1>7, <1>10, <1>11
  <2> QED BY <2>1, <2>2
<1>17. fib'.pending = fib.pending /\ fib'.armed = fib.armed /\ fib'.port = fib.port
       /\ live' \subseteq live
  BY <1>0, <1>1, <1>8, <1>10
<1> QED BY <1>5, <1>12, <1>14, <1>15, <1>16, <1>17, OthersKeep

\* A step of the plugin that sends one frame, or none, and leaves the fiber's state alone.
LEMMA PluginTells ==
  ASSUME WireInv, UNCHANGED <<caller, dep>>, wleft' \in [WireBound -> Nat], live' \subseteq live,
         FiberGood(fib)', fib'.pending = fib.pending, fib'.armed = fib.armed,
         fib'.port = fib.port, fib'.ans = fib.ans, PlugIsGood',
         NEW l \in LetterSet, LetterIsGood(l), mail' = mail \/ mail' = Append(mail, l)
  PROVE  WireInv'
<1>1. /\ mail' \in Seq(LetterSet) /\ \A i \in 1 .. Len(mail') : LetterIsGood(mail'[i])
      /\ \A m, k : InMail(m, k) => InMail(m, k)'
  <2>1. CASE mail' = mail BY <2>1 DEF WireInv, WireTypes, InMail
  <2>2. CASE mail' = Append(mail, l) BY <2>2, Mailed DEF WireInv
  <2> QED BY <2>1, <2>2
<1>2. WireTypes' BY <1>1 DEF WireInv, WireTypes
<1> QED BY <1>1, <1>2, OthersKeep

\* A bound that is used goes down by one.
LEMMA UsesIsGood ==
  ASSUME WireInv, NEW k, k \in WireBound, Uses(k) PROVE wleft' \in [WireBound -> Nat]
<1>1. wleft \in [WireBound -> Nat] BY DEF WireInv, WireTypes
<1>2. wleft[k] \in Nat /\ wleft[k] > 0 /\ wleft' = [wleft EXCEPT ![k] = wleft[k] - 1] BY <1>1 DEF Uses
<1>3. wleft[k] - 1 \in Nat BY <1>2
<1> QED BY <1>1, <1>2, <1>3

\* A step that leaves the fiber alone.
LEMMA StillGood ==
  ASSUME WireInv, UNCHANGED fib
  PROVE  /\ FiberGood(fib)' /\ fib'.pending = fib.pending /\ fib'.armed = fib.armed
         /\ fib'.port = fib.port /\ fib'.ans = fib.ans
BY DEF WireInv, FiberGood

\* A frame of the plugin behind the port is a letter.
LEMMA PortLetters ==
  ASSUME WireInv, Up, NEW t \in FrameWord, t # "none", NEW r \in Ref, NEW ok \in BOOLEAN,
         t = "rep" => r \in Req, t = "next" => r \in Callers
  PROVE  From(fib.port, t, r, ok, r) \in LetterSet /\ LetterIsGood(From(fib.port, t, r, ok, r))
<1>1. PICK p : p = fib.port OBVIOUS
<1>2. p \in Nat /\ p # 0 BY <1>1 DEF Up, WireInv, FiberGood, FiberSet
<1>3. "frame" \in Word BY DEF Word
<1> QED BY <1>1, <1>2, <1>3, Letters

\* The innermost handler of the plugin has its own, and so have the others (dispatch).
LEMMA StackTop ==
  ASSUME PlugIsGood, plug.stack # <<>>
  PROVE  /\ Len(plug.stack) \in Nat /\ Len(plug.stack) >= 1 /\ Top \in HandlerSet /\ Top.got = Top.r
         /\ Pop \in Seq(HandlerSet) /\ \A i \in 1 .. Len(Pop) : Pop[i].got = Pop[i].r
<1>1. PICK s, n : s = plug.stack /\ n = Len(s) OBVIOUS
<1>2. s \in Seq(HandlerSet) /\ s # <<>> BY <1>1 DEF PlugIsGood
<1>3. n \in Nat /\ n # 0 BY <1>1, <1>2, EmptySeq, LenProperties
<1>4. \A i \in 1 .. n : s[i] \in HandlerSet /\ s[i].got = s[i].r
  BY <1>1, <1>2, ElementOfSeq DEF PlugIsGood
<1>5. PICK p : p = SubSeq(s, 1, n - 1) OBVIOUS
<1>6. p = [i \in 1 .. (n - 1) |-> s[i]] BY <1>2, <1>3, <1>5
<1>7. \A i \in 1 .. (n - 1) : i \in 1 .. n BY <1>3
<1>8. p \in [1 .. (n - 1) -> HandlerSet] BY <1>4, <1>6, <1>7
<1>9. n - 1 \in Nat BY <1>3
<1>10. p \in Seq(HandlerSet) /\ Len(p) = n - 1 BY <1>8, <1>9
<1>11. n \in 1 .. n BY <1>3
<1> QED BY <1>1, <1>3, <1>4, <1>5, <1>6, <1>7, <1>10, <1>11 DEF Top, Pop

\* A plugin whose stack or replies change to good ones is good.
LEMMA PlugBecomes ==
  ASSUME PlugIsGood, NEW s \in Seq(HandlerSet), \A i \in 1 .. Len(s) : s[i].got = s[i].r,
         NEW q, \A k \in DOMAIN q : q[k] = k[2], NEW h \in BOOLEAN, NEW o \in BOOLEAN,
         plug' = [hello |-> h, hooks |-> o, stack |-> s, replies |-> q]
  PROVE  PlugIsGood'
BY DEF PlugIsGood

\* A function on the first numbers is a sequence.
LEMMA SeqOfFunction ==
  ASSUME NEW A, NEW k \in Nat, NEW f \in [1 .. k -> A]
  PROVE  f \in Seq(A) /\ Len(f) = k
OBVIOUS

\* The last handler of the stack changes and keeps what is its own.
LEMMA TopBecomes ==
  ASSUME PlugIsGood, plug.stack # <<>>, NEW x \in HandlerSet, x.got = x.r,
         NEW s, s = [plug.stack EXCEPT ![Len(plug.stack)] = x]
  PROVE  s \in Seq(HandlerSet) /\ \A i \in 1 .. Len(s) : s[i].got = s[i].r
<1>1. PICK q, n : q = plug.stack /\ n = Len(q) OBVIOUS
<1>2. q \in Seq(HandlerSet) /\ n \in Nat /\ n >= 1 BY <1>1, StackTop DEF PlugIsGood
<1>3. n \in 1 .. n BY <1>2
<1>4. q \in [1 .. n -> HandlerSet] BY <1>1, <1>2, LenProperties
<1>5. s = [q EXCEPT ![n] = x] BY <1>1
<1>6. s \in [1 .. n -> HandlerSet]
      /\ \A i \in 1 .. n : s[i] = IF i = n THEN x ELSE q[i] BY <1>3, <1>4, <1>5
<1>61. s \in [1 .. n -> HandlerSet] BY <1>6
<1>7. s \in Seq(HandlerSet) /\ Len(s) = n BY <1>2, <1>61, SeqOfFunction
<1>8. \A i \in 1 .. n : q[i].got = q[i].r BY <1>1 DEF PlugIsGood
<1> QED BY <1>6, <1>7, <1>8

\* A handler is pushed.
LEMMA HandlerPushed ==
  ASSUME PlugIsGood, NEW r \in Callers \cup {"load"}, NEW s, s = Append(plug.stack, Handler(r))
  PROVE  s \in Seq(HandlerSet) /\ \A i \in 1 .. Len(s) : s[i].got = s[i].r
<1>1. PICK q, x : q = plug.stack /\ x = Handler(r) OBVIOUS
<1>2. x \in HandlerSet /\ x.got = x.r BY <1>1 DEF Handler, HandlerSet, Ref, Req
<1>3. q \in Seq(HandlerSet) BY <1>1 DEF PlugIsGood
<1>4. /\ s \in Seq(HandlerSet) /\ Len(s) = Len(q) + 1 /\ s[Len(q) + 1] = x /\ Len(q) \in Nat
      /\ \A i \in 1 .. Len(q) : s[i] = q[i]
  BY <1>1, <1>2, <1>3, AppendProperties, LenProperties
<1>5. \A i \in 1 .. Len(s) : i \in 1 .. Len(q) \/ i = Len(q) + 1 BY <1>4
<1>6. \A i \in 1 .. Len(q) : q[i].got = q[i].r BY <1>1 DEF PlugIsGood
<1> QED BY <1>2, <1>4, <1>5, <1>6

\* The plugin starts and says hello (run).
LEMMA HelloKeeps ==
  ASSUME WireInv, Hello PROVE WireInv'
<1>1. PICK t, r, ok : t = "hello" /\ r = "none" /\ ok = TRUE OBVIOUS
<1>2. PICK l : l = From(fib.port, t, r, ok, r) OBVIOUS
<1>3. l \in LetterSet /\ LetterIsGood(l) BY <1>1, <1>2, PortLetters DEF Hello, FrameWord, Ref
<1>4. mail' = Append(mail, l) BY <1>1, <1>2 DEF Hello, Tells, Sends, Mail
<1>5. PlugIsGood /\ plug' = [plug EXCEPT !.hello = TRUE] BY DEF Hello, WireInv
<1>6. PlugIsGood' BY <1>5 DEF PlugIsGood
<1>7. UNCHANGED <<fib, live, caller, dep, wleft>> BY DEF Hello
<1>8. wleft' \in [WireBound -> Nat] BY <1>7 DEF WireInv, WireTypes
<1> QED BY <1>3, <1>4, <1>6, <1>7, <1>8, StillGood, PluginTells

\* guard(): the innermost handler answers its own request.
LEMMA AnswerKeeps ==
  ASSUME WireInv, Answer PROVE WireInv'
<1>0. PlugIsGood /\ plug.stack # <<>> /\ Up BY DEF WireInv, Answer, Running
<1>1. Top \in HandlerSet /\ Top.got = Top.r BY <1>0, StackTop
<1>2. PICK t, r : t = "rep" /\ r = Top.r OBVIOUS
<1>3. PICK ok \in BOOLEAN : mail' = Append(mail, From(fib.port, t, r, ok, r))
  BY <1>1, <1>2 DEF Answer, Sends, Mail
<1>4. r \in Req /\ r \in Ref BY <1>1, <1>2 DEF HandlerSet, Req, Ref
<1>5. PICK l : l = From(fib.port, t, r, ok, r) OBVIOUS
<1>6. l \in LetterSet /\ LetterIsGood(l) BY <1>0, <1>2, <1>4, <1>5, PortLetters DEF FrameWord
<1>7. PICK s : s = Pop OBVIOUS
<1>8. s \in Seq(HandlerSet) /\ \A i \in 1 .. Len(s) : s[i].got = s[i].r BY <1>0, <1>7, StackTop
<1>9. plug' = [hello |-> plug.hello, hooks |-> plug.hooks, stack |-> s, replies |-> plug.replies]
  BY <1>0, <1>7 DEF Answer, PlugIsGood
<1>10. PlugIsGood' BY <1>0, <1>8, <1>9 DEF PlugIsGood
<1>11. UNCHANGED <<fib, live, caller, dep, wleft>> BY DEF Answer
<1>12. wleft' \in [WireBound -> Nat] BY <1>11 DEF WireInv, WireTypes
<1> QED BY <1>3, <1>5, <1>6, <1>10, <1>11, <1>12, StillGood, PluginTells

\* Next::call(): the handler waits for the rest of its own chain.
LEMMA NextCallKeeps ==
  ASSUME WireInv, NextCall PROVE WireInv'
<1>0. PlugIsGood /\ plug.stack # <<>> /\ Up BY DEF WireInv, NextCall, Running
<1>1. Top \in HandlerSet /\ Top.got = Top.r /\ Top.r # "load" BY <1>0, StackTop DEF NextCall
<1>2. PICK t, r, ok : t = "next" /\ r = Top.r /\ ok = TRUE OBVIOUS
<1>3. PICK l : l = From(fib.port, t, r, ok, r) OBVIOUS
<1>4. mail' = Append(mail, l) BY <1>2, <1>3 DEF NextCall, Sends, Mail
<1>5. r \in Callers /\ r \in Ref BY <1>1, <1>2 DEF HandlerSet, Req, Ref
<1>6. l \in LetterSet /\ LetterIsGood(l) BY <1>0, <1>2, <1>3, <1>5, PortLetters DEF FrameWord
<1>7. PICK x : x = [Top EXCEPT !.waits = "result", !.nexts = TRUE] OBVIOUS
<1>8. x \in HandlerSet /\ x.got = x.r BY <1>1, <1>7 DEF HandlerSet
<1>9. PICK s : s = [plug.stack EXCEPT ![Len(plug.stack)] = x] OBVIOUS
<1>10. s \in Seq(HandlerSet) /\ \A i \in 1 .. Len(s) : s[i].got = s[i].r BY <1>0, <1>8, <1>9,
       TopBecomes
<1>11. plug' = [hello |-> plug.hello, hooks |-> plug.hooks, stack |-> s, replies |-> plug.replies]
  BY <1>0, <1>7, <1>9 DEF NextCall, PlugIsGood, Top
<1>12. PlugIsGood' BY <1>0, <1>10, <1>11 DEF PlugIsGood
<1>13. UNCHANGED <<fib, live, caller, dep, wleft>> BY DEF NextCall
<1>14. wleft' \in [WireBound -> Nat] BY <1>13 DEF WireInv, WireTypes
<1> QED BY <1>4, <1>6, <1>12, <1>13, <1>14, StillGood, PluginTells

\* Next::waterfall(): the handler waits for a call of its own.
LEMMA CallOutKeeps ==
  ASSUME WireInv, CallOut PROVE WireInv'
<1>0. PlugIsGood /\ plug.stack # <<>> /\ Up BY DEF WireInv, CallOut, Running
<1>1. Top \in HandlerSet /\ Top.got = Top.r BY <1>0, StackTop
<1>2. PICK t, r, ok : t = "call" /\ r = "none" /\ ok = TRUE OBVIOUS
<1>3. PICK l : l = From(fib.port, t, r, ok, r) OBVIOUS
<1>4. mail' = Append(mail, l) BY <1>2, <1>3 DEF CallOut, Tells, Sends, Mail
<1>6. l \in LetterSet /\ LetterIsGood(l) BY <1>0, <1>2, <1>3, PortLetters DEF FrameWord, Ref
<1>7. PICK x : x = [Top EXCEPT !.waits = "rep"] OBVIOUS
<1>8. x \in HandlerSet /\ x.got = x.r BY <1>1, <1>7 DEF HandlerSet
<1>9. PICK s : s = [plug.stack EXCEPT ![Len(plug.stack)] = x] OBVIOUS
<1>10. s \in Seq(HandlerSet) /\ \A i \in 1 .. Len(s) : s[i].got = s[i].r BY <1>0, <1>8, <1>9,
       TopBecomes
<1>11. plug' = [hello |-> plug.hello, hooks |-> plug.hooks, stack |-> s, replies |-> plug.replies]
  BY <1>0, <1>7, <1>9 DEF CallOut, Waits, PlugIsGood, Top
<1>12. PlugIsGood' BY <1>0, <1>10, <1>11 DEF PlugIsGood
<1>13. UNCHANGED <<fib, live, caller, dep>> BY DEF CallOut
<1>14. wleft' \in [WireBound -> Nat] BY UsesIsGood DEF CallOut, WireBound
<1> QED BY <1>4, <1>6, <1>12, <1>13, <1>14, StillGood, PluginTells

\* off(): the plugin forgets the hook and tells the kernel.
LEMMA OffKeeps ==
  ASSUME WireInv, Off PROVE WireInv'
<1>0. PlugIsGood /\ Up BY DEF WireInv, Off, Running
<1>2. PICK t, r, ok : t = "off" /\ r = "none" /\ ok = TRUE OBVIOUS
<1>3. PICK l : l = From(fib.port, t, r, ok, r) OBVIOUS
<1>4. mail' = Append(mail, l) BY <1>2, <1>3 DEF Off, Tells, Sends, Mail
<1>6. l \in LetterSet /\ LetterIsGood(l) BY <1>0, <1>2, <1>3, PortLetters DEF FrameWord, Ref
<1>11. plug' = [plug EXCEPT !.hooks = FALSE] BY DEF Off
<1>12. PlugIsGood' BY <1>0, <1>11 DEF PlugIsGood
<1>13. UNCHANGED <<fib, live, caller, dep>> BY DEF Off
<1>14. wleft' \in [WireBound -> Nat] BY UsesIsGood DEF Off, WireBound
<1> QED BY <1>4, <1>6, <1>12, <1>13, <1>14, StillGood, PluginTells

\* There is a good letter.
LEMMA AnyLetter == \E l \in LetterSet : LetterIsGood(l)
<1>1. "refresh" \in Word BY DEF Word
<1> QED BY <1>1, Letters

\* settle(): the handler gets the reply of its own slot.
LEMMA SettleKeeps ==
  ASSUME WireInv, Settle PROVE WireInv'
<1>0. PlugIsGood /\ plug.stack # <<>> /\ settles(Top) BY DEF WireInv, Settle
<1>1. Top \in HandlerSet /\ Top.got = Top.r BY <1>0, StackTop
<1>2. PICK k : k = Slot(Top) OBVIOUS
<1>3. k \in DOMAIN plug.replies /\ plug.replies[k] = k[2] BY <1>0, <1>2 DEF settles, PlugIsGood
<1>4. Top.waits = "result" => plug.replies[k] = Top.r BY <1>2, <1>3 DEF Slot
<1>7. PICK x : x = [Top EXCEPT !.waits = "no", !.got = IF Top.waits = "result" THEN plug.replies[k]
                 ELSE Top.got]
  OBVIOUS
<1>8. x \in HandlerSet /\ x.got = x.r BY <1>1, <1>4, <1>7 DEF HandlerSet
<1>9. PICK s : s = [plug.stack EXCEPT ![Len(plug.stack)] = x] OBVIOUS
<1>10. s \in Seq(HandlerSet) /\ \A i \in 1 .. Len(s) : s[i].got = s[i].r BY <1>0, <1>8, <1>9,
       TopBecomes
<1>11. PICK q : q = Without(plug.replies, k) OBVIOUS
<1>12. \A j \in DOMAIN q : q[j] = j[2] BY <1>0, <1>11 DEF Without, Restrict, PlugIsGood
<1>121. PICK p : p = [plug EXCEPT !.replies = q] OBVIOUS
<1>122. p = [hello |-> plug.hello, hooks |-> plug.hooks, stack |-> plug.stack, replies |-> q]
  BY <1>0, <1>121 DEF PlugIsGood
<1>124. plug' = [p EXCEPT !.stack = s] BY <1>1, <1>2, <1>7, <1>9, <1>11, <1>121, <1>122 DEF Settle
<1>13. plug' = [hello |-> plug.hello, hooks |-> plug.hooks, stack |-> s, replies |-> q]
  BY <1>122, <1>124
<1>14. PlugIsGood' BY <1>0, <1>10, <1>12, <1>13 DEF PlugIsGood
<1>15. UNCHANGED <<fib, mail, live, caller, dep, wleft>> BY DEF Settle
<1>16. wleft' \in [WireBound -> Nat] BY <1>15 DEF WireInv, WireTypes
<1> QED BY <1>14, <1>15, <1>16, AnyLetter, StillGood, PluginTells

\* The plugin's process ends by itself; its port says so.
LEMMA DiesKeeps ==
  ASSUME WireInv, Dies PROVE WireInv'
<1>1. PICK l : l = [Plain("exit") EXCEPT !.p = fib.port] OBVIOUS
<1>2. fib.port \in Nat BY DEF WireInv, FiberGood, FiberSet
<1>3. l \in LetterSet /\ LetterIsGood(l)
  BY <1>1, <1>2 DEF Plain, Letter, LetterSet, LetterIsGood, Word, FrameWord, Ref
<1>4. mail' = Append(mail, l) /\ live' \subseteq live /\ UNCHANGED <<fib, caller, dep>>
  BY <1>1 DEF Dies, Mail
<1>5. PlugIsGood /\ plug' = [plug EXCEPT !.stack = <<>>] BY DEF Dies, WireInv
<1>6. << >> \in Seq(HandlerSet) /\ Len(<< >>) = 0 BY EmptySeq
<1>7. PlugIsGood' BY <1>5, <1>6 DEF PlugIsGood
<1>8. wleft' \in [WireBound -> Nat] BY UsesIsGood DEF Dies, WireBound
<1> QED BY <1>3, <1>4, <1>7, <1>8, StillGood, PluginTells

\* dispatch(): a load or a hook is pushed, a result or a reply is put in its slot.
LEMMA DispatchKeeps ==
  ASSUME WireInv, Dispatch PROVE WireInv'
<1>0. PlugIsGood /\ FiberGood(fib) /\ Up /\ fib.out # <<>> BY DEF WireInv, Dispatch
<1>1. PICK o, fr, z : o = fib.out /\ fr = Head(fib.out) /\ z = Tail(fib.out) OBVIOUS
<1>2. o \in Seq(OutSet) /\ o # <<>> /\ fib \in FiberSet BY <1>0, <1>1 DEF FiberGood, FiberSet
<1>3. Len(o) \in Nat /\ Len(o) # 0 BY <1>2, EmptySeq, LenProperties
<1>4. /\ z \in Seq(OutSet) /\ Len(z) = Len(o) - 1 /\ fr = o[1] /\ fr \in OutSet
      /\ \A i \in 1 .. Len(z) : z[i] = o[i + 1]
  BY <1>1, <1>2, <1>3, HeadTailProperties
<1>5. \A i \in 1 .. Len(o) : FrameIsOwn(o[i]) BY <1>0, <1>1 DEF FiberGood
<1>6. FrameIsOwn(fr) BY <1>3, <1>4, <1>5
<1>7. \A i \in 1 .. Len(z) : FrameIsOwn(z[i])
  <2>1. \A i \in 1 .. Len(z) : i + 1 \in 1 .. Len(o) BY <1>3, <1>4
  <2> QED BY <2>1, <1>4, <1>5
<1>8. fib' = [fib EXCEPT !.out = z] BY <1>1, <1>2 DEF Dispatch, FiberSet
<1>9. /\ fib' \in FiberSet /\ fib'.out = z /\ fib'.pending = fib.pending /\ fib'.armed = fib.armed
      /\ fib'.port = fib.port /\ fib'.ans = fib.ans /\ fib'.spawned = fib.spawned
  BY <1>2, <1>4, <1>8 DEF FiberSet
<1>10. FiberGood(fib)' BY <1>0, <1>7, <1>9 DEF FiberGood
<1>11. UNCHANGED <<live, caller, dep, wleft>> BY DEF Dispatch
<1>12. wleft' \in [WireBound -> Nat] BY <1>11 DEF WireInv, WireTypes
<1>13. PlugIsGood'
  <2>1. PICK r : r = fr.r OBVIOUS
  <2>2. CASE fr.t = "load" \/ Hooked(fr)
    <3>1. r \in Callers \cup {"load"} BY <1>6, <2>1, <2>2 DEF FrameIsOwn, Hooked
    <3>2. PICK s : s = Append(plug.stack, Handler(r)) OBVIOUS
    <3>3. s \in Seq(HandlerSet) /\ \A i \in 1 .. Len(s) : s[i].got = s[i].r BY <1>0, <3>1, <3>2,
          HandlerPushed
    <3>4. ~Unhooked(fr) BY <2>2 DEF Hooked, Unhooked
    <3>5. plug' = [plug EXCEPT !.stack = s] BY <1>1, <2>1, <2>2, <3>2, <3>4 DEF Dispatch, PlugIsGood
    <3> QED BY <1>0, <3>3, <3>5 DEF PlugIsGood
  <2>3. CASE Unhooked(fr)
    <3>1. fr.t # "load" /\ ~Hooked(fr) BY <2>3 DEF Hooked, Unhooked
    <3>2. plug' = plug BY <1>1, <2>3, <3>1 DEF Dispatch
    <3> QED BY <1>0, <3>2 DEF PlugIsGood
  <2>4. CASE ~(fr.t = "load" \/ Hooked(fr)) /\ ~Unhooked(fr)
    <3>1. PICK k : k = <<fr.t, fr.r>> OBVIOUS
    <3>2. PICK q : q = Put(plug.replies, k, fr.v) OBVIOUS
    <3>3. fr.v = k[2] BY <1>6, <3>1 DEF FrameIsOwn
    <3>4. \A j \in DOMAIN q : q[j] = j[2] BY <1>0, <3>2, <3>3 DEF Put, PlugIsGood
    <3>5. plug' = [plug EXCEPT !.replies = q] BY <1>0, <1>1, <2>4, <3>1, <3>2 DEF Dispatch, PlugIsGood
    <3> QED BY <1>0, <3>4, <3>5 DEF PlugIsGood
  <2> QED BY <2>2, <2>3, <2>4
<1>14. PICK l : l \in LetterSet /\ LetterIsGood(l) /\ (mail' = mail \/ mail' = Append(mail, l))
  <2>1. CASE fr.t = "load"
    <3>1. PICK t, r, ok : t = "on" /\ r = "none" /\ ok = TRUE OBVIOUS
    <3>2. PICK l : l = From(fib.port, t, r, ok, r) OBVIOUS
    <3>3. l \in LetterSet /\ LetterIsGood(l) BY <1>0, <3>1, <3>2, PortLetters DEF FrameWord, Ref
    <3>4. ~Unhooked(fr) BY <2>1 DEF Unhooked
    <3>5. mail' = Append(mail, l) BY <1>1, <2>1, <3>1, <3>2, <3>4 DEF Dispatch, Tells, Sends, Mail
    <3> QED BY <3>3, <3>5
  <2>2. CASE Unhooked(fr)
    <3>1. PICK t, r, ok : t = "rep" /\ r = fr.r /\ ok = FALSE OBVIOUS
    <3>2. PICK l : l = From(fib.port, t, r, ok, r) OBVIOUS
    <3>3. r \in Req /\ r \in Ref BY <1>4, <3>1 DEF OutSet, Ref
    <3>4. l \in LetterSet /\ LetterIsGood(l) BY <1>0, <3>1, <3>2, <3>3, PortLetters DEF FrameWord
    <3>5. fr.t # "load" BY <2>2 DEF Unhooked
    <3>6. mail' = Append(mail, l) BY <1>1, <2>2, <3>1, <3>2, <3>5 DEF Dispatch, Sends, Mail
    <3> QED BY <3>4, <3>6
  <2>3. CASE fr.t # "load" /\ ~Unhooked(fr)
    <3>1. mail' = mail BY <1>1, <2>3 DEF Dispatch
    <3> QED BY <3>1, AnyLetter
  <2> QED BY <2>1, <2>2, <2>3
<1> QED BY <1>9, <1>10, <1>11, <1>12, <1>13, <1>14, PluginTells

\* A caller looks up the hooks of an event (wire_waterfall).
LEMMA FindsKeeps ==
  ASSUME WireInv, NEW c \in WireCaller, CallerFinds(c) PROVE WireInv'
<1>1. c \in Callers /\ caller' = [caller EXCEPT ![c] = "found"]
      /\ UNCHANGED <<fib, mail, live, plug, dep>>
  BY DEF CallerFinds, Callers
<1>2. wleft' \in [WireBound -> Nat] BY UsesIsGood DEF CallerFinds, WireBound
<1>3. WireTypes' BY <1>1, <1>2 DEF WireInv, WireTypes
<1>4. PlugIsGood' BY <1>1 DEF WireInv, PlugIsGood
<1>5. \A m, k : InMail(m, k) => InMail(m, k)' BY <1>1 DEF InMail
<1>6. \A d \in Callers : caller'[d] \in {"sent", "back"} => caller[d] \in {"sent", "back"}
  BY <1>1 DEF WireInv, WireTypes
<1> QED BY <1>1, <1>3, <1>4, <1>5, <1>6, StillGood, OthersKeep

\* The provider of the injected service comes or goes, and the fiber is to refresh.
LEMMA FlipKeeps ==
  ASSUME WireInv, Flip PROVE WireInv'
<1>1. PICK l : l = Plain("refresh") OBVIOUS
<1>2. l \in LetterSet /\ LetterIsGood(l) BY <1>1, Letters DEF Word
<1>3. (mail' = mail \/ mail' = Append(mail, l)) /\ UNCHANGED <<fib, live, plug, caller>>
  BY <1>1 DEF Flip, Mail
<1>4. wleft' \in [WireBound -> Nat] BY UsesIsGood DEF Flip, WireBound
<1>5. wleft.flips \in Nat BY DEF WireInv, WireTypes, WireBound
<1>6. dep' \in Int BY <1>5 DEF Flip
<1>7. /\ mail' \in Seq(LetterSet) /\ \A i \in 1 .. Len(mail') : LetterIsGood(mail'[i])
      /\ \A m, k : InMail(m, k) => InMail(m, k)'
  <2>1. CASE mail' = mail BY <2>1 DEF WireInv, WireTypes, InMail
  <2>2. CASE mail' = Append(mail, l) BY <2>2, <1>2, Mailed DEF WireInv
  <2> QED BY <1>3, <2>1, <2>2
<1>8. WireTypes' BY <1>3, <1>4, <1>6, <1>7 DEF WireInv, WireTypes
<1>9. PlugIsGood' BY <1>3 DEF WireInv, PlugIsGood
<1> QED BY <1>3, <1>7, <1>8, <1>9, StillGood, OthersKeep

\* status(), restart() and unmount() put a letter in the mailbox.
LEMMA AskKeeps ==
  ASSUME WireInv, NEW m \in {"status", "restart", "unmount"}, Ask(m) PROVE WireInv'
<1>1. PICK l : l = Plain(m) OBVIOUS
<1>2. l \in LetterSet /\ LetterIsGood(l) BY <1>1, Letters DEF Word
<1>3. mail' = Append(mail, l) /\ UNCHANGED <<fib, live, plug, caller, dep>> BY <1>1 DEF Ask, Mail
<1>4. wleft' \in [WireBound -> Nat] BY UsesIsGood DEF Ask, WireBound
<1>5. PlugIsGood' BY <1>3 DEF WireInv, PlugIsGood
<1> QED BY <1>2, <1>3, <1>4, <1>5, StillGood, PluginTells

\* The invariant is inductive: no step of the fiber, of a caller or of the plugin breaks it.
LEMMA WireNextKeeps ==
  ASSUME WireInv, [WireNext]_wireVars PROVE WireInv'
<1>1. CASE FiberStep
  BY <1>1, HandleCallKeeps, HandleResultKeeps, HandleStatusKeeps, HandleRefreshKeeps,
  HandleRestartKeeps,
     HandleDeadlineKeeps, HandleExitKeeps, HandleWorkerReplyKeeps, HandleUnmountKeeps,
     HandleFrameKeeps
  DEF FiberStep
<1>2. CASE PluginStep
  BY <1>2, HelloKeeps, DispatchKeeps, AnswerKeeps, NextCallKeeps, CallOutKeeps, OffKeeps,
  SettleKeeps, DiesKeeps
  DEF PluginStep
<1>3. CASE Flip BY <1>3, FlipKeeps
<1>4. CASE \E r \in fib.armed : TimerFires(r)
  BY <1>4, TimerFiresKeeps DEF WireInv, FiberGood, FiberSet
<1>5. CASE \E c \in WireCaller : CallerFinds(c) BY <1>5, FindsKeeps
<1>6. CASE \E c \in Callers : CallerStep(c) BY <1>6, CallerKeeps
<1>7. CASE \E m \in {"status", "restart", "unmount"} : Ask(m) BY <1>7, AskKeeps
<1>8. CASE UNCHANGED wireVars
  BY <1>8 DEF wireVars, WireInv, FiberGood, WireTypes, PlugIsGood, TimersAreSet, WaitersAreKnown,
              NoStrayPlugin, InMail
<1> QED BY <1>1, <1>2, <1>3, <1>4, <1>5, <1>6, <1>7, <1>8 DEF WireNext

\* It holds when the fiber has just opened its first port.
LEMMA WireInitHolds ==
  ASSUME WireInit PROVE WireInv
<1>1. PICK z \in AnswerSet : z = Nothing BY DEF AnswerSet, Nothing
<1>a. PICK bad \in Bad : fib = open_plugin(NewFiber, bad) BY DEF WireInit
<1>b. PICK S : S = NewFiber OBVIOUS
<1>2. S = [status |-> "pending", phase |-> "hello", epoch |-> inactive, port |-> 0,
           spawned |-> 0, pending |-> Unparked, armed |-> {}, rows |-> FALSE,
           waiters |-> "none", out |-> <<>>, ans |-> [c \in Callers |-> Nothing]]
  BY <1>b DEF NewFiber
<1>c. dep \in Int BY DEF WireInit
<1>3. <<>> \in Seq(OutSet) /\ Len(<<>>) = 0 /\ << >> \in Seq(LetterSet)
      /\ << >> \in Seq(HandlerSet) BY EmptySeq
<1>4. Unparked \in [Req -> {"none", "load", "call"}]
      /\ [c \in Callers |-> Nothing] \in [Callers -> AnswerSet]
  BY <1>1 DEF Unparked
<1>5. S \in FiberSet BY <1>2, <1>3, <1>4 DEF FiberSet, inactive
<1>6. FiberGood(S) BY <1>2, <1>3, <1>5 DEF FiberGood, Unparked, Nothing
<1>7. PICK T : T = open_plugin(S, bad) OBVIOUS
<1>d. S.port = 0 BY <1>2
<1>8. Turns(S, T) BY <1>c, <1>d, <1>6, <1>7, OpenIsGood
<1>9. T = fib BY <1>a, <1>b, <1>7
<1>10. FiberGood(fib) BY <1>8, <1>9 DEF Turns
<1>11. \A r \in Req : S.pending[r] = "none" BY <1>2 DEF Unparked
<1>12. TimersAreSet BY <1>8, <1>9, <1>11 DEF Turns, Serves, TimersAreSet
<1>13. /\ mail = <<>> /\ live = {fib.port} \ {0} /\ plug = FreshPlug /\ caller = [c \in Callers |-> "idle"]
       /\ dep = 1 /\ wleft \in WireWorlds
  BY DEF WireInit
<1>14. WaitersAreKnown BY <1>13 DEF WaitersAreKnown
<1>15. WireTypes BY <1>3, <1>13, WireAssumption DEF WireTypes
<1>16. PlugIsGood BY <1>3, <1>13 DEF PlugIsGood, FreshPlug
<1>18. NoStrayPlugin /\ 0 \notin live BY <1>13 DEF NoStrayPlugin
<1> QED BY <1>10, <1>12, <1>14, <1>15, <1>16, <1>18 DEF WireInv

\* It implies what the run checks.
LEMMA WireInvImplies == ASSUME WireInv PROVE WireIsSound
<1>1. AnswersAreOwn BY DEF WireInv, FiberGood, AnswersAreOwn
<1>2. fib.port = 0 => fib.pending = Unparked BY DEF WireInv, FiberGood, FiberSet, Unparked
<1>3. NobodyForgotten
  BY <1>2 DEF WireInv, WaitersAreKnown, TimersAreSet, NobodyForgotten, Req
<1> QED BY <1>1, <1>3 DEF WireIsSound, WireInv

\* However handlers nest, plugins die, deadlines pass and dependencies change, a caller gets the
\* answer of its own chain, is never forgotten, and no plugin process is left behind
\* (tenon.erl park, expire, close_port; sdk/rs lib.rs dispatch, settle).
THEOREM WireStaysSound == WireSpec => []WireIsSound
<1>1. WireInit => WireInv BY WireInitHolds
<1>2. WireInv /\ [WireNext]_wireVars => WireInv' BY WireNextKeeps
<1>3. WireInv => WireIsSound BY WireInvImplies
<1> QED BY <1>1, <1>2, <1>3, PTL DEF WireSpec
=============================================================================
