----------------------------- MODULE Supervisor -----------------------------
(***************************************************************************)
(* The base actor (rs/base): it starts one BEAM node per environment, one  *)
(* harness process beside it and a worker in its sandbox, restarts what    *)
(* dies, halts what is over budget and keeps the tree of environments.     *)
(* The actor takes one command or one exit at a time, and a handler runs   *)
(* to its end before the next one; processes, their watchers, the boot and *)
(* probe tasks and the clients run beside it and speak to it through two   *)
(* queues, cmds and exits.  A process is known by the generation it was    *)
(* started in (start() bumps it for every node), so a node's pid is its    *)
(* generation; terminate() ends in SIGKILL, so a process it is called on   *)
(* is dead when the handler returns, while its watcher may report later.   *)
(***************************************************************************)
EXTENDS Integers, Sequences, FiniteSets

CONSTANTS
  Env,           \* environments that can exist
  Guardian,      \* the guardian's
  Root,          \* config.root_env
  BudgetReset,   \* config.budget_reset_on_reset
  max_restarts, max_total, max_depth,
  Worlds         \* what the world around base may do, see World

RequestKind == {"reset", "spawn", "stop_child", "kill", "resume", "spend", "destroy", "stop"}

\* One world: the environments whose node hangs before it registers, those
\* that clients name and what they ask for, what may fail in start() and
\* harness_boot(), and the bounds: commands, processes that die by themselves
\* and failures that are still to come.
World == [mute : SUBSET Env, named : SUBSET Env, requests : SUBSET RequestKind,
          failures : SUBSET {"spawn", "sandbox", "settings", "harness"},
          req : Nat, death : Nat, fail : Nat]

\* The parent of an environment that has none.
NoEnv == "none"

\* The constants of an instance.
ASSUME SupervisorAssumption ==
  /\ IsFiniteSet(Env) /\ NoEnv \notin Env
  /\ Guardian \in Env /\ Root \in Env \ {Guardian}
  /\ Worlds \subseteq World
  /\ BudgetReset \in BOOLEAN
  /\ {max_restarts, max_total, max_depth} \subseteq Nat

VARIABLES
  b,         \* the actor and the processes it started; b.lost and b.unstarted are
             \* history: harnesses that run on without a record that names them, and
             \* environments whose last start() failed
  cmds,      \* the command queue
  exits,     \* the queue of node exits
  tasks,     \* worker boots and harness probes under way
  left       \* the world, with what its bounds leave

vars == <<b, cmds, exits, tasks, left>>

None == [gen |-> 0]

\* A process: a node (num = 0) or the num-th harness started.
Process == [env : Env, gen : Nat, num : Nat]
Proc(e, g, n) == [env |-> e, gen |-> g, num |-> n]

WorkerState  == {"off", "booting", "ready", "failed"}
HarnessState == {"off", "booting", "ready", "failed"}

\* The record of an environment in Base.nodes; pid and hpid are 0 for none,
\* hpid is the number of the harness, peer the generation of the node that
\* registered.
Node == [gen : Nat, pid : Nat, registered : BOOLEAN, peer : Nat, restarts : Nat,
         parent : Env \cup {NoEnv}, depth : Nat, sandbox : BOOLEAN,
         worker : WorkerState, harness : HarnessState, hpid : Nat, hrestarts : Nat,
         halted : BOOLEAN]

\* stage_child: a record before anything runs for it.
Staged(parent, depth) ==
  [gen |-> 0, pid |-> 0, registered |-> FALSE, peer |-> 0, restarts |-> 0,
   parent |-> parent, depth |-> depth, sandbox |-> FALSE, worker |-> "off",
   harness |-> "off", hpid |-> 0, hrestarts |-> 0, halted |-> FALSE]

---------------------------------------------------------------------------
(* The steps a handler is made of, as functions of the actor's state.      *)

Known(s) == {e \in Env : s.nodes[e] # None}
Agents(s) == Known(s) \ {Guardian}
Set(s, e, n) == [s EXCEPT !.nodes[e] = n]

\* node::terminate on a set of processes: dead, not yet reported.
Terminate(s, P) == [s EXCEPT !.up = @ \ P, !.ghosts = @ \cup (P \cap s.up)]

\* The processes the record of e names.
NodeProc(s, e) == {p \in s.up : p.env = e /\ p.num = 0 /\ p.gen = s.nodes[e].pid}
HarnessProc(s, e) == {p \in s.up : p.env = e /\ p.num > 0 /\ p.num = s.nodes[e].hpid}

\* harness_halt() on every environment of X.
HarnessHalt(s, X) ==
  LET dead == UNION {HarnessProc(s, e) : e \in X}
      n(e) == IF e \in X /\ s.nodes[e] # None
              THEN [s.nodes[e] EXCEPT !.harness = "off", !.hpid = 0] ELSE s.nodes[e] IN
  [Terminate(s, dead) EXCEPT !.nodes = [e \in Env |-> n(e)]]

\* halt() on every environment of X.
Halt(s, X) ==
  LET h == HarnessHalt(s, X)
      dead == UNION {NodeProc(h, e) : e \in X}
      n(e) == IF e \in X /\ h.nodes[e] # None
              THEN [h.nodes[e] EXCEPT !.pid = 0, !.registered = FALSE, !.peer = 0,
                                      !.worker = "off", !.sandbox = FALSE]
              ELSE h.nodes[e] IN
  [Terminate(h, dead) EXCEPT !.nodes = [e \in Env |-> n(e)]]

\* The environments under e in the tree, e included.
Subtree(s, e) ==
  {d \in Known(s) : \A S \in SUBSET Env :
     (/\ e \in S
      /\ \A c \in Known(s) : s.nodes[c].parent \in S => c \in S) => d \in S}

\* prune(): the subtree is halted and forgotten.
Prune(s, X) ==
  LET h == Halt(s, X) IN
  [h EXCEPT !.nodes = [e \in Env |-> IF e \in X THEN None ELSE h.nodes[e]]]

\* Mutant: prune takes the children and leaves their children.
PruneChildrenFlat(s, e) == Prune(s, {c \in Known(s) : s.nodes[c].parent = e})

\* prune_children(): all of the subtree but its root.
PruneChildren(s, e) == Prune(s, Subtree(s, e) \ {e})

\* The record of a node started as generation g, over the old record n.
Started(n, e, g) ==
  [n EXCEPT !.gen = g, !.pid = g, !.registered = FALSE, !.peer = 0,
            !.sandbox = e # Guardian, !.worker = "off",
            !.harness = "off", !.hpid = 0, !.hrestarts = 0]

\* Mutant: a restart forgets how often the node was restarted before.
StartForgets(s, e, parent) ==
  LET n == IF s.nodes[e] = None THEN Staged(parent, 0) ELSE s.nodes[e] IN
  [s EXCEPT !.gen = @ + 1, !.up = @ \cup {Proc(e, s.gen + 1, 0)}, !.starts[e] = @ + 1,
            !.nodes[e] = [Started(n, e, s.gen + 1) EXCEPT !.restarts = 0]]

\* start(): a new generation, a node process, a record that keeps the old
\* one's restarts, parent and budget, and a fresh sandbox.
Start(s, e, parent) ==
  LET old == s.nodes[e]
      g   == s.gen + 1
      n   == IF old = None THEN Staged(parent, 0) ELSE old IN
  [s EXCEPT !.gen = g,
            !.up = @ \cup {Proc(e, g, 0)},
            !.starts[e] = @ + 1,
            !.unstarted = @ \ {e},
            !.nodes[e] = Started(n, e, g)]

\* What is left of start() when the spawn fails, and when the sandbox fails
\* after the node was spawned and its record taken out.
StartFailed(s, e, how) ==
  IF how = "spawn" THEN [s EXCEPT !.gen = s.gen + 1, !.unstarted = s.unstarted \cup {e}]
  ELSE [s EXCEPT !.gen = s.gen + 1, !.unstarted = s.unstarted \cup {e},
                 !.up = s.up \cup {Proc(e, s.gen + 1, 0)}, !.nodes[e] = None]

Halted(s, e) == s.killed \/ (s.nodes[e] # None /\ s.nodes[e].halted)

\* Mutant: harness_boot looks at the budget and forgets the kill switch.
BootsWhenKilled(s, e) ==
  /\ e # Guardian /\ s.nodes[e] # None /\ ~s.nodes[e].halted
  /\ s.nodes[e].harness \notin {"booting", "ready"}

\* The early returns of harness_boot().
Boots(s, e) ==
  /\ e # Guardian /\ s.nodes[e] # None /\ ~Halted(s, e)
  /\ s.nodes[e].harness \notin {"booting", "ready"}

\* harness_boot() on every environment of X: a harness process, or a failure
\* for those of bad.  A process that a record named until then is lost to base.
HarnessBoot(s, X, bad) ==
  LET go == {e \in X : Boots(s, e)}
      ok == go \ bad
      n(e) == IF e \in ok THEN [s.nodes[e] EXCEPT !.harness = "booting",
                                                  !.hpid = s.harnesses[e] + 1]
              ELSE IF e \in go THEN [s.nodes[e] EXCEPT !.harness = "failed"]
              ELSE s.nodes[e] IN
  [s EXCEPT !.harnesses = [e \in Env |-> IF e \in ok THEN @[e] + 1 ELSE @[e]],
            !.up = @ \cup {Proc(e, s.nodes[e].gen, s.harnesses[e] + 1) : e \in ok},
            !.lost = @ \cup UNION {HarnessProc(s, e) : e \in ok},
            !.nodes = [e \in Env |-> n(e)]]

\* A task that polls through the node of generation gen and then reports.
Task == [kind : {"worker", "probe"}, env : Env, gen : Nat, num : Nat]

\* The probes harness_boot starts: only for a node that is connected.
Probes(s, X, bad) ==
  {[kind |-> "probe", env |-> e, gen |-> s.nodes[e].peer, num |-> s.harnesses[e] + 1] :
     e \in {d \in X \ bad : Boots(s, d) /\ s.nodes[d].peer # 0}}

---------------------------------------------------------------------------
(* Commands.                                                               *)

Kinds == {"boot", "register", "worker_boot", "worker_ready", "harness_ready",
          "harness_exit", "halt", "reset", "spawn", "stop_child", "kill", "resume",
          "spend", "destroy", "stop"}

\* A command about an environment; gen is a generation, to a child's name,
\* ok the outcome it reports.
Cmd == [t : Kinds, env : Env, to : Env, gen : Nat, ok : BOOLEAN]
Msg(t, e) == [t |-> t, env |-> e, to |-> e, gen |-> 0, ok |-> TRUE]
Exit == [env : Env, gen : Nat]

\* The actor takes the next command, of kind t.
Take(t) ==
  /\ ~b.stopping /\ cmds # <<>> /\ Head(cmds).t = t

cmd == Head(cmds)
rest == Tail(cmds)

\* What may go wrong in the start() of a handler, within the bound.
Fails(e) ==
  IF left.fail = 0 THEN {}
  ELSE left.failures \ ({"settings", "harness"} \cup IF e = Guardian THEN {"sandbox"} ELSE {})
Failed == left' = [left EXCEPT !.fail = @ - 1]

\* The environments of X whose harness may fail in this way.
BadHarness(X, how) == IF left.fail = 0 \/ how \notin left.failures THEN {{}} ELSE SUBSET X

\* A handler that ends in harness_boot() on X, from the actor's state s: where the
\* settings cannot be read it returns before it touches the record.
BootHarnesses(s, X) ==
  \E mis \in BadHarness(X, "settings"), bad \in BadHarness(X, "harness") :
    /\ b' = HarnessBoot(s, X \ mis, bad)
    /\ tasks' = tasks \cup Probes(s, X \ mis, bad)
    /\ left' = [left EXCEPT !.fail = IF mis \cup bad = {} THEN @ ELSE @ - 1]

\* boot(): the guardian, then the root environment; an error stops base.
Boot ==
  /\ Take("boot")
  /\ \/ /\ b' = Start(Start(b, Guardian, NoEnv), Root, NoEnv)
        /\ cmds' = rest /\ UNCHANGED left
     \/ \E e \in {Guardian, Root} : \E how \in Fails(e) :
          /\ b' = IF e = Guardian THEN StartFailed(b, e, how)
                  ELSE StartFailed(Start(b, Guardian, NoEnv), e, how)
          /\ cmds' = Append(rest, Msg("stop", Root)) /\ Failed
  /\ UNCHANGED <<exits, tasks>>

\* on_register() accepts the node base started last for this environment.
Registers(s, e, g) == s.nodes[e] # None /\ s.nodes[e].gen = g /\ s.nodes[e].pid = g

\* on_register(): the node is connected, its worker is to boot, and the first
\* time everything is registered the release is promoted.
Register ==
  LET e == cmd.env
      s == [b EXCEPT !.nodes[e].peer = cmd.gen, !.nodes[e].registered = TRUE] IN
  /\ Take("register")
  /\ IF ~Registers(b, e, cmd.gen) THEN b' = b /\ cmds' = rest
     ELSE /\ b' = [s EXCEPT !.promoted = @ \/ \A d \in Known(s) : s.nodes[d].registered]
          /\ cmds' = IF e = Guardian THEN rest ELSE Append(rest, Msg("worker_boot", e))
  /\ UNCHANGED <<exits, tasks, left>>

\* worker_boot()
WorkerBoot ==
  LET e == cmd.env
      n == b.nodes[e] IN
  /\ Take("worker_boot")
  /\ IF n # None /\ n.sandbox /\ n.peer # 0 /\ n.worker \notin {"booting", "ready"}
       THEN /\ b' = [b EXCEPT !.nodes[e].worker = "booting"]
            /\ tasks' = tasks \cup {[kind |-> "worker", env |-> e, gen |-> n.peer, num |-> 0]}
       ELSE UNCHANGED <<b, tasks>>
  /\ cmds' = rest
  /\ UNCHANGED <<exits, left>>

\* worker_ready(): whatever the outcome, the harness is next.
WorkerReady ==
  LET e == cmd.env
      s == [b EXCEPT !.nodes[e].worker = IF cmd.ok THEN "ready" ELSE "failed"] IN
  /\ Take("worker_ready")
  /\ IF b.nodes[e] = None THEN UNCHANGED <<b, tasks, left>>
     ELSE BootHarnesses(s, {e})
  /\ cmds' = rest
  /\ UNCHANGED exits

\* harness_ready()
HarnessReady ==
  LET e == cmd.env IN
  /\ Take("harness_ready")
  /\ b' = IF b.nodes[e] = None THEN b
          ELSE [b EXCEPT !.nodes[e].harness = IF cmd.ok THEN "ready" ELSE "failed"]
  /\ cmds' = rest
  /\ UNCHANGED <<exits, tasks, left>>

\* harness_exit(): the harness is restarted while its environment stays up.  The
\* exit is known by the node's generation, so the record may name another harness,
\* which runs on and is lost to base.
HarnessExit ==
  LET e == cmd.env
      n == b.nodes[e]
      s == [b EXCEPT !.nodes[e].harness = "off", !.nodes[e].hpid = 0,
                     !.nodes[e].hrestarts = @ + 1,
                     !.lost = @ \cup HarnessProc(b, e)] IN
  /\ Take("harness_exit")
  /\ IF n = None \/ n.gen # cmd.gen \/ n.hpid = 0 THEN UNCHANGED <<b, tasks, left>>
     ELSE IF s.nodes[e].hrestarts > max_restarts THEN b' = s /\ UNCHANGED <<tasks, left>>
     ELSE BootHarnesses(s, {e})
  /\ cmds' = rest
  /\ UNCHANGED exits

\* Cmd::Halt
HaltEnv ==
  /\ Take("halt")
  /\ b' = HarnessHalt(b, {cmd.env})
  /\ cmds' = rest
  /\ UNCHANGED <<exits, tasks, left>>

\* account(), check_budget() or processes() over a limit: exceeded().
Spend ==
  LET e == cmd.env IN
  /\ Take("spend")
  /\ IF b.nodes[e] = None \/ b.nodes[e].halted THEN b' = b /\ cmds' = rest
     ELSE /\ b' = [b EXCEPT !.nodes[e].halted = TRUE]
          /\ cmds' = Append(rest, Msg("halt", e))
  /\ UNCHANGED <<exits, tasks, left>>

\* kill_switch(true): every harness stops.
Kill ==
  /\ Take("kill")
  /\ b' = [HarnessHalt(b, Agents(b)) EXCEPT !.killed = TRUE]
  /\ cmds' = rest
  /\ UNCHANGED <<exits, tasks, left>>

\* kill_switch(false): the registered environments get a harness again.
Resume ==
  LET s == [b EXCEPT !.killed = FALSE]
      X == {e \in Agents(b) : b.nodes[e].registered} IN
  /\ Take("resume")
  /\ IF ~b.killed THEN UNCHANGED <<b, tasks, left>>
     ELSE BootHarnesses(s, X)
  /\ cmds' = rest
  /\ UNCHANGED exits

\* reset(): the node is terminated and started again with a clean record.
Reset ==
  LET e == cmd.env
      h == HarnessHalt(b, {e})
      s == [Terminate(h, NodeProc(h, e)) EXCEPT
              !.nodes[e].registered = FALSE, !.nodes[e].peer = 0,
              !.nodes[e].worker = "off", !.starts[e] = 0]
      n == Start(s, e, NoEnv) IN
  /\ Take("reset")
  /\ IF e = Guardian \/ b.nodes[e] = None THEN UNCHANGED <<b, left>>
     ELSE \/ /\ b' = [n EXCEPT !.nodes[e].restarts = 0,
                               !.nodes[e].halted = @ /\ ~BudgetReset]
             /\ UNCHANGED left
          \/ \E how \in Fails(e) : b' = StartFailed(s, e, how) /\ Failed
  /\ cmds' = rest
  /\ UNCHANGED <<exits, tasks>>

\* spawn_child(): a child environment under its parent.
Spawn ==
  LET p == cmd.env
      c == cmd.to
      s == [b EXCEPT !.nodes[c] = Staged(p, b.nodes[p].depth + 1), !.starts[c] = 0] IN
  /\ Take("spawn")
  /\ IF \/ b.nodes[p] = None \/ p = Guardian \/ b.nodes[c] # None
        \/ b.nodes[p].depth + 1 > max_depth
        \/ Cardinality(Agents(b)) >= max_total
       THEN UNCHANGED <<b, left>>
     ELSE \/ b' = Start(s, c, p) /\ UNCHANGED left
          \/ \E how \in Fails(c) :
               b' = [StartFailed(s, c, how) EXCEPT !.nodes[c] = None] /\ Failed
  /\ cmds' = rest
  /\ UNCHANGED <<exits, tasks>>

\* runtime_stop(): a child and all below it.
StopChild ==
  LET e == cmd.env IN
  /\ Take("stop_child")
  /\ b' = IF b.nodes[e] = None \/ b.nodes[e].parent = NoEnv THEN b
          ELSE Prune(b, Subtree(b, e))
  /\ cmds' = rest
  /\ UNCHANGED <<exits, tasks, left>>

\* sandbox_destroy()
SandboxDestroy ==
  LET e == cmd.env IN
  /\ Take("destroy")
  /\ b' = IF b.nodes[e] = None \/ ~b.nodes[e].sandbox THEN b
          ELSE [b EXCEPT !.nodes[e].sandbox = FALSE, !.nodes[e].worker = "off"]
  /\ cmds' = rest
  /\ UNCHANGED <<exits, tasks, left>>

\* stop() and abort_boot(): every node and harness, then the actor ends.
Stop ==
  /\ Take("stop")
  /\ b' = [Halt(b, Known(b)) EXCEPT !.stopping = TRUE]
  /\ cmds' = rest
  /\ UNCHANGED <<exits, tasks, left>>

\* Mutant: on_exit acts on the environment's name alone.
IsCurrentByName(s, x) == s.nodes[x.env] # None

\* on_exit() ignores the exit of a node that was replaced or forgotten.
IsCurrent(s, x) == s.nodes[x.env] # None /\ s.nodes[x.env].gen = x.gen

\* on_exit(): harness and children go, and the node comes back until it has
\* been restarted max_restarts times.
OnExit ==
  LET x == Head(exits)
      e == x.env
      d == [b EXCEPT !.nodes[e].registered = FALSE, !.nodes[e].peer = 0,
                     !.nodes[e].pid = 0, !.nodes[e].worker = "off"]
      s == PruneChildren(HarnessHalt(d, {e}), e)
      r == [s EXCEPT !.nodes[e].restarts = @ + 1] IN
  /\ ~b.stopping /\ exits # <<>>
  /\ IF ~IsCurrent(b, x) THEN UNCHANGED <<b, left>>
     ELSE IF s.nodes[e].restarts >= max_restarts THEN b' = s /\ UNCHANGED left
     ELSE \/ \E how \in Fails(e) : b' = StartFailed(r, e, how) /\ Failed
          \/ b' = Start(r, e, NoEnv) /\ UNCHANGED left
  /\ exits' = Tail(exits)
  /\ UNCHANGED <<cmds, tasks>>

---------------------------------------------------------------------------
(* The world around the actor; with the actor its queues are gone.        *)

\* A node that is up connects and registers, once.
NodeRegisters(p) ==
  /\ p \in b.up /\ p.num = 0 /\ p \notin b.said
  /\ p.env \notin left.mute /\ ~b.stopping
  /\ b' = [b EXCEPT !.said = @ \cup {p}]
  /\ cmds' = Append(cmds, [Msg("register", p.env) EXCEPT !.gen = p.gen])
  /\ UNCHANGED <<exits, tasks, left>>

\* A process dies by itself.
Die(p) ==
  /\ p \in b.up /\ left.death > 0 /\ ~b.stopping
  /\ b' = Terminate(b, {p})
  /\ left' = [left EXCEPT !.death = @ - 1]
  /\ UNCHANGED <<cmds, exits, tasks>>

\* The watcher of a dead process reports it.
Watch(p) ==
  /\ p \in b.ghosts /\ ~b.stopping
  /\ b' = [b EXCEPT !.ghosts = @ \ {p}]
  /\ IF p.num = 0
       THEN exits' = Append(exits, [env |-> p.env, gen |-> p.gen]) /\ UNCHANGED cmds
       ELSE /\ cmds' = Append(cmds, [Msg("harness_exit", p.env) EXCEPT !.gen = p.gen])
            /\ UNCHANGED exits
  /\ UNCHANGED <<tasks, left>>

\* A boot or probe task ends: with an answer through the node it polls, or
\* with the error of its deadline.
Report(k, ok) ==
  /\ k \in tasks /\ ~b.stopping
  /\ ok => /\ Proc(k.env, k.gen, 0) \in b.up
           /\ k.kind = "probe" => \E p \in b.up : p.env = k.env /\ p.num > 0
  /\ tasks' = tasks \ {k}
  /\ cmds' = Append(cmds, [Msg(IF k.kind = "worker" THEN "worker_ready" ELSE "harness_ready",
                               k.env) EXCEPT !.ok = ok])
  /\ UNCHANGED <<b, exits, left>>

\* A client, a file, a signal or a budget tick sends a command.
Ask(c) ==
  /\ left.req > 0 /\ ~b.stopping /\ b.gen > 0
  /\ left' = [left EXCEPT !.req = @ - 1]
  /\ cmds' = Append(cmds, c)
  /\ UNCHANGED <<b, exits, tasks>>

Asked ==
  {Msg(t, e) : t \in left.requests \cap {"reset", "stop_child", "spend", "destroy"},
               e \in left.named}
  \cup {Msg(t, Root) : t \in left.requests \cap {"kill", "resume", "stop"}}
  \cup {[Msg("spawn", p) EXCEPT !.to = c] :
          p \in IF "spawn" \in left.requests THEN left.named ELSE {},
          c \in left.named \ {Root}}

---------------------------------------------------------------------------
\* Base::new
NewBase ==
  [nodes |-> [e \in Env |-> None], gen |-> 0, up |-> {}, ghosts |-> {},
   said |-> {}, harnesses |-> [e \in Env |-> 0], starts |-> [e \in Env |-> 0],
   killed |-> FALSE, stopping |-> FALSE, promoted |-> FALSE, lost |-> {}, unstarted |-> {}]

Init ==
  /\ b = NewBase
  /\ cmds = <<Msg("boot", Root)>> /\ exits = <<>> /\ tasks = {}
  /\ left \in Worlds

OnCmd ==
  \/ Boot \/ Register \/ WorkerBoot \/ WorkerReady \/ HarnessReady \/ HarnessExit
  \/ HaltEnv \/ Spend \/ Kill \/ Resume \/ Reset \/ Spawn \/ StopChild
  \/ SandboxDestroy \/ Stop

Next ==
  \/ OnCmd
  \/ OnExit
  \/ \E p \in b.up : NodeRegisters(p) \/ Die(p)
  \/ \E p \in b.ghosts : Watch(p)
  \/ \E k \in tasks, ok \in BOOLEAN : Report(k, ok)
  \/ \E c \in Asked : Ask(c)

Spec == Init /\ [][Next]_vars

\* The actor's select! serves both queues, watchers and tasks are scheduled,
\* every task has a deadline, and a node that is up registers.
Fairness ==
  /\ WF_vars(OnCmd) /\ WF_vars(OnExit)
  /\ WF_vars(\E p \in b.ghosts : Watch(p))
  /\ WF_vars(\E k \in tasks, ok \in BOOLEAN : Report(k, ok))
  /\ WF_vars(\E p \in b.up : NodeRegisters(p))

LiveSpec == Spec /\ Fairness

---------------------------------------------------------------------------
(* Properties.                                                             *)

\* The actor's records, the queues and the processes have their types.
TypeOK ==
  /\ b.nodes \in [Env -> Node \cup {None}]
  /\ b.gen \in Nat /\ b.up \subseteq Process /\ b.ghosts \subseteq Process
  /\ b.said \subseteq Process /\ b.lost \subseteq Process /\ b.unstarted \subseteq Env
  /\ b.harnesses \in [Env -> Nat] /\ b.starts \in [Env -> Nat]
  /\ {b.killed, b.stopping, b.promoted} \subseteq BOOLEAN
  /\ cmds \in Seq(Cmd) /\ exits \in Seq(Exit) /\ tasks \subseteq Task
  /\ \A e \in Known(b) : b.nodes[e].gen <= b.gen /\ b.nodes[e].hpid <= b.harnesses[e]

\* Every node process that runs is the one its environment's record names: no
\* exit, reset or stop leaves a node that nobody supervises.
NoStrayNode ==
  \A p \in b.up : p.num = 0 => b.nodes[p.env] # None /\ b.nodes[p.env].pid = p.gen

\* A record that names a dead node has its exit on the way: from the watcher
\* or in the queue, under the generation on_exit will accept.
ExitOnItsWay ==
  \A e \in Known(b) :
    LET n == b.nodes[e] IN
    n.pid # 0 /\ ~b.stopping =>
      \/ Proc(e, n.pid, 0) \in b.up \cup b.ghosts
      \/ \E i \in DOMAIN exits : exits[i] = [env |-> e, gen |-> n.gen]

\* Only the node that runs counts as registered, until its exit is handled.
RegisteredIsCurrent ==
  \A e \in Known(b) : b.nodes[e].registered =>
    b.nodes[e].peer = b.nodes[e].gen /\ b.nodes[e].pid = b.nodes[e].gen

\* The three together, with the types: whatever order starts, registrations,
\* exits and resets come in (start, register, on_exit), base knows the node that
\* runs in an environment and hears of its end.
NodesAreTracked == TypeOK /\ NoStrayNode /\ ExitOnItsWay /\ RegisteredIsCurrent

\* Between two resets a node is started at most max_restarts times more.
RestartsAreBounded == \A e \in Env : b.starts[e] <= max_restarts + 1

\* The tree is closed: a child's parent exists, one level up, and the limits
\* of depth and number hold.
TreeIsClosed ==
  /\ \A e \in Agents(b) : e # Root =>
       LET p == b.nodes[e].parent IN
       /\ p \in Agents(b) /\ b.nodes[e].depth = b.nodes[p].depth + 1
       /\ b.nodes[e].depth <= max_depth
  /\ Root \in Agents(b) => Cardinality(Agents(b)) <= (IF max_total = 0 THEN 1 ELSE max_total)

\* Under the kill switch no harness runs, and in an environment over budget none
\* runs unless its halt is still queued; but for those harness_exit() or a second
\* harness_boot() let go, which no halt can reach.
HaltedHasNoHarness ==
  \A p \in b.up \ b.lost : p.num > 0 =>
    /\ ~b.killed
    /\ b.nodes[p.env] # None
    /\ b.nodes[p.env].halted => \E i \in DOMAIN cmds : cmds[i] = Msg("halt", p.env)

\* After stop() no node runs, nor a harness but those.
StopStopsAll == b.stopping => b.up \subseteq b.lost

\* Both halts hold of the processes that run: stop() ends nodes and harnesses, the
\* kill switch and the budget the harnesses, with boots and exits of either under way
\* (harness_halt, stop).
HaltsHold == StopStopsAll /\ HaltedHasNoHarness

\* One harness process per environment.
OneHarness ==
  \A p, q \in b.up : p.num > 0 /\ q.num > 0 /\ p.env = q.env => p = q

\* A node that died is started again, unless it used up its restarts, was
\* removed, base stops, or the start failed: on_exit() does not try again.
Recovers ==
  \A e \in {Guardian, Root} :
    []<>(\/ b.nodes[e] = None \/ NodeProc(b, e) # {} \/ b.stopping
         \/ b.nodes[e].restarts >= max_restarts \/ e \in b.unstarted)
=============================================================================
