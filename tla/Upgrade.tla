------------------------------- MODULE Upgrade -------------------------------
(***************************************************************************)
(* The change protocol of one environment: base writes the row and gates   *)
(* it (rs/base/src/upgrade.rs), a driver task runs snapshot, canary,       *)
(* verify and promote or rollback (drive.rs, candidate.rs, bench.rs), and  *)
(* talks to base over its command queue; a kernel upgrade replaces the     *)
(* node itself (bluegreen.rs).  Several proposals may be driven at once.   *)
(* An artifact is the upgrade that proposes it, "old" the one before, and  *)
(* "none" a name nobody holds.                                             *)
(***************************************************************************)
EXTENDS Integers, Sequences, FiniteSets, Focus

CONSTANTS
  Proposal,      \* upgrades
  UpgradeWorlds  \* [target: [Proposal -> Target], tier, mortal: nodes that may die once,
                 \*  selfcheck: plugins that declare one]

Target == {"plugin", "worker", "kernel", "config"}
Terminal == {"promoted", "rolled_back"}
Names == {"plugin", "worker", "config"}

\* A table has finitely many proposals, a proposal one target; its name is no artifact that was there before.
ASSUME UpgradeAssumption ==
  /\ {"old", "none"} \cap Proposal = {} /\ IsFiniteSet(Proposal)
  /\ UpgradeWorlds \subseteq [target : [Proposal -> Target], tier : {"auto", "ask"},
                            mortal : SUBSET (Proposal \cup {"old"}), selfcheck : SUBSET Proposal]

VARIABLES
  uworld,    \* what this behaviour has
  ustatus,   \* the rows: status of each proposal, "new" before it
  upc,       \* the driver of each proposal
  usnap,     \* what the snapshot found under the name
  lkg,       \* the benchmarks row with lkg = 1: a success rate, -1 is none
  slot,      \* who holds each real name
  canary,    \* who is mounted as the plugin's and the worker's canary
  silent,    \* candidate workers launched that never answered: <<upgrade, name>>
  blue,      \* the environment's node: whose kernel it runs
  green,     \* the record <env>~green
  procs,     \* node processes
  regs,      \* nodes registered with base
  exits,     \* exits base has not looked at
  draining, dropping,  \* nodes about to be terminated
  ucmds,     \* base's command queue
  uans,      \* the answer a driver waits for
  died,      \* nodes that died
  verified, checked,  \* history: passed verify; answered healthy
  broken,    \* history: names whose promotion or fallback failed half-way, or whose worker spoke late
  stranded   \* history: names whose canary could not be unmounted, or spoke late

upVars == <<uworld, ustatus, upc, usnap, lkg, slot, canary, silent, blue, green, procs, regs, exits,
            draining, dropping, ucmds, uans, died, verified, checked, broken, stranded>>
nodeVars == <<blue, green, procs, regs, exits, draining, dropping, died, checked>>
holdVars == <<slot, canary, silent, broken, stranded>>

target(u) == uworld.target[u]
Cmd(op, u, v) == [op |-> op, u |-> u, v |-> v]

UpInit ==
  /\ uworld \in UpgradeWorlds
  /\ ustatus = [u \in Proposal |-> "new"] /\ upc = [u \in Proposal |-> "off"]
  /\ usnap = [u \in Proposal |-> "none"] /\ lkg = -1
  /\ slot = [n \in Names |-> "old"] /\ canary = [n \in {"plugin", "worker"} |-> "none"] /\ silent = {}
  /\ blue = "old" /\ green = "none" /\ procs = {"old"} /\ regs = {"old"} /\ exits = {}
  /\ draining = {} /\ dropping = {} /\ ucmds = <<>> /\ uans = [u \in Proposal |-> "none"]
  /\ died = {} /\ verified = {} /\ checked = {} /\ broken = {} /\ stranded = {}

---------------------------------------------------------------------------
(* Base: the row and the gate.                                             *)

\* upgrade_start(): a driver, or the end when the node is not registered.
Start(u, phase) ==
  IF blue \in regs
  THEN upc' = [upc EXCEPT ![u] = "snapshot"] /\ ustatus' = [ustatus EXCEPT ![u] = phase]
  ELSE upc' = [upc EXCEPT ![u] = "done"] /\ ustatus' = [ustatus EXCEPT ![u] = "rolled_back"]

\* upgrade_propose(): the row first; "auto" starts, "ask" enters the gate.
Propose(u) ==
  /\ ustatus[u] = "new"
  /\ IF uworld.tier = "auto" THEN Start(u, "proposed")
     ELSE ustatus' = [ustatus EXCEPT ![u] = "awaiting_approval"] /\ upc' = [upc EXCEPT ![u] = "gate"]
  /\ UNCHANGED <<uworld, usnap, lkg, nodeVars, holdVars, ucmds, uans, verified>>

\* upgrade_ask(): the verdict comes back as a command.
Verdict(u, approved) ==
  /\ upc[u] = "gate" /\ upc' = [upc EXCEPT ![u] = "waiting"]
  /\ ucmds' = Append(ucmds, Cmd("approved", u, approved))
  /\ UNCHANGED <<uworld, ustatus, usnap, lkg, nodeVars, holdVars, uans, verified>>

\* upgrade_approved()
Approved(u, approved) ==
  IF approved THEN Start(u, ustatus[u])
  ELSE ustatus' = [ustatus EXCEPT ![u] = "rolled_back"] /\ upc' = [upc EXCEPT ![u] = "done"]

---------------------------------------------------------------------------
(* The driver.  Sending a phase does not wait; asking base does.           *)

Go(u, pc) == upc' = [upc EXCEPT ![u] = pc]
Tell(u, phase) == ucmds' = Append(ucmds, Cmd("phase", u, phase))
Ask(op, u, v, pc) == ucmds' = Append(ucmds, Cmd(op, u, v)) /\ Go(u, pc)
Quiet == UNCHANGED <<uworld, ustatus, lkg, died>>

Snap(u, what) ==
  /\ usnap' = [usnap EXCEPT ![u] = what] /\ Tell(u, "snapshot") /\ Go(u, "baseline")

\* plugin_snapshot(): the fiber that provides the service, or has the id.
PluginSnapshot(u) == target(u) = "plugin" /\ Snap(u, slot["plugin"])

\* worker_snapshot(): needs a sandbox; the running worker is only described.
WorkerSnapshot(u) == target(u) = "worker" /\ Snap(u, slot["worker"])

\* kernel_snapshot(): the candidate is a file.
KernelSnapshot(u) == target(u) = "kernel" /\ Snap(u, blue)

\* config_snapshot(): the file is copied aside.
ConfigSnapshot(u) == target(u) = "config" /\ Snap(u, slot["config"])

\* An artifact without its fields, or a node that does not answer, ends it.
Snapshot(u) ==
  /\ upc[u] = "snapshot" /\ Quiet
  /\ \/ PluginSnapshot(u) \/ WorkerSnapshot(u) \/ KernelSnapshot(u) \/ ConfigSnapshot(u)
     \/ Go(u, "rollback") /\ UNCHANGED <<usnap, ucmds>>
  /\ UNCHANGED <<nodeVars, holdVars, uans, verified>>

\* baseline(): the pass before the canary, stored as the last known good.
Baseline(u, rate) ==
  /\ upc[u] = "baseline" /\ Ask("baseline", u, rate, "baselined") /\ Quiet
  /\ UNCHANGED <<usnap, nodeVars, holdVars, uans, verified>>

Baselined(u) ==
  /\ upc[u] = "baselined" /\ uans[u] # "none" /\ uans' = [uans EXCEPT ![u] = "none"]
  /\ Tell(u, "snapshot") /\ Go(u, "canary") /\ Quiet
  /\ UNCHANGED <<usnap, nodeVars, holdVars, verified>>

\* plugin_canary(): mounted under the canary's id, unless that is taken.
PluginCanary(u) ==
  /\ target(u) = "plugin" /\ canary["plugin"] = "none"
  /\ canary' = [canary EXCEPT !["plugin"] = u] /\ Go(u, "conformance") /\ UNCHANGED silent

\* launch(), ready(): the candidate is started in the sandbox and answers in
\* time, or not in time; a canary that is there already answers for it.
WorkerCanary(u) ==
  LET taken == canary["worker"] # "none"
      waits == silent \cup {<<u, "canary">>} IN
  /\ target(u) = "worker"
  /\ \/ /\ canary' = IF taken THEN canary ELSE [canary EXCEPT !["worker"] = u]
        /\ silent' = (IF taken THEN waits ELSE silent) /\ Go(u, "conformance")
     \/ silent' = waits /\ Go(u, "rollback") /\ UNCHANGED canary

\* kernel_canary(): the suite runs in a node of its own.
KernelCanary(u) == target(u) = "kernel" /\ Go(u, "conformance") /\ UNCHANGED <<canary, silent>>

\* config_canary(): nothing is live.
ConfigCanary(u) == target(u) = "config" /\ Go(u, "conformance") /\ UNCHANGED <<canary, silent>>

CanaryUp(u) ==
  /\ upc[u] = "canary" /\ Quiet
  /\ \/ PluginCanary(u) \/ WorkerCanary(u) \/ KernelCanary(u) \/ ConfigCanary(u)
     \/ Go(u, "rollback") /\ UNCHANGED <<canary, silent>>
  /\ UNCHANGED <<usnap, nodeVars, slot, broken, stranded, ucmds, uans, verified>>

\* selfcheck() calls the canary's service, which has to be there still; without a declared
\* one there is no call.
Selfcheck(u) == target(u) = "plugin" /\ u \in uworld.selfcheck => canary["plugin"] # "none"

\* conformance(): a command, a file and a commit through the canary's service.
WorkerConformance(u) == target(u) = "worker" => canary["worker"] # "none"

Conformance(u) ==
  /\ upc[u] = "conformance" /\ Quiet
  /\ \/ Selfcheck(u) /\ WorkerConformance(u) /\ Tell(u, "canary") /\ Go(u, "verify")
     \/ Go(u, "rollback") /\ UNCHANGED ucmds
  /\ UNCHANGED <<usnap, nodeVars, holdVars, uans, verified>>

\* verify(): the hard rules, then the pass with the canary live.
Verify(u) ==
  /\ upc[u] = "verify" /\ Ask("guard", u, 0, "guarded") /\ Quiet
  /\ UNCHANGED <<usnap, nodeVars, holdVars, uans, verified>>

Guarded(u, rate) ==
  /\ upc[u] = "guarded" /\ uans[u] # "none" /\ uans' = [uans EXCEPT ![u] = "none"] /\ Quiet
  /\ IF uans[u] = "ok" THEN Ask("bench", u, rate, "compared") ELSE Go(u, "rollback") /\ UNCHANGED ucmds
  /\ UNCHANGED <<usnap, nodeVars, holdVars, verified>>

\* Mutant: a refused comparison is logged and promoted.
ComparedAnyway(u) ==
  /\ upc[u] = "compared" /\ uans[u] # "none" /\ uans' = [uans EXCEPT ![u] = "none"] /\ Quiet
  /\ Tell(u, "verify") /\ Go(u, "promote")
  /\ verified' = IF uans[u] = "ok" THEN verified \cup {u} ELSE verified
  /\ UNCHANGED <<usnap, nodeVars, holdVars>>

\* compare(): no worse than the last known good.
Compared(u) ==
  /\ upc[u] = "compared" /\ uans[u] # "none" /\ uans' = [uans EXCEPT ![u] = "none"] /\ Quiet
  /\ \/ /\ uans[u] = "ok" /\ Tell(u, "verify") /\ Go(u, "promote") /\ verified' = verified \cup {u}
     \/ /\ uans[u] = "worse" /\ Go(u, "rollback") /\ UNCHANGED <<ucmds, verified>>
  /\ UNCHANGED <<usnap, nodeVars, holdVars>>

---------------------------------------------------------------------------
(* promote() and rollback() of plugins, workers and the configuration.     *)

\* Whoever the canary is, it is unmounted; an error of that is ignored.
Uncanary(t) ==
  \/ canary' = [canary EXCEPT ![t] = "none"] /\ UNCHANGED stranded
  \/ canary[t] # "none" /\ stranded' = stranded \cup {t} /\ UNCHANGED canary

\* The canary goes first.
DropCanary(u) ==
  /\ upc[u] = "promote" /\ target(u) \in DOMAIN canary /\ Quiet
  /\ Uncanary(target(u)) /\ Go(u, "swap")
  /\ UNCHANGED <<usnap, nodeVars, slot, silent, broken, ucmds, uans, verified>>

\* Then what held the name: the fiber the snapshot found, or the one that
\* provides the worker now; or an error that is ignored.
DropOld(u) ==
  /\ upc[u] = "swap" /\ Go(u, "mount") /\ Quiet
  /\ \/ slot' = [slot EXCEPT ![target(u)] =
            IF target(u) = "worker" \/ usnap[u] # "none" THEN "none" ELSE slot[target(u)]]
     \/ UNCHANGED slot
  /\ UNCHANGED <<usnap, nodeVars, canary, silent, broken, stranded, ucmds, uans, verified>>

\* plugin_promote(): the artifact under the real id, which may be taken; it may
\* fail where the canary did not, or be mounted and install() fail.
PluginMount(u) ==
  /\ target(u) = "plugin" /\ UNCHANGED silent
  /\ \/ /\ slot["plugin"] = "none" /\ slot' = [slot EXCEPT !["plugin"] = u]
        /\ \/ Tell(u, "promoted") /\ Go(u, "done") /\ UNCHANGED broken
           \/ Go(u, "rollback") /\ broken' = broken \cup {"plugin"} /\ UNCHANGED ucmds
     \/ /\ Go(u, "rollback") /\ UNCHANGED <<slot, ucmds>>
        /\ broken' = IF slot["plugin"] = "none" THEN broken \cup {"plugin"} ELSE broken

\* worker_promote(): the candidate under the worker's name, where one that is
\* there still answers ready() for it; when nobody answers, base is told to
\* boot the built-in one (fallback()).
WorkerMount(u) ==
  LET taken == slot["worker"] # "none" IN
  /\ target(u) = "worker"
  /\ \/ /\ slot' = IF taken THEN slot ELSE [slot EXCEPT !["worker"] = u]
        /\ broken' = (IF taken THEN broken \cup {"worker"} ELSE broken)
        /\ Tell(u, "promoted") /\ Go(u, "done") /\ UNCHANGED silent
     \/ /\ Ask("fallback", u, 0, "rollback") /\ UNCHANGED <<slot, broken>>
        /\ silent' \in {silent, silent \cup {<<u, "worker">>}}

Mount(u) ==
  /\ upc[u] = "mount" /\ Quiet /\ (PluginMount(u) \/ WorkerMount(u))
  /\ UNCHANGED <<usnap, nodeVars, canary, stranded, uans, verified>>

\* config_promote(): base patches the file, or refuses the patch.
Patch(u) ==
  /\ upc[u] = "promote" /\ target(u) = "config" /\ Ask("patch", u, 0, "patched") /\ Quiet
  /\ UNCHANGED <<usnap, nodeVars, holdVars, uans, verified>>

Patched(u) ==
  /\ upc[u] \in {"patched", "switched"} /\ uans[u] # "none" /\ uans' = [uans EXCEPT ![u] = "none"] /\ Quiet
  /\ IF uans[u] = "ok" THEN Tell(u, "promoted") /\ Go(u, "done") ELSE Go(u, "rollback") /\ UNCHANGED ucmds
  /\ UNCHANGED <<usnap, nodeVars, holdVars, verified>>

\* config_rollback(): a snapshot that was taken is copied back.
Restored(u) ==
  IF target(u) = "config" /\ usnap[u] # "none" THEN [slot EXCEPT !["config"] = usnap[u]] ELSE slot

\* rollback(): of a plugin or a worker the canary goes (plugin_rollback(),
\* worker_rollback()); a kernel has nothing to destroy.
Rollback(u) ==
  /\ upc[u] = "rollback" /\ Tell(u, "rolled_back") /\ Go(u, "done") /\ Quiet
  /\ IF target(u) \in DOMAIN canary THEN Uncanary(target(u)) ELSE UNCHANGED <<canary, stranded>>
  /\ slot' = Restored(u)
  /\ UNCHANGED <<usnap, nodeVars, silent, broken, uans, verified>>

\* A candidate worker that speaks after its deadline.
SpeaksLate(s) ==
  /\ s \in silent /\ silent' = silent \ {s}
  /\ IF s[2] = "canary"
     THEN /\ canary' = [canary EXCEPT !["worker"] = IF @ = "none" THEN s[1] ELSE @]
          /\ stranded' = stranded \cup {"worker"} /\ UNCHANGED <<slot, broken>>
     ELSE /\ slot' = [slot EXCEPT !["worker"] = IF @ = "none" THEN s[1] ELSE @]
          /\ broken' = broken \cup {"worker"} /\ UNCHANGED <<canary, stranded>>
  /\ UNCHANGED <<uworld, ustatus, upc, usnap, lkg, nodeVars, ucmds, uans, verified>>

---------------------------------------------------------------------------
(* Blue and green.                                                         *)

\* kernel_promote(): the release is staged, and base asked for the green node.
Stage(u) ==
  /\ upc[u] = "promote" /\ target(u) = "kernel" /\ Quiet
  /\ \/ Ask("switch", u, 0, "staged")
     \/ Go(u, "rollback") /\ UNCHANGED ucmds
  /\ UNCHANGED <<usnap, nodeVars, holdVars, uans, verified>>

Staged(u) ==
  /\ upc[u] = "staged" /\ uans[u] # "none" /\ uans' = [uans EXCEPT ![u] = "none"] /\ Quiet
  /\ Go(u, IF uans[u] = "ok" THEN "polling" ELSE "rollback")
  /\ UNCHANGED <<usnap, nodeVars, holdVars, ucmds, verified>>

\* await_green(): the node under the green name registers and its connection is
\* taken, or the deadline passes or the name is unknown.
AwaitGreen(u) ==
  /\ upc[u] = "polling" /\ Quiet
  /\ IF green \in regs
     THEN usnap' = [usnap EXCEPT ![u] = green] /\ Go(u, "health") /\ UNCHANGED ucmds
     ELSE Ask("ready", u, "err", "switched") /\ UNCHANGED usnap
  /\ UNCHANGED <<nodeVars, holdVars, uans, verified>>

\* healthy(): the node it took the connection of answers both questions, or not.
Healthy(u) ==
  /\ upc[u] = "health" /\ Quiet
  /\ \/ /\ usnap[u] \in procs /\ Ask("ready", u, "ok", "switched") /\ checked' = checked \cup {usnap[u]}
     \/ /\ Ask("ready", u, "err", "switched") /\ UNCHANGED checked
  /\ UNCHANGED <<usnap, blue, green, procs, regs, exits, draining, dropping, died, holdVars, uans, verified>>

\* kernel_switch(): the green record is inserted, whoever it replaces.
Switch(u) ==
  /\ procs' = procs \cup {u} /\ green' = u
  /\ UNCHANGED <<blue, regs, exits, draining, dropping, checked>>

\* drop_green()
DropGreen ==
  /\ dropping' = dropping \cup ({green} \ {"none"}) /\ green' = "none"
  /\ UNCHANGED <<blue, procs, regs, exits, draining, checked>>

\* kernel_ready(): the green node becomes the environment's, the old one is
\* drained by a command of its own.
Ready ==
  /\ blue' = green /\ green' = "none" /\ draining' = {blue}
  /\ UNCHANGED <<procs, regs, exits, dropping, checked>>

Register(n) ==
  /\ n \in procs \ regs /\ n \in {blue, green} /\ regs' = regs \cup {n}
  /\ UNCHANGED <<uworld, ustatus, upc, usnap, lkg, holdVars, blue, green, procs, exits, draining, dropping,
                 ucmds, uans, died, verified, checked>>

\* A node dies, and later base looks at its exit: that of its own node's
\* generation is a restart, any other is ignored.
NodeDies(n) ==
  /\ n \in procs /\ n \in uworld.mortal \ died /\ died' = died \cup {n}
  /\ procs' = procs \ {n} /\ regs' = regs \ {n} /\ exits' = exits \cup {n}
  /\ UNCHANGED <<uworld, ustatus, upc, usnap, lkg, holdVars, blue, green, draining, dropping,
                 ucmds, uans, verified, checked>>

OnExit(n) ==
  /\ n \in exits /\ exits' = exits \ {n}
  /\ procs' = IF n = blue THEN procs \cup {n} ELSE procs
  /\ UNCHANGED <<uworld, ustatus, upc, usnap, lkg, holdVars, blue, green, regs, draining, dropping,
                 ucmds, uans, died, verified, checked>>

\* node::terminate() of a rejected green node
Terminate ==
  /\ dropping # {} /\ procs' = procs \ dropping /\ regs' = regs \ dropping /\ dropping' = {}
  /\ UNCHANGED <<uworld, ustatus, upc, usnap, lkg, holdVars, blue, green, exits, draining,
                 ucmds, uans, died, verified, checked>>

---------------------------------------------------------------------------
(* Base's loop takes the next command.                                     *)

Reply(u, answer) == uans' = [uans EXCEPT ![u] = answer]
NodesStay == UNCHANGED <<blue, green, procs, regs, exits, draining, dropping, checked>>

\* upgrade_update(), set_upgrade(): the status of the last message.
Update(u, phase) == ustatus' = [ustatus EXCEPT ![u] = phase]

\* put_benchmark(): a new last known good replaces the one before it, whoever
\* measured that.
PutLkg(u, rate) == lkg' = rate /\ Reply(u, "ok")

\* upgrade_bench(), compare(): against the last known good on file.
Bench(u, rate) == Reply(u, IF rate >= lkg THEN "ok" ELSE "worse") /\ UNCHANGED lkg

\* fallback(): the specification is forgotten and the built-in worker booted,
\* which may fail.
Fallback ==
  \/ slot' = [slot EXCEPT !["worker"] = IF @ = "none" THEN "old" ELSE @] /\ UNCHANGED broken
  \/ slot["worker"] = "none" /\ broken' = broken \cup {"worker"} /\ UNCHANGED slot

\* kernel_drain()
Drain ==
  /\ procs' = procs \ draining /\ regs' = regs \ draining /\ draining' = {}
  /\ UNCHANGED <<blue, green, exits, dropping, checked>>

Base ==
  LET c == Head(ucmds) rest == Tail(ucmds) IN
  /\ ucmds # <<>> /\ UNCHANGED <<uworld, usnap, died, verified, canary, silent, stranded>>
  /\ c.op # "fallback" => UNCHANGED broken
  /\ ucmds' = IF c.op = "ready" /\ c.v = "ok" /\ green # "none" THEN Append(rest, Cmd("drain", c.u, 0)) ELSE rest
  /\ \/ c.op = "approved" /\ Approved(c.u, c.v) /\ NodesStay /\ UNCHANGED <<slot, lkg, uans>>
     \/ c.op = "phase" /\ Update(c.u, c.v) /\ NodesStay /\ UNCHANGED <<upc, slot, lkg, uans>>
     \/ c.op = "baseline" /\ PutLkg(c.u, c.v) /\ NodesStay /\ UNCHANGED <<ustatus, upc, slot>>
     \/ c.op = "bench" /\ Bench(c.u, c.v) /\ NodesStay /\ UNCHANGED <<ustatus, upc, slot>>
     \/ /\ c.op = "guard" /\ (Reply(c.u, "ok") \/ Reply(c.u, "err"))
        /\ NodesStay /\ UNCHANGED <<ustatus, upc, slot, lkg>>
     \/ /\ c.op = "patch" /\ NodesStay /\ UNCHANGED <<ustatus, upc, lkg>>
        /\ \/ Reply(c.u, "ok") /\ slot' = [slot EXCEPT !["config"] = c.u]
           \/ Reply(c.u, "err") /\ UNCHANGED slot
     \/ c.op = "fallback" /\ Fallback /\ NodesStay /\ UNCHANGED <<ustatus, upc, lkg, uans>>
     \/ /\ c.op = "switch" /\ UNCHANGED <<ustatus, upc, slot, lkg>>
        /\ ((Switch(c.u) /\ Reply(c.u, "ok")) \/ (NodesStay /\ Reply(c.u, "err")))
     \/ /\ c.op = "ready" /\ UNCHANGED <<ustatus, upc, slot, lkg>>
        /\ IF c.v = "err" THEN DropGreen /\ Reply(c.u, "err")
           ELSE IF green = "none" THEN Reply(c.u, "err") /\ NodesStay
           ELSE Ready /\ Reply(c.u, "ok")
     \/ c.op = "drain" /\ Drain /\ UNCHANGED <<ustatus, upc, slot, lkg, uans>>

Driving(u) ==
  \/ Snapshot(u) \/ (\E r \in 0 .. 1 : Baseline(u, r) \/ Guarded(u, r)) \/ Baselined(u)
  \/ CanaryUp(u) \/ Conformance(u) \/ Verify(u) \/ Compared(u)
  \/ DropCanary(u) \/ DropOld(u) \/ Mount(u) \/ Patch(u) \/ Patched(u) \/ Rollback(u)
  \/ Stage(u) \/ Staged(u) \/ AwaitGreen(u) \/ Healthy(u)

Nodes == Terminate \/ (\E n \in exits : OnExit(n))

UpNext ==
  \/ \E u \in Proposal : Propose(u) \/ (\E a \in BOOLEAN : Verdict(u, a)) \/ Driving(u)
  \/ Base \/ Nodes
  \/ \E n \in procs : Register(n) \/ NodeDies(n)
  \/ \E s \in silent : SpeaksLate(s)

UpSpec == UpInit /\ [][UpNext]_upVars

\* The same with one proposal at most for a target.
Solo == \A u, v \in Proposal : target(u) = target(v) => u = v
SoloSpec == UpSpec /\ Solo

\* The approval queue answers or expires a request; drivers, base and the
\* operating system go on; requests of a driver have timeouts.  A new node need
\* not ever register.
UpFairness ==
  /\ \A u \in Proposal :
      /\ WF_upVars(focus = "upgrade" /\ Driving(u))
      /\ WF_upVars(focus = "upgrade" /\ (\E a \in BOOLEAN : Verdict(u, a)))
  /\ WF_upVars(focus = "upgrade" /\ Base) /\ WF_upVars(focus = "upgrade" /\ Nodes)

---------------------------------------------------------------------------
(* Properties.                                                             *)

UpRest == ucmds = <<>> /\ \A u \in Proposal : upc[u] \in {"off", "done"}
Of(t) == {u \in Proposal : target(u) = t}

\* The old artifact keeps its name until an upgrade of it has passed
\* verification, and nothing that has not ever takes the name, also not a
\* worker that speaks after its deadline (drive.rs, candidate.rs).
OldServesUntilVerified ==
  \A t \in Target :
    LET holder == IF t = "kernel" THEN blue ELSE slot[t] IN
    holder # "old" => \/ holder \in verified
                      \/ holder = "none" /\ Of(t) \cap verified # {}

\* When everything has ended, no canary is left, and a name is held by the old
\* artifact if every upgrade of it was rolled back, and by one that was
\* promoted otherwise.  A canary is left only when its unmount failed, which
\* the code ignores, or it spoke after its deadline.  A name is with another
\* only when its promotion failed half-way (the mount, or install() after it),
\* the built-in worker did not boot, a worker that could not be unmounted
\* answered for the candidate, or the candidate spoke after its deadline
\* (plugin_promote(), worker_promote(), fallback(), ready()).
EndIsClean ==
  UpRest => \A t \in Names :
    /\ t \in DOMAIN canary => canary[t] = "none" \/ t \in stranded
    /\ \/ t \in broken
       \/ IF \E u \in Of(t) : ustatus[u] = "promoted"
          THEN slot[t] \in Proposal /\ ustatus[slot[t]] = "promoted" ELSE slot[t] = "old"

\* With one kernel upgrade of an environment at a time, its node is the one before the
\* upgrade or one that answered its health check, and base knows every node process.
FrontDoorIsChecked ==
  Cardinality(Of("kernel")) <= 1 =>
    /\ blue \in {"old"} \cup checked
    /\ procs \subseteq {blue, green} \cup draining \cup dropping

\* All three: no name and no environment is left to what was not verified.
UpgradeIsSafe == OldServesUntilVerified /\ EndIsClean /\ FrontDoorIsChecked

\* A proposal that ended stays as it ended.
EndsAreFinal == [][\A u \in Proposal : ustatus[u] \in Terminal => ustatus'[u] = ustatus[u]]_upVars

\* Every proposal ends, promoted or rolled back.
UpgradesEnd == <>[](\A u \in Proposal : ustatus[u] \in {"new"} \cup Terminal)
=============================================================================
