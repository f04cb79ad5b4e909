------------------------------ MODULE FrontDoor ------------------------------
(***************************************************************************)
(* base's socket (rs/base/src/server.rs, peer.rs, facaderpc.rs,            *)
(* runtime.rs).  A connection reads frames and starts a task for each; a   *)
(* task is checked against the scope of its connection, then asks base's   *)
(* actor, or asks it for the environment's node and sends that a request   *)
(* of its own, or starts a pump that streams events to the client.         *)
(* One client, whose requests are numbered in the order it sends them;     *)
(* the node of the root environment, whose connections are numbered.       *)
(***************************************************************************)
EXTENDS Naturals, Sequences, FiniteSets, Focus

CONSTANTS
  DoorWorlds,     \* [wants, patient, drops, hangs, detach]: the client's requests, each [m, env];
                  \* does it wait for an answer before the next; how often the node's
                  \* connection drops; may the node not answer; exit_on_detach
  root_env

NoEnv == "none"

\* A world; the root environment has a name.
ASSUME DoorAssumption ==
  /\ root_env \in STRING \ {NoEnv}
  /\ \A w \in DoorWorlds : w \in [wants : Seq([m : STRING, env : STRING]), patient : BOOLEAN,
                                  drops : Nat, hangs : BOOLEAN, detach : BOOLEAN]

VARIABLES
  door,    \* the client's connection: [open, scope, pump, said]
  req,     \* the tasks: [at, env, peer, got]
  cmds,    \* the actor's queue
  actor,   \* the actor: [peer, gen, row, attached, stopped]
  peers,   \* the node's connections: [up, waiting, wire]
  dworld,
  drops

doorVars == <<door, req, cmds, actor, peers, dworld, drops>>

DoorRequests == DOMAIN dworld.wants
MethodOf(i) == dworld.wants[i].m
Named(i) == dworld.wants[i].env
NoPeer == 0
ActorCmd(t, i) == [t |-> t, i |-> i]
Sent(cmd) == cmds' = Append(cmds, cmd)
At(i, l) == req[i].at = l
Goes(i, l) == req' = [req EXCEPT ![i].at = l]
Ends(i, got) == req' = [req EXCEPT ![i] = [@ EXCEPT !.at = "done", !.got = <<got, 0>>]]

DoorInit ==
  /\ dworld \in DoorWorlds
  /\ door = [open |-> TRUE, scope |-> NoEnv, pump |-> "none", said |-> 0]
  /\ req = [i \in DoorRequests |-> [at |-> "unsent", env |-> NoEnv, peer |-> NoPeer, got |-> <<"none", 0>>]]
  /\ cmds = <<>>
  /\ actor = [peer |-> 1, gen |-> 1, row |-> 0, attached |-> FALSE, stopped |-> FALSE]
  /\ peers = <<[up |-> TRUE, waiting |-> {}, wire |-> <<>>]>>
  /\ drops = 0

---------------------------------------------------------------------------
(* connection()                                                            *)

ClientSends(i) ==
  /\ door.open /\ i = door.said + 1
  /\ (dworld.patient /\ i > 1) => At(i - 1, "done")
  /\ door' = [door EXCEPT !.said = i] /\ Goes(i, "guard")
  /\ UNCHANGED <<cmds, actor, peers, dworld, drops>>

\* The reader ends: the pumps are cancelled and the actor hears of it.
ClientGone ==
  /\ door.open /\ (dworld.patient => \A i \in 1 .. door.said : At(i, "done"))
  /\ door' = [door EXCEPT !.open = FALSE] /\ Sent(ActorCmd("gone", 0))
  /\ UNCHANGED <<req, actor, peers, dworld, drops>>

\* dispatch(): methods for the environment's node, for its harness, for the facades,
\* which answer in the task itself; every other one is a command of the actor.
NodeMethods == {"health", "tree", "reload", "svc", "plugin"}
SessionMethods == {"session.create", "session.prompt", "session.status", "session.history", "session.resume"}
FacadeReads == {"kv.get", "kv.range", "kv.watch", "blob.put", "blob.get", "blob.open", "blob.stat", "timer.set",
                "timer.list", "timer.del", "trigger.set", "trigger.list", "trigger.del"}
FacadeWrites == {"kv.set", "kv.del", "kv.cas", "kv.incr", "kv.expire", "kv.lease", "kv.keep_alive"}
Queries == {"query.text", "query.scan", "query.vector"}
Records == {"events.append", "episodes.append", "tool_results.append", "blobs.put", "blobs.get", "state.retain",
            "config.get", "config.patch", "approval.request", "log.query", "snap.list", "snap.export", "snap.pull",
            "sandbox.exec", "sandbox.destroy"}

\* policy(): what a bound caller may do in its own environment, and what it may do as
\* it is; everything else is refused to it.
EnvSafe == NodeMethods \cup SessionMethods \cup Records
Open == {"status", "auth.scope", "approval.list", "approval.answer", "ingress.register", "ingress.unregister"}

Barebone == {"kill", "resume", "reset", "runtime.spawn", "runtime.stop", "upgrade.propose", "upgrade.status",
             "upgrade.list", "stop"}

\* Any environment a caller names is good.
scoped_envAny(i) == IF Named(i) = NoEnv THEN root_env ELSE Named(i)

\* scoped_env(): the bound environment, or the one named; none if that is another.
scoped_env(i) ==
  IF door.scope = NoEnv THEN IF Named(i) = NoEnv THEN root_env ELSE Named(i)
  ELSE IF Named(i) \in {NoEnv, door.scope} THEN door.scope ELSE NoEnv

\* scoped_env_confine(): a write lands in the bound environment whatever it names.
confined_env(i) == IF door.scope # NoEnv THEN door.scope ELSE scoped_env(i)

\* enforce_scope(), and what the self-scoping facades ask for when they start.
Scoped(i) ==
  IF MethodOf(i) \in FacadeWrites THEN confined_env(i)
  ELSE IF MethodOf(i) \in EnvSafe \cup Queries \cup FacadeReads \cup {"bus.subscribe"} THEN scoped_env(i)
  ELSE IF MethodOf(i) \in Open THEN IF Named(i) = NoEnv THEN root_env ELSE Named(i)
  ELSE IF door.scope # NoEnv THEN NoEnv ELSE scoped_env(i)

\* A new turn asks the actor first whether the environment is halted.
Prompts == {"session.prompt", "session.create"}

\* Where dispatch() sends a method.
Route(m) ==
  IF m \in NodeMethods \cup (SessionMethods \ Prompts) THEN "peer_of"
  ELSE IF m = "bus.subscribe" THEN "attach"
  ELSE IF m \in FacadeReads \cup FacadeWrites THEN "local" ELSE "ask"

\* A bound caller's config.patch is refused too where its target is not the environment.
Guard(i) ==
  /\ At(i, "guard")
  /\ \/ Scoped(i) = NoEnv /\ Ends(i, "denied")
     \/ Scoped(i) # NoEnv /\ req' = [req EXCEPT ![i] = [@ EXCEPT !.env = Scoped(i), !.at = Route(MethodOf(i))]]
     \/ MethodOf(i) = "config.patch" /\ door.scope # NoEnv /\ Ends(i, "denied")
  /\ UNCHANGED <<door, cmds, actor, peers, dworld, drops>>

\* ask(): the command and the end of the task's wait.
AskActor(i) ==
  /\ At(i, "ask") /\ Sent(ActorCmd(MethodOf(i), i)) /\ Goes(i, "asked")
  /\ UNCHANGED <<door, actor, peers, dworld, drops>>

PeerOf(i) ==
  /\ At(i, "peer_of") /\ Sent(ActorCmd("peer_of", i)) /\ Goes(i, "asked")
  /\ UNCHANGED <<door, actor, peers, dworld, drops>>

\* The key-value facade answers in the task itself.
Local(i) ==
  /\ At(i, "local") /\ Ends(i, "ok") /\ UNCHANGED <<door, cmds, actor, peers, dworld, drops>>

\* The reply the actor gave away comes: an approval decided, a command of a sandbox, a
\* node or a worker done.
Release(i) ==
  /\ At(i, "held") /\ Ends(i, "ok") /\ UNCHANGED <<door, cmds, actor, peers, dworld, drops>>

\* auth.scope(): the connection is bound after the actor has checked the token.
Bind(i) ==
  /\ At(i, "bind") /\ door' = [door EXCEPT !.scope = req[i].env] /\ Ends(i, "ok")
  /\ UNCHANGED <<cmds, actor, peers, dworld, drops>>

\* bus.subscribe: the connection counts as attached, and a pump starts.
Subscribe(i) ==
  /\ At(i, "attach") /\ Sent(ActorCmd("attach", i)) /\ Ends(i, "ok")
  /\ door' = [door EXCEPT !.pump = "on"]
  /\ UNCHANGED <<actor, peers, dworld, drops>>

PumpEnds ==
  /\ door.pump = "on" /\ ~door.open /\ door' = [door EXCEPT !.pump = "ended"]
  /\ UNCHANGED <<req, cmds, actor, peers, dworld, drops>>

---------------------------------------------------------------------------
(* Peer: requests to the node.                                             *)

Asks(peer, i) == [peer EXCEPT !.waiting = @ \cup {i}, !.wire = Append(@, i)]
Waits(p, i) == peers' = [peers EXCEPT ![p] = Asks(@, i)]

\* On a connection that is gone the frame may still be taken by the writer, which fails
\* later and tells nobody.
Request(i) ==
  /\ At(i, "request")
  /\ \/ Waits(req[i].peer, i) /\ Goes(i, "waiting")
     \/ ~peers[req[i].peer].up /\ Ends(i, "node_gone") /\ UNCHANGED peers
  /\ UNCHANGED <<door, cmds, actor, dworld, drops>>

\* resolve(): the waiter of that number, if there is one still.
Waiter(p, i) == peers[p].waiting \cap {i}

Resolved(peer, w, k) ==
  [peer EXCEPT !.waiting = @ \ w, !.wire = SubSeq(@, 1, k - 1) \o SubSeq(@, k + 1, Len(@))]

NodeAnswers(p, k) ==
  /\ peers[p].up /\ k \in DOMAIN peers[p].wire
  /\ LET i == peers[p].wire[k]
         w == Waiter(p, i)
     IN /\ peers' = [peers EXCEPT ![p] = Resolved(@, w, k)]
        /\ req' = [j \in DoorRequests |->
                     IF j \in w THEN [req[j] EXCEPT !.at = "answered", !.got = <<"ok", i>>] ELSE req[j]]
  /\ UNCHANGED <<door, cmds, actor, dworld, drops>>


TimesOut(i) ==
  /\ At(i, "waiting") /\ (dworld.hangs \/ ~peers[req[i].peer].up)
  /\ peers' = [peers EXCEPT ![req[i].peer].waiting = @ \ {i}]
  /\ req' = [req EXCEPT ![i] = [@ EXCEPT !.at = "answered", !.got = <<"timeout", 0>>]]
  /\ UNCHANGED <<door, cmds, actor, dworld, drops>>

\* fail_all(), when the node's connection ends; its process is gone too.
NodeDrops(p) ==
  /\ peers[p].up /\ p = Len(peers) /\ drops < dworld.drops /\ drops' = drops + 1
  /\ req' = [j \in DoorRequests |->
               IF j \in peers[p].waiting THEN [req[j] EXCEPT !.at = "answered", !.got = <<"disconnected", 0>>] ELSE req[j]]
  /\ peers' = [peers EXCEPT ![p] = [up |-> FALSE, waiting |-> {}, wire |-> <<>>]]
  /\ Sent(ActorCmd("exited", p))
  /\ UNCHANGED <<door, actor, dworld>>

\* A node started in its place connects and registers.
NodeConnects ==
  /\ ~peers[Len(peers)].up /\ actor.gen > Len(peers)
  /\ peers' = Append(peers, [up |-> TRUE, waiting |-> {}, wire |-> <<>>])
  /\ Sent(ActorCmd("node.register", Len(peers) + 1))
  /\ UNCHANGED <<door, req, actor, dworld, drops>>

\* What came back goes to the client, or, of a probe, to the actor.
Finish(i) ==
  /\ At(i, "answered")
  /\ IF MethodOf(i) = "runtime.register" THEN Goes(i, "asked") /\ Sent(ActorCmd("probed", i))
     ELSE Goes(i, "done") /\ UNCHANGED cmds
  /\ UNCHANGED <<door, actor, peers, dworld, drops>>

---------------------------------------------------------------------------
(* The actor handles one command at a time.                                *)

First(ts) == ~actor.stopped /\ cmds # <<>> /\ Head(cmds).t \in ts /\ cmds' = Tail(cmds)
It == Head(cmds).i

ToNode(i) == req' = [req EXCEPT ![i] = [@ EXCEPT !.at = "request", !.peer = actor.peer]]

OnPeerOf ==
  /\ First({"peer_of"})
  /\ IF actor.peer = NoPeer THEN Ends(It, "not_registered") ELSE ToNode(It)
  /\ UNCHANGED <<door, actor, peers, dworld, drops>>

\* status(): a snapshot, and the tree of a node that is registered.
OnStatus ==
  /\ First({"status"})
  /\ IF actor.peer = NoPeer THEN Ends(It, "ok") ELSE ToNode(It)
  /\ UNCHANGED <<door, actor, peers, dworld, drops>>

\* The probe of a runtime has an outcome.
ProbeIs(i, got) == req' = [req EXCEPT ![i] = [@ EXCEPT !.at = "answered", !.got = got]]

\* runtime_register(): check_runtime() refuses it, or probe() asks its health target at the
\* node, if there is one, or by http.
OnRuntime ==
  /\ First({"runtime.register"})
  /\ \/ Ends(It, "unauthorized")
     \/ IF actor.peer = NoPeer THEN ProbeIs(It, <<"not_registered", 0>>) ELSE ToNode(It)
     \/ \E got \in {<<"ok", It>>, <<"timeout", 0>>} : ProbeIs(It, got)
  /\ UNCHANGED <<door, actor, peers, dworld, drops>>

OnPrompt ==
  /\ First(Prompts) /\ (Goes(It, "peer_of") \/ Ends(It, "halted"))
  /\ UNCHANGED <<door, actor, peers, dworld, drops>>

OnScope ==
  /\ First({"auth.scope"}) /\ (Goes(It, "bind") \/ Ends(It, "unauthorized"))
  /\ UNCHANGED <<door, actor, peers, dworld, drops>>

\* Commands whose reply the actor may hand on: to an approval, a sandbox, a node it starts
\* or a worker it asks for its packs.
Slow == {"approval.request", "config.patch", "snap.export", "snap.pull", "runtime.spawn", "ingress.register",
         "sandbox.exec"}

OnRecords ==
  /\ First(Records \cup Queries \cup (Open \ {"auth.scope", "status"}) \cup (Barebone \ {"stop"}))
  /\ Ends(It, "ok") \/ (MethodOf(It) \in Slow /\ Goes(It, "held"))
  /\ UNCHANGED <<door, actor, peers, dworld, drops>>

OnStop ==
  /\ First({"stop"}) /\ actor' = [actor EXCEPT !.stopped = TRUE] /\ Ends(It, "ok")
  /\ UNCHANGED <<door, peers, dworld, drops>>

\* runtime_probed(): recorded if its probe was answered, whatever happened meanwhile.
OnProbed ==
  /\ First({"probed"})
  /\ LET ok == req[It].got = <<"ok", It>> IN
     actor' = IF ok THEN [actor EXCEPT !.row = It] ELSE actor
  /\ Goes(It, "done") /\ UNCHANGED <<door, peers, dworld, drops>>

OnAttach ==
  /\ First({"attach"}) /\ actor' = [actor EXCEPT !.attached = TRUE]
  /\ UNCHANGED <<door, req, peers, dworld, drops>>

\* on_gone(): with exit_on_detach base stops when the last one attached left.
OnGone ==
  /\ First({"gone"})
  /\ actor' = [actor EXCEPT !.attached = FALSE, !.stopped = actor.attached /\ dworld.detach]
  /\ UNCHANGED <<door, req, peers, dworld, drops>>

\* spawn_node() forgets the runtime and the connection of the last node.
OnExited ==
  /\ First({"exited"}) /\ actor' = [actor EXCEPT !.peer = NoPeer, !.gen = @ + 1, !.row = 0]
  /\ UNCHANGED <<door, req, peers, dworld, drops>>

OnRegister ==
  /\ First({"node.register"}) /\ actor' = [actor EXCEPT !.peer = It]
  /\ UNCHANGED <<door, req, peers, dworld, drops>>

---------------------------------------------------------------------------
ActorStep ==
  \/ OnPeerOf \/ OnStatus \/ OnRuntime \/ OnPrompt \/ OnScope \/ OnRecords \/ OnStop \/ OnProbed \/ OnAttach \/ OnGone
  \/ OnExited \/ OnRegister
TaskStep(i) ==
  \/ Guard(i) \/ AskActor(i) \/ PeerOf(i) \/ Local(i) \/ Release(i) \/ Bind(i) \/ Subscribe(i) \/ Request(i)
  \/ TimesOut(i) \/ Finish(i)

DoorNext ==
  \/ ActorStep \/ ClientGone \/ PumpEnds \/ NodeConnects
  \/ \E i \in DoorRequests : ClientSends(i) \/ TaskStep(i)
  \/ \E p \in DOMAIN peers : NodeDrops(p) \/ \E k \in DOMAIN peers[p].wire : NodeAnswers(p, k)

DoorSpec == DoorInit /\ [][DoorNext]_doorVars

\* Tasks, pumps and the actor run; a node that does not hang answers.
DoorFairness ==
  /\ WF_doorVars(focus = "door" /\ ActorStep) /\ WF_doorVars(focus = "door" /\ PumpEnds)
  /\ \A i \in 1 .. 3 : WF_doorVars(focus = "door" /\ i \in DoorRequests /\ TaskStep(i))
  /\ WF_doorVars(/\ focus = "door" /\ ~dworld.hangs
                 /\ \E p \in DOMAIN peers : \E k \in DOMAIN peers[p].wire : NodeAnswers(p, k))

---------------------------------------------------------------------------
(* Properties                                                              *)

\* A client that waited for the answer to its auth.scope is confined from then on: what
\* it is let do, it does in the environment it was bound to last, but for the methods
\* that are open to a bound caller as they are (facaderpc.rs:127-156).
ScopedStaysHome ==
  dworld.patient =>
    \A i, j \in DoorRequests :
      (j < i /\ MethodOf(j) = "auth.scope" /\ req[j].got = <<"ok", 0>> /\ MethodOf(i) \notin Open /\ req[i].env # NoEnv
       /\ ~\E k \in j + 1 .. i - 1 : MethodOf(k) = "auth.scope")
        => req[i].env = req[j].env

\* An answer of the node reaches the task that asked, and a waiter is registered exactly
\* as long as its task waits: a late answer, after a timeout or a lost connection, finds
\* nobody, and no entry outlives its task.
AnswersFindTheirTask ==
  /\ \A i \in DoorRequests : \A j \in DoorRequests : req[i].got = <<"ok", j>> => i = j
  /\ \A p \in DOMAIN peers : \A i \in peers[p].waiting : At(i, "waiting") /\ req[i].peer = p

\* Both: what a request does and what it is told are its own connection's and its own.
DoorIsSound == ScopedStaysHome /\ AnswersFindTheirTask

\* Every request is answered, whether the node answers, hangs or goes, unless base stops.
RequestsAreAnswered ==
  <>[](\A i \in DoorRequests : req[i].at \in {"unsent", "done"} \/ actor.stopped)

\* A pump ends with the connection it streams to.
PumpsEnd == <>[](door.pump = "on" => door.open)

\* With exit_on_detach base stops after the last subscriber has left, if that client
\* waited for the answer to its subscribe (otherwise Attach may be queued behind Gone).
DetachStops ==
  <>[](dworld.detach /\ dworld.patient /\ door.pump # "none" => door.open \/ actor.stopped)
=============================================================================
