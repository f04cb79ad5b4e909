-------------------------- MODULE SupervisorProofs --------------------------
(***************************************************************************)
(* Proofs about the base actor.  A handler is a function of the actor's    *)
(* record, made of a few helpers; each helper has a lemma that says what   *)
(* it leaves alone, and each part of the invariant a lemma per handler.    *)
(***************************************************************************)
EXTENDS Supervisor, FiniteSetTheorems, TLAPS

\* The record of the actor.
Base ==
  [nodes : [Env -> Node \cup {None}], gen : Nat, up : SUBSET Process, ghosts : SUBSET Process,
   said : SUBSET Process, harnesses : [Env -> Nat], starts : [Env -> Nat],
   killed : BOOLEAN, stopping : BOOLEAN, promoted : BOOLEAN, lost : SUBSET Process,
   unstarted : SUBSET Env]

\* Generations and harness numbers are given out in order.
Numbered(s) ==
  \A e \in Env : s.nodes[e] # None =>
    s.nodes[e].gen <= s.gen /\ s.nodes[e].hpid <= s.harnesses[e]
BaseOK(s) == s \in Base /\ Numbered(s)

TypeInv ==
  /\ BaseOK(b) /\ cmds \in Seq(Cmd) /\ exits \in Seq(Exit) /\ tasks \subseteq Task
  /\ left \in World

---------------------------------------------------------------------------
(* What the helpers do.                                                    *)

\* A record of an environment is not the mark of its absence.
LEMMA NodeIsNotNone == \A n \in Node : n # None
BY DEF Node, None

\* The record of a known environment is a node's.
LEMMA KnownIsNode ==
  ASSUME NEW s \in Base, NEW e \in Env, s.nodes[e] # None
  PROVE  s.nodes[e] \in Node
BY DEF Base

\* The fields that no helper but start() writes.
SameCounts(s, t) ==
  /\ t.gen = s.gen /\ t.said = s.said /\ t.harnesses = s.harnesses /\ t.starts = s.starts
  /\ t.killed = s.killed /\ t.stopping = s.stopping /\ t.lost = s.lost

\* A harness that runs is one its record names, or is lost.
OwnedIn(s, p) ==
  p \in s.lost \/ (p.env # Guardian /\ s.nodes[p.env] # None /\ s.nodes[p.env].hpid = p.num)
Owned(s) == \A p \in s.up : p.num > 0 => OwnedIn(s, p)

\* The effect of a write to one record.
Replaced(s, e, n, t) ==
  /\ BaseOK(t) /\ t.nodes = [s.nodes EXCEPT ![e] = n] /\ t.up = s.up /\ t.ghosts = s.ghosts
  /\ SameCounts(s, t)

\* A record is replaced (Base.nodes.insert).
LEMMA ReplaceDoes ==
  ASSUME NEW s, BaseOK(s), NEW e \in Env, NEW n \in Node, n.gen <= s.gen, n.hpid <= s.harnesses[e]
  PROVE  Replaced(s, e, n, [s EXCEPT !.nodes[e] = n])
<1> DEFINE t == [s EXCEPT !.nodes[e] = n]
<1>1. t \in Base
  BY DEF BaseOK, Base
<1>2. /\ t.nodes = [s.nodes EXCEPT ![e] = n] /\ t.up = s.up /\ t.ghosts = s.ghosts
      /\ SameCounts(s, t)
  BY DEF BaseOK, Base, SameCounts
<1>3. s.nodes \in [Env -> Node \cup {None}]
  BY DEF BaseOK, Base
<1> HIDE DEF t
<1>4. Numbered(t)
  BY <1>2, <1>3 DEF BaseOK, Numbered, SameCounts
<1> QED
  BY <1>1, <1>2, <1>4 DEF BaseOK, Replaced, t

\* The effect of node::terminate: what it kills was up and is a ghost then.
Killed(s, X, t) ==
  /\ BaseOK(t) /\ t.up = s.up \ X /\ t.ghosts = s.ghosts \cup (X \cap s.up)
  /\ t.nodes = s.nodes /\ SameCounts(s, t)

\* node::terminate has that effect.
LEMMA TerminateDoes ==
  ASSUME NEW s, BaseOK(s), NEW P
  PROVE  Killed(s, P, Terminate(s, P))
<1> DEFINE t == Terminate(s, P)
<1>1. /\ t \in Base /\ t.up = s.up \ P /\ t.ghosts = s.ghosts \cup (P \cap s.up)
      /\ t.nodes = s.nodes /\ t.gen = s.gen /\ t.said = s.said /\ t.harnesses = s.harnesses
      /\ t.starts = s.starts /\ t.killed = s.killed /\ t.stopping = s.stopping /\ t.lost = s.lost
  BY DEF BaseOK, Base, Terminate
<1> HIDE DEF t
<1>2. Numbered(t)
  BY <1>1 DEF BaseOK, Numbered
<1> QED
  BY <1>1, <1>2 DEF BaseOK, t, Killed, SameCounts

\* What died is a ghost, and nothing else is new among the ghosts.
Reaped(s, t) == t.up \subseteq s.up /\ t.ghosts = s.ghosts \cup (s.up \ t.up)

\* The effect of harness_halt(): harness processes die, and the records of X
\* have none.
HarnessesOff(s, X, t) ==
  /\ BaseOK(t) /\ SameCounts(s, t) /\ Reaped(s, t)
  /\ \A p \in s.up : p.num = 0 => p \in t.up
  /\ \A p \in t.up : p.num > 0 /\ p.env \in X => p.num # s.nodes[p.env].hpid
  /\ \A e \in Env : t.nodes[e] =
       IF e \in X /\ s.nodes[e] # None
       THEN [s.nodes[e] EXCEPT !.harness = "off", !.hpid = 0] ELSE s.nodes[e]

\* harness_halt() has that effect.
LEMMA HarnessHaltDoes ==
  ASSUME NEW s, BaseOK(s), NEW X
  PROVE  HarnessesOff(s, X, HarnessHalt(s, X))
<1> DEFINE dead == UNION {HarnessProc(s, e) : e \in X}
           n(e) == IF e \in X /\ s.nodes[e] # None
                   THEN [s.nodes[e] EXCEPT !.harness = "off", !.hpid = 0] ELSE s.nodes[e]
           h == Terminate(s, dead)
           t == [h EXCEPT !.nodes = [e \in Env |-> n(e)]]
<1>1. HarnessHalt(s, X) = t
  BY DEF HarnessHalt
<1>2. /\ BaseOK(h) /\ h.up = s.up \ dead /\ h.ghosts = s.ghosts \cup (dead \cap s.up)
      /\ SameCounts(s, h)
  BY TerminateDoes DEF Killed
<1>3. \A p \in dead : p.num # 0
  <2>1. \A e \in X : \A p \in HarnessProc(s, e) : p.num > 0 /\ p \in Process
    BY DEF HarnessProc, BaseOK, Base
  <2> QED
    BY <2>1 DEF Process
<1>9. \A p \in s.up \ dead : p.num > 0 /\ p.env \in X => p.num # s.nodes[p.env].hpid
  BY DEF HarnessProc
<1>4. \A e \in Env : n(e) \in Node \cup {None}
  <2>1. \A e \in Env : s.nodes[e] # None => s.nodes[e] \in Node
    BY KnownIsNode DEF BaseOK
  <2>2. \A m \in Node : [m EXCEPT !.harness = "off", !.hpid = 0] \in Node
    BY DEF Node, HarnessState
  <2> QED
    BY <2>1, <2>2
<1>5. \A e \in Env : n(e) # None => n(e).gen <= s.gen /\ n(e).hpid <= s.harnesses[e]
  <2>1. \A e \in Env : s.nodes[e] # None =>
          /\ s.nodes[e] \in Node /\ s.nodes[e].gen <= s.gen /\ s.nodes[e].hpid <= s.harnesses[e]
          /\ s.harnesses[e] \in Nat
    BY KnownIsNode DEF BaseOK, Numbered, Base
  <2>2. \A m \in Node : /\ [m EXCEPT !.harness = "off", !.hpid = 0].gen = m.gen
                         /\ [m EXCEPT !.harness = "off", !.hpid = 0].hpid = 0
    BY DEF Node
  <2> QED
    BY <2>1, <2>2
<1> HIDE DEF dead, n, h
<1>6. /\ t \in Base /\ t.up = h.up /\ t.ghosts = h.ghosts /\ SameCounts(h, t)
      /\ t.nodes = [e \in Env |-> n(e)]
  BY <1>2, <1>4 DEF BaseOK, Base, SameCounts
<1> HIDE DEF t
<1>7. BaseOK(t)
  BY <1>2, <1>5, <1>6 DEF BaseOK, Numbered, SameCounts
<1>8. Reaped(s, t) /\ SameCounts(s, t) /\ \A p \in s.up : p.num = 0 => p \in t.up
  BY <1>2, <1>3, <1>6 DEF Reaped, SameCounts
<1>10. \A p \in t.up : p.num > 0 /\ p.env \in X => p.num # s.nodes[p.env].hpid
  BY <1>2, <1>6, <1>9
<1> QED
  BY <1>1, <1>6, <1>7, <1>8, <1>10 DEF n, HarnessesOff

\* A record after halt().
OffNode(n) ==
  [n EXCEPT !.harness = "off", !.hpid = 0, !.pid = 0, !.registered = FALSE, !.peer = 0,
            !.worker = "off", !.sandbox = FALSE]

\* The effect of halt(): the nodes of X die too, the others' do not.
NodesOff(s, X, t) ==
  /\ BaseOK(t) /\ SameCounts(s, t) /\ Reaped(s, t)
  /\ \A p \in s.up : p.num = 0 =>
       (p \in t.up <=> ~(p.env \in X /\ p.gen = s.nodes[p.env].pid))
  /\ \A p \in t.up : p.num > 0 /\ p.env \in X => p.num # s.nodes[p.env].hpid
  /\ \A e \in Env : t.nodes[e] = IF e \in X THEN OffNode(s.nodes[e]) ELSE s.nodes[e]

\* halt() of known environments has that effect.
LEMMA HaltDoes ==
  ASSUME NEW s, BaseOK(s), NEW X, X \subseteq Known(s)
  PROVE  NodesOff(s, X, Halt(s, X))
<1> DEFINE h == HarnessHalt(s, X)
           dead == UNION {NodeProc(h, e) : e \in X}
           n(e) == IF e \in X /\ h.nodes[e] # None
                   THEN [h.nodes[e] EXCEPT !.pid = 0, !.registered = FALSE, !.peer = 0,
                                           !.worker = "off", !.sandbox = FALSE]
                   ELSE h.nodes[e]
           d == Terminate(h, dead)
           t == [d EXCEPT !.nodes = [e \in Env |-> n(e)]]
<1>1. Halt(s, X) = t
  BY DEF Halt
<1> HIDE DEF t, d
<1>2. HarnessesOff(s, X, h)
  BY HarnessHaltDoes
<1> HIDE DEF h
<1>3. \A e \in X : e \in Env /\ s.nodes[e] # None /\ s.nodes[e] \in Node
  BY KnownIsNode DEF BaseOK, Known
<1>4. \A k \in Node : /\ [k EXCEPT !.harness = "off", !.hpid = 0] \in Node
                       /\ [k EXCEPT !.harness = "off", !.hpid = 0].pid = k.pid
                       /\ [[k EXCEPT !.harness = "off", !.hpid = 0] EXCEPT !.pid = 0,
                             !.registered = FALSE, !.peer = 0, !.worker = "off", !.sandbox = FALSE]
                          = OffNode(k)
                       /\ OffNode(k) \in Node /\ OffNode(k).gen = k.gen /\ OffNode(k).hpid = 0
  BY DEF Node, HarnessState, WorkerState, OffNode
<1>15. \A e \in X : h.nodes[e] = [s.nodes[e] EXCEPT !.harness = "off", !.hpid = 0]
  BY <1>2, <1>3 DEF HarnessesOff
<1>5. \A e \in X : /\ n(e) = OffNode(s.nodes[e]) /\ n(e) \in Node /\ n(e).gen = s.nodes[e].gen
                   /\ n(e).hpid = 0 /\ h.nodes[e].pid = s.nodes[e].pid
  <2> TAKE e \in X
  <2>1. h.nodes[e] # None /\ h.nodes[e].pid = s.nodes[e].pid
    BY <1>3, <1>4, <1>15, NodeIsNotNone
  <2>2. n(e) = OffNode(s.nodes[e])
    BY <1>3, <1>4, <1>15, <2>1
  <2>3. /\ OffNode(s.nodes[e]) \in Node /\ OffNode(s.nodes[e]).gen = s.nodes[e].gen
        /\ OffNode(s.nodes[e]).hpid = 0
    BY <1>3, <1>4
  <2> HIDE DEF n
  <2> QED
    BY <2>1, <2>2, <2>3
<1>6. \A e \in Env : e \notin X => n(e) = s.nodes[e]
  BY <1>2 DEF HarnessesOff
<1>8. \A p \in h.up : p.num = 0 =>
        (p \in dead <=> (p.env \in X /\ p.gen = s.nodes[p.env].pid))
  <2>1. \A p : p \in dead <=> \E e \in X : p \in NodeProc(h, e)
    OBVIOUS
  <2>2. \A p \in h.up : \A e \in X : p.num = 0 =>
          (p \in NodeProc(h, e) <=> p.env = e /\ p.gen = s.nodes[e].pid)
    BY <1>5 DEF NodeProc
  <2> HIDE DEF dead
  <2> QED
    BY <2>1, <2>2
<1> HIDE DEF dead, n
<1>7. /\ BaseOK(d) /\ d.up = h.up \ dead /\ d.ghosts = h.ghosts \cup (dead \cap h.up)
      /\ SameCounts(h, d)
  <2>1. BaseOK(h)
    BY <1>2 DEF HarnessesOff
  <2>2. Killed(h, dead, d)
    BY <2>1, TerminateDoes DEF d
  <2> QED
    BY <2>2 DEF Killed
<1>9. \A e \in Env : n(e) \in Node \cup {None}
  BY <1>5, <1>6 DEF BaseOK, Base
<1>10. /\ t \in Base /\ t.up = d.up /\ t.ghosts = d.ghosts /\ SameCounts(d, t)
       /\ t.nodes = [e \in Env |-> n(e)]
  BY <1>7, <1>9 DEF BaseOK, Base, SameCounts, t
<1>11. SameCounts(s, t)
  BY <1>2, <1>7, <1>10 DEF SameCounts, HarnessesOff
<1>12. Numbered(t)
  <2>1. \A e \in Env : s.harnesses[e] \in Nat /\ s.gen \in Nat
    BY DEF BaseOK, Base
  <2>2. SUFFICES ASSUME NEW e \in Env, n(e) # None
                 PROVE  n(e).gen <= s.gen /\ n(e).hpid <= s.harnesses[e]
    BY <1>10, <1>11 DEF Numbered, SameCounts
  <2>3. CASE e \in X
    BY <1>3, <1>5, <2>1, <2>3 DEF BaseOK, Numbered
  <2>4. CASE e \notin X
    BY <1>6, <2>2, <2>4 DEF BaseOK, Numbered
  <2> QED
    BY <2>3, <2>4
<1>13. Reaped(s, t)
  BY <1>2, <1>7, <1>10 DEF Reaped, HarnessesOff
<1>14. \A p \in s.up : p.num = 0 =>
         (p \in t.up <=> ~(p.env \in X /\ p.gen = s.nodes[p.env].pid))
  BY <1>2, <1>7, <1>8, <1>10 DEF HarnessesOff
<1>16. \A p \in t.up : p.num > 0 /\ p.env \in X => p.num # s.nodes[p.env].hpid
  BY <1>2, <1>7, <1>10 DEF HarnessesOff
<1> QED
  BY <1>1, <1>5, <1>6, <1>10, <1>11, <1>12, <1>13, <1>14, <1>16 DEF BaseOK, NodesOff

\* The effect of prune(): halt(), and the records of X are gone.
Pruned(s, X, t) ==
  /\ BaseOK(t) /\ SameCounts(s, t) /\ Reaped(s, t)
  /\ \A p \in s.up : p.num = 0 =>
       (p \in t.up <=> ~(p.env \in X /\ p.gen = s.nodes[p.env].pid))
  /\ \A p \in t.up : p.num > 0 /\ p.env \in X => p.num # s.nodes[p.env].hpid
  /\ \A e \in Env : t.nodes[e] = IF e \in X THEN None ELSE s.nodes[e]

\* prune() of known environments has that effect.
LEMMA PruneDoes ==
  ASSUME NEW s, BaseOK(s), NEW X, X \subseteq Known(s)
  PROVE  Pruned(s, X, Prune(s, X))
<1> DEFINE h == Halt(s, X)
           n(e) == IF e \in X THEN None ELSE h.nodes[e]
           t == [h EXCEPT !.nodes = [e \in Env |-> n(e)]]
<1>1. Prune(s, X) = t
  BY DEF Prune
<1> HIDE DEF t
<1>2. NodesOff(s, X, h)
  BY HaltDoes
<1> HIDE DEF h
<1>3. \A e \in Env : n(e) \in Node \cup {None} /\ n(e) = IF e \in X THEN None ELSE s.nodes[e]
  BY <1>2 DEF NodesOff, BaseOK, Base
<1> HIDE DEF n
<1>4. /\ t \in Base /\ t.up = h.up /\ t.ghosts = h.ghosts /\ SameCounts(h, t)
      /\ t.nodes = [e \in Env |-> n(e)]
  BY <1>2, <1>3 DEF NodesOff, BaseOK, Base, SameCounts, t
<1>5. SameCounts(s, t) /\ Reaped(s, t)
  BY <1>2, <1>4 DEF NodesOff, SameCounts, Reaped
<1>6. Numbered(t)
  BY <1>3, <1>4, <1>5 DEF Numbered, BaseOK, SameCounts
<1> QED
  BY <1>1, <1>2, <1>3, <1>4, <1>5, <1>6 DEF Pruned, NodesOff, BaseOK

\* The effect of start(): a process and a record of a new generation.
StartedAs(s, e, n, t) ==
  /\ BaseOK(t) /\ t.gen = s.gen + 1 /\ t.up = s.up \cup {Proc(e, s.gen + 1, 0)}
  /\ t.ghosts = s.ghosts /\ t.said = s.said /\ t.harnesses = s.harnesses
  /\ t.killed = s.killed /\ t.stopping = s.stopping /\ t.lost = s.lost
  /\ t.starts = [s.starts EXCEPT ![e] = @ + 1]
  /\ t.nodes = [s.nodes EXCEPT ![e] = Started(n, e, s.gen + 1)]

\* What start() writes into a record, and what it keeps of it.
LEMMA StartedDoes ==
  ASSUME NEW n \in Node, NEW e \in Env, NEW g \in Nat
  PROVE  LET m == Started(n, e, g) IN
         /\ m \in Node /\ m.gen = g /\ m.pid = g /\ ~m.registered /\ m.hpid = 0
         /\ m.restarts = n.restarts /\ m.parent = n.parent /\ m.depth = n.depth
         /\ m.halted = n.halted
BY DEF Started, Node, WorkerState, HarnessState

\* A staged record is a record.
LEMMA StagedIsNode ==
  ASSUME NEW p \in Env \cup {NoEnv}, NEW d \in Nat
  PROVE  LET m == Staged(p, d) IN
         /\ m \in Node /\ m.gen = 0 /\ m.pid = 0 /\ ~m.registered /\ m.hpid = 0 /\ m.restarts = 0
         /\ m.parent = p /\ m.depth = d
BY DEF Staged, Node, WorkerState, HarnessState

\* The record start() begins from.
OldNode(s, e, p) == IF s.nodes[e] = None THEN Staged(p, 0) ELSE s.nodes[e]

\* start() has that effect.
LEMMA StartDoes ==
  ASSUME NEW s, BaseOK(s), NEW e \in Env, NEW p \in Env \cup {NoEnv}
  PROVE  OldNode(s, e, p) \in Node /\ StartedAs(s, e, OldNode(s, e, p), Start(s, e, p))
<1> DEFINE n == OldNode(s, e, p)
           m == Started(n, e, s.gen + 1)
           t == [s EXCEPT !.gen = s.gen + 1, !.up = @ \cup {Proc(e, s.gen + 1, 0)},
                          !.starts[e] = @ + 1, !.unstarted = @ \ {e}, !.nodes[e] = m]
<1>1. Start(s, e, p) = t
  BY DEF Start, OldNode
<1>2. n \in Node
  BY StagedIsNode, KnownIsNode DEF OldNode, BaseOK
<1> HIDE DEF n
<1>3. s.gen + 1 \in Nat /\ s \in Base
  BY DEF BaseOK, Base
<1>4. m \in Node /\ m.gen = s.gen + 1 /\ m.hpid = 0
  BY <1>2, <1>3, StartedDoes
<1> HIDE DEF m
<1>5. Proc(e, s.gen + 1, 0) \in Process
  BY <1>3 DEF Proc, Process
<1>6. /\ t.gen = s.gen + 1 /\ t.up = s.up \cup {Proc(e, s.gen + 1, 0)}
      /\ t.ghosts = s.ghosts /\ t.said = s.said /\ t.harnesses = s.harnesses
      /\ t.killed = s.killed /\ t.stopping = s.stopping /\ t.lost = s.lost
      /\ t.starts = [s.starts EXCEPT ![e] = @ + 1]
      /\ t.nodes = [s.nodes EXCEPT ![e] = m]
  BY <1>3 DEF Base
<1>7. t \in Base
  <2>1. /\ [s.starts EXCEPT ![e] = @ + 1] \in [Env -> Nat]
        /\ [s.nodes EXCEPT ![e] = m] \in [Env -> Node \cup {None}]
        /\ s.up \cup {Proc(e, s.gen + 1, 0)} \in SUBSET Process /\ s.unstarted \ {e} \in SUBSET Env
    BY <1>3, <1>4, <1>5 DEF Base
  <2> QED
    BY <1>3, <2>1 DEF Base
<1> HIDE DEF t
<1>8. Numbered(t)
  <2>1. s.gen \in Nat /\ s.nodes \in [Env -> Node \cup {None}] /\ \A d \in Env : s.harnesses[d] \in Nat
    BY <1>3 DEF Base
  <2>2. \A d \in Env : s.nodes[d] # None => s.nodes[d].gen \in Nat
    BY <1>3, KnownIsNode DEF Node
  <2>3. SUFFICES ASSUME NEW d \in Env, t.nodes[d] # None
                 PROVE  t.nodes[d].gen <= s.gen + 1 /\ t.nodes[d].hpid <= s.harnesses[d]
    BY <1>6 DEF Numbered
  <2>4. CASE d = e
    BY <1>4, <1>6, <2>1, <2>4
  <2>5. CASE d # e
    BY <1>6, <2>1, <2>2, <2>3, <2>5 DEF BaseOK, Numbered
  <2> QED
    BY <2>4, <2>5
<1> QED
  BY <1>1, <1>2, <1>6, <1>7, <1>8 DEF StartedAs, BaseOK, m, n

\* The effect of a start() whose spawn failed: a generation is used up.
LEMMA SpawnFailedDoes ==
  ASSUME NEW s, BaseOK(s), NEW e \in Env
  PROVE  LET t == StartFailed(s, e, "spawn") IN
         /\ BaseOK(t) /\ t.gen = s.gen + 1 /\ t.up = s.up /\ t.ghosts = s.ghosts
         /\ t.said = s.said /\ t.harnesses = s.harnesses /\ t.starts = s.starts
         /\ t.killed = s.killed /\ t.stopping = s.stopping /\ t.nodes = s.nodes
         /\ t.lost = s.lost
<1> DEFINE t == [s EXCEPT !.gen = s.gen + 1, !.unstarted = s.unstarted \cup {e}]
<1>1. StartFailed(s, e, "spawn") = t
  BY DEF StartFailed
<1>2. /\ t \in Base /\ t.gen = s.gen + 1 /\ t.up = s.up /\ t.ghosts = s.ghosts
      /\ t.said = s.said /\ t.harnesses = s.harnesses /\ t.starts = s.starts
      /\ t.killed = s.killed /\ t.stopping = s.stopping /\ t.nodes = s.nodes /\ t.lost = s.lost
  <2>1. s \in Base /\ s.gen + 1 \in Nat /\ s.unstarted \cup {e} \in SUBSET Env
    BY DEF BaseOK, Base
  <2>2. PICK g \in Nat, u \in SUBSET Env : g = s.gen + 1 /\ u = s.unstarted \cup {e}
    BY <2>1
  <2>3. t = [s EXCEPT !.gen = g, !.unstarted = u]
    BY <2>2
  <2> HIDE DEF t
  <2> QED
    BY <2>1, <2>2, <2>3 DEF Base
<1>3. s.gen \in Nat /\ \A d \in Env : s.nodes[d] # None => s.nodes[d].gen \in Nat
  BY KnownIsNode DEF Node, BaseOK, Base
<1> HIDE DEF t
<1>4. Numbered(t)
  BY <1>2, <1>3 DEF BaseOK, Numbered
<1> QED
  BY <1>1, <1>2, <1>4 DEF BaseOK

\* The effect of a start() whose sandbox failed: the node runs, its record is
\* gone.
LEMMA SandboxFailedDoes ==
  ASSUME NEW s, BaseOK(s), NEW e \in Env
  PROVE  LET t == StartFailed(s, e, "sandbox") IN
         /\ BaseOK(t) /\ t.gen = s.gen + 1 /\ t.harnesses = s.harnesses /\ t.starts = s.starts
         /\ t.killed = s.killed /\ t.stopping = s.stopping
         /\ t.nodes = [s.nodes EXCEPT ![e] = None]
<1> DEFINE t == [s EXCEPT !.gen = s.gen + 1, !.unstarted = s.unstarted \cup {e},
                          !.up = s.up \cup {Proc(e, s.gen + 1, 0)}, !.nodes[e] = None]
<1>1. StartFailed(s, e, "sandbox") = t
  BY DEF StartFailed
<1>2. s \in Base /\ s.gen + 1 \in Nat
  BY DEF BaseOK, Base
<1>3. Proc(e, s.gen + 1, 0) \in Process
  BY <1>2 DEF Proc, Process
<1>4. /\ s.up \cup {Proc(e, s.gen + 1, 0)} \in SUBSET Process /\ s.unstarted \cup {e} \in SUBSET Env
      /\ [s.nodes EXCEPT ![e] = None] \in [Env -> Node \cup {None}]
  BY <1>2, <1>3 DEF Base
<1>5. /\ t \in Base /\ t.gen = s.gen + 1 /\ t.harnesses = s.harnesses /\ t.starts = s.starts
      /\ t.killed = s.killed /\ t.stopping = s.stopping
      /\ t.nodes = [s.nodes EXCEPT ![e] = None]
  BY <1>2, <1>4 DEF Base
<1>6. /\ s.gen \in Nat /\ s.nodes \in [Env -> Node \cup {None}]
      /\ \A d \in Env : s.nodes[d] # None => s.nodes[d].gen \in Nat
  BY KnownIsNode DEF Node, BaseOK, Base
<1> HIDE DEF t
<1>7. Numbered(t)
  BY <1>5, <1>6 DEF BaseOK, Numbered
<1> QED
  BY <1>1, <1>5, <1>7 DEF BaseOK

\* Two records that differ in what the harness, the worker and the sandbox do.
SameNode(n, m) ==
  /\ m.gen = n.gen /\ m.pid = n.pid /\ m.registered = n.registered /\ m.peer = n.peer
  /\ m.restarts = n.restarts /\ m.parent = n.parent /\ m.depth = n.depth

\* The effect of harness_boot(): harness processes, for environments that are
\* not halted; the nodes stay.
HarnessesOn(s, X, t) ==
  /\ BaseOK(t) /\ t.gen = s.gen /\ t.ghosts = s.ghosts /\ t.said = s.said
  /\ t.starts = s.starts /\ t.killed = s.killed /\ t.stopping = s.stopping
  /\ s.up \subseteq t.up /\ \A p \in t.up \ s.up : p.num > 0
  /\ Owned(s) => Owned(t)
  /\ \A e \in Env : s.nodes[e] = None => t.nodes[e] = None
  /\ \A e \in Env : s.nodes[e] # None =>
       /\ t.nodes[e] # None /\ SameNode(s.nodes[e], t.nodes[e])
       /\ t.nodes[e].halted = s.nodes[e].halted
       /\ t.nodes[e].hpid # s.nodes[e].hpid => ~s.killed /\ ~s.nodes[e].halted

\* harness_boot() has that effect.
LEMMA HarnessBootDoes ==
  ASSUME NEW s, BaseOK(s), NEW X \in SUBSET Env, NEW bad
  PROVE  HarnessesOn(s, X, HarnessBoot(s, X, bad))
<1> DEFINE go == {e \in X : Boots(s, e)}
           ok == go \ bad
           n(e) == IF e \in ok THEN [s.nodes[e] EXCEPT !.harness = "booting",
                                                       !.hpid = s.harnesses[e] + 1]
                   ELSE IF e \in go THEN [s.nodes[e] EXCEPT !.harness = "failed"]
                   ELSE s.nodes[e]
           c(e) == IF e \in ok THEN s.harnesses[e] + 1 ELSE s.harnesses[e]
           H == {Proc(e, s.nodes[e].gen, s.harnesses[e] + 1) : e \in ok}
           L == UNION {HarnessProc(s, e) : e \in ok}
           t == [s EXCEPT !.harnesses = [e \in Env |-> c(e)], !.up = @ \cup H,
                          !.lost = @ \cup L, !.nodes = [e \in Env |-> n(e)]]
<1>1. HarnessBoot(s, X, bad) = t
  BY DEF HarnessBoot
<1>2. s \in Base /\ \A e \in Env : s.harnesses[e] \in Nat /\ c(e) \in Nat /\ s.harnesses[e] <= c(e)
  BY DEF BaseOK, Base
<1>3. \A e \in go : e \in Env /\ s.nodes[e] \in Node /\ ~s.killed /\ ~s.nodes[e].halted
  BY <1>2, KnownIsNode DEF Boots, Halted
<1>4. \A m \in Node : \A k \in Nat :
        /\ [m EXCEPT !.harness = "booting", !.hpid = k] \in Node
        /\ SameNode(m, [m EXCEPT !.harness = "booting", !.hpid = k])
        /\ [m EXCEPT !.harness = "booting", !.hpid = k].hpid = k
        /\ [m EXCEPT !.harness = "booting", !.hpid = k].halted = m.halted
        /\ [m EXCEPT !.harness = "failed"] \in Node
        /\ SameNode(m, [m EXCEPT !.harness = "failed"])
        /\ [m EXCEPT !.harness = "failed"].hpid = m.hpid
        /\ [m EXCEPT !.harness = "failed"].halted = m.halted
  BY DEF Node, HarnessState, SameNode
<1>5. \A e \in Env : s.nodes[e] # None =>
        /\ n(e) \in Node /\ SameNode(s.nodes[e], n(e)) /\ n(e).halted = s.nodes[e].halted
        /\ n(e).gen <= s.gen /\ n(e).hpid <= c(e)
        /\ n(e).hpid # s.nodes[e].hpid => ~s.killed /\ ~s.nodes[e].halted
  <2> SUFFICES ASSUME NEW e \in Env, s.nodes[e] # None
               PROVE  /\ n(e) \in Node /\ SameNode(s.nodes[e], n(e)) /\ n(e).halted = s.nodes[e].halted
                      /\ n(e).gen <= s.gen /\ n(e).hpid <= c(e)
                      /\ n(e).hpid # s.nodes[e].hpid => ~s.killed /\ ~s.nodes[e].halted
    OBVIOUS
  <2>1. s.nodes[e] \in Node /\ s.nodes[e].gen <= s.gen /\ s.nodes[e].hpid <= s.harnesses[e]
    BY <1>2, KnownIsNode DEF BaseOK, Numbered
  <2>2. CASE e \in ok
    <3>1. n(e) = [s.nodes[e] EXCEPT !.harness = "booting", !.hpid = s.harnesses[e] + 1]
          /\ c(e) = s.harnesses[e] + 1
      BY <2>2
    <3>2. s.harnesses[e] + 1 \in Nat
      BY <1>2
    <3>4. ~s.killed /\ ~s.nodes[e].halted
      BY <1>3, <2>2
    <3> HIDE DEF n, c, go, ok
    <3>5. PICK k \in Nat : k = s.harnesses[e] + 1
      BY <3>2
    <3>6. PICK m \in Node : m = s.nodes[e]
      BY <2>1
    <3>7. n(e) = [m EXCEPT !.harness = "booting", !.hpid = k]
      BY <3>1, <3>5, <3>6
    <3>3. /\ n(e) \in Node /\ SameNode(s.nodes[e], n(e)) /\ n(e).halted = s.nodes[e].halted
          /\ n(e).hpid = s.harnesses[e] + 1
      BY <3>5, <3>6, <3>7 DEF Node, HarnessState, SameNode
    <3> QED
      BY <2>1, <3>1, <3>2, <3>3, <3>4 DEF SameNode
  <2>3. CASE e \notin ok /\ e \in go
    <3>1. n(e) = [s.nodes[e] EXCEPT !.harness = "failed"] /\ c(e) = s.harnesses[e]
      BY <2>3
    <3>2. /\ n(e) \in Node /\ SameNode(s.nodes[e], n(e)) /\ n(e).halted = s.nodes[e].halted
          /\ n(e).hpid = s.nodes[e].hpid
      BY <1>4, <2>1, <3>1
    <3> HIDE DEF n, c, go, ok
    <3> QED
      BY <1>2, <2>1, <3>1, <3>2 DEF SameNode
  <2>4. CASE e \notin ok /\ e \notin go
    <3>1. n(e) = s.nodes[e] /\ c(e) = s.harnesses[e]
      BY <2>4
    <3> HIDE DEF n, c, go, ok
    <3> QED
      BY <1>2, <2>1, <3>1 DEF SameNode
  <2> QED
    BY <2>2, <2>3, <2>4
<1>6. \A e \in Env : s.nodes[e] = None => n(e) = None
  BY <1>3, NodeIsNotNone
<1>7. \A p \in H : p \in Process /\ p.num > 0
  <2>1. \A e \in ok : /\ Proc(e, s.nodes[e].gen, s.harnesses[e] + 1) \in Process
                      /\ Proc(e, s.nodes[e].gen, s.harnesses[e] + 1).num > 0
    <3> TAKE e \in ok
    <3>1. e \in Env /\ s.nodes[e] \in Node /\ s.harnesses[e] \in Nat
      BY <1>2, <1>3
    <3> QED
      BY <3>1 DEF Proc, Process, Node
  <2> HIDE DEF ok
  <2> QED
    BY <2>1
<1>12. L \subseteq Process
  BY <1>2 DEF HarnessProc, Base
<1>13. \A p \in s.up : p.num > 0 /\ p.env \in ok /\ p.num = s.nodes[p.env].hpid => p \in L
  BY DEF HarnessProc
<1>14. \A e \in Env : e \notin ok /\ s.nodes[e] # None => n(e).hpid = s.nodes[e].hpid
  BY <1>2, <1>4, KnownIsNode
<1>15. \A e \in ok : e # Guardian /\ e \in Env /\ n(e).hpid = s.harnesses[e] + 1 /\ n(e) \in Node
  <2> TAKE e \in ok
  <2>1. e # Guardian /\ e \in Env /\ s.nodes[e] \in Node /\ s.harnesses[e] + 1 \in Nat
    BY <1>2, <1>3 DEF Boots
  <2>2. n(e) = [s.nodes[e] EXCEPT !.harness = "booting", !.hpid = s.harnesses[e] + 1]
    OBVIOUS
  <2>3. PICK k \in Nat : k = s.harnesses[e] + 1
    BY <2>1
  <2> HIDE DEF n, ok
  <2> QED
    BY <2>1, <2>2, <2>3 DEF Node, HarnessState
<1>16. \A p \in H : p.env \in ok /\ p.num = s.harnesses[p.env] + 1
  BY DEF Proc
<1> HIDE DEF n, H, L, c, go, ok
<1>8. /\ [e \in Env |-> n(e)] \in [Env -> Node \cup {None}] /\ s.up \cup H \in SUBSET Process
      /\ [e \in Env |-> c(e)] \in [Env -> Nat] /\ s.lost \cup L \in SUBSET Process
  BY <1>2, <1>5, <1>6, <1>7, <1>12 DEF Base
<1>9. /\ t \in Base /\ t.gen = s.gen /\ t.ghosts = s.ghosts /\ t.said = s.said
      /\ t.starts = s.starts /\ t.killed = s.killed /\ t.stopping = s.stopping
      /\ t.up = s.up \cup H /\ t.nodes = [e \in Env |-> n(e)] /\ t.harnesses = [e \in Env |-> c(e)]
      /\ t.lost = s.lost \cup L
  BY <1>2, <1>8 DEF Base
<1> HIDE DEF t
<1>10. Numbered(t)
  BY <1>5, <1>6, <1>9 DEF Numbered
<1>11. \A e \in Env : t.nodes[e] = n(e)
  BY <1>9
<1>17. ASSUME Owned(s) PROVE Owned(t)
  <2> SUFFICES ASSUME NEW p \in t.up, p.num > 0 PROVE OwnedIn(t, p)
    BY DEF Owned
  <2>1. CASE p \in H
    BY <1>11, <1>15, <1>16, <2>1, NodeIsNotNone DEF OwnedIn
  <2>2. CASE p \in s.up
    <3>1. OwnedIn(s, p) /\ p.env \in Env
      BY <1>2, <1>17, <2>2 DEF Owned, Base, Process
    <3>2. CASE p \in s.lost
      BY <1>9, <3>2 DEF OwnedIn
    <3>3. CASE p \notin s.lost /\ p.env \in ok
      BY <1>9, <1>13, <2>2, <3>1, <3>3 DEF OwnedIn
    <3>4. CASE p \notin s.lost /\ p.env \notin ok
      BY <1>5, <1>11, <1>14, <3>1, <3>4, NodeIsNotNone DEF OwnedIn
    <3> QED
      BY <3>2, <3>3, <3>4
  <2> QED
    BY <1>9, <2>1, <2>2
<1> QED
  BY <1>1, <1>5, <1>6, <1>7, <1>9, <1>10, <1>11, <1>17, NodeIsNotNone DEF HarnessesOn, BaseOK

---------------------------------------------------------------------------
(* Steps that leave the nodes alone.                                       *)

\* The nodes, their processes and the tree are as before.
SameNodes(s, t) ==
  /\ BaseOK(t) /\ t.gen = s.gen /\ t.starts = s.starts /\ t.stopping = s.stopping
  /\ \A p \in Process : p.num = 0 =>
       (p \in t.up <=> p \in s.up) /\ (p \in t.ghosts <=> p \in s.ghosts)
  /\ \A e \in Env : t.nodes[e] = None <=> s.nodes[e] = None
  /\ \A e \in Env : s.nodes[e] # None => SameNode(s.nodes[e], t.nodes[e])

\* No harness is new but where neither the switch nor the budget forbids it.
SameHalts(s, t) ==
  /\ t.killed = s.killed /\ (Owned(s) => Owned(t))
  /\ \A e \in Env : s.nodes[e] # None =>
       /\ t.nodes[e].halted = s.nodes[e].halted
       /\ \/ t.nodes[e].hpid \in {0, s.nodes[e].hpid}
          \/ ~s.killed /\ ~s.nodes[e].halted

\* Two such steps in a handler are one.
LEMMA MinorTrans ==
  ASSUME NEW r, NEW s, NEW t, SameNodes(r, s), SameHalts(r, s), SameNodes(s, t), SameHalts(s, t)
  PROVE  SameNodes(r, t) /\ SameHalts(r, t)
<1>1. SameNodes(r, t)
  BY DEF SameNodes, SameNode
<1>2. SameHalts(r, t)
  BY DEF SameNodes, SameHalts
<1> QED
  BY <1>1, <1>2

\* harness_halt() leaves a harness only where it is lost.
LEMMA OffIsOwned ==
  ASSUME NEW s, BaseOK(s), NEW X, NEW t, HarnessesOff(s, X, t), Owned(s)
  PROVE  Owned(t)
<1> SUFFICES ASSUME NEW p \in t.up, p.num > 0 PROVE OwnedIn(t, p)
  BY DEF Owned
<1>1. p \in s.up /\ p.env \in Env /\ OwnedIn(s, p) /\ t.lost = s.lost
  BY DEF HarnessesOff, Reaped, Owned, BaseOK, Base, Process, SameCounts
<1>2. CASE p \in s.lost
  BY <1>1, <1>2 DEF OwnedIn
<1>3. CASE p \notin s.lost
  <2>1. p.env \notin X
    BY <1>1, <1>3 DEF OwnedIn, HarnessesOff
  <2> QED
    BY <1>1, <1>3, <2>1 DEF OwnedIn, HarnessesOff
<1> QED
  BY <1>2, <1>3

\* harness_halt() is one.
LEMMA OffIsMinor ==
  ASSUME NEW s, BaseOK(s), NEW X, NEW t, HarnessesOff(s, X, t)
  PROVE  /\ SameNodes(s, t) /\ SameHalts(s, t)
         /\ \A e \in Env : e \in X /\ s.nodes[e] # None => t.nodes[e].hpid = 0
<1>1. \A n \in Node : LET m == [n EXCEPT !.harness = "off", !.hpid = 0] IN
        SameNode(n, m) /\ m.halted = n.halted /\ m.hpid = 0 /\ m \in Node
  BY DEF SameNode, Node, HarnessState
<1>2. \A e \in Env : s.nodes[e] # None => s.nodes[e] \in Node
  BY KnownIsNode DEF BaseOK
<1>3. \A e \in Env : s.nodes[e] = None => t.nodes[e] = None
  BY DEF HarnessesOff
<1>4. \A e \in Env : s.nodes[e] # None =>
        /\ t.nodes[e] # None /\ SameNode(s.nodes[e], t.nodes[e])
        /\ t.nodes[e].halted = s.nodes[e].halted
        /\ t.nodes[e].hpid \in {0, s.nodes[e].hpid}
        /\ e \in X => t.nodes[e].hpid = 0
  <2> SUFFICES ASSUME NEW e \in Env, s.nodes[e] # None
               PROVE  /\ t.nodes[e] # None /\ SameNode(s.nodes[e], t.nodes[e])
                      /\ t.nodes[e].halted = s.nodes[e].halted
                      /\ t.nodes[e].hpid \in {0, s.nodes[e].hpid}
                      /\ e \in X => t.nodes[e].hpid = 0
    OBVIOUS
  <2>1. PICK n \in Node : n = s.nodes[e]
    BY <1>2
  <2>2. CASE e \in X
    <3>1. t.nodes[e] = [n EXCEPT !.harness = "off", !.hpid = 0]
      BY <2>1, <2>2 DEF HarnessesOff
    <3> QED
      BY <1>1, <2>1, <3>1, NodeIsNotNone
  <2>3. CASE e \notin X
    BY <2>3 DEF HarnessesOff, SameNode
  <2> QED
    BY <2>2, <2>3
<1>5. SameNodes(s, t)
  BY <1>3, <1>4 DEF SameNodes, HarnessesOff, SameCounts, Reaped
<1> QED
  BY <1>4, <1>5, OffIsOwned DEF SameHalts, HarnessesOff, SameCounts

\* harness_boot() is one.
LEMMA OnIsMinor ==
  ASSUME NEW s, BaseOK(s), NEW X, NEW t, HarnessesOn(s, X, t)
  PROVE  SameNodes(s, t) /\ SameHalts(s, t)
BY DEF SameNodes, SameHalts, HarnessesOn, Process

\* A step that names the same harnesses and starts none.
LEMMA FrameIsOwned ==
  ASSUME NEW s, BaseOK(s), NEW t, Owned(s), s.lost \subseteq t.lost,
         \A p \in t.up : p.num > 0 => p \in s.up,
         \A e \in Env : s.nodes[e] # None => t.nodes[e] # None /\ t.nodes[e].hpid = s.nodes[e].hpid
  PROVE  Owned(t)
BY DEF Owned, OwnedIn, BaseOK, Base, Process

\* prune() leaves a harness only where it is lost.
LEMMA PrunedIsOwned ==
  ASSUME NEW s, BaseOK(s), NEW X, NEW t, Pruned(s, X, t), Owned(s)
  PROVE  Owned(t)
<1> SUFFICES ASSUME NEW p \in t.up, p.num > 0 PROVE OwnedIn(t, p)
  BY DEF Owned
<1>1. p \in s.up /\ p.env \in Env /\ OwnedIn(s, p) /\ t.lost = s.lost
  BY DEF Pruned, Reaped, Owned, BaseOK, Base, Process, SameCounts
<1>2. CASE p \in s.lost
  BY <1>1, <1>2 DEF OwnedIn
<1>3. CASE p \notin s.lost
  <2>1. p.env \notin X
    BY <1>1, <1>3 DEF OwnedIn, Pruned
  <2> QED
    BY <1>1, <1>3, <2>1 DEF OwnedIn, Pruned
<1> QED
  BY <1>2, <1>3

\* start() where no harness is named.
LEMMA StartIsOwned ==
  ASSUME NEW s, BaseOK(s), NEW e \in Env, NEW n \in Node, NEW t, StartedAs(s, e, n, t), Owned(s),
         s.nodes[e] # None => s.nodes[e].hpid = 0
  PROVE  Owned(t)
<1>1. /\ s.nodes \in [Env -> Node \cup {None}] /\ s.gen + 1 \in Nat
      /\ t.up = s.up \cup {Proc(e, s.gen + 1, 0)} /\ t.lost = s.lost
  BY DEF BaseOK, Base, StartedAs
<1>2. \A d \in Env : d # e => t.nodes[d] = s.nodes[d]
  BY <1>1 DEF StartedAs
<1> SUFFICES ASSUME NEW p \in t.up, p.num > 0 PROVE OwnedIn(t, p)
  BY DEF Owned
<1>3. p # Proc(e, s.gen + 1, 0)
  BY DEF Proc
<1>4. p \in s.up /\ p.env \in Env /\ OwnedIn(s, p)
  BY <1>1, <1>3 DEF Owned, BaseOK, Base, Process
<1>5. CASE p \in s.lost
  BY <1>1, <1>5 DEF OwnedIn
<1>6. CASE p \notin s.lost
  <2>1. p.env # e
    BY <1>4, <1>6 DEF OwnedIn
  <2> QED
    BY <1>2, <1>4, <1>6, <2>1 DEF OwnedIn
<1> QED
  BY <1>5, <1>6

\* So is a write to a record that keeps what the tree and the restarts use.
LEMMA EditIsMinor ==
  ASSUME NEW s, BaseOK(s), NEW e \in Env, s.nodes[e] # None, NEW n \in Node,
         SameNode(s.nodes[e], n), n.halted = s.nodes[e].halted, n.hpid = s.nodes[e].hpid
  PROVE  LET t == [s EXCEPT !.nodes[e] = n] IN BaseOK(t) /\ SameNodes(s, t) /\ SameHalts(s, t)
<1> DEFINE t == [s EXCEPT !.nodes[e] = n]
<1>5. n.gen <= s.gen /\ n.hpid <= s.harnesses[e]
  BY DEF BaseOK, Numbered, SameNode, Base
<1>6. Replaced(s, e, n, t)
  BY <1>5, ReplaceDoes
<1> HIDE DEF t
<1>1. s.nodes \in [Env -> Node \cup {None}] /\ n # None
  BY NodeIsNotNone DEF BaseOK, Base
<1>2. \A d \in Env : t.nodes[d] = IF d = e THEN n ELSE s.nodes[d]
  BY <1>1, <1>6 DEF Replaced
<1>3. SameNodes(s, t)
  BY <1>1, <1>2, <1>6 DEF Replaced, SameNodes, SameCounts, SameNode
<1>7. Owned(s) => Owned(t)
  BY <1>1, <1>2, <1>6, FrameIsOwned DEF Replaced, SameCounts
<1>4. SameHalts(s, t)
  BY <1>2, <1>6, <1>7 DEF Replaced, SameHalts, SameCounts
<1> QED
  BY <1>3, <1>4, <1>6 DEF Replaced, t

---------------------------------------------------------------------------
(* The invariant.                                                          *)

Elems(c) == {c[i] : i \in DOMAIN c}

\* Before boot() nothing has happened; after it no command is a boot.
NotBooted == b = NewBase /\ cmds = <<Msg("boot", Root)>> /\ exits = <<>> /\ tasks = {}
Booted == \A m \in Elems(cmds) : m.t # "boot"

\* A node is started once more than it was restarted.
RestartsOf(s, e) ==
  IF s.nodes[e] = None THEN s.starts[e] <= max_restarts + 1
  ELSE s.nodes[e].restarts <= max_restarts /\ s.starts[e] <= s.nodes[e].restarts + 1
Restarts(s) == \A e \in Env : RestartsOf(s, e)

\* The records against the processes, the ghosts and the exits x: a pid is the
\* generation, a node that runs is named by its record and neither a ghost nor
\* reported, and one that is named has run.
Tracked(s, x) ==
  /\ \A e \in Env : s.nodes[e] # None => s.nodes[e].pid \in {0, s.nodes[e].gen}
  /\ \A p \in s.up : p.num = 0 =>
       /\ s.nodes[p.env] # None /\ s.nodes[p.env].pid = p.gen
       /\ p.gen > 0 /\ p.gen <= s.gen /\ p \notin s.ghosts
       /\ [env |-> p.env, gen |-> p.gen] \notin x
  /\ \A p \in s.ghosts : p.num = 0 => p.gen <= s.gen
  /\ \A m \in x : m.gen <= s.gen
  /\ \A e \in Env : s.nodes[e] # None /\ s.nodes[e].pid # 0 =>
       \/ Proc(e, s.nodes[e].pid, 0) \in s.up \cup s.ghosts
       \/ [env |-> e, gen |-> s.nodes[e].gen] \in x
  /\ \A e \in Env : s.nodes[e] # None /\ s.nodes[e].registered =>
       s.nodes[e].peer = s.nodes[e].gen /\ s.nodes[e].pid = s.nodes[e].gen

\* No harness under the kill switch, and over budget only until the halt in c.
NotHalted(s, c) ==
  \A e \in Env : s.nodes[e] # None /\ e # Guardian /\ s.nodes[e].hpid # 0 =>
    ~s.killed /\ (s.nodes[e].halted => Msg("halt", e) \in c)

\* The tree: the guardian and the root are there from boot() on, with no
\* parent, and the others are one level below theirs.
Tree(s) ==
  /\ s.nodes[Root] # None => s.nodes[Guardian] # None
  /\ \A e \in {Guardian, Root} : s.nodes[e] # None => s.nodes[e].parent = NoEnv
  /\ \A e \in Env \ {Guardian, Root} : s.nodes[e] # None =>
       LET p == s.nodes[e].parent IN
       /\ s.nodes[Root] # None
       /\ p \in Env \ {Guardian} /\ s.nodes[p] # None
       /\ s.nodes[e].depth = s.nodes[p].depth + 1 /\ s.nodes[e].depth <= max_depth

\* The number of environments is within its limit.
Few(s) == Cardinality(Agents(s)) <= IF max_total = 0 THEN 1 ELSE max_total

\* After stop() no node runs.
Stopped(s) == s.stopping => \A p \in s.up : p.num # 0

BaseInv == TypeInv /\ (NotBooted \/ Booted) /\ Restarts(b) /\ NotHalted(b, Elems(cmds))

\* What holds as long as no sandbox fails to come up.
TrackInv ==
  /\ "sandbox" \notin left.failures
  /\ Tracked(b, Elems(exits)) /\ Tree(b) /\ Few(b) /\ Stopped(b)

---------------------------------------------------------------------------
(* The queues and the bounds.                                              *)

\* What is in a queue is its head and what is behind it.
LEMMA HeadAndTail ==
  ASSUME NEW S, NEW c \in Seq(S), c # <<>>
  PROVE  Head(c) \in S /\ Tail(c) \in Seq(S) /\ Elems(c) = {Head(c)} \cup Elems(Tail(c))
<1>1. Head(c) \in S /\ Tail(c) \in Seq(S)
  OBVIOUS
<1>2. 1 \in DOMAIN c /\ Head(c) = c[1]
  OBVIOUS
<1>3. ASSUME NEW i \in DOMAIN c, i # 1 PROVE i - 1 \in DOMAIN Tail(c) /\ Tail(c)[i - 1] = c[i]
  BY <1>3
<1>4. ASSUME NEW i \in DOMAIN Tail(c) PROVE i + 1 \in DOMAIN c /\ c[i + 1] = Tail(c)[i]
  BY <1>4
<1>5. ASSUME NEW x \in Elems(c) PROVE x \in {Head(c)} \cup Elems(Tail(c))
  <2>1. PICK i \in DOMAIN c : x = c[i]
    BY <1>5 DEF Elems
  <2>2. CASE i = 1
    BY <1>2, <2>1, <2>2
  <2>3. CASE i # 1
    <3>1. Tail(c)[i - 1] = x /\ i - 1 \in DOMAIN Tail(c)
      BY <1>3, <2>1, <2>3
    <3> QED
      BY <3>1 DEF Elems
  <2> QED
    BY <2>2, <2>3
<1>6. ASSUME NEW x \in {Head(c)} \cup Elems(Tail(c)) PROVE x \in Elems(c)
  BY <1>2, <1>4 DEF Elems
<1> QED
  BY <1>1, <1>5, <1>6

\* A queue that grows holds what it held and what is new.
LEMMA AppendElems ==
  ASSUME NEW S, NEW c \in Seq(S), NEW x \in S
  PROVE  Append(c, x) \in Seq(S) /\ Elems(Append(c, x)) = Elems(c) \cup {x}
<1> DEFINE d == Append(c, x)
<1>1. d \in Seq(S) /\ DOMAIN d = DOMAIN c \cup {Len(c) + 1} /\ d[Len(c) + 1] = x
  OBVIOUS
<1>2. \A i \in DOMAIN c : d[i] = c[i]
  OBVIOUS
<1> HIDE DEF d
<1>3. Elems(d) = Elems(c) \cup {x}
  BY <1>1, <1>2 DEF Elems
<1> QED
  BY <1>1, <1>3 DEF d

\* The command the actor takes.
LEMMA TakeDoes ==
  ASSUME TypeInv, NEW t, Take(t)
  PROVE  /\ cmd \in Cmd /\ cmd.t = t /\ cmd.env \in Env /\ cmd.to \in Env /\ cmd.gen \in Nat
         /\ cmd.ok \in BOOLEAN /\ rest \in Seq(Cmd) /\ Elems(cmds) = {cmd} \cup Elems(rest)
<1>1. cmd \in Cmd /\ rest \in Seq(Cmd) /\ Elems(cmds) = {cmd} \cup Elems(rest)
  BY HeadAndTail DEF Take, TypeInv, cmd, rest
<1> QED
  BY <1>1 DEF Cmd, Take, cmd

\* A message is a command.
LEMMA MsgIsCmd ==
  ASSUME NEW t \in Kinds, NEW e \in Env
  PROVE  Msg(t, e) \in Cmd /\ Msg(t, e).t = t /\ Msg(t, e).env = e
BY DEF Msg, Cmd

\* A failure in start() or harness_boot() is taken off the bound.
LEMMA FailedDoes ==
  ASSUME TypeInv, NEW e, NEW how \in Fails(e), Failed
  PROVE  left' \in World /\ left'.failures = left.failures
<1>1. left.fail # 0
  BY DEF Fails
<1>2. left.fail - 1 \in Nat /\ left \in World
  BY <1>1 DEF TypeInv, World
<1> QED
  BY <1>2 DEF World, Failed

\* The probes harness_boot() starts are tasks.
LEMMA ProbesAreTasks ==
  ASSUME NEW s, BaseOK(s), NEW X \in SUBSET Env, NEW bad
  PROVE  Probes(s, X, bad) \subseteq Task
<1>1. \A e \in X : Boots(s, e) => s.nodes[e] \in Node /\ s.harnesses[e] + 1 \in Nat
  BY KnownIsNode DEF Boots, BaseOK, Base
<1> QED
  BY <1>1 DEF Probes, Task, Node

\* What the actor leaves in the queue.
LEMMA TakeLeaves ==
  ASSUME TypeInv, Booted, NEW t, Take(t)
  PROVE  /\ \A m \in Elems(rest) : m \in Elems(cmds) /\ m.t # "boot"
         /\ \A m \in Elems(cmds) : m.t # t => m \in Elems(rest)
         /\ t # "halt" => \A e \in Env : Msg("halt", e) \in Elems(cmds) => Msg("halt", e) \in Elems(rest)
<1>1. \A e \in Env : Msg("halt", e).t = "halt"
  BY DEF Msg
<1> QED
  BY <1>1, TakeDoes DEF Booted

---------------------------------------------------------------------------
(* The handlers that leave the nodes alone.                                *)

\* The end of a handler in harness_boot().
LEMMA BootHarnessesDoes ==
  ASSUME TypeInv, NEW s, BaseOK(s), NEW X \in SUBSET Env, BootHarnesses(s, X)
  PROVE  /\ SameNodes(s, b') /\ SameHalts(s, b') /\ tasks' \subseteq Task
         /\ left' \in World /\ left'.failures = left.failures
<1>1. PICK mis \in BadHarness(X, "settings"), bad \in BadHarness(X, "harness") :
        /\ b' = HarnessBoot(s, X \ mis, bad) /\ tasks' = tasks \cup Probes(s, X \ mis, bad)
        /\ left' = [left EXCEPT !.fail = IF mis \cup bad = {} THEN @ ELSE @ - 1]
  BY DEF BootHarnesses
<1>2. PICK Y \in SUBSET Env : Y = X \ mis
  OBVIOUS
<1>3. SameNodes(s, b') /\ SameHalts(s, b')
  BY <1>1, <1>2, HarnessBootDoes, OnIsMinor
<1>4. tasks' \subseteq Task
  BY <1>1, <1>2, ProbesAreTasks DEF TypeInv
<1>5. left \in World /\ left.fail \in Nat
  BY DEF TypeInv, World
<1>6. left.fail = 0 => mis \cup bad = {}
  BY <1>1 DEF BadHarness
<1>7. PICK k \in Nat : k = IF mis \cup bad = {} THEN left.fail ELSE left.fail - 1
  BY <1>5, <1>6
<1>8. left' = [left EXCEPT !.fail = k]
  BY <1>1, <1>7
<1>9. left' \in World /\ left'.failures = left.failures
  BY <1>5, <1>8 DEF World
<1> QED
  BY <1>3, <1>4, <1>9

\* Harnesses come and go as SameHalts says and the halts stay queued.
LEMMA HaltsKept ==
  ASSUME NEW s, NEW t, NEW c, NEW d, NotHalted(s, c), SameNodes(s, t), SameHalts(s, t),
         \A e \in Env : Msg("halt", e) \in c =>
           Msg("halt", e) \in d \/ (t.nodes[e] # None => t.nodes[e].hpid = 0)
  PROVE  NotHalted(t, d)
BY DEF NotHalted, SameNodes, SameHalts

\* What every such handler keeps.
Minor ==
  /\ TypeInv' /\ SameNodes(b, b') /\ exits' = exits /\ left'.failures = left.failures
  /\ Booted' /\ NotHalted(b', Elems(cmds')) /\ (Owned(b) => Owned(b'))

\* A handler that takes a command, may add one, and ends in harness_boot() or
\* harness_halt().
LEMMA TakesOne ==
  ASSUME BaseInv, Booted, NEW t, Take(t), t # "halt",
         SameNodes(b, b'), SameHalts(b, b'), exits' = exits, tasks' \subseteq Task,
         left' \in World, left'.failures = left.failures, cmds' = rest
  PROVE  Minor
<1>1. TypeInv /\ rest \in Seq(Cmd)
  BY TakeDoes DEF BaseInv
<1>2. TypeInv'
  BY <1>1 DEF TypeInv, SameNodes
<1>3. Booted'
  BY <1>1, TakeLeaves DEF Booted
<1>4. NotHalted(b', Elems(cmds'))
  <2>1. \A e \in Env : Msg("halt", e) \in Elems(cmds) => Msg("halt", e) \in Elems(cmds')
    BY <1>1, TakeLeaves
  <2> QED
    BY <2>1, HaltsKept DEF BaseInv
<1> QED
  BY <1>2, <1>3, <1>4 DEF Minor, SameHalts

\* Nothing but the queue changes.
LEMMA Unchanged ==
  ASSUME NEW s, BaseOK(s)
  PROVE  SameNodes(s, s) /\ SameHalts(s, s)
BY DEF SameNodes, SameHalts, SameNode

\* worker_boot()
LEMMA WorkerBootIsMinor ==
  ASSUME BaseInv, Booted, WorkerBoot
  PROVE  Minor
<1>1. /\ TypeInv /\ Take("worker_boot") /\ BaseOK(b) /\ left \in World /\ tasks \subseteq Task
      /\ cmd.env \in Env
  BY TakeDoes DEF BaseInv, TypeInv, WorkerBoot
<1> DEFINE e == cmd.env
           n == b.nodes[e]
<1>2. SameNodes(b, b') /\ SameHalts(b, b') /\ tasks' \subseteq Task
  <2>1. CASE n # None /\ n.sandbox /\ n.peer # 0 /\ n.worker \notin {"booting", "ready"}
    <3>1. n \in Node
      BY <1>1, <2>1, KnownIsNode DEF BaseOK
    <3> DEFINE m == [n EXCEPT !.worker = "booting"]
    <3>2. m \in Node /\ SameNode(n, m) /\ m.halted = n.halted /\ m.hpid = n.hpid
      BY <3>1 DEF Node, WorkerState, SameNode
    <3>3. b' = [b EXCEPT !.nodes[e] = m]
      BY <2>1 DEF WorkerBoot
    <3>4. tasks' = tasks \cup {[kind |-> "worker", env |-> e, gen |-> n.peer, num |-> 0]}
      BY <2>1 DEF WorkerBoot
    <3>5. tasks' \subseteq Task
      BY <1>1, <3>1, <3>4 DEF Task, Node
    <3> HIDE DEF m
    <3> QED
      BY <1>1, <2>1, <3>2, <3>3, <3>5, EditIsMinor
  <2>2. CASE ~(n # None /\ n.sandbox /\ n.peer # 0 /\ n.worker \notin {"booting", "ready"})
    BY <1>1, <2>2, Unchanged DEF WorkerBoot
  <2> QED
    BY <2>1, <2>2
<1>3. cmds' = rest /\ exits' = exits /\ left' = left
  BY DEF WorkerBoot
<1> QED
  BY <1>1, <1>2, <1>3, TakesOne

\* worker_ready()
LEMMA WorkerReadyIsMinor ==
  ASSUME BaseInv, Booted, WorkerReady
  PROVE  Minor
<1>1. /\ TypeInv /\ Take("worker_ready") /\ BaseOK(b) /\ left \in World /\ tasks \subseteq Task
      /\ cmd.env \in Env
  BY TakeDoes DEF BaseInv, TypeInv, WorkerReady
<1> DEFINE e == cmd.env
           n == b.nodes[e]
           m == [n EXCEPT !.worker = IF cmd.ok THEN "ready" ELSE "failed"]
           s == [b EXCEPT !.nodes[e].worker = IF cmd.ok THEN "ready" ELSE "failed"]
<1>2. /\ SameNodes(b, b') /\ SameHalts(b, b') /\ tasks' \subseteq Task
      /\ left' \in World /\ left'.failures = left.failures
  <2>1. CASE n = None
    BY <1>1, <2>1, Unchanged DEF WorkerReady
  <2>2. CASE n # None
    <3>1. n \in Node
      BY <1>1, <2>2, KnownIsNode DEF BaseOK
    <3>2. m \in Node /\ SameNode(n, m) /\ m.halted = n.halted /\ m.hpid = n.hpid
      BY <3>1 DEF Node, WorkerState, SameNode
    <3>3. BootHarnesses(s, {e})
      BY <2>2 DEF WorkerReady
    <3>4. s = [b EXCEPT !.nodes[e] = m]
      OBVIOUS
    <3> HIDE DEF m, s
    <3>5. BaseOK(s) /\ SameNodes(b, s) /\ SameHalts(b, s)
      BY <1>1, <2>2, <3>2, <3>4, EditIsMinor
    <3>6. {e} \in SUBSET Env
      BY <1>1
    <3>7. /\ SameNodes(s, b') /\ SameHalts(s, b') /\ tasks' \subseteq Task
          /\ left' \in World /\ left'.failures = left.failures
      BY <1>1, <3>3, <3>5, <3>6, BootHarnessesDoes
    <3> QED
      BY <3>5, <3>7, MinorTrans
  <2> QED
    BY <2>1, <2>2
<1>3. cmds' = rest /\ exits' = exits
  BY DEF WorkerReady
<1> QED
  BY <1>1, <1>2, <1>3, TakesOne

\* harness_ready()
LEMMA HarnessReadyIsMinor ==
  ASSUME BaseInv, Booted, HarnessReady
  PROVE  Minor
<1>1. /\ TypeInv /\ Take("harness_ready") /\ BaseOK(b) /\ left \in World /\ tasks \subseteq Task
      /\ cmd.env \in Env
  BY TakeDoes DEF BaseInv, TypeInv, HarnessReady
<1> DEFINE e == cmd.env
           n == b.nodes[e]
           m == [n EXCEPT !.harness = IF cmd.ok THEN "ready" ELSE "failed"]
<1>2. SameNodes(b, b') /\ SameHalts(b, b')
  <2>1. CASE n = None
    BY <1>1, <2>1, Unchanged DEF HarnessReady
  <2>2. CASE n # None
    <3>1. n \in Node
      BY <1>1, <2>2, KnownIsNode DEF BaseOK
    <3>2. m \in Node /\ SameNode(n, m) /\ m.halted = n.halted /\ m.hpid = n.hpid
      BY <3>1 DEF Node, HarnessState, SameNode
    <3>3. b' = [b EXCEPT !.nodes[e] = m]
      BY <2>2 DEF HarnessReady
    <3> HIDE DEF m
    <3> QED
      BY <1>1, <2>2, <3>2, <3>3, EditIsMinor
  <2> QED
    BY <2>1, <2>2
<1>3. cmds' = rest /\ exits' = exits /\ tasks' = tasks /\ left' = left
  BY DEF HarnessReady
<1> QED
  BY <1>1, <1>2, <1>3, TakesOne

\* harness_exit()
LEMMA HarnessExitIsMinor ==
  ASSUME BaseInv, Booted, HarnessExit
  PROVE  Minor
<1>1. /\ TypeInv /\ Take("harness_exit") /\ BaseOK(b) /\ left \in World /\ tasks \subseteq Task
      /\ cmd.env \in Env
  BY TakeDoes DEF BaseInv, TypeInv, HarnessExit
<1> DEFINE e == cmd.env
           n == b.nodes[e]
           m == [n EXCEPT !.harness = "off", !.hpid = 0, !.hrestarts = @ + 1]
           l == [b EXCEPT !.lost = @ \cup HarnessProc(b, e)]
           s == [b EXCEPT !.nodes[e].harness = "off", !.nodes[e].hpid = 0,
                          !.nodes[e].hrestarts = @ + 1, !.lost = @ \cup HarnessProc(b, e)]
<1>2. /\ SameNodes(b, b') /\ SameHalts(b, b') /\ tasks' \subseteq Task
      /\ left' \in World /\ left'.failures = left.failures
  <2>1. CASE n = None \/ n.gen # cmd.gen \/ n.hpid = 0
    BY <1>1, <2>1, Unchanged DEF HarnessExit
  <2>2. CASE n # None /\ n.gen = cmd.gen /\ n.hpid # 0
    <3>1. n \in Node
      BY <1>1, <2>2, KnownIsNode DEF BaseOK
    <3>2. m \in Node /\ SameNode(n, m) /\ m.halted = n.halted /\ m.hpid = 0
      <4>1. PICK k \in Nat : k = n.hrestarts + 1
        BY <3>1 DEF Node
      <4>2. m = [n EXCEPT !.harness = "off", !.hpid = 0, !.hrestarts = k]
        BY <4>1
      <4> HIDE DEF m
      <4> QED
        BY <3>1, <4>2 DEF Node, HarnessState, SameNode
    <3>3. (b' = s /\ tasks' = tasks /\ left' = left) \/ BootHarnesses(s, {e})
      BY <2>2 DEF HarnessExit
    <3>4. s = [l EXCEPT !.nodes[e] = m]
      BY <1>1 DEF BaseOK, Base
    <3>9. /\ BaseOK(l) /\ l.nodes = b.nodes /\ l.up = b.up /\ l.ghosts = b.ghosts /\ l.gen = b.gen
          /\ l.harnesses = b.harnesses /\ l.starts = b.starts /\ l.killed = b.killed
          /\ l.stopping = b.stopping /\ l.lost = b.lost \cup HarnessProc(b, e)
      <4>1. HarnessProc(b, e) \subseteq Process
        BY <1>1 DEF HarnessProc, BaseOK, Base
      <4>2. /\ l \in Base /\ l.nodes = b.nodes /\ l.up = b.up /\ l.ghosts = b.ghosts /\ l.gen = b.gen
            /\ l.harnesses = b.harnesses /\ l.starts = b.starts /\ l.killed = b.killed
            /\ l.stopping = b.stopping /\ l.lost = b.lost \cup HarnessProc(b, e)
        BY <1>1, <4>1 DEF BaseOK, Base
      <4> HIDE DEF l
      <4> QED
        BY <1>1, <4>2 DEF BaseOK, Numbered
    <3> HIDE DEF m, s, l
    <3>10. n.gen <= b.gen /\ b.harnesses[e] \in Nat
      BY <1>1, <2>2 DEF BaseOK, Base, Numbered
    <3>11. Replaced(l, e, m, s)
      BY <1>1, <3>2, <3>4, <3>9, <3>10, ReplaceDoes DEF SameNode
    <3>12. b.nodes \in [Env -> Node \cup {None}] /\ m # None
      BY <1>1, <3>2, NodeIsNotNone DEF BaseOK, Base
    <3>13. \A d \in Env : s.nodes[d] = IF d = e THEN m ELSE b.nodes[d]
      BY <3>9, <3>11, <3>12 DEF Replaced
    <3>14. s.up = b.up /\ s.lost = b.lost \cup HarnessProc(b, e)
      BY <3>9, <3>11 DEF Replaced, SameCounts
    <3>15. ASSUME Owned(b) PROVE Owned(s)
      <4> SUFFICES ASSUME NEW p \in s.up, p.num > 0 PROVE OwnedIn(s, p)
        BY DEF Owned
      <4>1. OwnedIn(b, p) /\ p.env \in Env /\ p \in b.up
        BY <1>1, <3>14, <3>15 DEF Owned, BaseOK, Base, Process
      <4>2. CASE p.env = e
        BY <3>14, <4>1, <4>2 DEF OwnedIn, HarnessProc
      <4>3. CASE p.env # e
        BY <3>13, <3>14, <4>1, <4>3 DEF OwnedIn
      <4> QED
        BY <4>2, <4>3
    <3>16. BaseOK(s) /\ SameNodes(b, s)
      BY <2>2, <3>2, <3>9, <3>11, <3>12, <3>13 DEF Replaced, SameNodes, SameCounts, SameNode
    <3>5. BaseOK(s) /\ SameNodes(b, s) /\ SameHalts(b, s)
      BY <2>2, <3>2, <3>9, <3>11, <3>13, <3>15, <3>16 DEF SameHalts, Replaced, SameCounts
    <3>6. {e} \in SUBSET Env
      BY <1>1
    <3>7. CASE b' = s /\ tasks' = tasks /\ left' = left
      BY <1>1, <3>5, <3>7
    <3>8. CASE BootHarnesses(s, {e})
      <4>1. /\ SameNodes(s, b') /\ SameHalts(s, b') /\ tasks' \subseteq Task
            /\ left' \in World /\ left'.failures = left.failures
        BY <1>1, <3>5, <3>6, <3>8, BootHarnessesDoes
      <4> QED
        BY <3>5, <4>1, MinorTrans
    <3> QED
      BY <3>3, <3>7, <3>8
  <2> QED
    BY <2>1, <2>2
<1>3. cmds' = rest /\ exits' = exits
  BY DEF HarnessExit
<1> QED
  BY <1>1, <1>2, <1>3, TakesOne

\* Cmd::Halt: the halt leaves the queue and the harness goes with it.
LEMMA HaltEnvIsMinor ==
  ASSUME BaseInv, Booted, HaltEnv
  PROVE  Minor
<1>1. /\ TypeInv /\ Take("halt") /\ BaseOK(b) /\ left \in World /\ tasks \subseteq Task
      /\ cmd.env \in Env /\ rest \in Seq(Cmd) /\ Elems(cmds) = {cmd} \cup Elems(rest)
  BY TakeDoes DEF BaseInv, TypeInv, HaltEnv
<1>2. b' = HarnessHalt(b, {cmd.env}) /\ cmds' = rest /\ exits' = exits /\ tasks' = tasks /\ left' = left
  BY DEF HaltEnv
<1>3. /\ SameNodes(b, b') /\ SameHalts(b, b')
      /\ b.nodes[cmd.env] # None => b'.nodes[cmd.env].hpid = 0
  BY <1>1, <1>2, HarnessHaltDoes, OffIsMinor
<1>4. TypeInv'
  BY <1>1, <1>2, <1>3 DEF TypeInv, SameNodes
<1>5. Booted'
  BY <1>1, <1>2, TakeLeaves DEF Booted
<1>6. \A e \in Env : Msg("halt", e) \in Elems(cmds) =>
        Msg("halt", e) \in Elems(cmds') \/ (b'.nodes[e] # None => b'.nodes[e].hpid = 0)
  <2> SUFFICES ASSUME NEW e \in Env, Msg("halt", e) = cmd
               PROVE  b'.nodes[e] # None => b'.nodes[e].hpid = 0
    BY <1>1, <1>2
  <2>1. cmd.env = e
    BY DEF Msg
  <2> QED
    BY <1>3, <2>1 DEF SameNodes
<1>7. NotHalted(b', Elems(cmds'))
  BY <1>3, <1>6, HaltsKept DEF BaseInv
<1> QED
  BY <1>2, <1>3, <1>4, <1>5, <1>7 DEF Minor, SameHalts

\* sandbox_destroy()
LEMMA SandboxDestroyIsMinor ==
  ASSUME BaseInv, Booted, SandboxDestroy
  PROVE  Minor
<1>1. /\ TypeInv /\ Take("destroy") /\ BaseOK(b) /\ left \in World /\ tasks \subseteq Task
      /\ cmd.env \in Env
  BY TakeDoes DEF BaseInv, TypeInv, SandboxDestroy
<1> DEFINE e == cmd.env
           n == b.nodes[e]
           m == [n EXCEPT !.sandbox = FALSE, !.worker = "off"]
<1>2. SameNodes(b, b') /\ SameHalts(b, b')
  <2>1. CASE n = None \/ ~n.sandbox
    BY <1>1, <2>1, Unchanged DEF SandboxDestroy
  <2>2. CASE n # None /\ n.sandbox
    <3>1. n \in Node
      BY <1>1, <2>2, KnownIsNode DEF BaseOK
    <3>2. m \in Node /\ SameNode(n, m) /\ m.halted = n.halted /\ m.hpid = n.hpid
      BY <3>1 DEF Node, WorkerState, SameNode
    <3>3. b' = [b EXCEPT !.nodes[e].sandbox = FALSE, !.nodes[e].worker = "off"]
      BY <2>2 DEF SandboxDestroy
    <3>4. b' = [b EXCEPT !.nodes[e] = m]
      BY <1>1, <3>3 DEF BaseOK, Base
    <3> HIDE DEF m
    <3> QED
      BY <1>1, <2>2, <3>2, <3>4, EditIsMinor
  <2> QED
    BY <2>1, <2>2
<1>3. cmds' = rest /\ exits' = exits /\ tasks' = tasks /\ left' = left
  BY DEF SandboxDestroy
<1> QED
  BY <1>1, <1>2, <1>3, TakesOne

\* exceeded(): the environment is over budget and its halt is queued.
LEMMA SpendIsMinor ==
  ASSUME BaseInv, Booted, Spend
  PROVE  Minor
<1>1. /\ TypeInv /\ Take("spend") /\ BaseOK(b) /\ left \in World /\ tasks \subseteq Task
      /\ cmd.env \in Env /\ rest \in Seq(Cmd)
  BY TakeDoes DEF BaseInv, TypeInv, Spend
<1> DEFINE e == cmd.env
           n == b.nodes[e]
           m == [n EXCEPT !.halted = TRUE]
<1>2. exits' = exits /\ tasks' = tasks /\ left' = left
  BY DEF Spend
<1>3. CASE n = None \/ n.halted
  <2>1. b' = b /\ cmds' = rest
    BY <1>3 DEF Spend
  <2>2. SameNodes(b, b') /\ SameHalts(b, b')
    BY <1>1, <2>1, Unchanged
  <2> QED
    BY <1>1, <1>2, <2>1, <2>2, TakesOne
<1>4. CASE n # None /\ ~n.halted
  <2>1. b' = [b EXCEPT !.nodes[e] = m] /\ cmds' = Append(rest, Msg("halt", e))
    BY <1>4 DEF Spend
  <2>2. n \in Node /\ n.gen <= b.gen /\ n.hpid <= b.harnesses[e]
    BY <1>1, <1>4, KnownIsNode DEF BaseOK, Numbered
  <2>3. m \in Node /\ SameNode(n, m) /\ m.hpid = n.hpid
    BY <2>2 DEF Node, SameNode
  <2> HIDE DEF m
  <2>4. Replaced(b, e, m, b')
    BY <1>1, <2>1, <2>2, <2>3, ReplaceDoes DEF SameNode
  <2>5. b.nodes \in [Env -> Node \cup {None}] /\ m # None
    BY <1>1, <2>3, NodeIsNotNone DEF BaseOK, Base
  <2>6. \A d \in Env : b'.nodes[d] = IF d = e THEN m ELSE b.nodes[d]
    BY <2>4, <2>5 DEF Replaced
  <2>7. SameNodes(b, b')
    BY <1>4, <2>3, <2>4, <2>5, <2>6 DEF Replaced, SameNodes, SameCounts, SameNode
  <2>8. Msg("halt", e) \in Cmd /\ Msg("halt", e).t = "halt"
    BY <1>1, MsgIsCmd DEF Kinds
  <2>9. cmds' \in Seq(Cmd) /\ Elems(cmds') = Elems(rest) \cup {Msg("halt", e)}
    BY <1>1, <2>1, <2>8, AppendElems
  <2>10. TypeInv'
    BY <1>1, <1>2, <2>7, <2>9 DEF TypeInv, SameNodes
  <2>11. Booted'
    BY <1>1, <2>8, <2>9, TakeLeaves DEF Booted
  <2>12. \A d \in Env : Msg("halt", d) \in Elems(cmds) => Msg("halt", d) \in Elems(cmds')
    BY <1>1, <2>9, TakeLeaves
  <2>13. NotHalted(b', Elems(cmds'))
    BY <1>4, <2>3, <2>4, <2>6, <2>9, <2>12 DEF NotHalted, Replaced, SameCounts, BaseInv
  <2>14. Owned(b) => Owned(b')
    BY <1>1, <2>3, <2>4, <2>5, <2>6, FrameIsOwned DEF Replaced, SameCounts
  <2> QED
    BY <1>2, <2>7, <2>10, <2>11, <2>13, <2>14 DEF Minor
<1> QED
  BY <1>3, <1>4

\* kill_switch(true)
LEMMA KillIsMinor ==
  ASSUME BaseInv, Booted, Kill
  PROVE  Minor
<1>1. /\ TypeInv /\ Take("kill") /\ BaseOK(b) /\ left \in World /\ tasks \subseteq Task
      /\ rest \in Seq(Cmd)
  BY TakeDoes DEF BaseInv, TypeInv, Kill
<1> DEFINE h == HarnessHalt(b, Agents(b))
<1>2. b' = [h EXCEPT !.killed = TRUE] /\ cmds' = rest /\ exits' = exits /\ tasks' = tasks /\ left' = left
  BY DEF Kill
<1>3. /\ SameNodes(b, h) /\ SameHalts(b, h)
      /\ \A e \in Env : e \in Agents(b) /\ b.nodes[e] # None => h.nodes[e].hpid = 0
  BY <1>1, HarnessHaltDoes, OffIsMinor
<1> HIDE DEF h
<1>4. /\ b' \in Base /\ b'.gen = h.gen /\ b'.starts = h.starts /\ b'.stopping = h.stopping
      /\ b'.up = h.up /\ b'.ghosts = h.ghosts /\ b'.nodes = h.nodes /\ b'.harnesses = h.harnesses
      /\ b'.lost = h.lost
  BY <1>2, <1>3 DEF SameNodes, BaseOK, Base
<1>5. BaseOK(b')
  BY <1>3, <1>4 DEF SameNodes, BaseOK, Numbered
<1>6. SameNodes(b, b')
  BY <1>3, <1>4, <1>5 DEF SameNodes
<1>7. TypeInv'
  BY <1>1, <1>2, <1>5 DEF TypeInv
<1>8. Booted'
  BY <1>1, <1>2, TakeLeaves DEF Booted
<1>9. NotHalted(b', Elems(cmds'))
  BY <1>3, <1>4 DEF NotHalted, SameNodes, Agents, Known
<1>10. Owned(b) => Owned(b')
  BY <1>3, <1>4 DEF Owned, OwnedIn, SameHalts
<1> QED
  BY <1>2, <1>6, <1>7, <1>8, <1>9, <1>10 DEF Minor

\* kill_switch(false)
LEMMA ResumeIsMinor ==
  ASSUME BaseInv, Booted, Resume
  PROVE  Minor
<1>1. /\ TypeInv /\ Take("resume") /\ BaseOK(b) /\ left \in World /\ tasks \subseteq Task
      /\ rest \in Seq(Cmd)
  BY TakeDoes DEF BaseInv, TypeInv, Resume
<1> DEFINE s == [b EXCEPT !.killed = FALSE]
           X == {e \in Agents(b) : b.nodes[e].registered}
<1>2. cmds' = rest /\ exits' = exits
  BY DEF Resume
<1>3. CASE ~b.killed
  <2>1. b' = b /\ tasks' = tasks /\ left' = left
    BY <1>3 DEF Resume
  <2> QED
    BY <1>1, <1>2, <2>1, Unchanged, TakesOne
<1>4. CASE b.killed
  <2>1. BootHarnesses(s, X)
    BY <1>4 DEF Resume
  <2>2. X \in SUBSET Env
    BY DEF Agents, Known
  <2>3. /\ s \in Base /\ s.gen = b.gen /\ s.starts = b.starts /\ s.stopping = b.stopping
        /\ s.up = b.up /\ s.ghosts = b.ghosts /\ s.nodes = b.nodes /\ s.harnesses = b.harnesses
        /\ s.killed = FALSE /\ s.lost = b.lost
    BY <1>1 DEF BaseOK, Base
  <2> HIDE DEF s, X
  <2>4. BaseOK(s)
    BY <1>1, <2>3 DEF BaseOK, Numbered
  <2>5. SameNodes(b, s)
    BY <2>3, <2>4 DEF SameNodes, SameNode
  <2>6. /\ SameNodes(s, b') /\ SameHalts(s, b') /\ tasks' \subseteq Task
        /\ left' \in World /\ left'.failures = left.failures
    BY <1>1, <2>1, <2>2, <2>4, BootHarnessesDoes
  <2>7. SameNodes(b, b')
    BY <2>5, <2>6 DEF SameNodes, SameNode
  <2>8. TypeInv' /\ left'.failures = left.failures
    BY <1>1, <1>2, <2>6 DEF TypeInv, SameNodes
  <2>9. Booted'
    BY <1>1, <1>2, TakeLeaves DEF Booted
  <2>10. \A e \in Env : b.nodes[e] # None /\ e # Guardian => b.nodes[e].hpid = 0
    BY <1>4 DEF BaseInv, NotHalted
  <2>11. NotHalted(b', Elems(cmds'))
    BY <2>3, <2>6, <2>10 DEF NotHalted, SameNodes, SameHalts
  <2>12. Owned(b) => Owned(b')
    BY <2>3, <2>6 DEF Owned, OwnedIn, SameHalts
  <2> QED
    BY <1>2, <2>7, <2>8, <2>9, <2>11, <2>12 DEF Minor
<1> QED
  BY <1>3, <1>4

---------------------------------------------------------------------------
(* Steps beside the actor.                                                 *)

\* A command is queued behind the others.
LEMMA Queued ==
  ASSUME BaseInv, Booted, NEW m \in Cmd, m.t # "boot", cmds' = Append(cmds, m),
         SameNodes(b, b'), SameHalts(b, b'), exits' = exits, tasks' \subseteq Task, left' \in World,
         left'.failures = left.failures
  PROVE  Minor
<1>1. cmds' \in Seq(Cmd) /\ Elems(cmds') = Elems(cmds) \cup {m}
  BY AppendElems DEF BaseInv, TypeInv
<1>2. TypeInv'
  BY <1>1 DEF BaseInv, TypeInv, SameNodes
<1>3. Booted'
  BY <1>1 DEF Booted
<1>4. NotHalted(b', Elems(cmds'))
  BY <1>1, HaltsKept DEF BaseInv
<1> QED
  BY <1>2, <1>3, <1>4 DEF Minor, SameHalts

\* A node registers: the actor has its command, nothing else changes.
LEMMA NodeRegistersIsMinor ==
  ASSUME BaseInv, Booted, NEW p \in b.up, NodeRegisters(p)
  PROVE  Minor
<1>1. BaseOK(b) /\ left \in World /\ tasks \subseteq Task /\ p \in Process
  BY DEF BaseInv, TypeInv, BaseOK, Base
<1> DEFINE m == [Msg("register", p.env) EXCEPT !.gen = p.gen]
<1>2. m \in Cmd /\ m.t # "boot"
  BY <1>1 DEF Msg, Cmd, Kinds, Process
<1> HIDE DEF m
<1>3. b' = [b EXCEPT !.said = @ \cup {p}] /\ cmds' = Append(cmds, m)
      /\ exits' = exits /\ tasks' = tasks /\ left' = left
  BY DEF NodeRegisters, m
<1>4. /\ b' \in Base /\ b'.gen = b.gen /\ b'.starts = b.starts /\ b'.stopping = b.stopping
      /\ b'.up = b.up /\ b'.ghosts = b.ghosts /\ b'.nodes = b.nodes /\ b'.harnesses = b.harnesses
      /\ b'.killed = b.killed /\ b'.lost = b.lost
  BY <1>1, <1>3 DEF BaseOK, Base
<1>5. BaseOK(b')
  BY <1>1, <1>4 DEF BaseOK, Numbered
<1>6. SameNodes(b, b') /\ SameHalts(b, b')
  BY <1>4, <1>5 DEF SameNodes, SameHalts, SameNode, Owned, OwnedIn
<1> QED
  BY <1>1, <1>2, <1>3, <1>6, Queued

\* A boot or probe task reports.
LEMMA ReportIsMinor ==
  ASSUME BaseInv, Booted, NEW k \in tasks, NEW ok \in BOOLEAN, Report(k, ok)
  PROVE  Minor
<1>1. BaseOK(b) /\ left \in World /\ tasks \subseteq Task /\ k \in Task
  BY DEF BaseInv, TypeInv
<1> DEFINE m == [Msg(IF k.kind = "worker" THEN "worker_ready" ELSE "harness_ready", k.env)
                   EXCEPT !.ok = ok]
<1>2. m \in Cmd /\ m.t # "boot"
  BY <1>1 DEF Msg, Cmd, Kinds, Task
<1> HIDE DEF m
<1>3. b' = b /\ cmds' = Append(cmds, m) /\ exits' = exits /\ tasks' \subseteq tasks /\ left' = left
  BY DEF Report, m
<1> QED
  BY <1>1, <1>2, <1>3, Unchanged, Queued

\* A client asks.
LEMMA AskIsMinor ==
  ASSUME BaseInv, Booted, NEW c \in Asked, Ask(c)
  PROVE  Minor
<1>1. BaseOK(b) /\ left \in World /\ tasks \subseteq Task
  BY DEF BaseInv, TypeInv
<1>2. c \in Cmd /\ c.t # "boot"
  <2>1. left.named \subseteq Env /\ Root \in Env
    BY <1>1, SupervisorAssumption DEF World
  <2>2. CASE c \in {Msg(t, e) : t \in left.requests \cap {"reset", "stop_child", "spend", "destroy"},
                                e \in left.named}
    <3>1. PICK t \in {"reset", "stop_child", "spend", "destroy"}, e \in Env : c = Msg(t, e)
      BY <2>1, <2>2
    <3> QED
      BY <3>1, MsgIsCmd DEF Kinds
  <2>3. CASE c \in {Msg(t, Root) : t \in left.requests \cap {"kill", "resume", "stop"}}
    <3>1. PICK t \in {"kill", "resume", "stop"} : c = Msg(t, Root)
      BY <2>3
    <3> QED
      BY <2>1, <3>1, MsgIsCmd DEF Kinds
  <2>4. CASE c \in {[Msg("spawn", p) EXCEPT !.to = d] :
                      p \in IF "spawn" \in left.requests THEN left.named ELSE {},
                      d \in left.named \ {Root}}
    <3>1. PICK p \in Env, d \in Env : c = [Msg("spawn", p) EXCEPT !.to = d]
      BY <2>1, <2>4
    <3> QED
      BY <3>1 DEF Msg, Cmd, Kinds
  <2> QED
    BY <2>2, <2>3, <2>4 DEF Asked
<1>3. b' = b /\ cmds' = Append(cmds, c) /\ exits' = exits /\ tasks' = tasks
      /\ left' = [left EXCEPT !.req = @ - 1] /\ left.req > 0
  BY DEF Ask
<1>4. left' \in World /\ left'.failures = left.failures
  BY <1>1, <1>3 DEF World
<1> QED
  BY <1>1, <1>2, <1>3, <1>4, Unchanged, Queued

---------------------------------------------------------------------------
(* Types, restarts and halts through the steps that change nodes.          *)

\* What BaseInv asks of a step that changes nodes.
Major == TypeInv' /\ Booted' /\ Restarts(b') /\ NotHalted(b', Elems(cmds'))

\* Restarts are counted in records that the other handlers leave alone.
LEMMA MinorRestarts ==
  ASSUME NEW s, NEW t, SameNodes(s, t), Restarts(s)
  PROVE  Restarts(t)
BY DEF SameNodes, Restarts, RestartsOf, SameNode

\* start() gives no harness.
LEMMA StartHalts ==
  ASSUME NEW s, BaseOK(s), NEW e \in Env, NEW n \in Node, NEW t, StartedAs(s, e, n, t), NEW c,
         NotHalted(s, c)
  PROVE  NotHalted(t, c)
<1>1. s.gen + 1 \in Nat /\ s.nodes \in [Env -> Node \cup {None}]
  BY DEF BaseOK, Base
<1>2. Started(n, e, s.gen + 1).hpid = 0
  BY <1>1, StartedDoes
<1>3. \A d \in Env : t.nodes[d] = IF d = e THEN Started(n, e, s.gen + 1) ELSE s.nodes[d]
  BY <1>1 DEF StartedAs
<1> QED
  BY <1>2, <1>3 DEF NotHalted, StartedAs

\* start() is one more start.
LEMMA StartRestarts ==
  ASSUME NEW s, BaseOK(s), NEW e \in Env, NEW n \in Node, NEW t, StartedAs(s, e, n, t),
         \A d \in Env : d # e => RestartsOf(s, d),
         n.restarts <= max_restarts, s.starts[e] <= n.restarts
  PROVE  Restarts(t)
<1>1. /\ s.gen + 1 \in Nat /\ s.nodes \in [Env -> Node \cup {None}] /\ s.starts \in [Env -> Nat]
      /\ n.restarts \in Nat
  BY DEF BaseOK, Base, Node
<1> DEFINE m == Started(n, e, s.gen + 1)
<1>2. m \in Node /\ m.restarts = n.restarts /\ m # None
  BY <1>1, StartedDoes, NodeIsNotNone
<1> HIDE DEF m
<1>3. \A d \in Env : /\ t.nodes[d] = IF d = e THEN m ELSE s.nodes[d]
                     /\ t.starts[d] = IF d = e THEN s.starts[d] + 1 ELSE s.starts[d]
  BY <1>1 DEF StartedAs, m
<1> QED
  BY <1>1, <1>2, <1>3 DEF Restarts, RestartsOf

\* A start() that failed is none.
LEMMA FailedRestarts ==
  ASSUME NEW s, BaseOK(s), NEW e \in Env, NEW how \in {"spawn", "sandbox"},
         NEW t, t = StartFailed(s, e, how), Restarts(s)
  PROVE  Restarts(t)
<1>1. s.nodes \in [Env -> Node \cup {None}] /\ s.starts \in [Env -> Nat]
  BY DEF BaseOK, Base
<1>2. CASE how = "spawn"
  BY <1>2, SpawnFailedDoes DEF Restarts, RestartsOf
<1>3. CASE how = "sandbox"
  <2>1. t.starts = s.starts /\ t.nodes = [s.nodes EXCEPT ![e] = None]
    BY <1>3, SandboxFailedDoes
  <2>2. \A d \in Env : t.nodes[d] = IF d = e THEN None ELSE s.nodes[d]
    BY <1>1, <2>1
  <2>3. \A d \in Env : s.nodes[d] # None => s.nodes[d].restarts \in Nat
    BY <1>1 DEF Node
  <2> QED
    BY <1>1, <2>1, <2>2, <2>3, SupervisorAssumption DEF Restarts, RestartsOf
<1> QED
  BY <1>2, <1>3

\* Nor does it give a harness.
LEMMA FailedHalts ==
  ASSUME NEW s, BaseOK(s), NEW e \in Env, NEW how \in {"spawn", "sandbox"},
         NEW t, t = StartFailed(s, e, how), NEW c, NotHalted(s, c)
  PROVE  NotHalted(t, c) /\ BaseOK(t)
<1>1. s.nodes \in [Env -> Node \cup {None}]
  BY DEF BaseOK, Base
<1>2. CASE how = "spawn"
  BY <1>2, SpawnFailedDoes DEF NotHalted
<1>3. CASE how = "sandbox"
  <2>1. t.killed = s.killed /\ BaseOK(t) /\ t.nodes = [s.nodes EXCEPT ![e] = None]
    BY <1>3, SandboxFailedDoes
  <2>2. \A d \in Env : t.nodes[d] = IF d = e THEN None ELSE s.nodes[d]
    BY <1>1, <2>1
  <2> QED
    BY <2>1, <2>2 DEF NotHalted
<1> QED
  BY <1>2, <1>3

\* What may fail in start().
LEMMA FailsAre ==
  ASSUME TypeInv, NEW e, NEW how \in Fails(e)
  PROVE  how \in {"spawn", "sandbox"} \cap left.failures
BY DEF TypeInv, World, Fails

\* Base::new is where everything holds.
LEMMA NewBaseHolds ==
  /\ BaseOK(NewBase) /\ Restarts(NewBase) /\ \A c : NotHalted(NewBase, c)
  /\ \A e \in Env : NewBase.nodes[e] = None /\ NewBase.starts[e] = 0
<1>1. NewBase \in Base /\ \A e \in Env : NewBase.nodes[e] = None /\ NewBase.starts[e] = 0
  BY DEF NewBase, Base
<1> QED
  BY <1>1, SupervisorAssumption DEF BaseOK, Numbered, Restarts, RestartsOf, NotHalted

\* boot(): from nothing, the guardian and then the root.
LEMMA BootIsMajor ==
  ASSUME BaseInv, NotBooted, Boot
  PROVE  Major
<1>1. /\ TypeInv /\ b = NewBase /\ BaseOK(b) /\ left \in World /\ tasks \subseteq Task
      /\ exits \in Seq(Exit) /\ Guardian \in Env /\ Root \in Env /\ Guardian # Root
      /\ NoEnv \in Env \cup {NoEnv}
  BY SupervisorAssumption DEF BaseInv, TypeInv, NotBooted
<1> DEFINE g == Start(b, Guardian, NoEnv)
           n == Staged(NoEnv, 0)
<1>2. n \in Node /\ n.restarts = 0
  BY StagedIsNode
<1>3. StartedAs(b, Guardian, n, g)
  BY <1>1, StartDoes, NewBaseHolds DEF OldNode
<1>4. BaseOK(g) /\ Restarts(g) /\ \A c : NotHalted(g, c)
  <2>1. BaseOK(g)
    BY <1>3 DEF StartedAs
  <2>2. Restarts(g)
    <3>1. n.restarts <= max_restarts /\ b.starts[Guardian] <= n.restarts
      BY <1>1, <1>2, NewBaseHolds, SupervisorAssumption
    <3>2. \A d \in Env : d # Guardian => RestartsOf(b, d)
      BY <1>1, NewBaseHolds DEF Restarts
    <3> HIDE DEF g, n
    <3> QED
      BY <1>1, <1>2, <1>3, <3>1, <3>2, StartRestarts
  <2> HIDE DEF g, n
  <2>3. ASSUME NEW c PROVE NotHalted(g, c)
    BY <1>1, <1>2, <1>3, NewBaseHolds, StartHalts
  <2> QED
    BY <2>1, <2>2, <2>3
<1>5. g.nodes[Root] = None /\ g.starts[Root] = 0
  <2>1. b.nodes \in [Env -> Node \cup {None}] /\ b.starts \in [Env -> Nat]
    BY <1>1 DEF BaseOK, Base
  <2> HIDE DEF g, n
  <2> QED
    BY <1>1, <1>3, <2>1, NewBaseHolds DEF StartedAs
<1> HIDE DEF g
<1>6. rest = <<>>
  BY DEF NotBooted, rest
<1>7. CASE b' = Start(g, Root, NoEnv) /\ cmds' = rest /\ left' = left
  <2>1. StartedAs(g, Root, n, b')
    BY <1>1, <1>4, <1>5, <1>7, StartDoes DEF OldNode
  <2>2. n.restarts <= max_restarts /\ g.starts[Root] <= n.restarts
    BY <1>2, <1>5, SupervisorAssumption
  <2>3. \A d \in Env : d # Root => RestartsOf(g, d)
    BY <1>4 DEF Restarts
  <2> HIDE DEF n
  <2>4. Restarts(b')
    BY <1>1, <1>2, <1>4, <2>1, <2>2, <2>3, StartRestarts
  <2>5. NotHalted(b', Elems(cmds'))
    BY <1>1, <1>2, <1>4, <2>1, StartHalts
  <2>6. TypeInv' /\ Booted'
    BY <1>1, <1>6, <1>7, <2>1 DEF Boot, TypeInv, StartedAs, Booted, Elems
  <2> QED
    BY <2>4, <2>5, <2>6 DEF Major
<1>8. ASSUME NEW e \in {Guardian, Root}, NEW how \in Fails(e), Failed,
             b' = (IF e = Guardian THEN StartFailed(b, e, how) ELSE StartFailed(g, e, how)),
             cmds' = Append(rest, Msg("stop", Root))
      PROVE  Major
  <2>1. how \in {"spawn", "sandbox"}
    BY <1>1, FailsAre
  <2>2. PICK s : s = IF e = Guardian THEN b ELSE g
    OBVIOUS
  <2>3. BaseOK(s) /\ Restarts(s) /\ (\A c : NotHalted(s, c)) /\ b' = StartFailed(s, e, how) /\ e \in Env
    BY <1>1, <1>4, <1>8, <2>2, NewBaseHolds
  <2>4. Restarts(b') /\ NotHalted(b', Elems(cmds')) /\ BaseOK(b')
    BY <2>1, <2>3, FailedRestarts, FailedHalts
  <2>5. Msg("stop", Root) \in Cmd /\ Msg("stop", Root).t # "boot" /\ rest \in Seq(Cmd)
    BY <1>1, <1>6, MsgIsCmd DEF Kinds
  <2>6. cmds' \in Seq(Cmd) /\ Elems(cmds') = Elems(rest) \cup {Msg("stop", Root)}
    BY <1>8, <2>5, AppendElems
  <2>7. Elems(rest) = {}
    BY <1>6 DEF Elems
  <2>8. left' \in World
    BY <1>1, <1>8, FailedDoes
  <2>9. TypeInv' /\ Booted'
    BY <1>1, <2>4, <2>5, <2>6, <2>7, <2>8 DEF Boot, TypeInv, Booted
  <2> QED
    BY <2>4, <2>9 DEF Major
<1> QED
  BY <1>7, <1>8 DEF Boot, g

\* The effect of on_register(): nothing, or the node is connected.
Connected(s, e, g, t) ==
  /\ Registers(s, e, g)
  /\ BaseOK(t) /\ t.up = s.up /\ t.ghosts = s.ghosts /\ SameCounts(s, t)
  /\ t.nodes = [s.nodes EXCEPT ![e] = [@ EXCEPT !.peer = g, !.registered = TRUE]]

\* on_register() has that effect.
LEMMA RegisterDoes ==
  ASSUME TypeInv, Register, Registers(b, cmd.env, cmd.gen)
  PROVE  Connected(b, cmd.env, cmd.gen, b')
<1>1. BaseOK(b) /\ cmd.env \in Env /\ cmd.gen \in Nat
  BY TakeDoes DEF TypeInv, Register
<1> DEFINE e == cmd.env
           n == b.nodes[e]
           m == [n EXCEPT !.peer = cmd.gen, !.registered = TRUE]
           s == [b EXCEPT !.nodes[e].peer = cmd.gen, !.nodes[e].registered = TRUE]
           q == b.promoted \/ \A d \in Known(s) : s.nodes[d].registered
<1>2. n \in Node /\ n.gen <= b.gen /\ n.hpid <= b.harnesses[e]
  BY <1>1, KnownIsNode DEF BaseOK, Numbered, Registers
<1>3. m \in Node /\ m.gen = n.gen /\ m.hpid = n.hpid
  BY <1>1, <1>2 DEF Node
<1>4. s = [b EXCEPT !.nodes[e] = m]
  BY <1>1 DEF BaseOK, Base
<1>5. b' = [s EXCEPT !.promoted = q]
  <2>1. s.promoted = b.promoted
    BY <1>1 DEF BaseOK, Base
  <2> QED
    BY <2>1 DEF Register
<1>6. q \in BOOLEAN
  OBVIOUS
<1> HIDE DEF s, q, m
<1>7. Replaced(b, e, m, s)
  BY <1>1, <1>2, <1>3, <1>4, ReplaceDoes
<1>8. /\ b' \in Base /\ b'.up = s.up /\ b'.ghosts = s.ghosts /\ SameCounts(s, b')
      /\ b'.nodes = s.nodes
  BY <1>5, <1>6, <1>7 DEF Replaced, BaseOK, Base, SameCounts
<1>9. BaseOK(b')
  BY <1>7, <1>8 DEF Replaced, BaseOK, Numbered, SameCounts
<1> QED
  BY <1>7, <1>8, <1>9 DEF Connected, Replaced, SameCounts, m

\* on_register()
LEMMA RegisterIsMajor ==
  ASSUME BaseInv, Booted, Register
  PROVE  Major
<1>1. /\ TypeInv /\ BaseOK(b) /\ Take("register") /\ cmd.env \in Env /\ cmd.gen \in Nat
      /\ rest \in Seq(Cmd) /\ Restarts(b) /\ NotHalted(b, Elems(cmds))
  BY TakeDoes DEF TypeInv, Register, BaseInv
<1> DEFINE e == cmd.env
<1>2. exits' = exits /\ tasks' = tasks /\ left' = left
  BY DEF Register
<1>3. /\ \A m \in Elems(rest) : m.t # "boot"
      /\ \A d \in Env : Msg("halt", d) \in Elems(cmds) => Msg("halt", d) \in Elems(rest)
  BY <1>1, TakeLeaves
<1>4. /\ cmds' \in Seq(Cmd) /\ Elems(rest) \subseteq Elems(cmds')
      /\ \A m \in Elems(cmds') : m.t # "boot"
  <2>1. CASE cmds' = rest
    BY <1>1, <1>3, <2>1
  <2>2. CASE cmds' = Append(rest, Msg("worker_boot", e))
    <3>1. Msg("worker_boot", e) \in Cmd /\ Msg("worker_boot", e).t = "worker_boot"
      BY <1>1, MsgIsCmd DEF Kinds
    <3>2. cmds' \in Seq(Cmd) /\ Elems(cmds') = Elems(rest) \cup {Msg("worker_boot", e)}
      BY <1>1, <2>2, <3>1, AppendElems
    <3> QED
      BY <1>3, <3>1, <3>2
  <2> QED
    BY <2>1, <2>2 DEF Register
<1>5. BaseOK(b') /\ Restarts(b') /\ NotHalted(b', Elems(cmds'))
  <2>1. CASE ~Registers(b, e, cmd.gen)
    <3>1. b' = b
      BY <2>1 DEF Register
    <3> QED
      BY <1>1, <1>3, <1>4, <3>1 DEF NotHalted
  <2>2. CASE Registers(b, e, cmd.gen)
    <3>1. Connected(b, e, cmd.gen, b')
      BY <1>1, <2>2, RegisterDoes
    <3>2. b.nodes[e] \in Node /\ b.nodes[e] # None /\ b.nodes \in [Env -> Node \cup {None}]
      BY <1>1, <2>2, KnownIsNode DEF Registers, BaseOK, Base
    <3>3. PICK g \in Nat : g = cmd.gen
      BY <1>1
    <3>4. PICK m : m = [b.nodes[e] EXCEPT !.peer = g, !.registered = TRUE]
      OBVIOUS
    <3>5. /\ m \in Node /\ m.restarts = b.nodes[e].restarts /\ m.halted = b.nodes[e].halted
          /\ m.hpid = b.nodes[e].hpid /\ m # None
      BY <3>2, <3>4, NodeIsNotNone DEF Node
    <3>6. \A d \in Env : b'.nodes[d] = IF d = e THEN m ELSE b.nodes[d]
      BY <3>1, <3>2, <3>3, <3>4 DEF Connected
    <3>7. BaseOK(b') /\ b'.starts = b.starts /\ b'.killed = b.killed
      BY <3>1 DEF Connected, SameCounts
    <3>8. Restarts(b')
      BY <1>1, <3>2, <3>5, <3>6, <3>7 DEF Restarts, RestartsOf
    <3>9. NotHalted(b', Elems(cmds'))
      BY <1>1, <1>3, <1>4, <3>2, <3>5, <3>6, <3>7 DEF NotHalted
    <3> QED
      BY <3>7, <3>8, <3>9
  <2> QED
    BY <2>1, <2>2
<1> QED
  BY <1>1, <1>2, <1>4, <1>5 DEF Major, TypeInv, Booted

\* The state in which reset() starts the node again: harness and node are
\* dead, the record is disconnected and its starts are counted from zero.
ResetState(s, e) ==
  LET h == HarnessHalt(s, {e}) IN
  [Terminate(h, NodeProc(h, e)) EXCEPT
     !.nodes[e].registered = FALSE, !.nodes[e].peer = 0, !.nodes[e].worker = "off", !.starts[e] = 0]

\* The effect of that part of reset().
Cleared(s, e, t) ==
  /\ BaseOK(t) /\ t.gen = s.gen /\ t.killed = s.killed /\ t.stopping = s.stopping
  /\ t.starts = [s.starts EXCEPT ![e] = 0] /\ Reaped(s, t) /\ (Owned(s) => Owned(t))
  /\ \A p \in s.up : p.num = 0 => (p \in t.up <=> ~(p.env = e /\ p.gen = s.nodes[e].pid))
  /\ \A d \in Env : d # e => t.nodes[d] = s.nodes[d]
  /\ LET n == s.nodes[e]
         m == t.nodes[e] IN
     /\ m \in Node /\ m.gen = n.gen /\ m.pid = n.pid /\ m.restarts = n.restarts
     /\ m.parent = n.parent /\ m.depth = n.depth /\ m.halted = n.halted
     /\ ~m.registered /\ m.hpid = 0

\* The first part of reset() has that effect.
LEMMA ResetStateDoes ==
  ASSUME NEW s, BaseOK(s), NEW e \in Env, s.nodes[e] # None
  PROVE  Cleared(s, e, ResetState(s, e))
<1> DEFINE h == HarnessHalt(s, {e})
           k == Terminate(h, NodeProc(h, e))
           t == ResetState(s, e)
<1>1. HarnessesOff(s, {e}, h)
  BY HarnessHaltDoes
<1>2. t = [k EXCEPT !.nodes[e].registered = FALSE, !.nodes[e].peer = 0, !.nodes[e].worker = "off",
                    !.starts[e] = 0]
  BY DEF ResetState
<1> HIDE DEF t, h
<1>3. Killed(h, NodeProc(h, e), k)
  BY <1>1, TerminateDoes DEF HarnessesOff
<1> HIDE DEF k
<1>4. PICK n \in Node : n = s.nodes[e]
  BY KnownIsNode DEF BaseOK
<1>5. k.nodes[e] = [n EXCEPT !.harness = "off", !.hpid = 0]
  BY <1>1, <1>3, <1>4 DEF Killed, HarnessesOff
<1>6. PICK m : m = [k.nodes[e] EXCEPT !.registered = FALSE, !.peer = 0, !.worker = "off"]
  OBVIOUS
<1>7. /\ m \in Node /\ m.gen = n.gen /\ m.pid = n.pid /\ m.restarts = n.restarts
      /\ m.parent = n.parent /\ m.depth = n.depth /\ m.halted = n.halted
      /\ ~m.registered /\ m.hpid = 0
  <2>1. PICK q : q = [n EXCEPT !.harness = "off", !.hpid = 0]
    OBVIOUS
  <2>2. /\ q \in Node /\ q.gen = n.gen /\ q.pid = n.pid /\ q.restarts = n.restarts
        /\ q.parent = n.parent /\ q.depth = n.depth /\ q.halted = n.halted /\ q.hpid = 0
    BY <2>1 DEF Node, HarnessState
  <2>3. m = [q EXCEPT !.registered = FALSE, !.peer = 0, !.worker = "off"]
    BY <1>5, <1>6, <2>1
  <2> QED
    BY <2>2, <2>3 DEF Node, WorkerState
<1>8. /\ k \in Base /\ k.nodes \in [Env -> Node \cup {None}]
      /\ k.starts \in [Env -> Nat] /\ k.starts = s.starts
  BY <1>1, <1>3 DEF Killed, HarnessesOff, BaseOK, Base, SameCounts
<1>9. t = [k EXCEPT !.nodes = [k.nodes EXCEPT ![e] = m], !.starts = [k.starts EXCEPT ![e] = 0]]
  BY <1>2, <1>6, <1>8 DEF Base
<1>10. /\ [k.nodes EXCEPT ![e] = m] \in [Env -> Node \cup {None}]
       /\ [k.starts EXCEPT ![e] = 0] \in [Env -> Nat]
  BY <1>7, <1>8
<1>11. /\ t \in Base /\ t.nodes = [k.nodes EXCEPT ![e] = m] /\ t.starts = [s.starts EXCEPT ![e] = 0]
       /\ t.gen = k.gen /\ t.killed = k.killed /\ t.stopping = k.stopping /\ t.up = k.up
       /\ t.ghosts = k.ghosts /\ t.harnesses = k.harnesses /\ t.lost = k.lost
  BY <1>8, <1>9, <1>10 DEF Base
<1>12. \A d \in Env : t.nodes[d] = IF d = e THEN m ELSE s.nodes[d]
  <2>1. \A d \in Env : t.nodes[d] = IF d = e THEN m ELSE k.nodes[d]
    BY <1>8, <1>11
  <2>2. \A d \in Env : d # e => k.nodes[d] = s.nodes[d]
    BY <1>1, <1>3 DEF Killed, HarnessesOff
  <2> QED
    BY <2>1, <2>2
<1>13. /\ t.gen = s.gen /\ t.killed = s.killed /\ t.stopping = s.stopping /\ t.harnesses = s.harnesses
       /\ Reaped(s, t)
  BY <1>1, <1>3, <1>11 DEF Killed, HarnessesOff, SameCounts, Reaped
<1>14. Numbered(t)
  <2>1. s.gen \in Nat /\ \A d \in Env : s.harnesses[d] \in Nat
    BY DEF BaseOK, Base
  <2>2. n.gen <= s.gen
    BY <1>4 DEF BaseOK, Numbered
  <2> QED
    BY <1>7, <1>12, <1>13, <2>1, <2>2 DEF BaseOK, Numbered
<1>15. \A p \in s.up : p.num = 0 => (p \in t.up <=> ~(p.env = e /\ p.gen = s.nodes[e].pid))
  <2>1. h.nodes[e].pid = s.nodes[e].pid
    <3>1. h.nodes[e] = [n EXCEPT !.harness = "off", !.hpid = 0]
      BY <1>1, <1>4 DEF HarnessesOff
    <3> QED
      BY <1>4, <3>1 DEF Node
  <2>2. \A p \in h.up : p.num = 0 => (p \in NodeProc(h, e) <=> p.env = e /\ p.gen = s.nodes[e].pid)
    BY <2>1 DEF NodeProc
  <2> QED
    BY <1>1, <1>3, <1>11, <2>2 DEF HarnessesOff, Killed
<1>16. t.nodes[e] = m /\ \A d \in Env : d # e => t.nodes[d] = s.nodes[d]
  BY <1>12
<1>17. ASSUME Owned(s) PROVE Owned(t)
  <2>1. Owned(h) /\ BaseOK(h) /\ BaseOK(k)
    BY <1>1, <1>3, <1>17, OffIsOwned DEF HarnessesOff, Killed
  <2>2. Owned(k)
    BY <1>3, <2>1, FrameIsOwned DEF Killed, SameCounts
  <2>3. k.nodes[e].hpid = 0
    BY <1>4, <1>5 DEF Node
  <2>4. \A d \in Env : d # e => t.nodes[d] = k.nodes[d]
    BY <1>8, <1>11
  <2>5. t.nodes[e] # None
    BY <1>7, <1>16, NodeIsNotNone
  <2>6. \A d \in Env : k.nodes[d] # None => t.nodes[d] # None /\ t.nodes[d].hpid = k.nodes[d].hpid
    BY <1>7, <1>16, <2>3, <2>4, <2>5
  <2> QED
    BY <1>11, <2>1, <2>2, <2>6, FrameIsOwned
<1> QED
  BY <1>4, <1>7, <1>11, <1>13, <1>14, <1>15, <1>16, <1>17 DEF Cleared, BaseOK, t

\* reset()'s clean record over the started one.
LEMMA CleanDoes ==
  ASSUME NEW s, BaseOK(s), NEW e \in Env, s.nodes[e] # None, NEW f \in BOOLEAN
  PROVE  LET t == [s EXCEPT !.nodes[e].restarts = 0, !.nodes[e].halted = f] IN
         Replaced(s, e, [s.nodes[e] EXCEPT !.restarts = 0, !.halted = f], t)
<1> DEFINE n == s.nodes[e]
           m == [n EXCEPT !.restarts = 0, !.halted = f]
           t == [s EXCEPT !.nodes[e].restarts = 0, !.nodes[e].halted = f]
<1>1. n \in Node /\ n.gen <= s.gen /\ n.hpid <= s.harnesses[e]
  BY KnownIsNode DEF BaseOK, Numbered
<1>2. m \in Node /\ m.gen = n.gen /\ m.hpid = n.hpid
  BY <1>1 DEF Node
<1>3. t = [s EXCEPT !.nodes[e] = m]
  BY DEF BaseOK, Base
<1> HIDE DEF m, t
<1>4. Replaced(s, e, m, [s EXCEPT !.nodes[e] = m])
  BY <1>1, <1>2, ReplaceDoes
<1> QED
  BY <1>3, <1>4 DEF m, t

\* reset(): what it leaves.  The node runs again in a clean record, or it is
\* dead and its old record stays.
LEMMA ResetDoes ==
  ASSUME TypeInv, Reset
  PROVE  LET e == cmd.env
             s == ResetState(b, e) IN
         \/ b' = b /\ left' = left
         \/ /\ e # Guardian /\ b.nodes[e] # None /\ Cleared(b, e, s)
            /\ \/ \E t, f : /\ StartedAs(s, e, s.nodes[e], t) /\ f \in BOOLEAN /\ left' = left
                            /\ (f => b.nodes[e].halted)
                            /\ Replaced(t, e, [t.nodes[e] EXCEPT !.restarts = 0, !.halted = f], b')
               \/ \E how \in Fails(e) : b' = StartFailed(s, e, how) /\ Failed
<1>1. BaseOK(b) /\ cmd.env \in Env
  BY TakeDoes DEF TypeInv, Reset
<1> DEFINE e == cmd.env
           s == ResetState(b, e)
           t == Start(s, e, NoEnv)
           f == t.nodes[e].halted /\ ~BudgetReset
<1>2. CASE e = Guardian \/ b.nodes[e] = None
  BY <1>2 DEF Reset
<1>3. CASE e # Guardian /\ b.nodes[e] # None
  <2>1. Cleared(b, e, s)
    BY <1>1, <1>3, ResetStateDoes
  <2>2. \/ b' = [t EXCEPT !.nodes[e].restarts = 0, !.nodes[e].halted = @ /\ ~BudgetReset] /\ left' = left
        \/ \E how \in Fails(e) : b' = StartFailed(s, e, how) /\ Failed
    BY <1>3 DEF Reset, ResetState
  <2>3. ASSUME b' = [t EXCEPT !.nodes[e].restarts = 0, !.nodes[e].halted = @ /\ ~BudgetReset]
        PROVE  /\ StartedAs(s, e, s.nodes[e], t) /\ f \in BOOLEAN /\ (f => b.nodes[e].halted)
               /\ Replaced(t, e, [t.nodes[e] EXCEPT !.restarts = 0, !.halted = f], b')
    <3> HIDE DEF s
    <3>1. BaseOK(s) /\ s.nodes[e] \in Node /\ s.nodes[e] # None /\ s.nodes[e].halted = b.nodes[e].halted
      BY <2>1, NodeIsNotNone DEF Cleared
    <3>2. StartedAs(s, e, s.nodes[e], t)
      BY <1>1, <3>1, StartDoes DEF OldNode
    <3>3. BaseOK(t) /\ t.nodes = [s.nodes EXCEPT ![e] = Started(s.nodes[e], e, s.gen + 1)]
      BY <3>2 DEF StartedAs
    <3>4. s.nodes \in [Env -> Node \cup {None}] /\ s.gen + 1 \in Nat
      BY <3>1 DEF BaseOK, Base
    <3>5. t.nodes[e] = Started(s.nodes[e], e, s.gen + 1)
      BY <1>1, <3>3, <3>4
    <3> HIDE DEF t
    <3>6. t.nodes[e] \in Node /\ t.nodes[e].halted = b.nodes[e].halted /\ t.nodes[e] # None
      BY <1>1, <3>1, <3>4, <3>5, StartedDoes, NodeIsNotNone
    <3>7. b' = [t EXCEPT !.nodes[e].restarts = 0, !.nodes[e].halted = f]
      BY <2>3, <3>3 DEF BaseOK, Base
    <3>8. f \in BOOLEAN /\ (f => b.nodes[e].halted)
      BY <3>6
    <3> HIDE DEF f
    <3>9. Replaced(t, e, [t.nodes[e] EXCEPT !.restarts = 0, !.halted = f], b')
      BY <1>1, <3>3, <3>6, <3>7, <3>8, CleanDoes
    <3> QED
      BY <3>2, <3>8, <3>9
  <2> HIDE DEF s, t, f
  <2> QED
    BY <1>3, <2>1, <2>2, <2>3 DEF s
<1> QED
  BY <1>2, <1>3

\* A handler that takes a command and queues none.
LEMMA TakesMajor ==
  ASSUME BaseInv, Booted, NEW t, Take(t), t # "halt", cmds' = rest, exits' = exits, tasks' = tasks,
         left' \in World, BaseOK(b'), Restarts(b'), NotHalted(b', Elems(cmds))
  PROVE  Major
<1>1. TypeInv /\ rest \in Seq(Cmd)
  BY TakeDoes DEF BaseInv
<1>2. TypeInv' /\ Booted'
  BY <1>1, TakeLeaves DEF TypeInv, Booted
<1>3. \A e \in Env : Msg("halt", e) \in Elems(cmds) => Msg("halt", e) \in Elems(cmds')
  BY <1>1, TakeLeaves
<1>4. NotHalted(b', Elems(cmds'))
  BY <1>3 DEF NotHalted
<1> QED
  BY <1>2, <1>4 DEF Major

\* reset()
LEMMA ResetIsMajor ==
  ASSUME BaseInv, Booted, Reset
  PROVE  Major
<1>1. /\ TypeInv /\ BaseOK(b) /\ Take("reset") /\ cmd.env \in Env /\ left \in World
      /\ Restarts(b) /\ NotHalted(b, Elems(cmds))
  BY TakeDoes DEF TypeInv, Reset, BaseInv
<1>2. cmds' = rest /\ exits' = exits /\ tasks' = tasks
  BY DEF Reset
<1>3. PICK e : e = cmd.env
  OBVIOUS
<1>4. PICK s : s = ResetState(b, e)
  OBVIOUS
<1>5. CASE b' = b /\ left' = left
  BY <1>1, <1>2, <1>5, TakesMajor
<1>6. ASSUME e # Guardian, b.nodes[e] # None, Cleared(b, e, s)
      PROVE  /\ e \in Env /\ BaseOK(s) /\ Restarts(s) /\ NotHalted(s, Elems(cmds))
             /\ s.nodes[e] \in Node /\ s.starts[e] = 0
  <2>1. /\ e \in Env /\ b.starts \in [Env -> Nat]
        /\ b.nodes[e].restarts <= max_restarts
    BY <1>1, <1>3, <1>6 DEF BaseOK, Base, Restarts, RestartsOf
  <2>2. /\ s.starts = [b.starts EXCEPT ![e] = 0] /\ s.nodes[e] \in Node
        /\ s.nodes[e].restarts = b.nodes[e].restarts
        /\ s.nodes[e].hpid = 0 /\ BaseOK(s) /\ s.killed = b.killed
    BY <1>6 DEF Cleared
  <2>3. \A d \in Env : d # e => s.nodes[d] = b.nodes[d] /\ s.starts[d] = b.starts[d]
    BY <1>6, <2>1, <2>2 DEF Cleared
  <2>4. s.starts[e] = 0 /\ s.nodes[e].restarts \in Nat /\ s.nodes[e] # None
    BY <2>1, <2>2, NodeIsNotNone DEF Node
  <2>5. Restarts(s)
    BY <1>1, <2>1, <2>2, <2>3, <2>4 DEF Restarts, RestartsOf
  <2>6. NotHalted(s, Elems(cmds))
    BY <1>1, <2>2, <2>3 DEF NotHalted
  <2> QED
    BY <2>1, <2>2, <2>4, <2>5, <2>6
<1>7. ASSUME e # Guardian, b.nodes[e] # None, Cleared(b, e, s), NEW how \in Fails(e),
             b' = StartFailed(s, e, how), Failed
      PROVE  Major
  <2>1. how \in {"spawn", "sandbox"} /\ left' \in World
    BY <1>1, <1>7, FailsAre, FailedDoes
  <2>2. BaseOK(b') /\ Restarts(b') /\ NotHalted(b', Elems(cmds))
    BY <1>6, <1>7, <2>1, FailedRestarts, FailedHalts
  <2> QED
    BY <1>1, <1>2, <2>1, <2>2, TakesMajor
<1>8. ASSUME e # Guardian, b.nodes[e] # None, Cleared(b, e, s), NEW t, NEW f \in BOOLEAN,
             StartedAs(s, e, s.nodes[e], t), left' = left,
             Replaced(t, e, [t.nodes[e] EXCEPT !.restarts = 0, !.halted = f], b')
      PROVE  Major
  <2>1. NotHalted(t, Elems(cmds)) /\ BaseOK(t)
    BY <1>6, <1>8, StartHalts DEF StartedAs
  <2>2. PICK n : n = t.nodes[e]
    OBVIOUS
  <2>3. /\ s.gen + 1 \in Nat /\ s.nodes \in [Env -> Node \cup {None}]
        /\ s.starts \in [Env -> Nat] /\ e \in Env
    BY <1>6, <1>8 DEF BaseOK, Base
  <2>4. n = Started(s.nodes[e], e, s.gen + 1)
    BY <1>8, <2>2, <2>3 DEF StartedAs
  <2>5. n \in Node /\ n.hpid = 0
    BY <1>6, <1>8, <2>3, <2>4, StartedDoes
  <2>6. PICK m : m = [n EXCEPT !.restarts = 0, !.halted = f]
    OBVIOUS
  <2>7. m \in Node /\ m.restarts = 0 /\ m.hpid = 0 /\ m # None
    BY <2>5, <2>6, NodeIsNotNone DEF Node
  <2>8. /\ BaseOK(b') /\ b'.killed = t.killed /\ b'.starts = t.starts
        /\ b'.nodes = [t.nodes EXCEPT ![e] = m]
    BY <1>8, <2>2, <2>6 DEF Replaced, SameCounts
  <2>9. t.nodes \in [Env -> Node \cup {None}] /\ t.starts = [s.starts EXCEPT ![e] = @ + 1]
        /\ t.nodes = [s.nodes EXCEPT ![e] = n]
    BY <1>8, <2>1, <2>4 DEF BaseOK, Base, StartedAs
  <2>10. \A d \in Env : /\ b'.nodes[d] = IF d = e THEN m ELSE s.nodes[d]
                        /\ b'.starts[d] = IF d = e THEN 1 ELSE s.starts[d]
    BY <1>6, <1>8, <2>3, <2>8, <2>9
  <2>11. Restarts(b')
    BY <1>6, <1>8, <2>7, <2>10, SupervisorAssumption DEF Restarts, RestartsOf
  <2>12. b'.killed = s.killed
    BY <1>8, <2>8 DEF StartedAs
  <2>13. NotHalted(b', Elems(cmds))
    BY <1>6, <1>8, <2>7, <2>10, <2>12 DEF NotHalted
  <2> QED
    BY <1>1, <1>2, <1>8, <2>8, <2>11, <2>13, TakesMajor
<1> QED
  BY <1>1, <1>3, <1>4, <1>5, <1>7, <1>8, ResetDoes

\* The state in which spawn_child() starts the child: it is staged.
SpawnState(s, p, c) == [s EXCEPT !.nodes[c] = Staged(p, s.nodes[p].depth + 1), !.starts[c] = 0]

\* The effect of staging a child.
StagedIn(s, p, c, t) ==
  /\ BaseOK(t) /\ t.gen = s.gen /\ t.killed = s.killed /\ t.stopping = s.stopping /\ t.lost = s.lost
  /\ t.up = s.up /\ t.ghosts = s.ghosts /\ t.harnesses = s.harnesses
  /\ t.starts = [s.starts EXCEPT ![c] = 0]
  /\ t.nodes = [s.nodes EXCEPT ![c] = Staged(p, s.nodes[p].depth + 1)]

\* Staging has that effect.
LEMMA SpawnStateDoes ==
  ASSUME NEW s, BaseOK(s), NEW p \in Env, NEW c \in Env, s.nodes[p] # None
  PROVE  StagedIn(s, p, c, SpawnState(s, p, c))
<1> DEFINE n == Staged(p, s.nodes[p].depth + 1)
           t == SpawnState(s, p, c)
<1>1. s.nodes[p].depth + 1 \in Nat
  BY KnownIsNode DEF BaseOK, Node
<1>2. n \in Node /\ n.gen = 0 /\ n.hpid = 0
  BY <1>1, StagedIsNode
<1> HIDE DEF n
<1>3. s \in Base /\ s.gen \in Nat /\ s.nodes \in [Env -> Node \cup {None}] /\ s.starts \in [Env -> Nat]
      /\ s.harnesses \in [Env -> Nat]
  BY DEF BaseOK, Base
<1>4. /\ [s.nodes EXCEPT ![c] = n] \in [Env -> Node \cup {None}]
      /\ [s.starts EXCEPT ![c] = 0] \in [Env -> Nat]
  BY <1>2, <1>3
<1>5. t = [s EXCEPT !.nodes = [s.nodes EXCEPT ![c] = n], !.starts = [s.starts EXCEPT ![c] = 0]]
  BY <1>3 DEF SpawnState, n, Base
<1> HIDE DEF t
<1>6. /\ t \in Base /\ t.gen = s.gen /\ t.killed = s.killed /\ t.stopping = s.stopping
      /\ t.up = s.up /\ t.ghosts = s.ghosts /\ t.harnesses = s.harnesses
      /\ t.starts = [s.starts EXCEPT ![c] = 0] /\ t.nodes = [s.nodes EXCEPT ![c] = n]
      /\ t.lost = s.lost
  BY <1>3, <1>4, <1>5 DEF Base
<1>7. Numbered(t)
  BY <1>2, <1>3, <1>6 DEF BaseOK, Numbered
<1> QED
  BY <1>6, <1>7 DEF StagedIn, BaseOK, t, n

\* A record is dropped.
LEMMA DropDoes ==
  ASSUME NEW s, BaseOK(s), NEW c \in Env
  PROVE  LET t == [s EXCEPT !.nodes[c] = None] IN
         /\ BaseOK(t) /\ t.nodes = [s.nodes EXCEPT ![c] = None] /\ t.up = s.up
         /\ t.ghosts = s.ghosts /\ SameCounts(s, t)
<1> DEFINE t == [s EXCEPT !.nodes[c] = None]
<1>1. /\ t \in Base /\ t.nodes = [s.nodes EXCEPT ![c] = None] /\ t.up = s.up
      /\ t.ghosts = s.ghosts /\ SameCounts(s, t)
  BY DEF BaseOK, Base, SameCounts
<1>2. s.nodes \in [Env -> Node \cup {None}]
  BY DEF BaseOK, Base
<1> HIDE DEF t
<1>3. Numbered(t)
  BY <1>1, <1>2 DEF BaseOK, Numbered, SameCounts
<1> QED
  BY <1>1, <1>3 DEF BaseOK, t

\* spawn_child(): nothing, a child that runs, or no trace of one.
LEMMA SpawnDoes ==
  ASSUME TypeInv, Spawn
  PROVE  LET p == cmd.env
             c == cmd.to
             s == SpawnState(b, p, c) IN
         \/ b' = b /\ left' = left
         \/ /\ b.nodes[p] # None /\ p # Guardian /\ b.nodes[c] = None
            /\ b.nodes[p].depth + 1 <= max_depth /\ Cardinality(Agents(b)) < max_total
            /\ StagedIn(b, p, c, s)
            /\ \/ StartedAs(s, c, s.nodes[c], b') /\ left' = left
               \/ \E how \in Fails(c) :
                    b' = [StartFailed(s, c, how) EXCEPT !.nodes[c] = None] /\ Failed
<1>1. BaseOK(b) /\ cmd.env \in Env /\ cmd.to \in Env
  BY TakeDoes DEF TypeInv, Spawn
<1> DEFINE p == cmd.env
           c == cmd.to
           s == SpawnState(b, p, c)
           full == \/ b.nodes[p] = None \/ p = Guardian \/ b.nodes[c] # None
                   \/ b.nodes[p].depth + 1 > max_depth
                   \/ Cardinality(Agents(b)) >= max_total
<1>2. CASE full
  BY <1>2 DEF Spawn
<1>3. CASE ~full
  <2>1. b.nodes[p] # None /\ p # Guardian /\ b.nodes[c] = None
    BY <1>3
  <2>2. b.nodes[p].depth + 1 <= max_depth
    <3>1. b.nodes[p].depth + 1 \in Nat /\ max_depth \in Nat
      BY <1>1, <2>1, KnownIsNode, SupervisorAssumption DEF BaseOK, Node
    <3> QED
      BY <1>3, <3>1
  <2>3. Cardinality(Agents(b)) < max_total
    <3>1. IsFiniteSet(Agents(b))
      BY FS_Subset, SupervisorAssumption DEF Agents, Known
    <3>2. Cardinality(Agents(b)) \in Nat /\ max_total \in Nat
      BY <3>1, FS_CardinalityType, SupervisorAssumption
    <3> QED
      BY <1>3, <3>2
  <2>4. StagedIn(b, p, c, s)
    BY <1>1, <2>1, SpawnStateDoes
  <2>5. \/ b' = Start(s, c, p) /\ left' = left
        \/ \E how \in Fails(c) : b' = [StartFailed(s, c, how) EXCEPT !.nodes[c] = None] /\ Failed
    BY <1>3 DEF Spawn, SpawnState
  <2> HIDE DEF s, full
  <2>6. s.nodes[c] \in Node
    <3>1. b.nodes[p].depth + 1 \in Nat
      BY <1>1, <2>1, KnownIsNode DEF BaseOK, Node
    <3>2. Staged(p, b.nodes[p].depth + 1) \in Node
      BY <1>1, <3>1, StagedIsNode
    <3>3. b.nodes \in [Env -> Node \cup {None}]
      BY <1>1 DEF BaseOK, Base
    <3> QED
      BY <1>1, <2>4, <3>2, <3>3 DEF StagedIn
  <2>7. b' = Start(s, c, p) => StartedAs(s, c, s.nodes[c], b')
    <3>1. BaseOK(s) /\ s.nodes[c] # None
      BY <2>4, <2>6, NodeIsNotNone DEF StagedIn
    <3>2. OldNode(s, c, p) = s.nodes[c]
      BY <3>1 DEF OldNode
    <3>3. StartedAs(s, c, OldNode(s, c, p), Start(s, c, p))
      BY <1>1, <3>1, StartDoes
    <3> QED
      BY <3>2, <3>3
  <2> QED
    BY <2>1, <2>2, <2>3, <2>4, <2>5, <2>7 DEF s
<1> QED
  BY <1>2, <1>3

\* spawn_child()
LEMMA SpawnIsMajor ==
  ASSUME BaseInv, Booted, Spawn
  PROVE  Major
<1>1. /\ TypeInv /\ BaseOK(b) /\ Take("spawn") /\ cmd.env \in Env /\ cmd.to \in Env /\ left \in World
      /\ Restarts(b) /\ NotHalted(b, Elems(cmds))
  BY TakeDoes DEF TypeInv, Spawn, BaseInv
<1>2. cmds' = rest /\ exits' = exits /\ tasks' = tasks
  BY DEF Spawn
<1>3. PICK p \in Env, c \in Env : p = cmd.env /\ c = cmd.to
  BY <1>1
<1>4. PICK s : s = SpawnState(b, p, c)
  OBVIOUS
<1>5. CASE b' = b /\ left' = left
  BY <1>1, <1>2, <1>5, TakesMajor
<1>6. ASSUME b.nodes[p] # None, b.nodes[c] = None, StagedIn(b, p, c, s)
      PROVE  /\ BaseOK(s) /\ Restarts(s) /\ NotHalted(s, Elems(cmds))
             /\ s.nodes[c] \in Node /\ s.nodes[c].restarts = 0 /\ s.starts[c] = 0
  <2>1. /\ b.starts \in [Env -> Nat] /\ b.nodes \in [Env -> Node \cup {None}]
        /\ b.nodes[p].depth + 1 \in Nat
    BY <1>1, <1>6, KnownIsNode DEF BaseOK, Base, Node
  <2>2. PICK n : n = Staged(p, b.nodes[p].depth + 1)
    OBVIOUS
  <2>3. n \in Node /\ n.restarts = 0 /\ n.hpid = 0 /\ n # None
    BY <2>1, <2>2, StagedIsNode, NodeIsNotNone
  <2>4. \A d \in Env : /\ s.nodes[d] = IF d = c THEN n ELSE b.nodes[d]
                       /\ s.starts[d] = IF d = c THEN 0 ELSE b.starts[d]
    BY <1>6, <2>1, <2>2 DEF StagedIn
  <2>5. Restarts(s)
    BY <1>1, <2>3, <2>4, SupervisorAssumption DEF Restarts, RestartsOf
  <2>6. NotHalted(s, Elems(cmds))
    BY <1>1, <1>6, <2>3, <2>4 DEF NotHalted, StagedIn
  <2> QED
    BY <1>6, <2>3, <2>4, <2>5, <2>6 DEF StagedIn
<1>7. ASSUME b.nodes[p] # None, b.nodes[c] = None, StagedIn(b, p, c, s), left' = left,
             StartedAs(s, c, s.nodes[c], b')
      PROVE  Major
  <2>1. \A d \in Env : d # c => RestartsOf(s, d)
    BY <1>6, <1>7 DEF Restarts
  <2>2. s.nodes[c].restarts <= max_restarts /\ s.starts[c] <= s.nodes[c].restarts
    BY <1>6, <1>7, SupervisorAssumption
  <2>3. BaseOK(b') /\ Restarts(b') /\ NotHalted(b', Elems(cmds))
    BY <1>6, <1>7, <2>1, <2>2, StartRestarts, StartHalts DEF StartedAs
  <2> QED
    BY <1>1, <1>2, <1>7, <2>3, TakesMajor
<1>8. ASSUME b.nodes[p] # None, b.nodes[c] = None, StagedIn(b, p, c, s), NEW how \in Fails(c),
             b' = [StartFailed(s, c, how) EXCEPT !.nodes[c] = None], Failed
      PROVE  Major
  <2>1. how \in {"spawn", "sandbox"} /\ left' \in World
    BY <1>1, <1>8, FailsAre, FailedDoes
  <2>2. PICK t : t = StartFailed(s, c, how)
    OBVIOUS
  <2>3. BaseOK(t) /\ Restarts(t) /\ NotHalted(t, Elems(cmds))
    BY <1>6, <1>8, <2>1, <2>2, FailedRestarts, FailedHalts
  <2>4. t.nodes \in [Env -> Node \cup {None}] /\ t.starts[c] = 0
    <3>1. t.starts = s.starts
      <4>1. BaseOK(s)
        BY <1>6, <1>8
      <4>2. CASE how = "spawn"
        BY <2>2, <4>1, <4>2, SpawnFailedDoes
      <4>3. CASE how = "sandbox"
        BY <2>2, <4>1, <4>3, SandboxFailedDoes
      <4> QED
        BY <2>1, <4>2, <4>3
    <3> QED
      BY <1>6, <1>8, <2>3, <3>1 DEF BaseOK, Base
  <2>5. BaseOK(b') /\ b'.nodes = [t.nodes EXCEPT ![c] = None] /\ SameCounts(t, b')
    BY <1>8, <2>2, <2>3, DropDoes
  <2>6. \A d \in Env : b'.nodes[d] = IF d = c THEN None ELSE t.nodes[d]
    BY <2>4, <2>5
  <2>7. Restarts(b')
    BY <2>3, <2>4, <2>5, <2>6, SupervisorAssumption DEF Restarts, RestartsOf, SameCounts
  <2>8. NotHalted(b', Elems(cmds))
    BY <2>3, <2>5, <2>6 DEF NotHalted, SameCounts
  <2> QED
    BY <1>1, <1>2, <2>1, <2>5, <2>7, <2>8, TakesMajor
<1> QED
  BY <1>1, <1>3, <1>4, <1>5, <1>7, <1>8, SpawnDoes

\* The environments of a subtree are known.
LEMMA SubtreeIsKnown ==
  ASSUME NEW s, NEW e
  PROVE  Subtree(s, e) \subseteq Known(s)
BY DEF Subtree

\* prune() gives no harness and starts nothing.
LEMMA PrunedHolds ==
  ASSUME NEW s, BaseOK(s), NEW X, NEW t, Pruned(s, X, t), NEW c, Restarts(s), NotHalted(s, c)
  PROVE  Restarts(t) /\ NotHalted(t, c)
<1>1. /\ t.starts = s.starts /\ t.killed = s.killed
      /\ \A e \in Env : t.nodes[e] = IF e \in X THEN None ELSE s.nodes[e]
  BY DEF Pruned, SameCounts
<1>2. \A e \in Env : s.starts[e] \in Nat /\ (s.nodes[e] # None => s.nodes[e].restarts \in Nat)
  BY KnownIsNode DEF BaseOK, Base, Node
<1> QED
  BY <1>1, <1>2, SupervisorAssumption DEF Restarts, RestartsOf, NotHalted

\* runtime_stop()
LEMMA StopChildIsMajor ==
  ASSUME BaseInv, Booted, StopChild
  PROVE  Major
<1>1. /\ TypeInv /\ BaseOK(b) /\ Take("stop_child") /\ left \in World
      /\ Restarts(b) /\ NotHalted(b, Elems(cmds))
  BY DEF TypeInv, StopChild, BaseInv
<1>2. cmds' = rest /\ exits' = exits /\ tasks' = tasks /\ left' = left
  BY DEF StopChild
<1>3. CASE b' = b
  BY <1>1, <1>2, <1>3, TakesMajor
<1>4. CASE b' = Prune(b, Subtree(b, cmd.env))
  <2>1. Pruned(b, Subtree(b, cmd.env), b')
    BY <1>1, <1>4, PruneDoes, SubtreeIsKnown
  <2>2. BaseOK(b') /\ Restarts(b') /\ NotHalted(b', Elems(cmds))
    BY <1>1, <2>1, PrunedHolds DEF Pruned
  <2> QED
    BY <1>1, <1>2, <2>2, TakesMajor
<1> QED
  BY <1>3, <1>4 DEF StopChild

\* stop(): halt() of everything, and the actor ends.
LEMMA StopDoes ==
  ASSUME TypeInv, Stop
  PROVE  \E h : /\ NodesOff(b, Known(b), h) /\ BaseOK(b') /\ b'.nodes = h.nodes /\ b'.up = h.up
                /\ b'.ghosts = h.ghosts /\ b'.gen = h.gen /\ b'.starts = h.starts
                /\ b'.killed = h.killed /\ b'.stopping /\ b'.lost = h.lost
<1> DEFINE h == Halt(b, Known(b))
<1>1. NodesOff(b, Known(b), h)
  BY HaltDoes DEF TypeInv
<1>2. b' = [h EXCEPT !.stopping = TRUE]
  BY DEF Stop
<1> HIDE DEF h
<1>3. /\ b' \in Base /\ b'.nodes = h.nodes /\ b'.up = h.up /\ b'.ghosts = h.ghosts
      /\ b'.gen = h.gen /\ b'.starts = h.starts /\ b'.killed = h.killed /\ b'.stopping
      /\ b'.harnesses = h.harnesses /\ b'.lost = h.lost
  BY <1>1, <1>2 DEF NodesOff, BaseOK, Base
<1>4. BaseOK(b')
  BY <1>1, <1>3 DEF NodesOff, BaseOK, Numbered
<1> QED
  BY <1>1, <1>3, <1>4

\* What halt() keeps of a record.
LEMMA OffNodeDoes ==
  ASSUME NEW n \in Node
  PROVE  LET m == OffNode(n) IN
         /\ m \in Node /\ m # None /\ m.gen = n.gen /\ m.pid = 0 /\ m.hpid = 0 /\ ~m.registered
         /\ m.restarts = n.restarts /\ m.parent = n.parent /\ m.depth = n.depth /\ m.halted = n.halted
BY DEF OffNode, Node, WorkerState, HarnessState, None

\* stop()
LEMMA StopIsMajor ==
  ASSUME BaseInv, Booted, Stop
  PROVE  Major
<1>1. /\ TypeInv /\ BaseOK(b) /\ Take("stop") /\ left \in World
      /\ Restarts(b) /\ NotHalted(b, Elems(cmds))
  BY DEF TypeInv, Stop, BaseInv
<1>2. cmds' = rest /\ exits' = exits /\ tasks' = tasks /\ left' = left
  BY DEF Stop
<1>3. PICK h : /\ NodesOff(b, Known(b), h) /\ BaseOK(b') /\ b'.nodes = h.nodes
               /\ b'.starts = h.starts /\ b'.killed = h.killed
  BY <1>1, StopDoes
<1>4. b'.starts = b.starts /\ b'.killed = b.killed
  BY <1>3 DEF NodesOff, SameCounts
<1>5. \A e \in Env : IF b.nodes[e] = None THEN b'.nodes[e] = None
                     ELSE /\ b'.nodes[e] # None /\ b'.nodes[e].restarts = b.nodes[e].restarts
                          /\ b'.nodes[e].hpid = 0
  <2> TAKE e \in Env
  <2>1. CASE b.nodes[e] = None
    BY <1>3, <2>1 DEF NodesOff, Known
  <2>2. CASE b.nodes[e] # None
    <3>1. b.nodes[e] \in Node /\ b'.nodes[e] = OffNode(b.nodes[e])
      BY <1>1, <1>3, <2>2, KnownIsNode DEF NodesOff, Known, BaseOK
    <3> QED
      BY <2>2, <3>1, OffNodeDoes
  <2> QED
    BY <2>1, <2>2
<1>6. Restarts(b') /\ NotHalted(b', Elems(cmds))
  BY <1>1, <1>4, <1>5 DEF Restarts, RestartsOf, NotHalted
<1> QED
  BY <1>1, <1>2, <1>3, <1>6, TakesMajor

\* The subtree depends on the parents alone.
LEMMA SameSubtree ==
  ASSUME NEW s, NEW t, NEW e, Known(t) = Known(s),
         \A c \in Known(s) : t.nodes[c].parent = s.nodes[c].parent
  PROVE  Subtree(t, e) = Subtree(s, e)
BY DEF Subtree

\* The state after a node's exit, before it is started again: the record is
\* disconnected, its harness and the environments below it are gone.
ExitState(s, e) ==
  PruneChildren(HarnessHalt([s EXCEPT !.nodes[e].registered = FALSE, !.nodes[e].peer = 0,
                                      !.nodes[e].pid = 0, !.nodes[e].worker = "off"], {e}), e)

\* The effect of that part of on_exit(); X are the environments below.
Ended(s, e, X, t) ==
  /\ BaseOK(t) /\ SameCounts(s, t) /\ Reaped(s, t) /\ (Owned(s) => Owned(t))
  /\ \A p \in s.up : p.num = 0 =>
       (p \in t.up <=> ~(p.env \in X /\ p.gen = s.nodes[p.env].pid))
  /\ \A d \in Env : d # e => t.nodes[d] = IF d \in X THEN None ELSE s.nodes[d]
  /\ LET n == s.nodes[e]
         m == t.nodes[e] IN
     /\ m \in Node /\ m.gen = n.gen /\ m.pid = 0 /\ m.restarts = n.restarts
     /\ m.parent = n.parent /\ m.depth = n.depth /\ m.halted = n.halted
     /\ ~m.registered /\ m.hpid = 0

\* The first part of on_exit() has that effect.
LEMMA ExitStateDoes ==
  ASSUME NEW s, BaseOK(s), NEW e \in Env, s.nodes[e] # None
  PROVE  Ended(s, e, Subtree(s, e) \ {e}, ExitState(s, e))
<1> DEFINE d == [s EXCEPT !.nodes[e].registered = FALSE, !.nodes[e].peer = 0,
                          !.nodes[e].pid = 0, !.nodes[e].worker = "off"]
           h == HarnessHalt(d, {e})
           Y == Subtree(h, e) \ {e}
           t == Prune(h, Y)
           m == [s.nodes[e] EXCEPT !.registered = FALSE, !.peer = 0, !.pid = 0, !.worker = "off"]
<1>1. ExitState(s, e) = t
  BY DEF ExitState, PruneChildren
<1>2. PICK n \in Node : n = s.nodes[e] /\ n.gen <= s.gen /\ n.hpid <= s.harnesses[e]
  BY KnownIsNode DEF BaseOK, Numbered
<1>3. /\ m \in Node /\ m.gen = n.gen /\ m.pid = 0 /\ m.restarts = n.restarts
      /\ m.parent = n.parent /\ m.depth = n.depth /\ m.halted = n.halted
      /\ ~m.registered /\ m.hpid = n.hpid
  BY <1>2 DEF Node, WorkerState
<1>4. d = [s EXCEPT !.nodes[e] = m]
  BY DEF BaseOK, Base
<1> HIDE DEF d, m, t, Y
<1>5. Replaced(s, e, m, d)
  BY <1>2, <1>3, <1>4, ReplaceDoes
<1>6. s.nodes \in [Env -> Node \cup {None}] /\ m # None
  BY <1>3, NodeIsNotNone DEF BaseOK, Base
<1>7. \A c \in Env : d.nodes[c] = IF c = e THEN m ELSE s.nodes[c]
  BY <1>5, <1>6 DEF Replaced
<1>8. HarnessesOff(d, {e}, h)
  BY <1>5, HarnessHaltDoes DEF Replaced
<1> HIDE DEF h
<1>9. PICK k : k = [m EXCEPT !.harness = "off", !.hpid = 0]
  OBVIOUS
<1>10. /\ k \in Node /\ k.gen = n.gen /\ k.pid = 0 /\ k.restarts = n.restarts
       /\ k.parent = n.parent /\ k.depth = n.depth /\ k.halted = n.halted
       /\ ~k.registered /\ k.hpid = 0 /\ k # None
  <2>1. /\ k \in Node /\ k.gen = m.gen /\ k.pid = m.pid /\ k.restarts = m.restarts
        /\ k.parent = m.parent /\ k.depth = m.depth /\ k.halted = m.halted
        /\ k.registered = m.registered /\ k.hpid = 0
    BY <1>3, <1>9 DEF Node, HarnessState
  <2> QED
    BY <1>3, <2>1, NodeIsNotNone
<1>11. \A c \in Env : h.nodes[c] = IF c = e THEN k ELSE s.nodes[c]
  <2>1. h.nodes[e] = k
    BY <1>6, <1>7, <1>8, <1>9 DEF HarnessesOff
  <2>2. \A c \in Env : c # e => h.nodes[c] = s.nodes[c]
    BY <1>7, <1>8 DEF HarnessesOff
  <2> QED
    BY <2>1, <2>2
<1>12. Y = Subtree(s, e) \ {e}
  <2>1. Known(h) = Known(s) /\ \A c \in Known(s) : h.nodes[c].parent = s.nodes[c].parent
    BY <1>2, <1>10, <1>11 DEF Known
  <2>2. Subtree(h, e) = Subtree(s, e)
    BY <2>1, SameSubtree
  <2> QED
    BY <2>2 DEF Y
<1>13. Y \subseteq Known(h)
  BY SubtreeIsKnown DEF Y
<1>14. Pruned(h, Y, t)
  BY <1>8, <1>13, PruneDoes DEF HarnessesOff, t
<1>15. e \notin Y
  BY DEF Y
<1>16. SameCounts(s, t) /\ Reaped(s, t) /\ BaseOK(t)
  BY <1>5, <1>8, <1>14 DEF Replaced, HarnessesOff, Pruned, SameCounts, Reaped
<1>17. \A c \in Env : t.nodes[c] = IF c = e THEN k ELSE IF c \in Y THEN None ELSE s.nodes[c]
  BY <1>11, <1>14, <1>15 DEF Pruned
<1>18. \A p \in s.up : p.num = 0 => (p \in t.up <=> ~(p.env \in Y /\ p.gen = s.nodes[p.env].pid))
  <2>1. \A p \in s.up : p.num = 0 => p \in h.up
    BY <1>5, <1>8 DEF Replaced, HarnessesOff
  <2>2. \A c \in Y : h.nodes[c].pid = s.nodes[c].pid
    BY <1>11, <1>13, <1>15 DEF Known
  <2> QED
    BY <1>14, <2>1, <2>2 DEF Pruned
<1>19. t.nodes[e] = k /\ \A c \in Env : c # e => t.nodes[c] = IF c \in Y THEN None ELSE s.nodes[c]
  BY <1>17
<1>20. ASSUME Owned(s) PROVE Owned(t)
  <2>1. BaseOK(d) /\ BaseOK(h)
    BY <1>5, <1>8 DEF Replaced, HarnessesOff
  <2>2. Owned(d)
    BY <1>2, <1>3, <1>5, <1>6, <1>7, <1>20, FrameIsOwned DEF Replaced, SameCounts
  <2>3. Owned(h)
    BY <1>8, <2>1, <2>2, OffIsOwned
  <2> QED
    BY <1>14, <2>1, <2>3, PrunedIsOwned
<1> QED
  BY <1>1, <1>2, <1>10, <1>12, <1>16, <1>18, <1>19, <1>20 DEF Ended

\* A restart is counted in the record.
LEMMA CountDoes ==
  ASSUME NEW s, BaseOK(s), NEW e \in Env, s.nodes[e] \in Node
  PROVE  LET m == [s.nodes[e] EXCEPT !.restarts = @ + 1]
             t == [s EXCEPT !.nodes[e].restarts = @ + 1] IN
         /\ Replaced(s, e, m, t) /\ t.nodes[e] = m
         /\ m \in Node /\ m.restarts = s.nodes[e].restarts + 1 /\ m.gen = s.nodes[e].gen
         /\ m.pid = s.nodes[e].pid /\ m.parent = s.nodes[e].parent /\ m.depth = s.nodes[e].depth
         /\ m.halted = s.nodes[e].halted /\ m.registered = s.nodes[e].registered
         /\ m.hpid = s.nodes[e].hpid
<1> DEFINE n == s.nodes[e]
           m == [n EXCEPT !.restarts = @ + 1]
           t == [s EXCEPT !.nodes[e].restarts = @ + 1]
<1>1. n \in Node /\ n.gen <= s.gen /\ n.hpid <= s.harnesses[e]
  BY NodeIsNotNone DEF BaseOK, Numbered
<1>2. PICK r \in Nat : r = n.restarts + 1
  BY DEF Node
<1>3. m = [n EXCEPT !.restarts = r]
  BY <1>2
<1>4. t = [s EXCEPT !.nodes[e] = m]
  BY DEF BaseOK, Base
<1> HIDE DEF m, t
<1>5. /\ m \in Node /\ m.restarts = r /\ m.gen = n.gen /\ m.pid = n.pid /\ m.parent = n.parent
      /\ m.depth = n.depth /\ m.halted = n.halted /\ m.registered = n.registered /\ m.hpid = n.hpid
  BY <1>3 DEF Node
<1>6. Replaced(s, e, m, t)
  BY <1>1, <1>4, <1>5, ReplaceDoes
<1>7. t.nodes[e] = m
  BY <1>6 DEF Replaced, BaseOK, Base
<1> QED
  BY <1>2, <1>5, <1>6, <1>7 DEF m, t

Counted(s, e) == [s EXCEPT !.nodes[e].restarts = @ + 1]

\* on_exit(): an exit that is not current is dropped; another ends the node
\* and starts it again, unless it was restarted too often or the start fails.
LEMMA OnExitDoes ==
  ASSUME TypeInv, OnExit
  PROVE  LET x == Head(exits)
             e == x.env
             s == ExitState(b, e)
             r == Counted(s, e) IN
         /\ x \in Exit /\ exits' = Tail(exits) /\ exits' \in Seq(Exit)
         /\ Elems(exits) = {x} \cup Elems(exits')
         /\ \/ ~IsCurrent(b, x) /\ b' = b /\ left' = left
            \/ /\ IsCurrent(b, x) /\ Ended(b, e, Subtree(b, e) \ {e}, s)
               /\ \/ b' = s /\ left' = left
                  \/ /\ s.nodes[e].restarts < max_restarts
                     /\ \/ StartedAs(r, e, r.nodes[e], b') /\ left' = left
                        \/ \E how \in Fails(e) : b' = StartFailed(r, e, how) /\ Failed
<1> DEFINE x == Head(exits)
           e == x.env
           s == ExitState(b, e)
           r == Counted(s, e)
<1>1. BaseOK(b) /\ exits \in Seq(Exit) /\ exits # <<>> /\ exits' = Tail(exits)
  BY DEF TypeInv, OnExit
<1>2. x \in Exit /\ Tail(exits) \in Seq(Exit) /\ Elems(exits) = {x} \cup Elems(Tail(exits))
  BY <1>1, HeadAndTail
<1>3. e \in Env
  BY <1>2 DEF Exit
<1>4. CASE ~IsCurrent(b, x)
  BY <1>1, <1>2, <1>4 DEF OnExit
<1>5. CASE IsCurrent(b, x)
  <2>1. Ended(b, e, Subtree(b, e) \ {e}, s)
    BY <1>1, <1>3, <1>5, ExitStateDoes DEF IsCurrent
  <2>2. IF s.nodes[e].restarts >= max_restarts THEN b' = s /\ left' = left
        ELSE \/ b' = Start(r, e, NoEnv) /\ left' = left
             \/ \E how \in Fails(e) : b' = StartFailed(r, e, how) /\ Failed
    BY <1>5 DEF OnExit, ExitState, Counted
  <2> HIDE DEF s
  <2>3. BaseOK(s) /\ s.nodes[e] \in Node /\ s.nodes[e].restarts \in Nat
    BY <2>1 DEF Ended, Node
  <2>4. BaseOK(r) /\ r.nodes[e] \in Node
    BY <1>3, <2>3, CountDoes DEF Counted, Replaced
  <2> HIDE DEF r
  <2>5. ASSUME b' = Start(r, e, NoEnv) PROVE StartedAs(r, e, r.nodes[e], b')
    <3>1. OldNode(r, e, NoEnv) = r.nodes[e]
      BY <2>4, NodeIsNotNone DEF OldNode
    <3>2. StartedAs(r, e, OldNode(r, e, NoEnv), Start(r, e, NoEnv))
      BY <1>3, <2>4, StartDoes
    <3> QED
      BY <2>5, <3>1, <3>2
  <2>6. CASE s.nodes[e].restarts >= max_restarts
    BY <1>1, <1>2, <1>5, <2>1, <2>2, <2>6 DEF s
  <2>7. CASE ~(s.nodes[e].restarts >= max_restarts)
    <3>1. s.nodes[e].restarts < max_restarts
      BY <2>3, <2>7, SupervisorAssumption
    <3>2. \/ StartedAs(r, e, r.nodes[e], b') /\ left' = left
          \/ \E how \in Fails(e) : b' = StartFailed(r, e, how) /\ Failed
      BY <2>2, <2>5, <2>7
    <3> QED
      BY <1>1, <1>2, <1>5, <2>1, <3>1, <3>2 DEF s, r
  <2> QED
    BY <2>6, <2>7
<1> QED
  BY <1>4, <1>5

\* on_exit()
LEMMA OnExitIsMajor ==
  ASSUME BaseInv, Booted, OnExit
  PROVE  Major
<1>1. /\ TypeInv /\ BaseOK(b) /\ left \in World /\ Restarts(b) /\ NotHalted(b, Elems(cmds))
  BY DEF TypeInv, BaseInv
<1>2. cmds' = cmds /\ tasks' = tasks
  BY DEF OnExit
<1>3. PICK x \in Exit : x = Head(exits)
  BY <1>1, OnExitDoes
<1>4. PICK e \in Env : e = x.env
  BY <1>3 DEF Exit
<1>5. PICK s : s = ExitState(b, e)
  OBVIOUS
<1>6. PICK r : r = Counted(s, e)
  OBVIOUS
<1>7. SUFFICES BaseOK(b') /\ Restarts(b') /\ NotHalted(b', Elems(cmds)) /\ left' \in World
  <2>1. exits' \in Seq(Exit)
    BY <1>1, OnExitDoes
  <2> QED
    BY <1>1, <1>2, <2>1 DEF Major, TypeInv, BaseInv, Booted
<1>8. CASE b' = b /\ left' = left
  BY <1>1, <1>8
<1>9. ASSUME NEW X, Ended(b, e, X, s), IsCurrent(b, x)
      PROVE  /\ BaseOK(s) /\ Restarts(s) /\ NotHalted(s, Elems(cmds)) /\ s.nodes[e] \in Node
             /\ s.starts[e] <= s.nodes[e].restarts + 1
  <2>1. /\ BaseOK(s) /\ s.starts = b.starts /\ s.killed = b.killed
        /\ \A d \in Env : d # e => s.nodes[d] = IF d \in X THEN None ELSE b.nodes[d]
        /\ s.nodes[e] \in Node /\ s.nodes[e].restarts = b.nodes[e].restarts /\ s.nodes[e].hpid = 0
    BY <1>9 DEF Ended, SameCounts
  <2>2. \A d \in Env : b.starts[d] \in Nat /\ (b.nodes[d] # None => b.nodes[d].restarts \in Nat)
    BY <1>1, KnownIsNode DEF BaseOK, Base, Node
  <2>3. b.nodes[e] # None /\ s.nodes[e] # None
    BY <1>4, <1>9, <2>1, NodeIsNotNone DEF IsCurrent
  <2>4. Restarts(s) /\ s.starts[e] <= s.nodes[e].restarts + 1
    BY <1>1, <2>1, <2>2, <2>3, SupervisorAssumption DEF Restarts, RestartsOf
  <2>5. NotHalted(s, Elems(cmds))
    BY <1>1, <2>1 DEF NotHalted
  <2> QED
    BY <2>1, <2>4, <2>5
<1>10. ASSUME NEW X, Ended(b, e, X, s), IsCurrent(b, x), s.nodes[e].restarts < max_restarts
       PROVE  /\ BaseOK(r) /\ NotHalted(r, Elems(cmds)) /\ r.nodes[e] \in Node
              /\ r.nodes[e].restarts <= max_restarts /\ r.starts[e] <= r.nodes[e].restarts
              /\ \A d \in Env : d # e => RestartsOf(r, d)
  <2>7. PICK m : m = [s.nodes[e] EXCEPT !.restarts = @ + 1]
    OBVIOUS
  <2>8. BaseOK(s) /\ s.nodes[e] \in Node
    BY <1>9, <1>10
  <2>1. /\ Replaced(s, e, m, r) /\ r.nodes[e] = m /\ m \in Node
        /\ m.restarts = s.nodes[e].restarts + 1 /\ m.hpid = s.nodes[e].hpid
    BY <1>6, <2>7, <2>8, CountDoes DEF Counted
  <2>2. BaseOK(r) /\ r.starts = s.starts /\ r.killed = s.killed /\ r.nodes = [s.nodes EXCEPT ![e] = m]
        /\ s.nodes \in [Env -> Node \cup {None}]
    BY <1>9, <1>10, <2>1 DEF Replaced, SameCounts, BaseOK, Base
  <2>3. \A d \in Env : d # e => r.nodes[d] = s.nodes[d] /\ RestartsOf(r, d)
    BY <1>9, <1>10, <2>2 DEF Restarts, RestartsOf
  <2>4. s.nodes[e].restarts \in Nat /\ s.nodes[e].hpid = 0
    BY <1>9, <1>10 DEF Node, Ended
  <2>5. NotHalted(r, Elems(cmds))
    BY <1>9, <1>10, <2>1, <2>2, <2>3, <2>4 DEF NotHalted
  <2>6. r.nodes[e].restarts <= max_restarts /\ r.starts[e] <= r.nodes[e].restarts
    BY <1>9, <1>10, <2>1, <2>2, <2>4, SupervisorAssumption
  <2> QED
    BY <2>1, <2>2, <2>3, <2>5, <2>6
<1>11. ASSUME NEW X, Ended(b, e, X, s), IsCurrent(b, x), b' = s, left' = left
       PROVE  BaseOK(b') /\ Restarts(b') /\ NotHalted(b', Elems(cmds)) /\ left' \in World
  BY <1>1, <1>9, <1>11
<1>12. ASSUME NEW X, Ended(b, e, X, s), IsCurrent(b, x), s.nodes[e].restarts < max_restarts,
              StartedAs(r, e, r.nodes[e], b'), left' = left
       PROVE  BaseOK(b') /\ Restarts(b') /\ NotHalted(b', Elems(cmds)) /\ left' \in World
  BY <1>1, <1>10, <1>12, StartRestarts, StartHalts DEF StartedAs
<1>13. ASSUME NEW X, Ended(b, e, X, s), IsCurrent(b, x), s.nodes[e].restarts < max_restarts,
              NEW how \in Fails(e), b' = StartFailed(r, e, how), Failed
       PROVE  BaseOK(b') /\ Restarts(b') /\ NotHalted(b', Elems(cmds)) /\ left' \in World
  <2>1. how \in {"spawn", "sandbox"} /\ left' \in World
    BY <1>1, <1>13, FailsAre, FailedDoes
  <2>2. BaseOK(r) /\ NotHalted(r, Elems(cmds)) /\ r.nodes[e] \in Node
        /\ r.nodes[e].restarts <= max_restarts /\ r.starts[e] <= r.nodes[e].restarts
        /\ \A d \in Env : d # e => RestartsOf(r, d)
    BY <1>10, <1>13
  <2>3. r.nodes[e] # None /\ r.nodes[e].restarts \in Nat /\ r.starts[e] \in Nat
    BY <2>2, NodeIsNotNone DEF Node, BaseOK, Base
  <2>4. Restarts(r)
    BY <2>2, <2>3, SupervisorAssumption DEF Restarts, RestartsOf
  <2> QED
    BY <1>13, <2>1, <2>2, <2>4, FailedRestarts, FailedHalts
<1> QED
  BY <1>1, <1>3, <1>4, <1>5, <1>6, <1>8, <1>11, <1>12, <1>13, OnExitDoes

\* A process dies: whatever it was, the records stay.
LEMMA DieIsMajor ==
  ASSUME BaseInv, Booted, NEW p \in b.up, Die(p)
  PROVE  Major /\ Killed(b, {p}, b')
<1>1. /\ BaseOK(b) /\ left \in World /\ Restarts(b) /\ NotHalted(b, Elems(cmds))
  BY DEF TypeInv, BaseInv
<1>2. cmds' = cmds /\ exits' = exits /\ tasks' = tasks /\ left' = [left EXCEPT !.death = @ - 1]
      /\ left.death > 0
  BY DEF Die
<1>3. Killed(b, {p}, b')
  BY <1>1, TerminateDoes DEF Die
<1>4. left' \in World
  BY <1>1, <1>2 DEF World
<1>5. Restarts(b') /\ NotHalted(b', Elems(cmds'))
  BY <1>1, <1>2, <1>3 DEF Killed, SameCounts, Restarts, RestartsOf, NotHalted
<1>6. TypeInv' /\ Booted'
  BY <1>2, <1>3, <1>4 DEF BaseInv, TypeInv, Killed, Booted
<1> QED
  BY <1>3, <1>5, <1>6 DEF Major

\* The effect of a watcher's report.
Reported(s, p, t) ==
  /\ BaseOK(t) /\ t.ghosts = s.ghosts \ {p} /\ t.up = s.up /\ t.nodes = s.nodes /\ SameCounts(s, t)

\* A watcher reports the exit of a node or of a harness.
LEMMA WatchIsMajor ==
  ASSUME BaseInv, Booted, NEW p \in b.ghosts, Watch(p)
  PROVE  /\ Major /\ Reported(b, p, b')
         /\ IF p.num = 0 THEN Elems(exits') = Elems(exits) \cup {[env |-> p.env, gen |-> p.gen]}
            ELSE exits' = exits
<1>1. /\ BaseOK(b) /\ left \in World /\ Restarts(b) /\ NotHalted(b, Elems(cmds)) /\ p \in Process
      /\ cmds \in Seq(Cmd) /\ exits \in Seq(Exit) /\ tasks \subseteq Task
  BY DEF TypeInv, BaseInv, BaseOK, Base
<1>2. tasks' = tasks /\ left' = left /\ b' = [b EXCEPT !.ghosts = @ \ {p}]
  BY DEF Watch
<1>3. /\ b' \in Base /\ b'.ghosts = b.ghosts \ {p} /\ b'.up = b.up /\ b'.nodes = b.nodes
      /\ SameCounts(b, b')
  BY <1>1, <1>2 DEF BaseOK, Base, SameCounts
<1>4. Reported(b, p, b')
  BY <1>1, <1>3 DEF Reported, BaseOK, Numbered, SameCounts
<1>5. Restarts(b')
  BY <1>1, <1>3 DEF SameCounts, Restarts, RestartsOf
<1>6. CASE p.num = 0
  <2>1. exits' = Append(exits, [env |-> p.env, gen |-> p.gen]) /\ cmds' = cmds
    BY <1>6 DEF Watch
  <2>2. [env |-> p.env, gen |-> p.gen] \in Exit
    BY <1>1 DEF Exit, Process
  <2>3. exits' \in Seq(Exit) /\ Elems(exits') = Elems(exits) \cup {[env |-> p.env, gen |-> p.gen]}
    BY <1>1, <2>1, <2>2, AppendElems
  <2>4. NotHalted(b', Elems(cmds'))
    BY <1>1, <1>3, <2>1 DEF NotHalted, SameCounts
  <2>5. TypeInv' /\ Booted'
    BY <1>1, <1>2, <1>4, <2>1, <2>3 DEF TypeInv, Booted, Reported
  <2> QED
    BY <1>4, <1>5, <1>6, <2>3, <2>4, <2>5 DEF Major
<1>7. CASE p.num # 0
  <2> DEFINE m == [Msg("harness_exit", p.env) EXCEPT !.gen = p.gen]
  <2>1. cmds' = Append(cmds, m) /\ exits' = exits
    BY <1>7 DEF Watch
  <2>2. m \in Cmd /\ m.t # "boot"
    BY <1>1 DEF Msg, Cmd, Kinds, Process
  <2> HIDE DEF m
  <2>3. cmds' \in Seq(Cmd) /\ Elems(cmds') = Elems(cmds) \cup {m}
    BY <1>1, <2>1, <2>2, AppendElems
  <2>4. NotHalted(b', Elems(cmds'))
    BY <1>1, <1>3, <2>3 DEF NotHalted, SameCounts
  <2>5. TypeInv' /\ Booted'
    BY <1>1, <1>2, <1>4, <2>1, <2>2, <2>3 DEF TypeInv, Booted, Reported
  <2> QED
    BY <1>4, <1>5, <1>7, <2>1, <2>4, <2>5 DEF Major
<1> QED
  BY <1>6, <1>7

\* The handlers and the steps beside the actor that leave the nodes alone.
MinorStep ==
  \/ WorkerBoot \/ WorkerReady \/ HarnessReady \/ HarnessExit \/ HaltEnv \/ Spend \/ Kill \/ Resume
  \/ SandboxDestroy
  \/ \E p \in b.up : NodeRegisters(p)
  \/ \E k \in tasks, ok \in BOOLEAN : Report(k, ok)
  \/ \E c \in Asked : Ask(c)

\* They are Minor.
LEMMA MinorStepIsMinor ==
  ASSUME BaseInv, Booted, MinorStep
  PROVE  Minor
BY WorkerBootIsMinor, WorkerReadyIsMinor, HarnessReadyIsMinor, HarnessExitIsMinor, HaltEnvIsMinor,
   SpendIsMinor, KillIsMinor, ResumeIsMinor, SandboxDestroyIsMinor, NodeRegistersIsMinor,
   ReportIsMinor, AskIsMinor DEF MinorStep

\* Nothing but boot() can happen first.
LEMMA BootComesFirst ==
  ASSUME NotBooted, Next
  PROVE  Boot
<1>1. Head(cmds).t = "boot" /\ b.up = {} /\ b.ghosts = {} /\ b.gen = 0 /\ tasks = {} /\ exits = <<>>
  BY DEF NotBooted, Msg, NewBase
<1>2. ASSUME NEW t, Take(t) PROVE t = "boot"
  BY <1>1, <1>2 DEF Take
<1>3. OnCmd
  BY <1>1 DEF Next, OnExit, Ask
<1> QED
  BY <1>2, <1>3 DEF OnCmd, Register, WorkerBoot, WorkerReady, HarnessReady, HarnessExit, HaltEnv,
     Spend, Kill, Resume, Reset, Spawn, StopChild, SandboxDestroy, Stop

\* A command of a booted actor is no boot.
LEMMA BootComesOnce ==
  ASSUME TypeInv, Booted
  PROVE  ~Boot
BY TakeDoes DEF Booted, Boot

\* The types, the restarts and the halts hold at the start and are kept.
LEMMA BaseInvInit == Init => BaseInv
<1> SUFFICES ASSUME Init PROVE BaseInv
  OBVIOUS
<1>1. Msg("boot", Root) \in Cmd
  BY MsgIsCmd, SupervisorAssumption DEF Kinds
<1>2. TypeInv
  BY <1>1, NewBaseHolds, SupervisorAssumption DEF Init, TypeInv
<1> QED
  BY <1>2, NewBaseHolds DEF BaseInv, Init, NotBooted

\* Every step keeps them.
LEMMA BaseInvNext == BaseInv /\ [Next]_vars => BaseInv'
<1> SUFFICES ASSUME BaseInv, [Next]_vars PROVE BaseInv'
  OBVIOUS
<1>1. CASE UNCHANGED vars
  BY <1>1 DEF vars, BaseInv, TypeInv, NotBooted, Booted
<1>2. CASE Next /\ NotBooted
  BY <1>2, BootComesFirst, BootIsMajor DEF Major, BaseInv
<1>3. CASE Next /\ Booted
  <2>1. ASSUME MinorStep PROVE BaseInv'
    BY <1>3, <2>1, MinorStepIsMinor, MinorRestarts DEF Minor, BaseInv
  <2>2. ASSUME Register \/ Reset \/ Spawn \/ StopChild \/ Stop \/ OnExit PROVE BaseInv'
    BY <1>3, <2>2, RegisterIsMajor, ResetIsMajor, SpawnIsMajor, StopChildIsMajor, StopIsMajor,
       OnExitIsMajor DEF Major, BaseInv
  <2>3. ASSUME NEW p \in b.up, Die(p) PROVE BaseInv'
    BY <1>3, <2>3, DieIsMajor DEF Major, BaseInv
  <2>4. ASSUME NEW p \in b.ghosts, Watch(p) PROVE BaseInv'
    BY <1>3, <2>4, WatchIsMajor DEF Major, BaseInv
  <2>5. ~Boot
    BY <1>3, BootComesOnce DEF BaseInv
  <2> QED
    BY <1>3, <2>1, <2>2, <2>3, <2>4, <2>5 DEF Next, OnCmd, MinorStep
<1> QED
  BY <1>1, <1>2, <1>3 DEF BaseInv

\* The restarts of a node between two resets are bounded, whatever fails to
\* start and in whatever order exits, resets and stops come (on_exit, reset).
THEOREM RestartsStayBounded == Spec => []RestartsAreBounded
<1>1. BaseInv => RestartsAreBounded
  <2> SUFFICES ASSUME BaseInv, NEW e \in Env PROVE b.starts[e] <= max_restarts + 1
    BY DEF RestartsAreBounded
  <2>1. RestartsOf(b, e) /\ BaseOK(b)
    BY DEF BaseInv, Restarts, TypeInv
  <2>2. b.starts[e] \in Nat /\ (b.nodes[e] # None => b.nodes[e].restarts \in Nat)
    BY <2>1, KnownIsNode DEF BaseOK, Base, Node
  <2> QED
    BY <2>1, <2>2, SupervisorAssumption DEF RestartsOf
<1> QED
  BY <1>1, BaseInvInit, BaseInvNext, PTL DEF Spec

---------------------------------------------------------------------------
(* Every node is tracked.                                                  *)

\* Two records that say the same of the node.
SamePid(n, m) == m.gen = n.gen /\ m.pid = n.pid /\ m.registered = n.registered /\ m.peer = n.peer

\* Nothing of what is tracked changes, but generations may be used up.
LEMMA SameTracked ==
  ASSUME NEW s, BaseOK(s), NEW t, BaseOK(t), NEW x, x \subseteq Exit, Tracked(s, x), s.gen <= t.gen,
         \A p \in Process : p.num = 0 =>
           (p \in t.up <=> p \in s.up) /\ (p \in t.ghosts <=> p \in s.ghosts),
         \A e \in Env : t.nodes[e] = None <=> s.nodes[e] = None,
         \A e \in Env : s.nodes[e] # None => SamePid(s.nodes[e], t.nodes[e])
  PROVE  Tracked(t, x)
<1>1. s.up \subseteq Process /\ t.up \subseteq Process /\ s.ghosts \subseteq Process
      /\ t.ghosts \subseteq Process /\ s.gen \in Nat /\ t.gen \in Nat
  BY DEF BaseOK, Base
<1>2. \A p \in Process : p.env \in Env /\ p.gen \in Nat
  BY DEF Process
<1>3. \A m \in x : m.gen \in Nat
  BY DEF Exit
<1>4. \A e \in Env : s.nodes[e] # None => s.nodes[e] \in Node
  BY KnownIsNode DEF BaseOK
<1>5. \A e \in Env : t.nodes[e] # None => t.nodes[e].pid \in {0, t.nodes[e].gen}
  BY DEF Tracked, SamePid
<1>6. \A p \in t.up : p.num = 0 =>
        /\ t.nodes[p.env] # None /\ t.nodes[p.env].pid = p.gen
        /\ p.gen > 0 /\ p.gen <= t.gen /\ p \notin t.ghosts
        /\ [env |-> p.env, gen |-> p.gen] \notin x
  BY <1>1, <1>2 DEF Tracked, SamePid
<1>7. \A p \in t.ghosts : p.num = 0 => p.gen <= t.gen
  BY <1>1, <1>2 DEF Tracked
<1>8. \A m \in x : m.gen <= t.gen
  BY <1>1, <1>3 DEF Tracked
<1>9. ASSUME NEW e \in Env, t.nodes[e] # None, t.nodes[e].pid # 0
      PROVE  \/ Proc(e, t.nodes[e].pid, 0) \in t.up \cup t.ghosts
             \/ [env |-> e, gen |-> t.nodes[e].gen] \in x
  <2>1. s.nodes[e] # None /\ t.nodes[e].pid = s.nodes[e].pid /\ t.nodes[e].gen = s.nodes[e].gen
    BY <1>9 DEF SamePid
  <2>2. Proc(e, s.nodes[e].pid, 0) \in Process /\ Proc(e, s.nodes[e].pid, 0).num = 0
    BY <1>4, <2>1 DEF Proc, Process, Node
  <2> QED
    BY <1>9, <2>1, <2>2 DEF Tracked
<1>10. \A e \in Env : t.nodes[e] # None /\ t.nodes[e].registered =>
         t.nodes[e].peer = t.nodes[e].gen /\ t.nodes[e].pid = t.nodes[e].gen
  BY DEF Tracked, SamePid
<1> QED
  BY <1>5, <1>6, <1>7, <1>8, <1>9, <1>10 DEF Tracked

\* No node runs in e.
Idle(s, e) == \A p \in s.up : p.num = 0 => p.env # e

\* start() of an environment in which no node runs.
LEMMA StartTracked ==
  ASSUME NEW s, BaseOK(s), NEW e \in Env, NEW n \in Node, NEW t, StartedAs(s, e, n, t),
         NEW x, x \subseteq Exit, Tracked(s, x), Idle(s, e)
  PROVE  Tracked(t, x)
<1>1. /\ s.gen \in Nat /\ s.nodes \in [Env -> Node \cup {None}] /\ s.up \subseteq Process
      /\ s.ghosts \subseteq Process
  BY DEF BaseOK, Base
<1>2. PICK g \in Nat : g = s.gen + 1
  BY <1>1
<1>3. PICK m : m = Started(n, e, g)
  OBVIOUS
<1>4. m \in Node /\ m.gen = g /\ m.pid = g /\ ~m.registered /\ m # None
  BY <1>3, StartedDoes, NodeIsNotNone
<1>5. PICK q : q = Proc(e, g, 0)
  OBVIOUS
<1>6. q.env = e /\ q.gen = g /\ q.num = 0
  BY <1>5 DEF Proc
<1>7. /\ t.up = s.up \cup {q} /\ t.ghosts = s.ghosts /\ t.gen = g
      /\ \A d \in Env : t.nodes[d] = IF d = e THEN m ELSE s.nodes[d]
  BY <1>1, <1>2, <1>3, <1>5 DEF StartedAs
<1>8. \A p \in Process : p.env \in Env /\ p.gen \in Nat
  BY DEF Process
<1>9. \A k \in x : k.gen \in Nat
  BY DEF Exit
<1>10. \A d \in Env : t.nodes[d] # None => t.nodes[d].pid \in {0, t.nodes[d].gen}
  BY <1>4, <1>7 DEF Tracked
<1>11. \A p \in t.ghosts : p.num = 0 => p.gen <= t.gen /\ p.gen <= s.gen
  BY <1>1, <1>2, <1>7, <1>8 DEF Tracked
<1>12. \A k \in x : k.gen <= t.gen /\ k.gen <= s.gen
  BY <1>1, <1>2, <1>7, <1>9 DEF Tracked
<1>13. ASSUME NEW p \in t.up, p.num = 0
       PROVE  /\ t.nodes[p.env] # None /\ t.nodes[p.env].pid = p.gen
              /\ p.gen > 0 /\ p.gen <= t.gen /\ p \notin t.ghosts
              /\ [env |-> p.env, gen |-> p.gen] \notin x
  <2>1. CASE p = q
    <3>1. q \notin t.ghosts
      BY <1>1, <1>2, <1>6, <1>11
    <3>2. [env |-> e, gen |-> g] \notin x
      BY <1>1, <1>2, <1>12
    <3> QED
      BY <1>1, <1>2, <1>4, <1>6, <1>7, <2>1, <3>1, <3>2
  <2>2. CASE p # q
    <3>1. p \in s.up /\ p \in Process
      BY <1>1, <1>7, <2>2
    <3>2. p.env # e /\ p.env \in Env /\ p.gen \in Nat
      BY <1>8, <1>13, <3>1 DEF Idle
    <3> QED
      BY <1>1, <1>2, <1>7, <1>13, <3>1, <3>2 DEF Tracked
  <2> QED
    BY <2>1, <2>2
<1>14. \A d \in Env : t.nodes[d] # None /\ t.nodes[d].pid # 0 =>
         \/ Proc(d, t.nodes[d].pid, 0) \in t.up \cup t.ghosts
         \/ [env |-> d, gen |-> t.nodes[d].gen] \in x
  BY <1>4, <1>5, <1>7 DEF Tracked
<1>15. \A d \in Env : t.nodes[d] # None /\ t.nodes[d].registered =>
         t.nodes[d].peer = t.nodes[d].gen /\ t.nodes[d].pid = t.nodes[d].gen
  BY <1>4, <1>7 DEF Tracked
<1> QED
  BY <1>10, <1>11, <1>12, <1>13, <1>14, <1>15 DEF Tracked

\* Processes die and records are disconnected, or keep what they say.
LEMMA ReapTracked ==
  ASSUME NEW s, BaseOK(s), NEW t, BaseOK(t), t.gen = s.gen, Reaped(s, t),
         NEW x, x \subseteq Exit, NEW y, y \subseteq x, Tracked(s, x),
         \A p \in t.up : p.num = 0 => t.nodes[p.env] # None /\ t.nodes[p.env].pid = p.gen,
         \A e \in Env : t.nodes[e] # None =>
           \/ t.nodes[e].pid = 0 /\ ~t.nodes[e].registered
           \/ /\ s.nodes[e] # None /\ t.nodes[e].gen = s.nodes[e].gen /\ t.nodes[e].pid = s.nodes[e].pid
              /\ t.nodes[e].registered => s.nodes[e].registered /\ t.nodes[e].peer = s.nodes[e].peer
              /\ [env |-> e, gen |-> s.nodes[e].gen] \in x => [env |-> e, gen |-> s.nodes[e].gen] \in y
  PROVE  Tracked(t, y)
<1>1. t.up \subseteq s.up /\ t.ghosts = s.ghosts \cup (s.up \ t.up)
  BY DEF Reaped
<1>2. \A e \in Env : t.nodes[e] # None => t.nodes[e].pid \in {0, t.nodes[e].gen}
  BY DEF Tracked
<1>3. \A p \in t.up : p.num = 0 =>
        /\ t.nodes[p.env] # None /\ t.nodes[p.env].pid = p.gen
        /\ p.gen > 0 /\ p.gen <= t.gen /\ p \notin t.ghosts
        /\ [env |-> p.env, gen |-> p.gen] \notin y
  BY <1>1 DEF Tracked
<1>4. \A p \in t.ghosts : p.num = 0 => p.gen <= t.gen
  BY <1>1 DEF Tracked
<1>5. \A m \in y : m.gen <= t.gen
  BY DEF Tracked
<1>6. \A e \in Env : t.nodes[e] # None /\ t.nodes[e].pid # 0 =>
        \/ Proc(e, t.nodes[e].pid, 0) \in t.up \cup t.ghosts
        \/ [env |-> e, gen |-> t.nodes[e].gen] \in y
  BY <1>1 DEF Tracked
<1>7. \A e \in Env : t.nodes[e] # None /\ t.nodes[e].registered =>
        t.nodes[e].peer = t.nodes[e].gen /\ t.nodes[e].pid = t.nodes[e].gen
  <2> SUFFICES ASSUME NEW e \in Env, t.nodes[e] # None, t.nodes[e].registered
               PROVE  t.nodes[e].peer = t.nodes[e].gen /\ t.nodes[e].pid = t.nodes[e].gen
    OBVIOUS
  <2>1. /\ s.nodes[e] # None /\ t.nodes[e].gen = s.nodes[e].gen /\ t.nodes[e].pid = s.nodes[e].pid
        /\ s.nodes[e].registered /\ t.nodes[e].peer = s.nodes[e].peer
    OBVIOUS
  <2>2. s.nodes[e].peer = s.nodes[e].gen /\ s.nodes[e].pid = s.nodes[e].gen
    BY <2>1 DEF Tracked
  <2> QED
    BY <2>1, <2>2
<1> QED
  BY <1>2, <1>3, <1>4, <1>5, <1>6, <1>7 DEF Tracked

\* A node whose exit was reported does not run.
LEMMA ExitedIsIdle ==
  ASSUME NEW s, BaseOK(s), NEW x, Tracked(s, x), NEW e \in Env, s.nodes[e] # None,
         [env |-> e, gen |-> s.nodes[e].gen] \in x
  PROVE  Idle(s, e)
<1> SUFFICES ASSUME NEW p \in s.up, p.num = 0, p.env = e PROVE FALSE
  BY DEF Idle
<1>1. s.nodes[e].pid = p.gen /\ p.gen > 0 /\ [env |-> e, gen |-> p.gen] \notin x
  BY DEF Tracked
<1>2. s.nodes[e].pid \in {0, s.nodes[e].gen}
  BY DEF Tracked
<1>3. p.gen # 0
  BY <1>1 DEF BaseOK, Base, Process
<1> QED
  BY <1>1, <1>2, <1>3

\* on_exit(), up to the start.
LEMMA EndedTracked ==
  ASSUME NEW s, BaseOK(s), NEW e \in Env, s.nodes[e] # None, NEW X, e \notin X, NEW t, Ended(s, e, X, t),
         NEW x, x \subseteq Exit, Tracked(s, x), NEW y,
         x = {[env |-> e, gen |-> s.nodes[e].gen]} \cup y
  PROVE  Tracked(t, y) /\ Idle(t, e)
<1>1. BaseOK(t) /\ t.gen = s.gen /\ Reaped(s, t)
  BY DEF Ended, SameCounts
<1>2. Idle(s, e)
  BY ExitedIsIdle
<1>3. Idle(t, e)
  BY <1>1, <1>2 DEF Idle, Reaped
<1>4. \A p \in s.up : p.env \in Env
  BY DEF BaseOK, Base, Process
<1>5. \A p \in t.up : p.num = 0 => t.nodes[p.env] # None /\ t.nodes[p.env].pid = p.gen
  <2> SUFFICES ASSUME NEW p \in t.up, p.num = 0
               PROVE  t.nodes[p.env] # None /\ t.nodes[p.env].pid = p.gen
    OBVIOUS
  <2>1. p \in s.up /\ p.env \in Env /\ p.env # e
    BY <1>1, <1>3, <1>4 DEF Reaped, Idle
  <2>2. s.nodes[p.env] # None /\ s.nodes[p.env].pid = p.gen
    BY <2>1 DEF Tracked
  <2>3. p.env \notin X
    BY <2>1, <2>2 DEF Ended
  <2>4. t.nodes[p.env] = s.nodes[p.env]
    BY <2>1, <2>3 DEF Ended
  <2> QED
    BY <2>2, <2>4
<1>6. ASSUME NEW d \in Env, t.nodes[d] # None
      PROVE
           \/ t.nodes[d].pid = 0 /\ ~t.nodes[d].registered
           \/ /\ s.nodes[d] # None /\ t.nodes[d].gen = s.nodes[d].gen /\ t.nodes[d].pid = s.nodes[d].pid
              /\ t.nodes[d].registered => s.nodes[d].registered /\ t.nodes[d].peer = s.nodes[d].peer
              /\ [env |-> d, gen |-> s.nodes[d].gen] \in x => [env |-> d, gen |-> s.nodes[d].gen] \in y
  <2>1. CASE d = e
    BY <2>1 DEF Ended
  <2>2. CASE d # e
    <3>1. t.nodes[d] = s.nodes[d]
      BY <1>6, <2>2 DEF Ended
    <3>2. [env |-> d, gen |-> s.nodes[d].gen] # [env |-> e, gen |-> s.nodes[e].gen]
      BY <2>2
    <3> QED
      BY <1>6, <3>1, <3>2
  <2> QED
    BY <2>1, <2>2
<1>7. Tracked(t, y)
  BY <1>1, <1>5, <1>6, ReapTracked
<1> QED
  BY <1>3, <1>7

\* reset(), up to the start.
LEMMA ClearedTracked ==
  ASSUME NEW s, BaseOK(s), NEW e \in Env, NEW t, Cleared(s, e, t), s.nodes[e] # None,
         NEW x, x \subseteq Exit, Tracked(s, x)
  PROVE  Tracked(t, x) /\ Idle(t, e)
<1>1. BaseOK(t) /\ t.gen = s.gen /\ Reaped(s, t)
  BY DEF Cleared
<1>2. \A p \in t.up : p \in s.up /\ p.env \in Env
  BY <1>1 DEF Reaped, BaseOK, Base, Process
<1>7. \A p \in s.up : p.num = 0 => s.nodes[p.env] # None /\ s.nodes[p.env].pid = p.gen
  BY DEF Tracked
<1>8. \A p \in s.up : p.num = 0 => (p \in t.up <=> ~(p.env = e /\ p.gen = s.nodes[e].pid))
  BY DEF Cleared
<1>3. Idle(t, e)
  BY <1>2, <1>7, <1>8 DEF Idle
<1>9. \A d \in Env : d # e => t.nodes[d] = s.nodes[d]
  BY DEF Cleared
<1>4. \A p \in t.up : p.num = 0 => t.nodes[p.env] # None /\ t.nodes[p.env].pid = p.gen
  BY <1>2, <1>3, <1>7, <1>9 DEF Idle
<1>5. \A d \in Env : t.nodes[d] # None =>
        /\ s.nodes[d] # None /\ t.nodes[d].gen = s.nodes[d].gen /\ t.nodes[d].pid = s.nodes[d].pid
        /\ t.nodes[d].registered => s.nodes[d].registered /\ t.nodes[d].peer = s.nodes[d].peer
  BY DEF Cleared
<1>6. Tracked(t, x)
  BY <1>1, <1>4, <1>5, ReapTracked
<1> QED
  BY <1>3, <1>6

\* prune()
LEMMA PrunedTracked ==
  ASSUME NEW s, BaseOK(s), NEW X, NEW t, Pruned(s, X, t), NEW x, x \subseteq Exit, Tracked(s, x)
  PROVE  Tracked(t, x)
<1>1. BaseOK(t) /\ t.gen = s.gen /\ Reaped(s, t)
  BY DEF Pruned, SameCounts
<1>2. \A p \in t.up : p \in s.up /\ p.env \in Env
  BY <1>1 DEF Reaped, BaseOK, Base, Process
<1>3. \A p \in t.up : p.num = 0 => t.nodes[p.env] # None /\ t.nodes[p.env].pid = p.gen
  BY <1>2 DEF Pruned, Tracked
<1>4. \A d \in Env : t.nodes[d] # None => s.nodes[d] # None /\ t.nodes[d] = s.nodes[d]
  BY DEF Pruned
<1> QED
  BY <1>1, <1>3, <1>4, ReapTracked

\* A process dies by itself.
LEMMA KilledTracked ==
  ASSUME NEW s, BaseOK(s), NEW X, NEW t, Killed(s, X, t), NEW x, x \subseteq Exit, Tracked(s, x)
  PROVE  Tracked(t, x)
<1>1. BaseOK(t) /\ t.gen = s.gen /\ Reaped(s, t) /\ t.nodes = s.nodes
  BY DEF Killed, SameCounts, Reaped
<1>2. \A p \in t.up : p.num = 0 => t.nodes[p.env] # None /\ t.nodes[p.env].pid = p.gen
  BY <1>1 DEF Reaped, Tracked
<1> QED
  BY <1>1, <1>2, ReapTracked

\* stop(): every node dies, and no record names one.
LEMMA OffTracked ==
  ASSUME NEW s, BaseOK(s), NEW t, NodesOff(s, Known(s), t), NEW x, x \subseteq Exit, Tracked(s, x)
  PROVE  Tracked(t, x) /\ \A p \in t.up : p.num # 0
<1>1. BaseOK(t) /\ t.gen = s.gen /\ Reaped(s, t)
  BY DEF NodesOff, SameCounts
<1>2. \A p \in t.up : p \in s.up /\ p.env \in Env
  BY <1>1 DEF Reaped, BaseOK, Base, Process
<1>3. \A p \in t.up : p.num # 0
  BY <1>2 DEF NodesOff, Tracked, Known
<1>4. \A d \in Env : t.nodes[d] # None => t.nodes[d].pid = 0 /\ ~t.nodes[d].registered
  <2> SUFFICES ASSUME NEW d \in Env, t.nodes[d] # None
               PROVE  t.nodes[d].pid = 0 /\ ~t.nodes[d].registered
    OBVIOUS
  <2>1. s.nodes[d] # None
    BY DEF NodesOff, Known
  <2>2. s.nodes[d] \in Node /\ t.nodes[d] = OffNode(s.nodes[d])
    BY <2>1, KnownIsNode DEF NodesOff, Known, BaseOK
  <2> QED
    BY <2>2, OffNodeDoes
<1>5. Tracked(t, x)
  BY <1>1, <1>3, <1>4, ReapTracked
<1> QED
  BY <1>3, <1>5

\* on_register(): the node that registered is the one the record names.
LEMMA ConnectedTracked ==
  ASSUME NEW s, BaseOK(s), NEW e \in Env, NEW g \in Nat, NEW t, Connected(s, e, g, t),
         NEW x, x \subseteq Exit, Tracked(s, x)
  PROVE  Tracked(t, x)
<1>1. PICK n \in Node : n = s.nodes[e] /\ n # None /\ n.gen = g /\ n.pid = g
  BY KnownIsNode, NodeIsNotNone DEF Connected, Registers, BaseOK
<1>2. PICK m : m = [n EXCEPT !.peer = g, !.registered = TRUE]
  OBVIOUS
<1>3. m \in Node /\ m # None /\ m.gen = g /\ m.pid = g /\ m.peer = g
  BY <1>1, <1>2, NodeIsNotNone DEF Node
<1>4. s.nodes \in [Env -> Node \cup {None}]
  BY DEF BaseOK, Base
<1>5. /\ t.up = s.up /\ t.ghosts = s.ghosts /\ t.gen = s.gen
      /\ t.nodes = [s.nodes EXCEPT ![e] = m]
  BY <1>1, <1>2 DEF Connected, SameCounts
<1>6. \A d \in Env : t.nodes[d] = IF d = e THEN m ELSE s.nodes[d]
  BY <1>4, <1>5
<1>7. \A p \in s.up : p.env \in Env
  BY DEF BaseOK, Base, Process
<1> QED
  BY <1>1, <1>3, <1>5, <1>6, <1>7 DEF Tracked

\* A watcher reports: the ghost becomes an exit.
LEMMA ReportedTracked ==
  ASSUME NEW s, BaseOK(s), NEW p \in s.ghosts, NEW t, Reported(s, p, t), NEW x, Tracked(s, x), NEW y,
         y = IF p.num = 0 THEN x \cup {[env |-> p.env, gen |-> p.gen]} ELSE x
  PROVE  Tracked(t, y)
<1>1. t.gen = s.gen /\ t.up = s.up /\ t.nodes = s.nodes /\ t.ghosts = s.ghosts \ {p}
  BY DEF Reported, SameCounts
<1>2. p \in Process /\ s.up \subseteq Process
  BY DEF BaseOK, Base
<1>3. \A q \in s.up : q.num = 0 => [env |-> q.env, gen |-> q.gen] \notin y
  <2> SUFFICES ASSUME NEW q \in s.up, q.num = 0, [env |-> q.env, gen |-> q.gen] \in y PROVE FALSE
    OBVIOUS
  <2>1. [env |-> q.env, gen |-> q.gen] \notin x /\ q \notin s.ghosts
    BY DEF Tracked
  <2>2. p.num = 0 /\ p.env = q.env /\ p.gen = q.gen
    BY <2>1
  <2>3. p = q
    BY <1>2, <2>2 DEF Process
  <2> QED
    BY <2>1, <2>3
<1>4. \A m \in y : m.gen <= s.gen
  BY DEF Tracked
<1>5. ASSUME NEW e \in Env, t.nodes[e] # None, t.nodes[e].pid # 0
      PROVE  \/ Proc(e, t.nodes[e].pid, 0) \in t.up \cup t.ghosts
             \/ [env |-> e, gen |-> t.nodes[e].gen] \in y
  <2>1. s.nodes[e].pid = s.nodes[e].gen
    BY <1>1, <1>5 DEF Tracked
  <2>2. CASE p = Proc(e, s.nodes[e].pid, 0)
    BY <1>1, <2>1, <2>2 DEF Proc
  <2>3. CASE p # Proc(e, s.nodes[e].pid, 0)
    BY <1>1, <1>5, <2>3 DEF Tracked
  <2> QED
    BY <2>2, <2>3
<1> QED
  BY <1>1, <1>3, <1>4, <1>5 DEF Tracked

\* A child is staged where no record was.
LEMMA StagedTracked ==
  ASSUME NEW s, BaseOK(s), NEW p \in Env, NEW c \in Env, s.nodes[p] # None, s.nodes[c] = None,
         NEW t, StagedIn(s, p, c, t), NEW x, x \subseteq Exit, Tracked(s, x)
  PROVE  Tracked(t, x) /\ Idle(t, c)
<1>1. /\ s.nodes \in [Env -> Node \cup {None}] /\ s.nodes[p].depth + 1 \in Nat
      /\ \A q \in s.up : q.env \in Env
  BY KnownIsNode DEF BaseOK, Base, Process, Node
<1>2. PICK m : m = Staged(p, s.nodes[p].depth + 1)
  OBVIOUS
<1>3. m.gen = 0 /\ m.pid = 0 /\ ~m.registered
  BY <1>1, <1>2, StagedIsNode
<1>4. /\ t.up = s.up /\ t.ghosts = s.ghosts /\ t.gen = s.gen
      /\ \A d \in Env : t.nodes[d] = IF d = c THEN m ELSE s.nodes[d]
  BY <1>1, <1>2 DEF StagedIn
<1>5. Idle(t, c)
  BY <1>4 DEF Idle, Tracked
<1>6. Tracked(t, x)
  BY <1>1, <1>3, <1>4, <1>5 DEF Tracked, Idle
<1> QED
  BY <1>5, <1>6

---------------------------------------------------------------------------
(* The tree stays closed.                                                  *)

\* The same environments, at the same places.
SameShape(s, t) ==
  \A e \in Env : /\ t.nodes[e] = None <=> s.nodes[e] = None
                 /\ s.nodes[e] # None => /\ t.nodes[e].parent = s.nodes[e].parent
                                         /\ t.nodes[e].depth = s.nodes[e].depth

\* The tree is a matter of places.
LEMMA ShapeTree ==
  ASSUME NEW s, NEW t, SameShape(s, t), Tree(s), Few(s)
  PROVE  Tree(t) /\ Few(t)
<1>1. Guardian \in Env /\ Root \in Env
  BY SupervisorAssumption
<1>2. Tree(t)
  BY <1>1 DEF Tree, SameShape
<1>3. Agents(t) = Agents(s)
  BY DEF Agents, Known, SameShape
<1> QED
  BY <1>2, <1>3 DEF Few

\* start() over a record keeps its place.
LEMMA StartedShape ==
  ASSUME NEW s, BaseOK(s), NEW e \in Env, s.nodes[e] \in Node, NEW t, StartedAs(s, e, s.nodes[e], t)
  PROVE  SameShape(s, t)
<1>1. s.nodes \in [Env -> Node \cup {None}] /\ s.gen + 1 \in Nat
  BY DEF BaseOK, Base
<1>2. PICK m : m = Started(s.nodes[e], e, s.gen + 1)
  OBVIOUS
<1>3. m # None /\ m.parent = s.nodes[e].parent /\ m.depth = s.nodes[e].depth
  BY <1>1, <1>2, StartedDoes, NodeIsNotNone
<1>4. \A d \in Env : t.nodes[d] = IF d = e THEN m ELSE s.nodes[d]
  BY <1>1, <1>2 DEF StartedAs
<1> QED
  BY <1>3, <1>4, NodeIsNotNone DEF SameShape

\* Two such steps are one.
LEMMA ShapeTrans ==
  ASSUME NEW r, NEW s, NEW t, SameShape(r, s), SameShape(s, t)
  PROVE  SameShape(r, t)
BY DEF SameShape

\* Environments leave the tree together with all that is below them.
LEMMA CutTree ==
  ASSUME NEW s, BaseOK(s), Tree(s), Few(s), NEW X, Guardian \notin X, Root \notin X,
         \A c \in Known(s) : c \notin X => s.nodes[c].parent \notin X,
         NEW t, \A d \in X : d \in Env => t.nodes[d] = None,
         \A d \in Env : d \notin X =>
           /\ t.nodes[d] = None <=> s.nodes[d] = None
           /\ s.nodes[d] # None => /\ t.nodes[d].parent = s.nodes[d].parent
                                   /\ t.nodes[d].depth = s.nodes[d].depth
  PROVE  Tree(t) /\ Few(t)
<1>1. Guardian \in Env /\ Root \in Env
  BY SupervisorAssumption
<1>2. Tree(t)
  BY <1>1 DEF Tree, Known
<1>3. Agents(t) \subseteq Agents(s)
  BY DEF Agents, Known
<1>4. IsFiniteSet(Agents(s))
  BY FS_Subset, SupervisorAssumption DEF Agents, Known
<1>5. Cardinality(Agents(t)) <= Cardinality(Agents(s)) /\ IsFiniteSet(Agents(t))
  BY <1>3, <1>4, FS_Subset
<1>6. Cardinality(Agents(t)) \in Nat /\ Cardinality(Agents(s)) \in Nat
  BY <1>4, <1>5, FS_CardinalityType
<1>7. Few(t)
  BY <1>5, <1>6, SupervisorAssumption DEF Few
<1> QED
  BY <1>2, <1>7

\* What is below an environment: its children, and theirs; neither it nor
\* what is above it, and never the guardian or the root.
LEMMA SubtreeCut ==
  ASSUME NEW s, BaseOK(s), Tree(s), NEW e \in Known(s)
  PROVE  LET X == Subtree(s, e) IN
         /\ e \in X /\ X \subseteq Known(s)
         /\ \A c \in Known(s) : s.nodes[c].parent \in X => c \in X
         /\ \A c \in X : c # e => c \notin {Guardian, Root}
         /\ s.nodes[e].parent \notin X
<1> DEFINE X == Subtree(s, e)
           Closed(S) == e \in S /\ \A c \in Known(s) : s.nodes[c].parent \in S => c \in S
<1>1. \A d : d \in X <=> d \in Known(s) /\ \A S \in SUBSET Env : Closed(S) => d \in S
  BY DEF Subtree
<1>2. NoEnv \notin Env /\ Guardian \in Env /\ Root \in Env /\ Known(s) \subseteq Env /\ e \in Env
  BY SupervisorAssumption DEF Known
<1>3. \A d \in Known(s) : s.nodes[d].depth \in Nat
  BY KnownIsNode DEF Known, BaseOK, Node
<1> HIDE DEF X
<1>4. e \in X /\ X \subseteq Known(s)
  BY <1>1
<1>5. \A c \in Known(s) : s.nodes[c].parent \in X => c \in X
  <2> SUFFICES ASSUME NEW c \in Known(s), s.nodes[c].parent \in X, NEW S \in SUBSET Env, Closed(S)
               PROVE  c \in S
    BY <1>1
  <2>1. s.nodes[c].parent \in S
    BY <1>1
  <2> QED
    BY <2>1
<1>6. ASSUME NEW c \in X, c # e PROVE c \notin {Guardian, Root}
  <2> DEFINE S == (Env \ {Guardian, Root}) \cup {e}
  <2>1. Closed(S)
    BY <1>2 DEF Tree, Known
  <2>2. S \in SUBSET Env
    BY <1>2
  <2>3. c \in S
    BY <1>1, <2>1, <2>2
  <2> QED
    BY <1>6, <2>3
<1>7. s.nodes[e].parent \notin X
  <2> DEFINE S == {d \in Known(s) : d = e \/ s.nodes[d].depth > s.nodes[e].depth}
  <2>1. ASSUME NEW c \in Known(s), s.nodes[c].parent \in S PROVE c \in S
    <3>1. s.nodes[c].parent \in Env /\ c \in Env /\ s.nodes[c] # None
      BY <1>2, <2>1 DEF Known
    <3>2. c \notin {Guardian, Root}
      BY <1>2, <3>1 DEF Tree, Known
    <3>3. s.nodes[c].depth = s.nodes[s.nodes[c].parent].depth + 1
      BY <3>1, <3>2 DEF Tree
    <3>4. s.nodes[s.nodes[c].parent].depth >= s.nodes[e].depth
      BY <1>3, <2>1
    <3> QED
      BY <1>3, <2>1, <3>3, <3>4
  <2>2. Closed(S) /\ S \in SUBSET Env
    BY <1>2, <2>1
  <2>3. SUFFICES ASSUME s.nodes[e].parent \in X PROVE FALSE
    OBVIOUS
  <2>4. s.nodes[e].parent \in S /\ s.nodes[e].parent \in Known(s)
    BY <1>1, <2>2, <2>3
  <2>5. e \in Env \ {Guardian, Root} /\ s.nodes[e] # None
    BY <1>2, <2>4 DEF Tree, Known
  <2>6. s.nodes[e].depth = s.nodes[s.nodes[e].parent].depth + 1
    BY <2>5 DEF Tree
  <2> QED
    BY <1>3, <2>4, <2>6
<1> QED
  BY <1>4, <1>5, <1>6, <1>7 DEF X

\* on_exit() takes what is below the node.
LEMMA EndedTree ==
  ASSUME NEW s, BaseOK(s), Tree(s), Few(s), NEW e \in Known(s), NEW t,
         Ended(s, e, Subtree(s, e) \ {e}, t)
  PROVE  Tree(t) /\ Few(t)
<1> DEFINE X == Subtree(s, e) \ {e}
<1>1. Guardian \notin X /\ Root \notin X /\ X \subseteq Known(s) /\ e \notin X
  BY SubtreeCut
<1>2. \A c \in Known(s) : c \notin X => s.nodes[c].parent \notin X
  BY SubtreeCut
<1>3. Ended(s, e, X, t)
  OBVIOUS
<1> HIDE DEF X
<1>4. s.nodes[e] # None /\ e \in Env
  BY DEF Known
<1>5. \A d \in X : d \in Env => t.nodes[d] = None
  BY <1>1, <1>3 DEF Ended
<1>6. \A d \in Env : d \notin X =>
        /\ t.nodes[d] = None <=> s.nodes[d] = None
        /\ s.nodes[d] # None => /\ t.nodes[d].parent = s.nodes[d].parent
                                /\ t.nodes[d].depth = s.nodes[d].depth
  BY <1>3, <1>4, NodeIsNotNone DEF Ended
<1> QED
  BY <1>1, <1>2, <1>5, <1>6, CutTree

\* runtime_stop() takes a child and what is below it.
LEMMA PrunedTree ==
  ASSUME NEW s, BaseOK(s), Tree(s), Few(s), NEW e \in Known(s), s.nodes[e].parent # NoEnv, NEW t,
         Pruned(s, Subtree(s, e), t)
  PROVE  Tree(t) /\ Few(t)
<1> DEFINE X == Subtree(s, e)
<1>1. Guardian \notin X /\ Root \notin X /\ X \subseteq Known(s)
  <2>1. e \notin {Guardian, Root}
    BY DEF Tree, Known
  <2> QED
    BY <2>1, SubtreeCut
<1>2. \A c \in Known(s) : c \notin X => s.nodes[c].parent \notin X
  BY SubtreeCut
<1>3. Pruned(s, X, t)
  OBVIOUS
<1> HIDE DEF X
<1>4. \A d \in Env : t.nodes[d] = IF d \in X THEN None ELSE s.nodes[d]
  BY <1>3 DEF Pruned
<1>5. \A d \in X : d \in Env => t.nodes[d] = None
  BY <1>4
<1>6. \A d \in Env : d \notin X =>
        /\ t.nodes[d] = None <=> s.nodes[d] = None
        /\ s.nodes[d] # None => /\ t.nodes[d].parent = s.nodes[d].parent
                                /\ t.nodes[d].depth = s.nodes[d].depth
  BY <1>4
<1> QED
  BY <1>1, <1>2, <1>5, <1>6, CutTree

\* spawn_child() within its limits adds a leaf.
LEMMA StagedTree ==
  ASSUME NEW s, BaseOK(s), Tree(s), Few(s), NEW p \in Env, NEW c \in Env,
         s.nodes[p] # None, p # Guardian, s.nodes[c] = None, s.nodes[p].depth + 1 <= max_depth,
         Cardinality(Agents(s)) < max_total, NEW t, StagedIn(s, p, c, t)
  PROVE  Tree(t) /\ Few(t)
<1>1. /\ s.nodes \in [Env -> Node \cup {None}] /\ s.nodes[p].depth + 1 \in Nat
      /\ Guardian \in Env /\ Root \in Env /\ Guardian # Root /\ max_total \in Nat
  BY KnownIsNode, SupervisorAssumption DEF BaseOK, Base, Node
<1>2. PICK m : m = Staged(p, s.nodes[p].depth + 1)
  OBVIOUS
<1>3. m # None /\ m.parent = p /\ m.depth = s.nodes[p].depth + 1
  BY <1>1, <1>2, StagedIsNode, NodeIsNotNone
<1>4. \A d \in Env : t.nodes[d] = IF d = c THEN m ELSE s.nodes[d]
  BY <1>1, <1>2 DEF StagedIn
<1>5. s.nodes[Root] # None /\ s.nodes[Guardian] # None
  BY <1>1 DEF Tree
<1>6. c \notin {Guardian, Root} /\ c # p
  BY <1>5
<1>7. Tree(t)
  BY <1>1, <1>3, <1>4, <1>5, <1>6 DEF Tree
<1>8. Agents(t) = Agents(s) \cup {c} /\ c \notin Agents(s)
  BY <1>3, <1>4, <1>6 DEF Agents, Known
<1>9. IsFiniteSet(Agents(s))
  BY FS_Subset, SupervisorAssumption DEF Agents, Known
<1>10. Cardinality(Agents(t)) = Cardinality(Agents(s)) + 1 /\ Cardinality(Agents(s)) \in Nat
  BY <1>8, <1>9, FS_AddElement, FS_CardinalityType
<1>11. Few(t)
  BY <1>1, <1>10 DEF Few
<1> QED
  BY <1>7, <1>11

---------------------------------------------------------------------------
(* All steps keep nodes tracked and the tree closed.                       *)

\* What is in a queue has the queue's type.
LEMMA ElemsIn ==
  ASSUME NEW S, NEW c \in Seq(S)
  PROVE  Elems(c) \subseteq S
BY DEF Elems

\* What TrackInv asks of a step.
Kept ==
  /\ Tracked(b', Elems(exits')) /\ Tree(b') /\ Few(b') /\ Stopped(b')
  /\ left'.failures = left.failures

\* The steps that leave the nodes alone.
LEMMA MinorKeeps ==
  ASSUME BaseInv, TrackInv, ~b.stopping, Minor
  PROVE  Kept
<1>1. BaseOK(b) /\ BaseOK(b') /\ Elems(exits) \subseteq Exit /\ b.gen \in Nat
  BY ElemsIn DEF BaseInv, TypeInv, Minor, SameNodes, BaseOK, Base
<1>2. Tracked(b', Elems(exits))
  <2>1. \A e \in Env : b.nodes[e] # None => SamePid(b.nodes[e], b'.nodes[e])
    BY DEF Minor, SameNodes, SameNode, SamePid
  <2>2. b.gen <= b'.gen /\ Tracked(b, Elems(exits))
    BY <1>1 DEF Minor, SameNodes, TrackInv
  <2>3. \A p \in Process : p.num = 0 =>
          (p \in b'.up <=> p \in b.up) /\ (p \in b'.ghosts <=> p \in b.ghosts)
    BY DEF Minor, SameNodes
  <2>4. \A e \in Env : b'.nodes[e] = None <=> b.nodes[e] = None
    BY DEF Minor, SameNodes
  <2> QED
    BY <1>1, <2>1, <2>2, <2>3, <2>4, SameTracked
<1>3. SameShape(b, b')
  BY DEF Minor, SameNodes, SameNode, SameShape
<1>4. Tree(b') /\ Few(b')
  BY <1>3, ShapeTree DEF TrackInv
<1> QED
  BY <1>2, <1>4 DEF Kept, Minor, SameNodes, Stopped

\* on_register()
LEMMA RegisterKeeps ==
  ASSUME BaseInv, TrackInv, Register
  PROVE  Kept
<1>1. /\ TypeInv /\ BaseOK(b) /\ Elems(exits) \subseteq Exit /\ cmd.env \in Env /\ cmd.gen \in Nat
      /\ ~b.stopping /\ exits' = exits /\ left' = left
  BY ElemsIn, TakeDoes DEF BaseInv, TypeInv, Register, Take
<1>2. CASE ~Registers(b, cmd.env, cmd.gen)
  BY <1>1, <1>2 DEF Register, Kept, TrackInv
<1>3. CASE Registers(b, cmd.env, cmd.gen)
  <2>1. PICK e \in Env, g \in Nat : e = cmd.env /\ g = cmd.gen
    BY <1>1
  <2>2. Connected(b, e, g, b')
    BY <1>1, <1>3, <2>1, RegisterDoes
  <2>3. Tracked(b', Elems(exits'))
    BY <1>1, <2>2, ConnectedTracked DEF TrackInv
  <2>4. SameShape(b, b')
    <3>1. PICK n \in Node : n = b.nodes[e] /\ n # None
      BY <1>1, <2>2, KnownIsNode, NodeIsNotNone DEF Connected, Registers, BaseOK
    <3>2. PICK m : m = [n EXCEPT !.peer = g, !.registered = TRUE]
      OBVIOUS
    <3>3. m # None /\ m.parent = n.parent /\ m.depth = n.depth
      BY <3>2 DEF Node, None
    <3>4. b.nodes \in [Env -> Node \cup {None}] /\ b'.nodes = [b.nodes EXCEPT ![e] = m]
      BY <1>1, <2>2, <3>1, <3>2 DEF BaseOK, Base, Connected
    <3>5. \A d \in Env : b'.nodes[d] = IF d = e THEN m ELSE b.nodes[d]
      BY <3>4
    <3> QED
      BY <3>1, <3>3, <3>5 DEF SameShape
  <2>5. Tree(b') /\ Few(b')
    BY <2>4, ShapeTree DEF TrackInv
  <2>6. ~b'.stopping
    BY <1>1, <2>2 DEF Connected, SameCounts
  <2> QED
    BY <1>1, <2>3, <2>5, <2>6 DEF Kept, Stopped
<1> QED
  BY <1>2, <1>3

\* A process dies.
LEMMA DieKeeps ==
  ASSUME BaseInv, Booted, TrackInv, NEW p \in b.up, Die(p)
  PROVE  Kept
<1>1. /\ BaseOK(b) /\ Elems(exits) \subseteq Exit /\ ~b.stopping /\ exits' = exits
      /\ left'.failures = left.failures
  BY ElemsIn DEF BaseInv, TypeInv, Die, World
<1>2. Killed(b, {p}, b')
  BY DieIsMajor
<1>3. Tracked(b', Elems(exits'))
  BY <1>1, <1>2, KilledTracked DEF TrackInv
<1>4. Tree(b') /\ Few(b')
  BY <1>2, ShapeTree DEF Killed, SameShape, TrackInv
<1> QED
  BY <1>1, <1>2, <1>3, <1>4 DEF Kept, Stopped, Killed, SameCounts

\* A watcher reports.
LEMMA WatchKeeps ==
  ASSUME BaseInv, Booted, TrackInv, NEW p \in b.ghosts, Watch(p)
  PROVE  Kept
<1>1. BaseOK(b) /\ ~b.stopping /\ left' = left
  BY DEF BaseInv, TypeInv, Watch
<1>2. /\ Reported(b, p, b')
      /\ IF p.num = 0 THEN Elems(exits') = Elems(exits) \cup {[env |-> p.env, gen |-> p.gen]}
         ELSE exits' = exits
  BY WatchIsMajor
<1>3. Tracked(b', Elems(exits'))
  BY <1>1, <1>2, ReportedTracked DEF TrackInv
<1>4. Tree(b') /\ Few(b')
  BY <1>2, ShapeTree DEF Reported, SameShape, TrackInv
<1> QED
  BY <1>1, <1>2, <1>3, <1>4 DEF Kept, Stopped, Reported, SameCounts

\* runtime_stop()
LEMMA StopChildKeeps ==
  ASSUME BaseInv, TrackInv, StopChild
  PROVE  Kept
<1>1. /\ BaseOK(b) /\ Elems(exits) \subseteq Exit /\ ~b.stopping /\ exits' = exits /\ left' = left
      /\ cmd.env \in Env
  BY ElemsIn, TakeDoes DEF BaseInv, TypeInv, StopChild, Take
<1>2. CASE b.nodes[cmd.env] = None \/ b.nodes[cmd.env].parent = NoEnv
  BY <1>1, <1>2 DEF StopChild, Kept, TrackInv
<1>3. CASE ~(b.nodes[cmd.env] = None \/ b.nodes[cmd.env].parent = NoEnv)
  <2>1. PICK e \in Known(b) : e = cmd.env /\ b.nodes[e].parent # NoEnv
    BY <1>1, <1>3 DEF Known
  <2>2. Pruned(b, Subtree(b, e), b')
    BY <1>1, <1>3, <2>1, PruneDoes, SubtreeIsKnown DEF StopChild
  <2>3. Tracked(b', Elems(exits')) /\ Tree(b') /\ Few(b')
    BY <1>1, <2>1, <2>2, PrunedTracked, PrunedTree DEF TrackInv
  <2> QED
    BY <1>1, <2>2, <2>3 DEF Kept, Stopped, Pruned, SameCounts
<1> QED
  BY <1>2, <1>3

\* stop()
LEMMA StopKeeps ==
  ASSUME BaseInv, TrackInv, Stop
  PROVE  Kept
<1>1. /\ TypeInv /\ BaseOK(b) /\ Elems(exits) \subseteq Exit /\ exits' = exits /\ left' = left
  BY ElemsIn DEF BaseInv, TypeInv, Stop
<1>2. PICK h : /\ NodesOff(b, Known(b), h) /\ BaseOK(b') /\ b'.nodes = h.nodes /\ b'.up = h.up
               /\ b'.ghosts = h.ghosts /\ b'.gen = h.gen
  BY <1>1, StopDoes
<1>3. Tracked(h, Elems(exits)) /\ \A p \in h.up : p.num # 0
  BY <1>1, <1>2, OffTracked DEF TrackInv
<1>4. Tracked(b', Elems(exits')) /\ Stopped(b')
  BY <1>1, <1>2, <1>3 DEF Tracked, Stopped
<1>5. SameShape(b, b')
  <2> SUFFICES ASSUME NEW e \in Env
               PROVE  /\ b'.nodes[e] = None <=> b.nodes[e] = None
                      /\ b.nodes[e] # None => /\ b'.nodes[e].parent = b.nodes[e].parent
                                              /\ b'.nodes[e].depth = b.nodes[e].depth
    BY DEF SameShape
  <2>1. CASE b.nodes[e] = None
    BY <1>2, <2>1 DEF NodesOff, Known
  <2>2. CASE b.nodes[e] # None
    <3>1. b.nodes[e] \in Node /\ b'.nodes[e] = OffNode(b.nodes[e])
      BY <1>1, <1>2, <2>2, KnownIsNode DEF NodesOff, Known, BaseOK
    <3> QED
      BY <2>2, <3>1, OffNodeDoes
  <2> QED
    BY <2>1, <2>2
<1>6. Tree(b') /\ Few(b')
  BY <1>5, ShapeTree DEF TrackInv
<1> QED
  BY <1>1, <1>4, <1>6 DEF Kept

\* A start() whose spawn failed changes nothing that is tracked.
LEMMA FailedTracked ==
  ASSUME NEW s, BaseOK(s), NEW e \in Env, NEW t, t = StartFailed(s, e, "spawn"), NEW x, x \subseteq Exit,
         Tracked(s, x)
  PROVE  Tracked(t, x) /\ SameShape(s, t) /\ t.stopping = s.stopping /\ BaseOK(t)
<1>1. /\ BaseOK(t) /\ t.gen = s.gen + 1 /\ t.up = s.up /\ t.ghosts = s.ghosts /\ t.nodes = s.nodes
      /\ t.stopping = s.stopping
  BY SpawnFailedDoes
<1>2. s.gen <= t.gen
  BY <1>1 DEF BaseOK, Base
<1>3. Tracked(t, x)
  BY <1>1, <1>2, SameTracked DEF SamePid
<1> QED
  BY <1>1, <1>3 DEF SameShape

\* Where no sandbox fails, what fails in start() is the spawn.
LEMMA OnlySpawnFails ==
  ASSUME TypeInv, "sandbox" \notin left.failures, NEW e, NEW how \in Fails(e), Failed
  PROVE  how = "spawn" /\ left'.failures = left.failures
BY FailsAre, FailedDoes

\* reset()
LEMMA ResetKeeps ==
  ASSUME BaseInv, TrackInv, Reset
  PROVE  Kept
<1>1. /\ TypeInv /\ BaseOK(b) /\ Elems(exits) \subseteq Exit /\ ~b.stopping /\ exits' = exits
      /\ cmd.env \in Env /\ Tracked(b, Elems(exits)) /\ "sandbox" \notin left.failures
  BY ElemsIn, TakeDoes DEF BaseInv, TypeInv, Reset, Take, TrackInv
<1>2. PICK e \in Env : e = cmd.env
  BY <1>1
<1>3. PICK s : s = ResetState(b, e)
  OBVIOUS
<1>4. CASE b' = b /\ left' = left
  BY <1>1, <1>4 DEF Kept, TrackInv
<1>5. ASSUME b.nodes[e] # None, Cleared(b, e, s)
      PROVE  /\ BaseOK(s) /\ Tracked(s, Elems(exits)) /\ Idle(s, e) /\ SameShape(b, s)
             /\ ~s.stopping /\ s.nodes[e] \in Node
  <2>1. BaseOK(s) /\ Tracked(s, Elems(exits)) /\ Idle(s, e)
    BY <1>1, <1>5, ClearedTracked DEF Cleared
  <2>2. SameShape(b, s)
    BY <1>5, NodeIsNotNone DEF Cleared, SameShape
  <2> QED
    BY <1>1, <1>5, <2>1, <2>2 DEF Cleared
<1>6. ASSUME b.nodes[e] # None, Cleared(b, e, s), NEW how \in Fails(e), b' = StartFailed(s, e, how), Failed
      PROVE  Kept
  <2>1. how = "spawn" /\ left'.failures = left.failures
    BY <1>1, <1>6, OnlySpawnFails
  <2>2. Tracked(b', Elems(exits)) /\ SameShape(s, b') /\ b'.stopping = s.stopping
    BY <1>1, <1>5, <1>6, <2>1, FailedTracked
  <2>3. SameShape(b, b')
    BY <1>5, <1>6, <2>2, ShapeTrans
  <2>4. Tree(b') /\ Few(b')
    BY <2>3, ShapeTree DEF TrackInv
  <2> QED
    BY <1>1, <1>5, <1>6, <2>1, <2>2, <2>4 DEF Kept, Stopped
<1>7. ASSUME b.nodes[e] # None, Cleared(b, e, s), NEW t, NEW f \in BOOLEAN,
             StartedAs(s, e, s.nodes[e], t), left' = left,
             Replaced(t, e, [t.nodes[e] EXCEPT !.restarts = 0, !.halted = f], b')
      PROVE  Kept
  <2>1. BaseOK(t) /\ Tracked(t, Elems(exits)) /\ SameShape(s, t) /\ ~t.stopping
    BY <1>1, <1>5, <1>7, StartTracked, StartedShape DEF StartedAs
  <2>2. s.nodes[e] # None /\ t.nodes[e] # None
    BY <1>5, <1>7, <2>1, NodeIsNotNone DEF SameShape
  <2>3. PICK n \in Node : n = t.nodes[e]
    BY <2>1, <2>2, KnownIsNode DEF BaseOK
  <2>4. PICK m : m = [n EXCEPT !.restarts = 0, !.halted = f]
    OBVIOUS
  <2>5. SamePid(n, m) /\ m.parent = n.parent /\ m.depth = n.depth /\ m # None
    BY <2>3, <2>4 DEF SamePid, Node, None
  <2>6. t.nodes \in [Env -> Node \cup {None}] /\ t.gen \in Nat
    BY <2>1 DEF BaseOK, Base
  <2>7. /\ BaseOK(b') /\ b'.nodes = [t.nodes EXCEPT ![e] = m] /\ b'.gen = t.gen
        /\ b'.up = t.up /\ b'.ghosts = t.ghosts /\ b'.stopping = t.stopping
    BY <1>7, <2>3, <2>4 DEF Replaced, SameCounts
  <2>8. \A d \in Env : b'.nodes[d] = IF d = e THEN m ELSE t.nodes[d]
    BY <2>6, <2>7
  <2>9. \A d \in Env : t.nodes[d] # None => SamePid(t.nodes[d], b'.nodes[d])
    BY <2>3, <2>5, <2>8 DEF SamePid
  <2>10. SameShape(t, b')
    BY <2>2, <2>3, <2>5, <2>8 DEF SameShape
  <2>11. Tracked(b', Elems(exits))
    <3>1. t.gen <= b'.gen
      BY <2>6, <2>7
    <3>2. \A d \in Env : b'.nodes[d] = None <=> t.nodes[d] = None
      BY <2>10 DEF SameShape
    <3> QED
      BY <1>1, <2>1, <2>7, <2>9, <3>1, <3>2, SameTracked
  <2>12. SameShape(b, b')
    BY <1>5, <1>7, <2>1, <2>10, ShapeTrans
  <2>13. Tree(b') /\ Few(b')
    BY <2>12, ShapeTree DEF TrackInv
  <2> QED
    BY <1>1, <1>7, <2>1, <2>7, <2>11, <2>13 DEF Kept, Stopped
<1> QED
  BY <1>1, <1>2, <1>3, <1>4, <1>6, <1>7, ResetDoes

\* spawn_child()
LEMMA SpawnKeeps ==
  ASSUME BaseInv, TrackInv, Spawn
  PROVE  Kept
<1>1. /\ TypeInv /\ BaseOK(b) /\ Elems(exits) \subseteq Exit /\ ~b.stopping /\ exits' = exits
      /\ cmd.env \in Env /\ cmd.to \in Env /\ Tracked(b, Elems(exits)) /\ Tree(b) /\ Few(b)
      /\ "sandbox" \notin left.failures
  BY ElemsIn, TakeDoes DEF BaseInv, TypeInv, Spawn, Take, TrackInv
<1>2. PICK p \in Env, c \in Env : p = cmd.env /\ c = cmd.to
  BY <1>1
<1>3. PICK s : s = SpawnState(b, p, c)
  OBVIOUS
<1>4. CASE b' = b /\ left' = left
  BY <1>1, <1>4 DEF Kept, TrackInv
<1>5. ASSUME b.nodes[p] # None, p # Guardian, b.nodes[c] = None, b.nodes[p].depth + 1 <= max_depth,
             Cardinality(Agents(b)) < max_total, StagedIn(b, p, c, s)
      PROVE  /\ BaseOK(s) /\ Tracked(s, Elems(exits)) /\ Idle(s, c) /\ Tree(s) /\ Few(s)
             /\ ~s.stopping /\ s.nodes[c] \in Node
  <2>1. BaseOK(s) /\ Tracked(s, Elems(exits)) /\ Idle(s, c)
    BY <1>1, <1>5, StagedTracked DEF StagedIn
  <2>2. Tree(s) /\ Few(s)
    BY <1>1, <1>5, StagedTree
  <2>3. s.nodes[c] \in Node
    <3>1. b.nodes \in [Env -> Node \cup {None}] /\ b.nodes[p].depth + 1 \in Nat
      BY <1>1, <1>5, KnownIsNode DEF BaseOK, Base, Node
    <3>2. s.nodes[c] = Staged(p, b.nodes[p].depth + 1)
      BY <1>5, <3>1 DEF StagedIn
    <3> QED
      BY <3>1, <3>2, StagedIsNode
  <2> QED
    BY <1>1, <1>5, <2>1, <2>2, <2>3 DEF StagedIn
<1>6. ASSUME b.nodes[p] # None, p # Guardian, b.nodes[c] = None, b.nodes[p].depth + 1 <= max_depth,
             Cardinality(Agents(b)) < max_total, StagedIn(b, p, c, s),
             StartedAs(s, c, s.nodes[c], b'), left' = left
      PROVE  Kept
  <2>1. Tracked(b', Elems(exits)) /\ SameShape(s, b') /\ ~b'.stopping
    BY <1>1, <1>5, <1>6, StartTracked, StartedShape DEF StartedAs
  <2>2. Tree(b') /\ Few(b')
    BY <1>5, <1>6, <2>1, ShapeTree
  <2> QED
    BY <1>1, <1>6, <2>1, <2>2 DEF Kept, Stopped
<1>7. ASSUME b.nodes[p] # None, p # Guardian, b.nodes[c] = None, b.nodes[p].depth + 1 <= max_depth,
             Cardinality(Agents(b)) < max_total, StagedIn(b, p, c, s), NEW how \in Fails(c),
             b' = [StartFailed(s, c, how) EXCEPT !.nodes[c] = None], Failed
      PROVE  Kept
  <2>1. how = "spawn" /\ left'.failures = left.failures
    BY <1>1, <1>7, OnlySpawnFails
  <2>2. PICK t : t = StartFailed(s, c, "spawn")
    OBVIOUS
  <2>3. /\ BaseOK(t) /\ t.gen = s.gen + 1 /\ t.up = s.up /\ t.ghosts = s.ghosts /\ t.nodes = s.nodes
        /\ t.stopping = s.stopping
    BY <1>5, <1>7, <2>2, SpawnFailedDoes
  <2>4. /\ BaseOK(b') /\ b'.nodes = [t.nodes EXCEPT ![c] = None] /\ b'.up = t.up /\ b'.ghosts = t.ghosts
        /\ b'.gen = t.gen /\ b'.stopping = t.stopping
    BY <1>7, <2>1, <2>2, <2>3, DropDoes DEF SameCounts
  <2>5. /\ b.nodes \in [Env -> Node \cup {None}] /\ t.nodes \in [Env -> Node \cup {None}] /\ b.gen \in Nat
    BY <1>1, <2>3 DEF BaseOK, Base
  <2>6. \A d \in Env : b'.nodes[d] = b.nodes[d]
    BY <1>7, <2>3, <2>4, <2>5 DEF StagedIn
  <2>7. b'.gen = b.gen + 1 /\ b'.up = b.up /\ b'.ghosts = b.ghosts /\ ~b'.stopping
    BY <1>1, <1>7, <2>3, <2>4 DEF StagedIn
  <2>8. Tracked(b', Elems(exits))
    <3>1. b.gen <= b'.gen
      BY <2>5, <2>7
    <3>2. \A d \in Env : b.nodes[d] # None => SamePid(b.nodes[d], b'.nodes[d])
      BY <2>6 DEF SamePid
    <3> QED
      BY <1>1, <2>4, <2>6, <2>7, <3>1, <3>2, SameTracked
  <2>9. Tree(b') /\ Few(b')
    BY <1>1, <2>6, ShapeTree DEF SameShape
  <2> QED
    BY <1>1, <2>1, <2>7, <2>8, <2>9 DEF Kept, Stopped
<1> QED
  BY <1>1, <1>2, <1>3, <1>4, <1>6, <1>7, SpawnDoes

\* on_exit()
LEMMA OnExitKeeps ==
  ASSUME BaseInv, TrackInv, OnExit
  PROVE  Kept
<1>1. /\ TypeInv /\ BaseOK(b) /\ Elems(exits) \subseteq Exit /\ ~b.stopping
      /\ Tracked(b, Elems(exits)) /\ Tree(b) /\ Few(b) /\ "sandbox" \notin left.failures
  BY ElemsIn DEF BaseInv, TypeInv, OnExit, TrackInv
<1>2. PICK x \in Exit : x = Head(exits) /\ Elems(exits) = {x} \cup Elems(exits')
  BY <1>1, OnExitDoes
<1>3. PICK e \in Env : e = x.env
  BY <1>2 DEF Exit
<1>4. PICK s : s = ExitState(b, e)
  OBVIOUS
<1>5. PICK r : r = Counted(s, e)
  OBVIOUS
<1>6. PICK X : X = Subtree(b, e) \ {e}
  OBVIOUS
<1>7. Elems(exits') \subseteq Exit
  BY <1>1, <1>2
<1>8. ASSUME ~IsCurrent(b, x), b' = b, left' = left
      PROVE  Kept
  <2>1. \A d \in Env : b.nodes[d] # None => x # [env |-> d, gen |-> b.nodes[d].gen]
    BY <1>8 DEF IsCurrent
  <2>2. Tracked(b, Elems(exits'))
    BY <1>1, <1>2, <2>1 DEF Tracked
  <2> QED
    BY <1>1, <1>8, <2>2 DEF Kept, Stopped
<1>9. ASSUME IsCurrent(b, x), Ended(b, e, X, s)
      PROVE  /\ BaseOK(s) /\ Tracked(s, Elems(exits')) /\ Idle(s, e) /\ Tree(s) /\ Few(s)
             /\ ~s.stopping /\ s.nodes[e] \in Node
  <2>1. b.nodes[e] # None /\ x = [env |-> e, gen |-> b.nodes[e].gen]
    BY <1>2, <1>3, <1>9 DEF IsCurrent, Exit
  <2>2. Tracked(s, Elems(exits')) /\ Idle(s, e)
    BY <1>1, <1>2, <1>6, <1>9, <2>1, EndedTracked
  <2>3. e \in Known(b)
    BY <2>1 DEF Known
  <2>4. Tree(s) /\ Few(s)
    BY <1>1, <1>6, <1>9, <2>3, EndedTree
  <2> QED
    BY <1>1, <1>9, <2>2, <2>4 DEF Ended, SameCounts
<1>10. ASSUME IsCurrent(b, x), Ended(b, e, X, s)
       PROVE  /\ BaseOK(r) /\ Tracked(r, Elems(exits')) /\ Idle(r, e) /\ Tree(r) /\ Few(r)
              /\ ~r.stopping /\ r.nodes[e] \in Node
  <2>1. /\ BaseOK(s) /\ Tracked(s, Elems(exits')) /\ Idle(s, e) /\ Tree(s) /\ Few(s)
        /\ ~s.stopping /\ s.nodes[e] \in Node
    BY <1>9, <1>10
  <2>2. PICK m : m = [s.nodes[e] EXCEPT !.restarts = @ + 1]
    OBVIOUS
  <2>3. /\ Replaced(s, e, m, r) /\ r.nodes[e] = m /\ m \in Node /\ m.gen = s.nodes[e].gen
        /\ m.pid = s.nodes[e].pid /\ m.parent = s.nodes[e].parent /\ m.depth = s.nodes[e].depth
        /\ m.registered = s.nodes[e].registered
    BY <1>5, <2>1, <2>2, CountDoes DEF Counted
  <2>4. m.peer = s.nodes[e].peer
    BY <2>1, <2>2 DEF Node
  <2>5. /\ BaseOK(r) /\ r.nodes = [s.nodes EXCEPT ![e] = m] /\ r.up = s.up /\ r.ghosts = s.ghosts
        /\ r.gen = s.gen /\ r.stopping = s.stopping
        /\ s.nodes \in [Env -> Node \cup {None}] /\ s.gen \in Nat
    BY <2>1, <2>3 DEF Replaced, SameCounts, BaseOK, Base
  <2>6. \A d \in Env : r.nodes[d] = IF d = e THEN m ELSE s.nodes[d]
    BY <2>5
  <2>7. m # None /\ s.nodes[e] # None
    BY <2>1, <2>3, NodeIsNotNone
  <2>8. \A d \in Env : s.nodes[d] # None => SamePid(s.nodes[d], r.nodes[d])
    BY <2>3, <2>4, <2>6 DEF SamePid
  <2>9. SameShape(s, r)
    BY <2>3, <2>6, <2>7 DEF SameShape
  <2>10. Tracked(r, Elems(exits'))
    <3>1. s.gen <= r.gen /\ \A d \in Env : r.nodes[d] = None <=> s.nodes[d] = None
      BY <2>5, <2>9 DEF SameShape
    <3> QED
      BY <1>7, <2>1, <2>5, <2>8, <3>1, SameTracked
  <2>11. Tree(r) /\ Few(r)
    BY <2>1, <2>9, ShapeTree
  <2> QED
    BY <2>1, <2>3, <2>5, <2>10, <2>11 DEF Idle
<1>11. ASSUME IsCurrent(b, x), Ended(b, e, X, s), b' = s, left' = left
       PROVE  Kept
  BY <1>9, <1>11 DEF Kept, Stopped
<1>12. ASSUME IsCurrent(b, x), Ended(b, e, X, s), StartedAs(r, e, r.nodes[e], b'), left' = left
       PROVE  Kept
  <2>1. Tracked(b', Elems(exits')) /\ SameShape(r, b') /\ ~b'.stopping
    BY <1>7, <1>10, <1>12, StartTracked, StartedShape DEF StartedAs
  <2>2. Tree(b') /\ Few(b')
    BY <1>10, <1>12, <2>1, ShapeTree
  <2> QED
    BY <1>12, <2>1, <2>2 DEF Kept, Stopped
<1>13. ASSUME IsCurrent(b, x), Ended(b, e, X, s), NEW how \in Fails(e), b' = StartFailed(r, e, how),
              Failed
       PROVE  Kept
  <2>1. how = "spawn" /\ left'.failures = left.failures
    BY <1>1, <1>13, OnlySpawnFails
  <2>2. Tracked(b', Elems(exits')) /\ SameShape(r, b') /\ b'.stopping = r.stopping
    BY <1>7, <1>10, <1>13, <2>1, FailedTracked
  <2>3. Tree(b') /\ Few(b')
    BY <1>10, <1>13, <2>2, ShapeTree
  <2> QED
    BY <1>10, <1>13, <2>1, <2>2, <2>3 DEF Kept, Stopped
<1> QED
  BY <1>1, <1>2, <1>3, <1>4, <1>5, <1>6, <1>8, <1>11, <1>12, <1>13, OnExitDoes

\* Nothing runs in Base::new.
LEMMA NewBaseTracked ==
  /\ Tracked(NewBase, {}) /\ Tree(NewBase) /\ Few(NewBase) /\ Stopped(NewBase)
  /\ NewBase.up = {} /\ NewBase.gen = 0 /\ ~NewBase.stopping
<1>1. /\ \A e \in Env : NewBase.nodes[e] = None
      /\ NewBase.up = {} /\ NewBase.ghosts = {} /\ NewBase.gen = 0 /\ ~NewBase.stopping
  BY DEF NewBase
<1>2. Tracked(NewBase, {}) /\ Stopped(NewBase)
  BY <1>1 DEF Tracked, Stopped
<1>3. Tree(NewBase)
  BY <1>1, SupervisorAssumption DEF Tree
<1>4. Agents(NewBase) = {}
  BY <1>1 DEF Agents, Known
<1>5. Few(NewBase)
  BY <1>4, FS_EmptySet, SupervisorAssumption DEF Few
<1> QED
  BY <1>1, <1>2, <1>3, <1>5

\* The guardian or the root comes first in its place.
LEMMA BootTree ==
  ASSUME NEW s, BaseOK(s), NEW e \in {Guardian, Root}, NEW n, n = Staged(NoEnv, 0), NEW t,
         StartedAs(s, e, n, t), s.nodes[Root] = None, e = Root => s.nodes[Guardian] # None,
         \A d \in Env : s.nodes[d] # None => d = Guardian /\ s.nodes[d].parent = NoEnv
  PROVE  /\ Tree(t) /\ Few(t)
         /\ t.nodes[e] # None /\ t.nodes[e].parent = NoEnv /\ \A d \in Env : d # e => t.nodes[d] = s.nodes[d]
<1>1. /\ s.nodes \in [Env -> Node \cup {None}] /\ s.gen + 1 \in Nat /\ Guardian \in Env /\ Root \in Env
      /\ Guardian # Root /\ e \in Env /\ max_total \in Nat
  BY SupervisorAssumption DEF BaseOK, Base
<1>2. PICK m : m = Started(n, e, s.gen + 1)
  OBVIOUS
<1>3. m # None /\ m.parent = NoEnv
  <2>1. n \in Node /\ n.parent = NoEnv
    BY StagedIsNode
  <2>2. PICK k \in Nat : k = s.gen + 1
    BY <1>1
  <2>3. m \in Node /\ m.parent = n.parent
    BY <1>1, <1>2, <2>1, <2>2, StartedDoes
  <2> QED
    BY <2>1, <2>3, NodeIsNotNone
<1>4. \A d \in Env : t.nodes[d] = IF d = e THEN m ELSE s.nodes[d]
  BY <1>1, <1>2 DEF StartedAs
<1>5. Tree(t)
  BY <1>1, <1>3, <1>4 DEF Tree
<1>6. Agents(t) \subseteq {Root}
  BY <1>4 DEF Agents, Known
<1>7. IsFiniteSet({Root}) /\ Cardinality({Root}) = 1
  BY FS_Singleton
<1>8. Cardinality(Agents(t)) <= 1 /\ Cardinality(Agents(t)) \in Nat
  BY <1>6, <1>7, FS_Subset, FS_CardinalityType
<1>9. Few(t)
  BY <1>1, <1>8 DEF Few
<1> QED
  BY <1>1, <1>3, <1>4, <1>5, <1>9

\* boot()
LEMMA BootKeeps ==
  ASSUME BaseInv, TrackInv, NotBooted, Boot
  PROVE  Kept
<1>1. /\ TypeInv /\ b = NewBase /\ BaseOK(b) /\ exits' = exits /\ Elems(exits) = {}
      /\ "sandbox" \notin left.failures /\ Guardian \in Env /\ Root \in Env /\ Guardian # Root
  BY SupervisorAssumption DEF BaseInv, TypeInv, NotBooted, Boot, Elems, TrackInv
<1>2. /\ Tracked(b, {}) /\ Tree(b) /\ Few(b) /\ b.up = {} /\ ~b.stopping /\ b.gen = 0
      /\ \A e \in Env : b.nodes[e] = None
  BY <1>1, NewBaseTracked, NewBaseHolds
<1>3. PICK n : n = Staged(NoEnv, 0)
  OBVIOUS
<1>4. n \in Node
  BY <1>3, StagedIsNode
<1>5. PICK g : g = Start(b, Guardian, NoEnv)
  OBVIOUS
<1>6. StartedAs(b, Guardian, n, g)
  BY <1>1, <1>2, <1>3, <1>5, StartDoes DEF OldNode
<1>7. /\ Tree(g) /\ Few(g) /\ g.nodes[Guardian] # None /\ g.nodes[Guardian].parent = NoEnv
      /\ \A d \in Env : d # Guardian => g.nodes[d] = None
  BY <1>1, <1>2, <1>3, <1>6, BootTree
<1>8. /\ BaseOK(g) /\ Tracked(g, {}) /\ Idle(g, Root) /\ ~g.stopping
  <2>1. Tracked(g, {})
    BY <1>1, <1>2, <1>4, <1>6, StartTracked DEF Idle
  <2>2. g.up = {Proc(Guardian, b.gen + 1, 0)}
    BY <1>2, <1>6 DEF StartedAs
  <2>3. Idle(g, Root)
    BY <1>1, <2>2 DEF Idle, Proc
  <2> QED
    BY <1>2, <1>6, <2>1, <2>3 DEF StartedAs
<1>9. ASSUME b' = Start(g, Root, NoEnv), left' = left
      PROVE  Kept
  <2>1. StartedAs(g, Root, n, b')
    BY <1>1, <1>3, <1>7, <1>8, <1>9, StartDoes DEF OldNode
  <2>2. Tracked(b', {}) /\ ~b'.stopping
    BY <1>1, <1>4, <1>8, <2>1, StartTracked DEF StartedAs
  <2>3. Tree(b') /\ Few(b')
    BY <1>1, <1>3, <1>7, <1>8, <2>1, BootTree
  <2> QED
    BY <1>1, <1>9, <2>2, <2>3 DEF Kept, Stopped
<1>10. ASSUME NEW e \in {Guardian, Root}, NEW how \in Fails(e), Failed,
              b' = IF e = Guardian THEN StartFailed(b, e, how) ELSE StartFailed(g, e, how)
       PROVE  Kept
  <2>1. how = "spawn" /\ left'.failures = left.failures
    BY <1>1, <1>10, OnlySpawnFails
  <2>2. PICK s : s = IF e = Guardian THEN b ELSE g
    OBVIOUS
  <2>3. /\ BaseOK(s) /\ Tracked(s, {}) /\ Tree(s) /\ Few(s) /\ ~s.stopping
        /\ b' = StartFailed(s, e, "spawn") /\ e \in Env
    BY <1>1, <1>2, <1>7, <1>8, <1>10, <2>1, <2>2
  <2>4. Tracked(b', {}) /\ SameShape(s, b') /\ b'.stopping = s.stopping
    BY <2>3, FailedTracked
  <2>5. Tree(b') /\ Few(b')
    BY <2>3, <2>4, ShapeTree
  <2> QED
    BY <1>1, <2>1, <2>3, <2>4, <2>5 DEF Kept, Stopped
<1> QED
  BY <1>5, <1>9, <1>10 DEF Boot

\* The world in which a sandbox that is asked for comes up: start() spawns the
\* node before it creates the sandbox, and forgets the record when that fails.
SandboxesStart == \A w \in Worlds : "sandbox" \notin w.failures

\* At the start nothing runs.
LEMMA TrackInvInit == SandboxesStart /\ Init => TrackInv
<1> SUFFICES ASSUME SandboxesStart, Init PROVE TrackInv
  OBVIOUS
<1>1. Elems(exits) = {}
  BY DEF Init, Elems
<1> QED
  BY <1>1, NewBaseTracked DEF Init, TrackInv, SandboxesStart

\* Every step keeps the nodes tracked and the tree closed.
LEMMA TrackInvNext == BaseInv /\ TrackInv /\ [Next]_vars => TrackInv'
<1> SUFFICES ASSUME BaseInv, TrackInv, [Next]_vars PROVE TrackInv'
  OBVIOUS
<1>1. CASE UNCHANGED vars
  BY <1>1 DEF vars, TrackInv
<1>2. ASSUME Kept PROVE TrackInv'
  BY <1>2 DEF Kept, TrackInv
<1>3. CASE Next /\ NotBooted
  BY <1>2, <1>3, BootComesFirst, BootKeeps
<1>4. CASE Next /\ Booted
  <2>1. ASSUME MinorStep PROVE Kept
    <3>1. ~b.stopping
      BY <2>1 DEF MinorStep, Take, WorkerBoot, WorkerReady, HarnessReady, HarnessExit, HaltEnv,
         Spend, Kill, Resume, SandboxDestroy, NodeRegisters, Report, Ask
    <3> QED
      BY <1>4, <2>1, <3>1, MinorStepIsMinor, MinorKeeps
  <2>2. ASSUME Register \/ Reset \/ Spawn \/ StopChild \/ Stop \/ OnExit PROVE Kept
    BY <2>2, RegisterKeeps, ResetKeeps, SpawnKeeps, StopChildKeeps, StopKeeps, OnExitKeeps
  <2>3. ASSUME NEW p \in b.up, Die(p) PROVE Kept
    BY <1>4, <2>3, DieKeeps
  <2>4. ASSUME NEW p \in b.ghosts, Watch(p) PROVE Kept
    BY <1>4, <2>4, WatchKeeps
  <2>5. ~Boot
    BY <1>4, BootComesOnce DEF BaseInv
  <2> QED
    BY <1>2, <1>4, <2>1, <2>2, <2>3, <2>4, <2>5 DEF Next, OnCmd, MinorStep
<1> QED
  BY <1>1, <1>3, <1>4 DEF BaseInv

---------------------------------------------------------------------------
(* Harnesses and the records that name them.                               *)

\* Every harness that runs is named by its record or lost, and after stop()
\* only lost ones run.
HarnessInv ==
  Owned(b) /\ (b.stopping => \A p \in b.up : p.num > 0 => p \in b.lost)

\* What a step of the actor or beside it keeps of that.
Owns == Owned(b') /\ ~b'.stopping

\* on_register() changes no harness.
LEMMA RegisterOwns ==
  ASSUME BaseInv, HarnessInv, Register
  PROVE  Owns
<1>1. /\ TypeInv /\ BaseOK(b) /\ cmd.env \in Env /\ cmd.gen \in Nat /\ ~b.stopping /\ Owned(b)
  BY TakeDoes DEF BaseInv, TypeInv, Register, Take, HarnessInv
<1>2. CASE ~Registers(b, cmd.env, cmd.gen)
  BY <1>1, <1>2 DEF Register, Owns
<1>3. CASE Registers(b, cmd.env, cmd.gen)
  <2>1. PICK e \in Env, g \in Nat : e = cmd.env /\ g = cmd.gen
    BY <1>1
  <2>2. Connected(b, e, g, b')
    BY <1>1, <1>3, <2>1, RegisterDoes
  <2>3. PICK n \in Node : n = b.nodes[e] /\ n # None
    BY <1>1, <2>2, KnownIsNode, NodeIsNotNone DEF Connected, Registers, BaseOK
  <2>4. PICK m : m = [n EXCEPT !.peer = g, !.registered = TRUE]
    OBVIOUS
  <2>5. m # None /\ m.hpid = n.hpid
    BY <2>4 DEF Node, None
  <2>6. b.nodes \in [Env -> Node \cup {None}] /\ b'.nodes = [b.nodes EXCEPT ![e] = m]
    BY <1>1, <2>2, <2>3, <2>4 DEF BaseOK, Base, Connected
  <2>7. \A d \in Env : b.nodes[d] # None => b'.nodes[d] # None /\ b'.nodes[d].hpid = b.nodes[d].hpid
    BY <2>3, <2>5, <2>6
  <2>8. b'.up = b.up /\ b'.lost = b.lost /\ b'.stopping = b.stopping
    BY <2>2 DEF Connected, SameCounts
  <2> QED
    BY <1>1, <2>7, <2>8, FrameIsOwned DEF Owns
<1> QED
  BY <1>2, <1>3

\* A process that dies, and a watcher that reports one.
LEMMA DieOwns ==
  ASSUME BaseInv, Booted, HarnessInv, NEW p, (p \in b.up /\ Die(p)) \/ (p \in b.ghosts /\ Watch(p))
  PROVE  Owns
<1>1. BaseOK(b) /\ ~b.stopping /\ Owned(b)
  BY DEF BaseInv, TypeInv, Die, Watch, HarnessInv
<1>2. Killed(b, {p}, b') \/ Reported(b, p, b')
  BY DieIsMajor, WatchIsMajor
<1>3. b'.up \subseteq b.up /\ b'.lost = b.lost /\ b'.nodes = b.nodes /\ b'.stopping = b.stopping
  BY <1>2 DEF Killed, Reported, SameCounts
<1> QED
  BY <1>1, <1>3, FrameIsOwned DEF Owns

\* runtime_stop()
LEMMA StopChildOwns ==
  ASSUME BaseInv, HarnessInv, StopChild
  PROVE  Owns
<1>1. BaseOK(b) /\ ~b.stopping /\ Owned(b)
  BY DEF BaseInv, TypeInv, StopChild, Take, HarnessInv
<1>2. CASE b' = b
  BY <1>1, <1>2 DEF Owns
<1>3. CASE b' = Prune(b, Subtree(b, cmd.env))
  <2>1. Pruned(b, Subtree(b, cmd.env), b')
    BY <1>1, <1>3, PruneDoes, SubtreeIsKnown
  <2> QED
    BY <1>1, <2>1, PrunedIsOwned DEF Pruned, SameCounts, Owns
<1> QED
  BY <1>2, <1>3 DEF StopChild

\* A failed spawn of start() changes no harness.
LEMMA FailedOwns ==
  ASSUME NEW s, BaseOK(s), NEW e \in Env, NEW t, t = StartFailed(s, e, "spawn"), Owned(s)
  PROVE  Owned(t) /\ t.stopping = s.stopping
<1>1. t.up = s.up /\ t.nodes = s.nodes /\ t.lost = s.lost /\ t.stopping = s.stopping
  BY SpawnFailedDoes
<1> QED
  BY <1>1, FrameIsOwned

\* reset(): the harness is halted before the node is started again.
LEMMA ResetOwns ==
  ASSUME BaseInv, TrackInv, HarnessInv, Reset
  PROVE  Owns
<1>1. /\ TypeInv /\ BaseOK(b) /\ ~b.stopping /\ Owned(b) /\ "sandbox" \notin left.failures
      /\ cmd.env \in Env
  BY TakeDoes DEF BaseInv, TypeInv, Reset, Take, TrackInv, HarnessInv
<1>2. PICK e \in Env : e = cmd.env
  BY <1>1
<1>3. PICK s : s = ResetState(b, e)
  OBVIOUS
<1>4. CASE b' = b /\ left' = left
  BY <1>1, <1>4 DEF Owns
<1>5. ASSUME Cleared(b, e, s)
      PROVE  /\ BaseOK(s) /\ Owned(s) /\ ~s.stopping /\ s.nodes[e] \in Node /\ s.nodes[e].hpid = 0
  BY <1>1, <1>5 DEF Cleared
<1>6. ASSUME Cleared(b, e, s), NEW how \in Fails(e), b' = StartFailed(s, e, how), Failed
      PROVE  Owns
  <2>1. how = "spawn"
    BY <1>1, <1>6, OnlySpawnFails
  <2> QED
    BY <1>5, <1>6, <2>1, FailedOwns DEF Owns
<1>7. ASSUME Cleared(b, e, s), NEW t, NEW f \in BOOLEAN, StartedAs(s, e, s.nodes[e], t),
             Replaced(t, e, [t.nodes[e] EXCEPT !.restarts = 0, !.halted = f], b')
      PROVE  Owns
  <2>1. PICK n \in Node : n = s.nodes[e] /\ n.hpid = 0
    BY <1>5, <1>7
  <2>2. BaseOK(t) /\ Owned(t) /\ ~t.stopping
    BY <1>5, <1>7, <2>1, StartIsOwned DEF StartedAs
  <2>3. s.nodes \in [Env -> Node \cup {None}] /\ s.gen + 1 \in Nat
    BY <1>5, <1>7 DEF BaseOK, Base
  <2>4. PICK k : k = Started(n, e, s.gen + 1)
    OBVIOUS
  <2>5. k \in Node /\ t.nodes[e] = k /\ t.nodes \in [Env -> Node \cup {None}]
    BY <1>7, <2>1, <2>2, <2>3, <2>4, StartedDoes DEF StartedAs, BaseOK, Base
  <2>6. PICK m : m = [k EXCEPT !.restarts = 0, !.halted = f]
    OBVIOUS
  <2>7. m # None /\ m.hpid = k.hpid
    BY <2>5, <2>6 DEF Node, None
  <2>8. b'.nodes = [t.nodes EXCEPT ![e] = m] /\ b'.up = t.up /\ SameCounts(t, b')
    BY <1>7, <2>5, <2>6 DEF Replaced
  <2>9. \A d \in Env : t.nodes[d] # None => b'.nodes[d] # None /\ b'.nodes[d].hpid = t.nodes[d].hpid
    BY <2>5, <2>7, <2>8
  <2> QED
    BY <2>2, <2>8, <2>9, FrameIsOwned DEF Owns, SameCounts
<1> QED
  BY <1>1, <1>2, <1>3, <1>4, <1>6, <1>7, ResetDoes

\* spawn_child(): a harness that still runs under the child's name is lost.
LEMMA SpawnOwns ==
  ASSUME BaseInv, TrackInv, HarnessInv, Spawn
  PROVE  Owns
<1>1. /\ TypeInv /\ BaseOK(b) /\ ~b.stopping /\ Owned(b) /\ "sandbox" \notin left.failures
      /\ cmd.env \in Env /\ cmd.to \in Env
  BY TakeDoes DEF BaseInv, TypeInv, Spawn, Take, TrackInv, HarnessInv
<1>2. PICK p \in Env, c \in Env : p = cmd.env /\ c = cmd.to
  BY <1>1
<1>3. PICK s : s = SpawnState(b, p, c)
  OBVIOUS
<1>4. CASE b' = b /\ left' = left
  BY <1>1, <1>4 DEF Owns
<1>5. ASSUME b.nodes[p] # None, b.nodes[c] = None, StagedIn(b, p, c, s)
      PROVE  /\ BaseOK(s) /\ Owned(s) /\ ~s.stopping /\ s.nodes[c] \in Node /\ s.nodes[c].hpid = 0
             /\ s.up = b.up /\ s.lost = b.lost
             /\ \A d \in Env : d # c => s.nodes[d] = b.nodes[d]
  <2>1. b.nodes \in [Env -> Node \cup {None}] /\ b.nodes[p].depth + 1 \in Nat
    BY <1>1, <1>5, KnownIsNode DEF BaseOK, Base, Node
  <2>2. PICK n : n = Staged(p, b.nodes[p].depth + 1)
    OBVIOUS
  <2>3. n \in Node /\ n.hpid = 0
    BY <2>1, <2>2, StagedIsNode
  <2>4. \A d \in Env : s.nodes[d] = IF d = c THEN n ELSE b.nodes[d]
    BY <1>5, <2>1, <2>2 DEF StagedIn
  <2>5. Owned(s)
    BY <1>1, <1>5, <2>4, FrameIsOwned DEF StagedIn
  <2> QED
    BY <1>1, <1>5, <2>3, <2>4, <2>5 DEF StagedIn
<1>6. ASSUME b.nodes[p] # None, b.nodes[c] = None, StagedIn(b, p, c, s), StartedAs(s, c, s.nodes[c], b')
      PROVE  Owns
  <2>1. PICK n \in Node : n = s.nodes[c] /\ n.hpid = 0
    BY <1>5, <1>6
  <2> QED
    BY <1>5, <1>6, <2>1, StartIsOwned DEF StartedAs, Owns
<1>7. ASSUME b.nodes[p] # None, b.nodes[c] = None, StagedIn(b, p, c, s), NEW how \in Fails(c),
             b' = [StartFailed(s, c, how) EXCEPT !.nodes[c] = None], Failed
      PROVE  Owns
  <2>1. how = "spawn"
    BY <1>1, <1>7, OnlySpawnFails
  <2>2. PICK t : t = StartFailed(s, c, "spawn")
    OBVIOUS
  <2>3. BaseOK(t) /\ t.up = s.up /\ t.nodes = s.nodes /\ t.lost = s.lost /\ t.stopping = s.stopping
    BY <1>5, <1>7, <2>2, SpawnFailedDoes
  <2>4. b'.nodes = [t.nodes EXCEPT ![c] = None] /\ b'.up = t.up /\ SameCounts(t, b')
    BY <1>7, <2>1, <2>2, <2>3, DropDoes
  <2>5. t.nodes \in [Env -> Node \cup {None}]
    BY <2>3 DEF BaseOK, Base
  <2>6. \A d \in Env : b.nodes[d] # None => b'.nodes[d] = b.nodes[d]
    BY <1>5, <1>7, <2>3, <2>4, <2>5
  <2>7. b'.up = b.up /\ b'.lost = b.lost /\ ~b'.stopping
    BY <1>5, <1>7, <2>3, <2>4 DEF SameCounts
  <2>8. Owned(b')
    BY <1>1, <2>6, <2>7, FrameIsOwned
  <2> QED
    BY <2>7, <2>8 DEF Owns
<1> QED
  BY <1>1, <1>2, <1>3, <1>4, <1>6, <1>7, SpawnDoes

\* on_exit(): the harness is halted and what is below pruned before a restart.
LEMMA OnExitOwns ==
  ASSUME BaseInv, TrackInv, HarnessInv, OnExit
  PROVE  Owns
<1>1. TypeInv /\ BaseOK(b) /\ ~b.stopping /\ Owned(b) /\ "sandbox" \notin left.failures
  BY DEF BaseInv, TypeInv, OnExit, TrackInv, HarnessInv
<1>2. PICK x \in Exit : x = Head(exits)
  BY <1>1, OnExitDoes
<1>3. PICK e \in Env : e = x.env
  BY <1>2 DEF Exit
<1>4. PICK s : s = ExitState(b, e)
  OBVIOUS
<1>5. PICK r : r = Counted(s, e)
  OBVIOUS
<1>6. PICK X : X = Subtree(b, e) \ {e}
  OBVIOUS
<1>7. CASE b' = b
  BY <1>1, <1>7 DEF Owns
<1>8. ASSUME Ended(b, e, X, s)
      PROVE  BaseOK(s) /\ Owned(s) /\ ~s.stopping /\ s.nodes[e] \in Node /\ s.nodes[e].hpid = 0
  BY <1>1, <1>8 DEF Ended, SameCounts
<1>9. ASSUME Ended(b, e, X, s)
      PROVE  BaseOK(r) /\ Owned(r) /\ ~r.stopping /\ r.nodes[e] \in Node /\ r.nodes[e].hpid = 0
  <2>1. PICK m : m = [s.nodes[e] EXCEPT !.restarts = @ + 1]
    OBVIOUS
  <2>2. Replaced(s, e, m, r) /\ r.nodes[e] = m /\ m \in Node /\ m.hpid = s.nodes[e].hpid
    BY <1>5, <1>8, <1>9, <2>1, CountDoes DEF Counted
  <2>3. /\ s.nodes \in [Env -> Node \cup {None}] /\ r.nodes = [s.nodes EXCEPT ![e] = m]
        /\ r.up = s.up /\ SameCounts(s, r) /\ BaseOK(r)
    BY <1>8, <1>9, <2>2 DEF Replaced, BaseOK, Base
  <2>4. \A d \in Env : s.nodes[d] # None => r.nodes[d] # None /\ r.nodes[d].hpid = s.nodes[d].hpid
    BY <2>2, <2>3, NodeIsNotNone
  <2> QED
    BY <1>8, <1>9, <2>2, <2>3, <2>4, FrameIsOwned DEF SameCounts
<1>10. ASSUME Ended(b, e, X, s), b' = s PROVE Owns
  BY <1>8, <1>10 DEF Owns
<1>11. ASSUME Ended(b, e, X, s), StartedAs(r, e, r.nodes[e], b') PROVE Owns
  <2>1. PICK n \in Node : n = r.nodes[e] /\ n.hpid = 0
    BY <1>9, <1>11
  <2> QED
    BY <1>9, <1>11, <2>1, StartIsOwned DEF StartedAs, Owns
<1>12. ASSUME Ended(b, e, X, s), NEW how \in Fails(e), b' = StartFailed(r, e, how), Failed
       PROVE  Owns
  <2>1. how = "spawn"
    BY <1>1, <1>12, OnlySpawnFails
  <2> QED
    BY <1>9, <1>12, <2>1, FailedOwns DEF Owns
<1> QED
  BY <1>1, <1>2, <1>3, <1>4, <1>5, <1>6, <1>7, <1>10, <1>11, <1>12, OnExitDoes

\* stop(): every harness that a record names dies.
LEMMA StopOwns ==
  ASSUME BaseInv, HarnessInv, Stop
  PROVE  HarnessInv'
<1>1. TypeInv /\ BaseOK(b) /\ Owned(b)
  BY DEF BaseInv, TypeInv, HarnessInv
<1>2. PICK h : NodesOff(b, Known(b), h) /\ b'.up = h.up /\ b'.lost = h.lost
  BY <1>1, StopDoes
<1>3. \A p \in b'.up : p.num > 0 => p \in b'.lost
  <2> SUFFICES ASSUME NEW p \in h.up, p.num > 0 PROVE p \in h.lost
    BY <1>2
  <2>1. p \in b.up /\ p.env \in Env /\ OwnedIn(b, p) /\ h.lost = b.lost
    BY <1>1, <1>2 DEF NodesOff, Reaped, Owned, BaseOK, Base, Process, SameCounts
  <2>2. p.env \in Known(b) => p.num # b.nodes[p.env].hpid
    BY <1>2 DEF NodesOff
  <2> QED
    BY <2>1, <2>2 DEF OwnedIn, Known
<1> QED
  BY <1>3 DEF HarnessInv, Owned, OwnedIn

\* boot(): no harness runs.
LEMMA BootOwns ==
  ASSUME BaseInv, TrackInv, NotBooted, Boot
  PROVE  Owns
<1>1. /\ TypeInv /\ b = NewBase /\ BaseOK(b) /\ "sandbox" \notin left.failures
      /\ Guardian \in Env /\ Root \in Env /\ Guardian # Root
  BY SupervisorAssumption DEF BaseInv, TypeInv, NotBooted, TrackInv
<1>2. b.up = {} /\ ~b.stopping /\ \A e \in Env : b.nodes[e] = None
  BY <1>1, NewBaseTracked, NewBaseHolds
<1>3. PICK g : g = Start(b, Guardian, NoEnv)
  OBVIOUS
<1>4. PICK n : n = Staged(NoEnv, 0)
  OBVIOUS
<1>5. n \in Node
  BY <1>4, StagedIsNode
<1>6. StartedAs(b, Guardian, n, g)
  BY <1>1, <1>2, <1>3, <1>4, StartDoes DEF OldNode
<1>7. Owned(b)
  BY <1>2 DEF Owned
<1>8. BaseOK(g) /\ Owned(g) /\ ~g.stopping
  BY <1>1, <1>2, <1>5, <1>6, <1>7, StartIsOwned DEF StartedAs
<1>9. g.nodes[Root] = None
  <2>1. b.nodes \in [Env -> Node \cup {None}]
    BY <1>1 DEF BaseOK, Base
  <2> QED
    BY <1>1, <1>2, <1>6, <2>1 DEF StartedAs
<1>10. ASSUME b' = Start(g, Root, NoEnv) PROVE Owns
  <2>1. StartedAs(g, Root, n, b')
    BY <1>1, <1>4, <1>8, <1>9, <1>10, StartDoes DEF OldNode
  <2> QED
    BY <1>1, <1>5, <1>8, <1>9, <2>1, StartIsOwned DEF StartedAs, Owns
<1>11. ASSUME NEW e \in {Guardian, Root}, NEW how \in Fails(e), Failed,
              b' = IF e = Guardian THEN StartFailed(b, e, how) ELSE StartFailed(g, e, how)
       PROVE  Owns
  <2>1. how = "spawn"
    BY <1>1, <1>11, OnlySpawnFails
  <2>2. PICK s : s = IF e = Guardian THEN b ELSE g
    OBVIOUS
  <2>3. BaseOK(s) /\ Owned(s) /\ ~s.stopping /\ b' = StartFailed(s, e, "spawn") /\ e \in Env
    BY <1>1, <1>2, <1>7, <1>8, <1>11, <2>1, <2>2
  <2> QED
    BY <2>3, FailedOwns DEF Owns
<1> QED
  BY <1>3, <1>10, <1>11 DEF Boot

\* At the start nothing runs.
LEMMA HarnessInvInit == Init => HarnessInv
BY NewBaseTracked DEF Init, HarnessInv, Owned

\* Every step keeps the harnesses owned.
LEMMA HarnessInvNext == BaseInv /\ TrackInv /\ HarnessInv /\ [Next]_vars => HarnessInv'
<1> SUFFICES ASSUME BaseInv, TrackInv, HarnessInv, [Next]_vars PROVE HarnessInv'
  OBVIOUS
<1>1. CASE UNCHANGED vars
  BY <1>1 DEF vars, HarnessInv, Owned, OwnedIn
<1>2. ASSUME Owns PROVE HarnessInv'
  BY <1>2 DEF Owns, HarnessInv, Owned, OwnedIn
<1>3. CASE Next /\ NotBooted
  BY <1>2, <1>3, BootComesFirst, BootOwns
<1>4. CASE Next /\ Booted
  <2>1. ASSUME MinorStep PROVE Owns
    <3>1. ~b.stopping
      BY <2>1 DEF MinorStep, Take, WorkerBoot, WorkerReady, HarnessReady, HarnessExit, HaltEnv,
         Spend, Kill, Resume, SandboxDestroy, NodeRegisters, Report, Ask
    <3>2. Minor
      BY <1>4, <2>1, MinorStepIsMinor
    <3> QED
      BY <3>1, <3>2 DEF Minor, SameNodes, HarnessInv, Owns
  <2>2. ASSUME Register \/ Reset \/ Spawn \/ StopChild \/ OnExit PROVE Owns
    BY <2>2, RegisterOwns, ResetOwns, SpawnOwns, StopChildOwns, OnExitOwns
  <2>3. ASSUME NEW p \in b.up, Die(p) PROVE Owns
    BY <1>4, <2>3, DieOwns
  <2>4. ASSUME NEW p \in b.ghosts, Watch(p) PROVE Owns
    BY <1>4, <2>4, DieOwns
  <2>5. ~Boot
    BY <1>4, BootComesOnce DEF BaseInv
  <2>6. ASSUME Stop PROVE HarnessInv'
    BY <2>6, StopOwns
  <2> QED
    BY <1>2, <1>4, <2>1, <2>2, <2>3, <2>4, <2>5, <2>6 DEF Next, OnCmd, MinorStep
<1> QED
  BY <1>1, <1>3, <1>4 DEF BaseInv

\* The three invariants hold of every behaviour.
LEMMA SupervisorInvariant == SandboxesStart /\ Spec => [](BaseInv /\ TrackInv /\ HarnessInv)
<1>1. SandboxesStart /\ Init => BaseInv /\ TrackInv /\ HarnessInv
  BY BaseInvInit, TrackInvInit, HarnessInvInit
<1>2. BaseInv /\ TrackInv /\ HarnessInv /\ [Next]_vars => (BaseInv /\ TrackInv /\ HarnessInv)'
  BY BaseInvNext, TrackInvNext, HarnessInvNext
<1> QED
  BY <1>1, <1>2, PTL DEF Spec

\* Where sandboxes come up, base knows the node that runs in an environment
\* and hears of its end, in whatever order starts, registrations, exits, resets
\* and reports come (start, on_register, on_exit, reset).
THEOREM NodesStayTracked == SandboxesStart /\ Spec => []NodesAreTracked
<1>1. BaseInv /\ TrackInv => NodesAreTracked
  <2> SUFFICES ASSUME BaseInv, TrackInv PROVE NodesAreTracked
    OBVIOUS
  <2>1. TypeOK
    BY DEF BaseInv, TypeInv, TypeOK, BaseOK, Base, Numbered, Known
  <2>2. NoStrayNode
    BY DEF NoStrayNode, TrackInv, Tracked
  <2>3. ExitOnItsWay
    BY DEF ExitOnItsWay, TrackInv, Tracked, Known, Elems
  <2>4. RegisteredIsCurrent
    BY DEF RegisteredIsCurrent, TrackInv, Tracked, Known
  <2> QED
    BY <2>1, <2>2, <2>3, <2>4 DEF NodesAreTracked
<1> QED
  BY <1>1, SupervisorInvariant, PTL

\* Where sandboxes come up, stop() leaves nothing running, and neither the kill
\* switch nor an exceeded budget leaves a harness, with boots, exits and probes
\* under way: but for the harnesses that harness_exit() or a second harness_boot()
\* let go, which no record names (harness_halt, harness_boot, stop).
THEOREM HaltsAlwaysHold == SandboxesStart /\ Spec => []HaltsHold
<1>1. BaseInv /\ TrackInv /\ HarnessInv => HaltsHold
  <2> SUFFICES ASSUME BaseInv, TrackInv, HarnessInv PROVE HaltsHold
    OBVIOUS
  <2>1. \A p \in b.up : p \in Process /\ p.env \in Env /\ p.num \in Nat
    BY DEF BaseInv, TypeInv, BaseOK, Base, Process
  <2>2. StopStopsAll
    <3> SUFFICES ASSUME b.stopping, NEW p \in b.up PROVE p \in b.lost
      BY DEF StopStopsAll
    <3>1. p.num # 0 /\ p.num \in Nat
      BY <2>1 DEF TrackInv, Stopped
    <3> QED
      BY <3>1 DEF HarnessInv
  <2>3. HaltedHasNoHarness
    <3> SUFFICES ASSUME NEW p \in b.up \ b.lost, p.num > 0
                 PROVE  /\ ~b.killed /\ b.nodes[p.env] # None
                        /\ b.nodes[p.env].halted => \E i \in DOMAIN cmds : cmds[i] = Msg("halt", p.env)
      BY DEF HaltedHasNoHarness
    <3>1. p.env # Guardian /\ b.nodes[p.env] # None /\ b.nodes[p.env].hpid = p.num
      BY DEF HarnessInv, Owned, OwnedIn
    <3>2. PICK e \in Env : e = p.env
      BY <2>1
    <3>3. ~b.killed /\ (b.nodes[e].halted => Msg("halt", e) \in Elems(cmds))
      BY <2>1, <3>1, <3>2 DEF BaseInv, NotHalted
    <3> QED
      BY <3>1, <3>2, <3>3 DEF Elems
  <2> QED
    BY <2>2, <2>3 DEF HaltsHold
<1> QED
  BY <1>1, SupervisorInvariant, PTL

\* Where sandboxes come up, every child has its parent, one level up, and the
\* limits on depth and number hold, while nodes above die, are reset or stopped
\* and children are spawned (spawn_child, prune, prune_children).
THEOREM TreeStaysClosed == SandboxesStart /\ Spec => []TreeIsClosed
<1>1. BaseInv /\ TrackInv => TreeIsClosed
  BY SupervisorAssumption DEF TrackInv, Tree, Few, TreeIsClosed, Agents, Known
<1> QED
  BY <1>1, SupervisorInvariant, PTL
=============================================================================
