------------------------------ MODULE MCWaits ------------------------------
(***************************************************************************)
(* What may wait, for TLC: a caller for an approval, a call into a fiber,  *)
(* a subscriber and a publisher, a node that died.  A behaviour is one of  *)
(* one component, chosen by `focus`: the approvals of the .cfg, the        *)
(* kernel Fib, the hub Bus or the supervisor Base below.  The others are   *)
(* at rest, in a state where none of their steps is due.                   *)
(***************************************************************************)
EXTENDS Approvals, Sequences, Focus

CONSTANTS root, prov, dep, kid, kid2, svc, ev, c1, NoOne, inactive,
          d1, m1, v, s1, p1, p2, t1, k1, NoKey, NoSince, guardian, Focuses

-----------------------------------------------------------------------------
(***************************************************************************)
(* A kernel whose fibers die, are mounted under fibers that die or reload, *)
(* and get services from others; a kill may cut a retraction short.        *)
(***************************************************************************)
VARIABLES k_alive, k_born, k_row, k_parent, k_status, k_epoch, k_services, k_hooks,
          k_deps, k_ds, k_eff, k_box, k_kbox, k_prog, k_ops

KFiber == {root, prov, dep, kid, kid2}
Fib == INSTANCE Kernel WITH
  Fiber <- KFiber, Root <- root, Client <- {c1}, Name <- {svc}, Event <- {ev},
  Hosts <- {root, dep}, TopLevel <- {prov, dep, kid2}, Flaky <- {}, Returns <- {},
  Killable <- {prov, dep}, CutRetract <- TRUE, Foreign <- {svc}, MaxOps <- 3,
  Kids <- [f \in KFiber |-> IF f = dep THEN {kid, kid2} ELSE {}],
  Inject <- [f \in KFiber |-> IF f = dep THEN {svc} ELSE {}],
  Script <- [f \in KFiber |->
    CASE f = prov -> <<[op |-> "provide", name |-> svc, owner |-> prov]>>
      [] f = dep -> <<[op |-> "on", event |-> ev, owner |-> dep], [op |-> "mount", owner |-> dep]>>
      [] OTHER -> <<>>],
  alive <- k_alive, born <- k_born, row <- k_row, parent <- k_parent, status <- k_status,
  epoch <- k_epoch, services <- k_services, hooks <- k_hooks, deps <- k_deps, ds <- k_ds,
  eff <- k_eff, box <- k_box, kbox <- k_kbox, prog <- k_prog, ops <- k_ops

kernelVars == <<k_alive, k_born, k_row, k_parent, k_status, k_epoch, k_services, k_hooks,
              k_deps, k_ds, k_eff, k_box, k_kbox, k_prog, k_ops>>

-----------------------------------------------------------------------------
(***************************************************************************)
(* A hub with a durable envelope that may expire, one in memory and one    *)
(* that a block secret matches, two producers and one reader.              *)
(***************************************************************************)
VARIABLES h_log, h_max_offset, h_subs, h_chan, h_w, h_fan, h_pub, h_sub,
          h_ceiling, h_rows, h_ring, h_alive, h_permit, h_expired, h_sent, h_faults,
          h_resolved, h_got, h_head, h_unread

HEvent == {d1, m1, v}
Bus == INSTANCE Hub WITH
  Event <- HEvent, Durable <- {d1}, Mortal <- {d1}, Blocked <- {m1}, Violation <- v,
  Topic <- [e \in HEvent |-> t1], Key <- [e \in HEvent |-> IF e = d1 THEN k1 ELSE NoKey],
  Pub <- {p1, p2}, Sub <- {s1}, Wants <- [s \in {s1} |-> HEvent],
  Since <- [s \in {s1} |-> 0], Latest <- {}, Cap <- [s \in {s1} |-> 8],
  BATCH_MAX <- 2, REPLAY_MAX <- 8, MaxFault <- 1, MaxPublish <- [e \in HEvent |-> 1],
  log <- h_log, max_offset <- h_max_offset, subs <- h_subs, chan <- h_chan, w <- h_w,
  fan <- h_fan, pub <- h_pub, sub <- h_sub, ceiling <- h_ceiling, rows <- h_rows,
  ring <- h_ring, alive <- h_alive, permit <- h_permit, expired <- h_expired, sent <- h_sent,
  faults <- h_faults, resolved <- h_resolved, got <- h_got, head <- h_head,
  unread <- h_unread

hubVars == <<h_log, h_max_offset, h_subs, h_chan, h_w, h_fan, h_pub, h_sub,
           h_ceiling, h_rows, h_ring, h_alive, h_permit, h_expired, h_sent, h_faults,
           h_resolved, h_got, h_head, h_unread>>

-----------------------------------------------------------------------------
(***************************************************************************)
(* A supervisor whose nodes die again and again, with a reset or a stop    *)
(* between and a start that fails.                                         *)
(***************************************************************************)
VARIABLES s_b, s_cmds, s_exits, s_tasks, s_left

BaseWorld ==
  [mute |-> {guardian, root}, named |-> {root}, requests |-> {"stop", "reset"},
   failures |-> {"spawn"}, req |-> 1, death |-> 3, fail |-> 1]
Base == INSTANCE Supervisor WITH
  Guardian <- guardian, Root <- root, Env <- {guardian, root}, BudgetReset <- TRUE,
  max_restarts <- 2, max_total <- 1, max_depth <- 0, Worlds <- {BaseWorld},
  b <- s_b, cmds <- s_cmds, exits <- s_exits, tasks <- s_tasks, left <- s_left

baseVars == <<s_b, s_cmds, s_exits, s_tasks, s_left>>

-----------------------------------------------------------------------------
\* Outside the focus the supervisor has not been told to boot.
Unbooted ==
  s_b = Base!NewBase /\ s_cmds = <<>> /\ s_exits = <<>> /\ s_tasks = {} /\ s_left = BaseWorld

MCInit ==
  /\ focus \in Focuses
  /\ Init /\ Fib!Init /\ Bus!Init
  /\ IF focus = "base" THEN Base!Init ELSE Unbooted

MCNext ==
  /\ UNCHANGED focus
  /\ \/ focus = "approvals" /\ Next /\ UNCHANGED <<kernelVars, hubVars, baseVars>>
     \/ focus = "kernel" /\ Fib!Next /\ UNCHANGED <<vars, hubVars, baseVars>>
     \/ focus = "hub" /\ Bus!Next /\ UNCHANGED <<vars, kernelVars, baseVars>>
     \/ focus = "base" /\ Base!Next /\ UNCHANGED <<vars, kernelVars, hubVars>>

\* The fairness of every component; one that is at rest has nothing due.
MCSpec ==
  /\ MCInit /\ [][MCNext]_<<focus, vars, kernelVars, hubVars, baseVars>>
  /\ Fairness /\ Fib!Fairness /\ Bus!Fairness /\ Base!Fairness

\* TreeIsLive of the kernel Fib: once nothing is under way a live fiber hangs
\* below a live parent that will dispose of it, even when the parent died or
\* reloaded in the middle of mount/2.
TreesAreLive == Fib!TreeIsLive

(***************************************************************************)
(* Nobody waits for ever: held approvals are answered (approval_expire),   *)
(* calls into fibers return and refreshes die out (tenon.erl), a pushed    *)
(* envelope is read and a durable publish answered (ring.rs, hub.rs), and  *)
(* a dead node comes back, has used up its restarts or could not be        *)
(* started (on_exit).                                                      *)
(***************************************************************************)
EveryWaitEnds ==
  /\ Answered
  /\ Fib!Settles
  /\ Bus!Delivered /\ Bus!Resolves
  /\ Base!Recovers
=============================================================================
