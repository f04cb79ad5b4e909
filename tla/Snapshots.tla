------------------------------ MODULE Snapshots ------------------------------
(***************************************************************************)
(* Workspace snapshots: the worker commits the workspace as numbered steps *)
(* of a repository inside it (rs/worker/src/snap.rs), base pulls what is   *)
(* newer than the last step it stored (rs/base/src/snap.rs, worker.rs,     *)
(* rs/storage/src/packs.rs), and a reset or a new start of base wipes the  *)
(* workspace and lays the stored packs back into it.                       *)
(* Commits are numbered in the order they are made; a workspace is the     *)
(* commit it equals, 0 when it equals none.                                *)
(***************************************************************************)
EXTENDS Integers, FiniteSets, FiniteSetsExt, Focus

CONSTANTS
  keep_packs,                   \* packs base keeps
  KEEP_LAST, MILESTONE_EVERY,   \* what snap.expire spares
  MaxCommit, MaxReset, MaxPull, \* bounds
  MaxFail                       \* pulls and rows that fail, before they do not any more

\* prune_packs keeps one at least (packs.rs:175), KEEP_LAST is the worker's own
\* number (service.rs:16); a caller that asks expire for a keep_last of 0 is left out.
ASSUME SnapBounds ==
  /\ keep_packs \in Nat \ {0} /\ KEEP_LAST \in Nat \ {0} /\ MILESTONE_EVERY \in Nat \ {0}
  /\ MaxCommit \in Nat /\ MaxReset \in Nat /\ MaxPull \in Nat /\ MaxFail \in Nat

VARIABLES
  ws,        \* the workspace
  repo,      \* step -> commit, of refs/snaps/<step>; 0 is no such ref
  snap_head, \* the commit refs/heads/snap points at
  packs,     \* base's state file: step -> commit
  made,      \* commits so far
  wstate,    \* the worker, as base knows it: "booting", "ready" or "failed"
  staged,    \* steps staged for the next worker to apply (node.restore)
  restore,   \* the apply request under way: its steps, or none
  pulling,   \* pulls under way: [life, since, step, commit]
  life,      \* which workspace this is
  fresh,     \* restored and not touched since
  owed,      \* the commit an orderly stop must not cost
  crossed,   \* something of another workspace got in, or a restore failed
  fails      \* pulls and rows that failed

snapVars == <<ws, repo, snap_head, packs, made, wstate, staged, restore, pulling, life, fresh, owed, crossed, fails>>

Step == 1 .. MaxCommit
Steps(f) == {s \in Step : f[s] # 0}
NewestStep(f) == IF Steps(f) = {} THEN 0 ELSE Max(Steps(f))
NoRows == [s \in Step |-> 0]

SnapInit ==
  /\ ws = 0 /\ repo = NoRows /\ snap_head = 0 /\ packs = NoRows /\ made = 0
  /\ wstate = "booting" /\ staged = NoRows /\ restore = NoRows /\ pulling = {}
  /\ life = 1 /\ fresh = FALSE /\ owed = 0 /\ crossed = FALSE /\ fails = 0

---------------------------------------------------------------------------
(* The worker.                                                             *)

Edit ==
  /\ wstate = "ready" /\ ws # 0 /\ ws' = 0 /\ fresh' = FALSE
  /\ UNCHANGED <<repo, snap_head, packs, made, wstate, staged, restore, pulling, life, owed, crossed, fails>>

\* Mutant: steps are counted, not continued after the last one.
CommitStepCount == Cardinality(Steps(repo)) + 1

\* commit(): the step after the last one, whatever was restored.
CommitStep == NewestStep(repo) + 1

Commit ==
  /\ wstate = "ready" /\ made < MaxCommit /\ CommitStep \in Step
  /\ made' = made + 1
  /\ repo' = [repo EXCEPT ![CommitStep] = made + 1] /\ snap_head' = made + 1 /\ ws' = made + 1
  /\ fresh' = FALSE /\ crossed' = (crossed \/ restore # NoRows)
  /\ UNCHANGED <<packs, wstate, staged, restore, pulling, life, owed, fails>>

\* checkout(): the workspace and the head become that commit.
Checkout(c) == ws' = c /\ snap_head' = c

\* restore(): a snapshot that is still there.
Restore(s) ==
  /\ wstate = "ready" /\ repo[s] # 0
  /\ Checkout(repo[s]) /\ fresh' = FALSE
  /\ UNCHANGED <<repo, packs, made, wstate, staged, restore, pulling, life, owed, crossed, fails>>

\* expire(): all but the last ones, the milestones and the head.
Expire ==
  /\ wstate = "ready"
  /\ repo' = [s \in Step |->
       IF \/ Cardinality({t \in Steps(repo) : t > s}) < KEEP_LAST
          \/ s % MILESTONE_EVERY = 0 \/ repo[s] = snap_head
       THEN repo[s] ELSE 0]
  /\ UNCHANGED <<ws, snap_head, packs, made, wstate, staged, restore, pulling, life, fresh, owed, crossed, fails>>

---------------------------------------------------------------------------
(* Base: pull.                                                             *)

\* pack() of the worker: all steps after since, named by the last, or nothing.
Packed(since) ==
  IF NewestStep(repo) > since THEN [step |-> NewestStep(repo), commit |-> repo[NewestStep(repo)]]
  ELSE [step |-> 0, commit |-> 0]

\* snap_pull(): what is after the last stored step.
PullBegin ==
  /\ wstate = "ready" /\ Cardinality(pulling) < MaxPull
  /\ pulling' = pulling \cup {[life |-> life, since |-> NewestStep(packs), step |-> 0, commit |-> 0]}
  /\ UNCHANGED <<ws, repo, snap_head, packs, made, wstate, staged, restore, life, fresh, owed, crossed, fails>>

\* pull(): the worker answers; one that is gone or has nothing new ends it.
PullAnswer(p) ==
  LET q == Packed(p.since) IN
  /\ p.step = 0
  /\ pulling' = (pulling \ {p}) \cup
       (IF p.life = life /\ wstate = "ready" /\ q.step > 0
        THEN {[p EXCEPT !.step = q.step, !.commit = q.commit]} ELSE {})
  /\ UNCHANGED <<ws, repo, snap_head, packs, made, wstate, staged, restore, life, fresh, owed, crossed, fails>>

\* prune_packs(): the newest steps stay.
Pruned(f) ==
  [s \in Step |-> IF Cardinality({t \in Steps(f) : t > s}) < keep_packs THEN f[s] ELSE 0]

\* put_pack(): a row under its step, over an older one.
PutPack(f, step, commit) == [f EXCEPT ![step] = commit]

\* snap_packed(): stored under its step, whichever workspace it came from.
PackStored(p) ==
  /\ p.step > 0
  /\ packs' = Pruned(PutPack(packs, p.step, p.commit)) /\ pulling' = pulling \ {p}
  /\ crossed' = (crossed \/ p.life # life)
  /\ UNCHANGED <<ws, repo, snap_head, made, wstate, staged, restore, life, fresh, owed, fails>>

\* The worker answers with an error or its pack cannot be read, or the row cannot
\* be written: what was pulled is dropped, and asked for again by the next pull.
PullFails(p) ==
  /\ fails < MaxFail /\ fails' = fails + 1 /\ pulling' = pulling \ {p}
  /\ UNCHANGED <<ws, repo, snap_head, packs, made, wstate, staged, restore, life, fresh, owed, crossed>>

---------------------------------------------------------------------------
(* Base: reset, stop and start.                                            *)

\* stage_restore(): the workspace is wiped and every stored pack laid into it.
\* When it cannot be wiped nothing is laid into it; a pack that cannot be written is
\* left out.
StageRestore(rows) ==
  /\ wstate' = "booting" /\ life' = life + 1 /\ fresh' = FALSE /\ restore' = NoRows
  /\ \/ /\ ws' = 0 /\ repo' = NoRows /\ snap_head' = 0
        /\ \/ staged' = rows /\ UNCHANGED crossed
           \/ crossed' = TRUE /\ \E s \in Steps(rows) : staged' = [rows EXCEPT ![s] = 0]
     \/ staged' = NoRows /\ crossed' = TRUE /\ UNCHANGED <<ws, repo, snap_head>>

Reset ==
  /\ life <= MaxReset /\ StageRestore(packs) /\ owed' = 0
  /\ UNCHANGED <<packs, made, pulling, fails>>

\* flush_envs(): what a ready worker has is pulled and stored.
Flushed ==
  LET q == Packed(NewestStep(packs)) IN
  IF wstate = "ready" /\ q.step > 0 THEN Pruned(PutPack(packs, q.step, q.commit)) ELSE packs

\* Then everything goes down, and the next start stages as a reset does.  A worker
\* that is busy for FLUSH, an answer that is an error and a row that cannot be
\* written are given up on, and the commit with them.
StopAndStart ==
  /\ life <= MaxReset /\ pulling' = {}
  /\ \/ /\ packs' = Flushed
        /\ owed' = IF wstate = "ready" /\ NewestStep(repo) > 0 THEN repo[NewestStep(repo)] ELSE 0
     \/ wstate = "ready" /\ packs' = packs /\ owed' = 0
  /\ StageRestore(packs')
  /\ UNCHANGED <<made, fails>>

\* A node that is lost takes the worker and the pulls with it; the workspace
\* stays, and so does what is still to be applied.
NodeRestarts ==
  /\ wstate # "booting" /\ life <= MaxReset /\ wstate' = "booting"
  /\ crossed' = (crossed \/ restore # NoRows) /\ restore' = NoRows
  /\ UNCHANGED <<ws, repo, snap_head, packs, made, staged, pulling, life, fresh, owed, fails>>

\* boot(): the gateway, the launch or the worker's answer did not come in time.
WorkerFails ==
  /\ wstate = "booting" /\ wstate' = "failed"
  /\ UNCHANGED <<ws, repo, snap_head, packs, made, staged, restore, pulling, life, fresh, owed, crossed, fails>>

\* worker_ready(): the worker is open for calls, and asked to apply.
WorkerReady ==
  /\ wstate = "booting" /\ wstate' = "ready"
  /\ restore' = staged /\ staged' = NoRows
  /\ UNCHANGED <<ws, repo, snap_head, packs, made, pulling, life, fresh, owed, crossed, fails>>

\* apply() of the worker: the packs become refs.
Folded(rows) == [s \in Step |-> IF rows[s] # 0 THEN rows[s] ELSE repo[s]]

\* apply(): all of them, and the last one is checked out.
Apply ==
  /\ wstate = "ready" /\ restore # NoRows
  /\ repo' = Folded(restore) /\ Checkout(restore[NewestStep(restore)])
  /\ restore' = NoRows /\ fresh' = TRUE
  /\ UNCHANGED <<packs, made, wstate, staged, pulling, life, owed, crossed, fails>>

ApplyFails ==
  /\ restore # NoRows /\ restore' = NoRows /\ crossed' = TRUE
  /\ UNCHANGED <<ws, repo, snap_head, packs, made, wstate, staged, pulling, life, fresh, owed, fails>>

Answering == \E p \in pulling : PullAnswer(p)
Storing == \E p \in pulling : PackStored(p)
Losing == \E p \in pulling : PullFails(p)

SnapNext ==
  \/ Edit \/ Commit \/ (\E s \in Step : Restore(s)) \/ Expire
  \/ PullBegin \/ Answering \/ Storing \/ Losing
  \/ Reset \/ StopAndStart \/ NodeRestarts \/ WorkerFails \/ WorkerReady \/ Apply \/ ApplyFails

SnapSpec == SnapInit /\ [][SnapNext]_snapVars

\* The ticker pulls, and a pull is answered and stored, or fails.
SnapFairness ==
  /\ WF_snapVars(focus = "snapshots" /\ PullBegin)
  /\ WF_snapVars(focus = "snapshots" /\ Answering)
  /\ WF_snapVars(focus = "snapshots" /\ Storing)

---------------------------------------------------------------------------
(* Properties.                                                             *)

\* Base takes a step number as the acknowledgement of everything up to it: a
\* step means the same commit to both, and a commit base does not have is after
\* the last step it stored or older than what it stored, unless a pull, a commit
\* or a failed restore crossed from one workspace into the next.
AckIsTrue ==
  ~crossed => \A s \in Steps(repo) :
    /\ packs[s] # 0 => repo[s] = packs[s]
    /\ s > NewestStep(packs) \/ packs[NewestStep(packs)] >= repo[s]

\* After a reset or a restart, the workspace is the newest commit base ever
\* stored, and after an orderly stop whose flush went through it is no older than
\* the last commit.  A flush that times out or fails costs it (flush_envs,
\* snap.flush_failed), where the comment at snap.rs:114-117 says that leaving must
\* not cost a step.
ResetBringsBack == fresh /\ ~crossed => ws = Max({packs[s] : s \in Step}) /\ ws >= owed

\* Both: what base holds is the worker's history, and a reset brings it back.
SnapshotsAreTrue == AckIsTrue /\ ResetBringsBack

\* A commit reaches base, unless a later one replaces it, the worker goes, or
\* pulling it fails again and again.
CommitsReachBase ==
  []<>(\A s \in Step :
         wstate = "ready" /\ repo[s] # 0 /\ s = NewestStep(repo) =>
           packs[s] # 0 \/ NewestStep(packs) > s \/ crossed)
=============================================================================
