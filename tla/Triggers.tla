------------------------------ MODULE Triggers ------------------------------
(***************************************************************************)
(* The trigger engine of base (rs/base/src/trigger.rs).  A rule is a       *)
(* durable kv row of an env; the engine works on a cached copy of all      *)
(* rules, which every writer scans and then stores.  One subscription sees *)
(* every envelope; each match runs as a task of its own, which publishes,  *)
(* posts to a url or prompts an agent.                                     *)
(***************************************************************************)
EXTENDS Integers, Sequences, FiniteSets, Focus

CONSTANTS
  Ids,           \* trigger ids; a rule is [id, env, admin, topic, kind, out]
  TrigWriter,    \* concurrent callers of trigger.set and trigger.del
  hop_cap, http_retries,
  calls_per_min, \* posts of a trigger id in a window; 0 is no limit
  gated_actions, \* kinds that need a human
  WINDOW,        \* the budget window, 60 s
  TrigWorlds     \* what is on disk at boot and what happens at most, see TrigWorld

ASSUME TrigAssumption ==
  /\ hop_cap \in Nat /\ calls_per_min \in Nat /\ WINDOW \in Nat /\ WINDOW > 0
  /\ \A w \in TrigWorlds : \A r \in w.boot \cup w.set : r.id \in Ids

VARIABLES
  rows,      \* the rules under /triggers/
  rules,     \* the cached copy
  writer,    \* TrigWriter -> what it does and the scan it holds
  inbox,     \* envelopes the subscription has not handed over
  tasks,     \* the actions under way
  budgets,   \* trigger id -> window start and calls in it
  posts,     \* every slot spent since base started: [id, at, by]
  earlier,   \* every slot spent before it did
  prompts,   \* every prompt: [from, to, admin]
  tnow, writes, seeded, tdown, overlapped, ttl_gone,
  tworld     \* the bounds of this behaviour

trigVars == <<rows, rules, writer, inbox, tasks, budgets, posts, earlier, prompts, tnow, writes, seeded,
              tdown, overlapped, ttl_gone, tworld>>

Resting == [at |-> "idle", scan |-> {}]
\* An envelope: "path" lists the rules whose publications led to it.
TrigEnvelope(topic, env, src, hop, path) ==
  [topic |-> topic, env |-> env, src |-> src, hop |-> hop, path |-> path]
Key(r) == <<r.env, r.id>>

TrigWorld(boot, set, seeds, num, crashes, until) ==
  [boot |-> boot, set |-> set, seeds |-> seeds, writes |-> num[1], publishes |-> num[2],
   crashes |-> crashes, until |-> until]

TriggersInit ==
  /\ tworld \in TrigWorlds /\ rows = tworld.boot /\ rules = tworld.boot
  /\ writer = [w \in TrigWriter |-> Resting]
  /\ inbox = {} /\ tasks = {} /\ budgets = [i \in Ids |-> [start |-> 0, n |-> 0]]
  /\ posts = {} /\ earlier = {} /\ prompts = {} /\ tnow = 1 /\ writes = 0 /\ seeded = 0 /\ tdown = 0
  /\ overlapped = FALSE /\ ttl_gone = {}

\* set(): the row is replaced; the reload follows.
TrigSet(w, r) ==
  /\ writer[w].at = "idle" /\ writes < tworld.writes /\ writes' = writes + 1
  /\ rows' = {q \in rows : Key(q) # Key(r)} \cup {r}
  /\ writer' = [writer EXCEPT ![w].at = "scan"]
  /\ overlapped' = (overlapped \/ \E v \in TrigWriter : writer[v].at # "idle")
  /\ UNCHANGED <<rules, inbox, tasks, budgets, posts, earlier, prompts, tnow, seeded, tdown, ttl_gone, tworld>>

\* del().
TrigDel(w, r) ==
  /\ writer[w].at = "idle" /\ writes < tworld.writes /\ writes' = writes + 1
  /\ rows' = rows \ {r}
  /\ writer' = [writer EXCEPT ![w].at = "scan"]
  /\ overlapped' = (overlapped \/ \E v \in TrigWriter : writer[v].at # "idle")
  /\ UNCHANGED <<rules, inbox, tasks, budgets, posts, earlier, prompts, tnow, seeded, tdown, ttl_gone, tworld>>

\* The ttl of a row ends: kv's sweep deletes it and nobody reloads.
TrigTtl(r) ==
  /\ tworld.writes > 0
  /\ rows' = rows \ {r} /\ ttl_gone' = ttl_gone \cup {r}
  /\ UNCHANGED <<rules, writer, inbox, tasks, budgets, posts, earlier, prompts, tnow, writes, seeded,
                 tdown, overlapped, tworld>>

\* reload(): scan every row, ...
ReloadScan(w) ==
  /\ writer[w].at = "scan"
  /\ writer' = [writer EXCEPT ![w] = [at |-> "store", scan |-> rows]]
  /\ UNCHANGED <<rows, rules, inbox, tasks, budgets, posts, earlier, prompts, tnow, writes, seeded, tdown,
                 overlapped, ttl_gone, tworld>>

\* ... then take the lock of the copy and replace it.
ReloadStore(w) ==
  /\ writer[w].at = "store"
  /\ rules' = writer[w].scan /\ writer' = [writer EXCEPT ![w] = Resting]
  /\ UNCHANGED <<rows, inbox, tasks, budgets, posts, earlier, prompts, tnow, writes, seeded, tdown,
                 overlapped, ttl_gone, tworld>>

\* Somebody publishes.
TrigPublish(s) ==
  /\ seeded < tworld.publishes /\ seeded' = seeded + 1
  /\ inbox' = inbox \cup {TrigEnvelope(s.topic, s.env, "other", 0, <<seeded + 1>>)}
  /\ UNCHANGED <<rows, rules, writer, tasks, budgets, posts, earlier, prompts, tnow, writes, tdown,
                 overlapped, ttl_gone, tworld>>

\* matching(): the rules of the envelope's own env whose filter it passes.
Matching(e) == {r \in rules : r.env = e.env /\ r.topic = e.topic}

\* on_envelope(): one task per match; an envelope that claims to come from a
\* trigger without a hop is ignored.
OnEnvelope(e) ==
  /\ e \in inbox /\ inbox' = inbox \ {e}
  /\ tasks' = IF e.src = "trigger" /\ e.hop = 0 THEN tasks
              ELSE tasks \cup {[rule |-> r, source |-> e, at |-> "fire", try |-> 0] :
                                 r \in Matching(e)}
  /\ UNCHANGED <<rows, rules, writer, budgets, posts, earlier, prompts, tnow, writes, seeded, tdown,
                 overlapped, ttl_gone, tworld>>

Kind(t) == t.rule.kind
Moved(t, at) == (tasks \ {t}) \cup {[t EXCEPT !.at = at]}

\* fire(): a gated action waits for a human first; approved() is true or false.
TrigFire(t) ==
  /\ t.at = "fire"
  /\ tasks' = Moved(t, IF Kind(t) \in gated_actions THEN "gate" ELSE "act")
  /\ UNCHANGED <<rows, rules, writer, inbox, budgets, posts, earlier, prompts, tnow, writes, seeded, tdown,
                 overlapped, ttl_gone, tworld>>

Approved(t) ==
  /\ t.at = "gate"
  /\ \/ tasks' = Moved(t, "act")
     \/ tasks' = tasks \ {t}
  /\ UNCHANGED <<rows, rules, writer, inbox, budgets, posts, earlier, prompts, tnow, writes, seeded, tdown,
                 overlapped, ttl_gone, tworld>>

\* Mutant: a published envelope always counts as the first hop.
ActPublishOneHop(t) ==
  /\ t.at = "act" /\ Kind(t) = "publish"
  /\ inbox' = IF t.source.hop + 1 > hop_cap THEN inbox
              ELSE inbox \cup {TrigEnvelope(t.rule.out, t.rule.env, "trigger", 1,
                                            Append(t.source.path, t.rule))}
  /\ tasks' = tasks \ {t}
  /\ UNCHANGED <<rows, rules, writer, budgets, posts, earlier, prompts, tnow, writes, seeded, tdown,
                 overlapped, ttl_gone, tworld>>

\* act_publish(): one hop on, or nothing.
ActPublish(t) ==
  LET hop == t.source.hop + 1 IN
  /\ t.at = "act" /\ Kind(t) = "publish"
  /\ inbox' = IF hop > hop_cap THEN inbox
              ELSE inbox \cup {TrigEnvelope(t.rule.out, t.rule.env, "trigger", hop,
                                            Append(t.source.path, t.rule))}
  /\ tasks' = tasks \ {t}
  /\ UNCHANGED <<rows, rules, writer, budgets, posts, earlier, prompts, tnow, writes, seeded, tdown,
                 overlapped, ttl_gone, tworld>>

\* spend(): the window of a trigger id, opened anew once it is over.
Spend(b) == IF b.start = 0 \/ tnow - b.start >= WINDOW THEN [start |-> tnow, n |-> 0] ELSE b

\* act_http_post(): a slot of the budget or nothing; without a calls_per_min
\* there is no budget.
ActPost(t) ==
  LET b == Spend(budgets[t.rule.id])
      refused == calls_per_min > 0 /\ b.n >= calls_per_min IN
  /\ t.at = "act" /\ Kind(t) = "http_post"
  /\ budgets' = IF calls_per_min = 0 THEN budgets
                ELSE [budgets EXCEPT ![t.rule.id] = IF refused THEN b ELSE [b EXCEPT !.n = @ + 1]]
  /\ IF refused THEN tasks' = tasks \ {t} /\ UNCHANGED posts
     ELSE /\ posts' = posts \cup {[id |-> t.rule.id, at |-> tnow, by |-> <<t.rule, t.source.path>>]}
          /\ tasks' = Moved(t, "post")
  /\ UNCHANGED <<rows, rules, writer, inbox, earlier, prompts, tnow, writes, seeded, tdown,
                 overlapped, ttl_gone, tworld>>

\* A try fails: back off, and try again while tries are left.
PostFails(t) ==
  /\ t.at = "post"
  /\ tasks' = IF t.try + 1 >= http_retries THEN tasks \ {t}
              ELSE (tasks \ {t}) \cup {[t EXCEPT !.at = "backoff", !.try = @ + 1]}
  /\ UNCHANGED <<rows, rules, writer, inbox, budgets, posts, earlier, prompts, tnow, writes, seeded, tdown,
                 overlapped, ttl_gone, tworld>>

PostWorks(t) ==
  /\ t.at = "post" /\ tasks' = tasks \ {t}
  /\ UNCHANGED <<rows, rules, writer, inbox, budgets, posts, earlier, prompts, tnow, writes, seeded, tdown,
                 overlapped, ttl_gone, tworld>>

Backoff(t) ==
  /\ t.at = "backoff" /\ tasks' = Moved(t, "post")
  /\ UNCHANGED <<rows, rules, writer, inbox, budgets, posts, earlier, prompts, tnow, writes, seeded, tdown,
                 overlapped, ttl_gone, tworld>>

\* act_prompt(): another env only for a rule an admin set.
ActPrompt(t) ==
  LET to == IF t.rule.admin THEN t.rule.out ELSE t.rule.env IN
  /\ t.at = "act" /\ Kind(t) = "prompt"
  /\ prompts' = prompts \cup {[from |-> t.source.env, to |-> to, admin |-> t.rule.admin]}
  /\ tasks' = tasks \ {t}
  /\ UNCHANGED <<rows, rules, writer, inbox, budgets, posts, earlier, tnow, writes, seeded, tdown,
                 overlapped, ttl_gone, tworld>>

\* base restarts: tasks and budgets are gone, the rules are loaded from the rows.
TrigRestart ==
  /\ tdown < tworld.crashes /\ tdown' = tdown + 1
  /\ rules' = rows /\ writer' = [w \in TrigWriter |-> Resting] /\ inbox' = {} /\ tasks' = {}
  /\ budgets' = [i \in Ids |-> [start |-> 0, n |-> 0]]
  /\ posts' = {} /\ earlier' = earlier \cup posts
  /\ UNCHANGED <<rows, prompts, tnow, writes, seeded, overlapped, ttl_gone, tworld>>

TrigTime ==
  /\ tnow < tworld.until /\ tnow' = tnow + 1
  /\ UNCHANGED <<rows, rules, writer, inbox, tasks, budgets, posts, earlier, prompts, writes, seeded,
                 tdown, overlapped, ttl_gone, tworld>>

TaskStep(t) ==
  \/ TrigFire(t) \/ Approved(t) \/ ActPublish(t) \/ ActPost(t) \/ PostFails(t) \/ PostWorks(t)
  \/ Backoff(t) \/ ActPrompt(t)
ReloadStep == \E w \in TrigWriter : ReloadScan(w) \/ ReloadStore(w)
EngineStep == (\E e \in inbox : OnEnvelope(e)) \/ (\E t \in tasks : TaskStep(t))

TriggersNext ==
  \/ \E w \in TrigWriter, r \in tworld.set : TrigSet(w, r)
  \/ \E w \in TrigWriter, r \in rows : TrigDel(w, r)
  \/ (\E r \in rows : TrigTtl(r)) \/ ReloadStep \/ (\E s \in tworld.seeds : TrigPublish(s))
  \/ EngineStep \/ TrigRestart \/ TrigTime

TriggersSpec == TriggersInit /\ [][TriggersNext]_trigVars

\* Tasks run, and a human or the approval's timer answers a gate.
TriggersFairness == WF_trigVars(focus = "triggers" /\ EngineStep)

---------------------------------------------------------------------------
(* Properties.                                                             *)

\* A chain of publications by triggers, however rules feed one another and
\* whatever is rewritten meanwhile, ends after hop_cap of them.
ChainsAreShort == \A e \in inbox : Len(e.path) <= hop_cap + 1

\* What triggers do to one another comes to an end.
TriggersSettle == <>[](inbox = {} /\ tasks = {})

\* The slots of S that id i spent in the WINDOW that ends at t.
Until(S, i, t) == {p \in S : p.id = i /\ p.at > t - WINDOW /\ p.at <= t}

\* With a calls_per_min set, over any WINDOW a trigger id spends at most two
\* windows' worth of slots; budgets are in memory only, so that each restart of
\* base may add as much again.
PostsArePaced ==
  calls_per_min > 0 =>
    \A i \in Ids, t \in 1 .. tnow :
      /\ Cardinality(Until(posts, i, t)) <= 2 * calls_per_min
      /\ Cardinality(Until(posts \cup earlier, i, t)) <= 2 * calls_per_min * (tdown + 1)

\* An agent is only prompted by what happened in its own env, or by a rule an
\* admin set.
PromptsStayHome == \A p \in prompts : p.to # p.from => p.admin

\* When no writer is at work the copy is what the table holds, but for rows
\* whose ttl ended, unless two writers overlapped.
CopyIsCurrent ==
  ~overlapped /\ (\A w \in TrigWriter : writer[w].at = "idle") =>
    rows \subseteq rules /\ rules \ rows \subseteq ttl_gone

\* All four: triggers cannot run away, and act in the right env by the rules
\* there are.
TriggersAreContained == ChainsAreShort /\ PostsArePaced /\ PromptsStayHome /\ CopyIsCurrent
=============================================================================
