-------------------------------- MODULE Hub --------------------------------
(***************************************************************************)
(* The message hub of base (rs/bus): producers publish envelopes, one      *)
(* writer task persists the durable ones in group commits, every envelope  *)
(* is fanned out over a snapshot of the subscriber list into one ring per  *)
(* subscriber, and a subscriber replays the log from an offset when it     *)
(* joins.  Producers, the writer and subscribers run on the threads of one *)
(* runtime; a step is what no other thread can see in part (a lock held, a *)
(* snapshot loaded, one ring pushed).  The log is the envelopes table      *)
(* (rs/storage/src/envelopes.rs); it alone survives a crash of base.       *)
(***************************************************************************)
EXTENDS Integers, Sequences, FiniteSets, FiniteSetsExt

CONSTANTS
  Event,        \* envelopes, told apart by their event_id
  Durable,      \* envelopes that are durable or model_visible
  Mortal,       \* envelopes with a ttl_s
  Blocked,      \* envelopes a `block` secret matches
  Violation,    \* the guardian/violation envelope a blocked publish emits
  Topic,        \* topic of an envelope
  Key,          \* its `key` tag, NoKey without one
  NoKey,
  Pub,          \* producers
  Sub,          \* subscriptions, each made at most once
  Wants,        \* the envelopes the filter of a subscription matches
  Since,        \* its since_offset, NoSince without one
  NoSince,
  Latest,       \* subscriptions with latest_only
  Cap,          \* ring capacity of a subscription
  BATCH_MAX,    \* jobs in one group commit
  REPLAY_MAX,   \* rows replayed to one subscription
  MaxPublish,   \* bound: publishes of each envelope
  MaxFault      \* bound: failed appends, failed reads and crashes of base

\* The writer task and a job nobody waits for, besides the producers.
Writer  == "writer"
NoReply == "none"

\* The constants of an instance.
ASSUME HubAssumption ==
  /\ Pub \cap {Writer, NoReply} = {}
  /\ Durable \subseteq Event /\ Mortal \subseteq Event
  /\ Blocked \subseteq Event \ {Violation}
  /\ Violation \in Event \ Durable
  /\ Wants \in [Sub -> SUBSET Event]
  /\ Since \in [Sub -> Nat \cup {NoSince}] /\ NoSince \notin Nat
  /\ Latest \subseteq Sub
  /\ Cap \in [Sub -> Nat \ {0}]
  /\ BATCH_MAX \in Nat \ {0, 1} /\ REPLAY_MAX \in Nat
  /\ MaxPublish \in [Event -> Nat] /\ MaxFault \in Nat

VARIABLES
  log,          \* the envelopes table: offset -> envelope
  max_offset,   \* Hub.max_offset
  subs,         \* Hub.subs, the registered subscriptions in order
  chan,         \* the writer's channel of jobs
  w,            \* the writer task
  fan,          \* the fan_out a producer or the writer is in
  pub,          \* what each producer does: "idle" or "waiting" for its offset
  sub,          \* what each subscription does
  ceiling,      \* SubEntry.since_max
  rows,         \* the rows a subscription has still to replay
  ring,         \* Ring.state.queue
  alive,        \* Ring.alive
  permit,       \* Ring.notify holds a permit
  expired,      \* envelopes whose ttl has passed
  sent,         \* how often each envelope was published
  faults,       \* failed appends, failed reads and crashes so far
  resolved,     \* history: what publish resolved to
  got,          \* history: what each subscription received
  head,         \* history: the end of the log when a subscription registered
  unread        \* history: the subscriptions whose read of the log failed

vars == <<log, max_offset, subs, chan, w, fan, pub, sub, ceiling, rows, ring,
          alive, permit, expired, sent, faults, resolved, got, head, unread>>

ringVars == <<ring, permit>>
subVars  == <<sub, ceiling, rows, alive, head, unread>>

NoFan   == [snap |-> <<>>]

Job       == [e : Event, who : Pub \cup {NoReply}]
Published == [e : Event, off : Nat]
FanOut    == [e : Event, off : Nat, snap : Seq(Sub), at : Nat \ {0}, dead : BOOLEAN]
IdleWriter == [pc |-> "idle", jobs |-> <<>>, tx |-> <<>>, offs |-> <<>>, next |-> 1]

RangeOf(s) == {s[i] : i \in DOMAIN s}

---------------------------------------------------------------------------
(* The pieces of an action.                                                *)

\* The entries of a queue at the positions P, in order.
Picked(queue, P) ==
  LET upTo[i \in 0 .. Len(queue)] ==
        IF i = 0 THEN <<>>
        ELSE IF i \in P THEN Append(upTo[i - 1], queue[i]) ELSE upTo[i - 1] IN
  upTo[Len(queue)]

\* The subscriptions of a list whose ring is open.
Kept(list) == Picked(list, {i \in DOMAIN list : alive[list[i]]})

\* The compaction key of ring.rs: the key tag, else the topic.
CompactionKey(e) == IF Key[e] = NoKey THEN <<"topic", Topic[e]>> ELSE <<"key", Key[e]>>

\* Ring.push on the queue of a subscription: compaction, drop-oldest or append.
Pushed(s, queue, m) ==
  LET others == {i \in DOMAIN queue : CompactionKey(queue[i].e) # CompactionKey(m.e)} IN
  IF s \in Latest THEN Append(Picked(queue, others), m)
  ELSE IF Len(queue) >= Cap[s] /\ m.e \notin Durable THEN Append(Tail(queue), m)
  ELSE Append(queue, m)

\* Mutant: notify_waiters, which wakes a reader that waits and leaves no permit.
PushWaiters(s, m) ==
  /\ ring' = [ring EXCEPT ![s] = Pushed(s, @, m)]
  /\ permit' = [permit EXCEPT ![s] = @ \/ sub[s] = "wait"]

\* A ring takes a message and wakes its reader: notify_one leaves a permit
\* when nobody waits.
Push(s, m) ==
  /\ ring' = [ring EXCEPT ![s] = Pushed(s, @, m)]
  /\ permit' = [permit EXCEPT ![s] = TRUE]

\* Mutant: the comparison with since_max is strict.
SkipsBelow(s, m) == m.off > 0 /\ m.off < ceiling[s]

\* A live message is one the subscription's replay does not cover.
Skips(s, m) == m.off > 0 /\ m.off <= ceiling[s]

\* fan_out loads the snapshot; an expired envelope goes nowhere.
StartFan(p, e, off) ==
  fan' = [fan EXCEPT ![p] =
            IF e \in expired THEN NoFan
            ELSE [e |-> e, off |-> off, snap |-> subs, at |-> 1, dead |-> FALSE]]

\* Mutant: prune filters the snapshot fan_out has, not the current list.
PrunedSnapshot(p) == Kept(fan[p].snap)

\* What prune leaves: it reads the list again under the lock.
Pruned(p) == Kept(subs)

---------------------------------------------------------------------------
(* Producers: publish and emit.                                            *)

\* publish() and emit() of an envelope a block secret matches: only the
\* violation goes out.
PublishBlocked(p, e) ==
  /\ pub[p] = "idle" /\ fan[p] = NoFan
  /\ e \in Blocked /\ sent[e] < MaxPublish[e]
  /\ sent' = [sent EXCEPT ![e] = @ + 1]
  /\ StartFan(p, Violation, 0)
  /\ UNCHANGED <<log, max_offset, subs, chan, w, pub, ringVars, subVars, expired,
                 faults, resolved, got>>

\* publish() (who = p) and emit() (who = NoReply) of a durable envelope: the
\* job goes to the writer.
PublishDurable(p, e, who) ==
  /\ pub[p] = "idle" /\ fan[p] = NoFan
  /\ e \in Durable \ Blocked /\ sent[e] < MaxPublish[e]
  /\ sent' = [sent EXCEPT ![e] = @ + 1]
  /\ chan' = Append(chan, [e |-> e, who |-> who])
  /\ pub' = [pub EXCEPT ![p] = IF who = p THEN "waiting" ELSE "idle"]
  /\ UNCHANGED <<log, max_offset, subs, w, fan, ringVars, subVars, expired, faults,
                 resolved, got>>

\* publish() and emit() of any other envelope: it fans out in the producer.
PublishMemory(p, e) ==
  /\ pub[p] = "idle" /\ fan[p] = NoFan
  /\ e \notin Durable \cup Blocked \cup {Violation} /\ sent[e] < MaxPublish[e]
  /\ sent' = [sent EXCEPT ![e] = @ + 1]
  /\ StartFan(p, e, 0)
  /\ UNCHANGED <<log, max_offset, subs, chan, w, pub, ringVars, subVars, expired,
                 faults, resolved, got>>

\* One round of the loop of fan_out: the next subscription of the snapshot.
FanStep(p) ==
  LET f == fan[p]
      s == f.snap[f.at]
      m == [e |-> f.e, off |-> f.off] IN
  /\ f # NoFan /\ f.at <= Len(f.snap)
  /\ fan' = [fan EXCEPT ![p].at = @ + 1, ![p].dead = @ \/ ~alive[s]]
  /\ IF alive[s] /\ ~Skips(s, m) /\ m.e \in Wants[s]
       THEN Push(s, m) ELSE UNCHANGED ringVars
  /\ UNCHANGED <<log, max_offset, subs, chan, w, pub, subVars, expired, sent,
                 faults, resolved, got>>

\* The end of fan_out: prune when a closed ring was met.
FanEnd(p) ==
  LET f == fan[p] IN
  /\ f # NoFan /\ f.at > Len(f.snap)
  /\ subs' = IF f.dead THEN Pruned(p) ELSE subs
  /\ fan' = [fan EXCEPT ![p] = NoFan]
  /\ UNCHANGED <<log, max_offset, chan, w, pub, ringVars, subVars, expired, sent,
                 faults, resolved, got>>

---------------------------------------------------------------------------
(* The writer task: collect a batch, one transaction, deliver.             *)

writerFrame == <<subs, ringVars, subVars, expired, sent, got>>

\* The first job of a batch, and each one that arrives before the tick.
Collect ==
  /\ w.pc \in {"idle", "collect"} /\ Len(w.jobs) < BATCH_MAX /\ chan # <<>>
  /\ w' = [w EXCEPT !.pc = "collect", !.jobs = Append(@, Head(chan))]
  /\ chan' = Tail(chan)
  /\ UNCHANGED <<log, max_offset, fan, pub, faults, resolved, writerFrame>>

\* The deadline, or a full batch: the transaction begins.
Begin ==
  /\ w.pc = "collect"
  /\ w' = [w EXCEPT !.pc = "append", !.tx = log]
  /\ UNCHANGED <<log, max_offset, chan, fan, pub, faults, resolved, writerFrame>>

\* The offset of an event_id in a table that holds it.
OffsetOf(table, e) == CHOOSE i \in DOMAIN table : table[i] = e

\* Mutant: last_insert_rowid() also for a row that was ignored.
InsertRowLastId ==
  LET e   == w.jobs[Len(w.offs) + 1].e
      dup == e \in RangeOf(w.tx)
      tx  == IF dup THEN w.tx ELSE Append(w.tx, e) IN
  /\ w.pc = "append" /\ Len(w.offs) < Len(w.jobs)
  /\ w' = [w EXCEPT !.tx = tx, !.offs = Append(@, Len(tx))]
  /\ UNCHANGED <<log, max_offset, chan, fan, pub, faults, resolved, writerFrame>>

\* insert or ignore of the next row; a duplicate keeps its offset.
InsertRow ==
  LET e   == w.jobs[Len(w.offs) + 1].e
      dup == e \in RangeOf(w.tx)
      tx  == IF dup THEN w.tx ELSE Append(w.tx, e) IN
  /\ w.pc = "append" /\ Len(w.offs) < Len(w.jobs)
  /\ w' = [w EXCEPT !.tx = tx,
                    !.offs = Append(@, IF dup THEN OffsetOf(w.tx, e) ELSE Len(tx))]
  /\ UNCHANGED <<log, max_offset, chan, fan, pub, faults, resolved, writerFrame>>

Commit ==
  /\ w.pc = "append" /\ Len(w.offs) = Len(w.jobs)
  /\ log' = w.tx
  /\ w' = [w EXCEPT !.pc = "bump", !.tx = <<>>]
  /\ UNCHANGED <<max_offset, chan, fan, pub, faults, resolved, writerFrame>>

\* Any statement of the transaction fails: it rolls back, and the error
\* becomes an empty list of offsets.
Rollback ==
  /\ w.pc = "append" /\ faults < MaxFault
  /\ w' = [w EXCEPT !.pc = "bump", !.tx = <<>>, !.offs = <<>>]
  /\ faults' = faults + 1
  /\ UNCHANGED <<log, max_offset, chan, fan, pub, resolved, writerFrame>>

\* fetch_max with the highest offset of the batch.
Bump ==
  /\ w.pc = "bump"
  /\ max_offset' = CHOOSE m \in RangeOf(w.offs) \cup {max_offset} :
                     \A k \in RangeOf(w.offs) \cup {max_offset} : k <= m
  /\ w' = [w EXCEPT !.pc = "deliver"]
  /\ UNCHANGED <<log, chan, fan, pub, faults, resolved, writerFrame>>

\* The job the writer delivers, and the offset it has for it.
CurrentJob == w.jobs[w.next]
OffsetAt(i) == IF i \in DOMAIN w.offs THEN w.offs[i] ELSE 0

Deliver ==
  /\ w.pc = "deliver"
  /\ StartFan(Writer, CurrentJob.e, OffsetAt(w.next))
  /\ w' = [w EXCEPT !.pc = "reply"]
  /\ UNCHANGED <<log, max_offset, chan, pub, faults, resolved, writerFrame>>

\* fan_out has returned: answer the producer and take the next job.
Reply ==
  LET j == CurrentJob IN
  /\ w.pc = "reply" /\ fan[Writer] = NoFan
  /\ IF j.who = NoReply THEN UNCHANGED <<pub, resolved>>
       ELSE /\ pub' = [pub EXCEPT ![j.who] = "idle"]
            /\ resolved' = resolved \cup {[e |-> j.e, off |-> OffsetAt(w.next)]}
  /\ w' = IF w.next = Len(w.jobs) THEN IdleWriter
          ELSE [w EXCEPT !.pc = "deliver", !.next = @ + 1]
  /\ UNCHANGED <<log, max_offset, chan, fan, faults, writerFrame>>

---------------------------------------------------------------------------
(* Subscriptions: subscribe in three steps, then recv until dropped.       *)

subFrame == <<log, max_offset, chan, w, fan, pub, expired, sent, faults, resolved>>

\* subscribe() reads the replay ceiling.
ReadCeiling(s) ==
  /\ sub[s] = "new"
  /\ ceiling' = [ceiling EXCEPT ![s] = max_offset]
  /\ sub' = [sub EXCEPT ![s] = "ceiling"]
  /\ UNCHANGED <<subs, rows, alive, head, unread, ringVars, got, subFrame>>

\* It registers under the lock, and drops closed rings on the way.
Register(s) ==
  /\ sub[s] = "ceiling"
  /\ alive' = [alive EXCEPT ![s] = TRUE]
  /\ subs' = Append(Kept(subs), s)
  /\ head' = [head EXCEPT ![s] = Len(log)]
  /\ sub' = [sub EXCEPT ![s] = IF Since[s] = NoSince THEN "check" ELSE "since"]
  /\ UNCHANGED <<ceiling, rows, unread, ringVars, got, subFrame>>

\* The rows of the log after an offset, at most REPLAY_MAX of them.
RowsSince(after) ==
  [i \in 1 .. (IF after >= Len(log) THEN 0
               ELSE IF Len(log) - after < REPLAY_MAX THEN Len(log) - after ELSE REPLAY_MAX)
     |-> [e |-> log[after + i], off |-> after + i]]

\* durable.since()
ReadLog(s) ==
  /\ sub[s] = "since"
  /\ rows' = [rows EXCEPT ![s] = RowsSince(Since[s])]
  /\ sub' = [sub EXCEPT ![s] = "replay"]
  /\ UNCHANGED <<subs, ceiling, alive, head, unread, ringVars, got, subFrame>>

\* It fails: `if let Ok(rows)` skips the replay, and subscribe() returns all the same.
ReadLogFails(s) ==
  /\ sub[s] = "since" /\ faults < MaxFault
  /\ faults' = faults + 1
  /\ unread' = unread \cup {s}
  /\ sub' = [sub EXCEPT ![s] = "check"]
  /\ UNCHANGED <<log, max_offset, subs, chan, w, fan, pub, ceiling, rows, alive, head,
                 ringVars, expired, sent, resolved, got>>

\* Mutant: the row at the ceiling is left to the live stream.
ReplayRowBelow(s) ==
  LET m == Head(rows[s]) IN
  /\ sub[s] = "replay" /\ rows[s] # <<>>
  /\ rows' = [rows EXCEPT ![s] = Tail(@)]
  /\ IF m.off < ceiling[s] /\ m.e \notin expired /\ m.e \in Wants[s]
       THEN Push(s, m) ELSE UNCHANGED ringVars
  /\ UNCHANGED <<subs, sub, ceiling, alive, head, unread, got, subFrame>>

\* One row of the replay: rows above the ceiling come live.
ReplayRow(s) ==
  LET m == Head(rows[s]) IN
  /\ sub[s] = "replay" /\ rows[s] # <<>>
  /\ rows' = [rows EXCEPT ![s] = Tail(@)]
  /\ IF m.off <= ceiling[s] /\ m.e \notin expired /\ m.e \in Wants[s]
       THEN Push(s, m) ELSE UNCHANGED ringVars
  /\ UNCHANGED <<subs, sub, ceiling, alive, head, unread, got, subFrame>>

ReplayEnd(s) ==
  /\ sub[s] = "replay" /\ rows[s] = <<>>
  /\ sub' = [sub EXCEPT ![s] = "check"]
  /\ UNCHANGED <<subs, ceiling, rows, alive, head, unread, ringVars, got, subFrame>>

\* The states of a subscription that subscribe() has returned.
Reading == {"check", "empty", "wait"}

\* recv() finds the ring filled: it drains it, after the coalescing window.
Recv(s) ==
  /\ sub[s] = "check" /\ ring[s] # <<>>
  /\ got' = [got EXCEPT ![s] = @ \o ring[s]]
  /\ ring' = [ring EXCEPT ![s] = <<>>]
  /\ UNCHANGED <<subs, subVars, permit, subFrame>>

\* recv() finds it empty ...
Look(s) ==
  /\ sub[s] = "check" /\ ring[s] = <<>>
  /\ sub' = [sub EXCEPT ![s] = "empty"]
  /\ UNCHANGED <<subs, ceiling, rows, alive, head, unread, ringVars, got, subFrame>>

\* ... and only then comes to notified().await.
Wait(s) ==
  /\ sub[s] = "empty"
  /\ sub' = [sub EXCEPT ![s] = "wait"]
  /\ UNCHANGED <<subs, ceiling, rows, alive, head, unread, ringVars, got, subFrame>>

\* The permit wakes it, and it looks again.
Wake(s) ==
  /\ sub[s] = "wait" /\ permit[s]
  /\ permit' = [permit EXCEPT ![s] = FALSE]
  /\ sub' = [sub EXCEPT ![s] = "check"]
  /\ UNCHANGED <<subs, ceiling, rows, alive, head, unread, ring, got, subFrame>>

\* The client goes away: the pump drops the subscription, which closes the
\* ring and leaves the list entry to the next fan_out or subscribe.
Drop(s) ==
  /\ sub[s] \in Reading
  /\ alive' = [alive EXCEPT ![s] = FALSE]
  /\ permit' = [permit EXCEPT ![s] = TRUE]
  /\ sub' = [sub EXCEPT ![s] = "gone"]
  /\ UNCHANGED <<subs, ceiling, rows, head, unread, ring, got, subFrame>>

---------------------------------------------------------------------------
(* Time and crashes.                                                       *)

Expire(e) ==
  /\ e \in Mortal \ expired
  /\ expired' = expired \cup {e}
  /\ UNCHANGED <<log, max_offset, subs, chan, w, fan, pub, ringVars, subVars, sent,
                 faults, resolved, got>>

\* base dies and comes back: the log stays, with_durable reads its head, and
\* every connection, job and ring is gone.
Crash ==
  /\ faults < MaxFault
  /\ faults' = faults + 1
  /\ max_offset' = Len(log)
  /\ subs' = <<>> /\ chan' = <<>> /\ w' = IdleWriter
  /\ fan' = [p \in Pub \cup {Writer} |-> NoFan]
  /\ pub' = [p \in Pub |-> "idle"]
  /\ sub' = [s \in Sub |-> IF sub[s] = "new" THEN "new" ELSE "gone"]
  /\ rows' = [s \in Sub |-> <<>>]
  /\ ring' = [s \in Sub |-> <<>>]
  /\ alive' = [s \in Sub |-> FALSE]
  /\ permit' = [s \in Sub |-> FALSE]
  /\ UNCHANGED <<log, ceiling, head, unread, expired, sent, resolved, got>>

---------------------------------------------------------------------------
Init ==
  /\ log = <<>> /\ max_offset = 0 /\ subs = <<>> /\ chan = <<>> /\ w = IdleWriter
  /\ fan = [p \in Pub \cup {Writer} |-> NoFan]
  /\ pub = [p \in Pub |-> "idle"]
  /\ sub = [s \in Sub |-> "new"]
  /\ ceiling = [s \in Sub |-> 0]
  /\ rows = [s \in Sub |-> <<>>]
  /\ ring = [s \in Sub |-> <<>>]
  /\ alive = [s \in Sub |-> FALSE]
  /\ permit = [s \in Sub |-> FALSE]
  /\ expired = {} /\ sent = [e \in Event |-> 0] /\ faults = 0
  /\ resolved = {} /\ got = [s \in Sub |-> <<>>] /\ head = [s \in Sub |-> 0]
  /\ unread = {}

Produce(p) ==
  \E e \in Event : \/ PublishBlocked(p, e) \/ PublishMemory(p, e)
                   \/ \E who \in {p, NoReply} : PublishDurable(p, e, who)

WriterStep == Collect \/ Begin \/ InsertRow \/ Commit \/ Rollback \/ Bump \/ Deliver \/ Reply

Joining(s) ==
  Register(s) \/ ReadLog(s) \/ ReadLogFails(s) \/ ReplayRow(s) \/ ReplayEnd(s)

ReaderStep(s) == Recv(s) \/ Look(s) \/ Wait(s) \/ Wake(s)

Next ==
  \/ \E p \in Pub : Produce(p)
  \/ \E p \in Pub \cup {Writer} : FanStep(p) \/ FanEnd(p)
  \/ WriterStep
  \/ \E s \in Sub : ReadCeiling(s) \/ Joining(s) \/ ReaderStep(s) \/ Drop(s)
  \/ \E e \in Event : Expire(e)
  \/ Crash

Spec == Init /\ [][Next]_vars

\* The runtime schedules every task that can run: the writer (its tick is a
\* timer), each fan_out, each subscribe once called and each reader.
Fairness ==
  /\ WF_vars(WriterStep)
  /\ \A p \in Pub \cup {Writer} : WF_vars(FanStep(p) \/ FanEnd(p))
  /\ \A s \in Sub : WF_vars(Joining(s)) /\ WF_vars(ReaderStep(s))

LiveSpec == Spec /\ Fairness
---------------------------------------------------------------------------
(* Properties.                                                             *)

\* The state of the hub has its type: offsets never run ahead of the log.
TypeOK ==
  /\ log \in Seq(Durable) /\ max_offset \in 0 .. Len(log)
  /\ subs \in Seq(Sub) /\ chan \in Seq(Job)
  /\ w.pc \in {"idle", "collect", "append", "bump", "deliver", "reply"}
  /\ w.jobs \in Seq(Job) /\ w.tx \in Seq(Durable) /\ w.offs \in Seq(Nat \ {0})
  /\ w.next \in Nat \ {0}
  /\ \A p \in Pub \cup {Writer} : fan[p] \in FanOut \cup {NoFan}
  /\ pub \in [Pub -> {"idle", "waiting"}]
  /\ sub \in [Sub -> {"new", "ceiling", "since", "replay", "check", "empty", "wait", "gone"}]
  /\ ceiling \in [Sub -> 0 .. Len(log)] /\ head \in [Sub -> 0 .. Len(log)]
  /\ \A s \in Sub : /\ rows[s] \in Seq(Published)
                    /\ ring[s] \in Seq(Published) /\ got[s] \in Seq(Published)
  /\ alive \in [Sub -> BOOLEAN] /\ permit \in [Sub -> BOOLEAN]
  /\ expired \subseteq Mortal
  /\ \A e \in Event : sent[e] \in 0 .. MaxPublish[e]
  /\ faults \in 0 .. MaxFault
  /\ resolved \subseteq Published /\ unread \subseteq Sub

\* What a subscription received or has in its ring, in order.
Seen(s) == got[s] \o ring[s]
Offsets(s) == {Seen(s)[i].off : i \in DOMAIN Seen(s)}

\* An offset a producer was answered with, or a subscriber was shown, names
\* the one row of that envelope, whatever failed or crashed before or since.
OffsetIsDurable ==
  \A c \in resolved \cup UNION {RangeOf(Seen(s)) : s \in Sub} :
    c.off > 0 => {i \in DOMAIN log : log[i] = c.e} = {c.off}

\* Replay and live stream do not overlap: a subscription sees a row no more
\* often than its envelope was published.
NoDoubleDelivery ==
  \A s \in Sub : \A o \in DOMAIN log :
    Cardinality({i \in DOMAIN Seen(s) : Seen(s)[i].off = o}) <= sent[log[o]]

\* Replayed rows come in the order of the log, and so do live ones, but for
\* envelopes published again.
InOrder ==
  \A s \in Sub : \A i, j \in DOMAIN Seen(s) :
    LET a == Seen(s)[i]  b == Seen(s)[j] IN
    /\ i < j /\ a.off > 0 /\ b.off > 0
    /\ sent[a.e] = 1 /\ sent[b.e] = 1
    /\ (a.off <= ceiling[s]) = (b.off <= ceiling[s])
    => a.off < b.off

\* The rows of the log reach a subscription once each and in order
\* (Hub::subscribe's replay against fan_out).
OnceInOrder == NoDoubleDelivery /\ InOrder

\* A subscription whose ring is open stays in the list: neither prune nor
\* another subscribe loses it.
RegisteredStays == \A s \in Sub : alive[s] => s \in RangeOf(subs)

\* No producer or writer is under way.
Quiet == w.pc = "idle" /\ chan = <<>> /\ \A p \in DOMAIN fan : fan[p] = NoFan

\* The rows a subscription asked for.
Due(s) == {o \in DOMAIN log :
             /\ log[o] \in Wants[s] \ expired
             /\ o > ceiling[s] \/ (Since[s] # NoSince /\ o > Since[s])}

\* With nothing under way, a subscription has every row it asked for, except
\* those persisted between its reading of the ceiling and its registration,
\* and of the rows to replay those beyond the limit or, when the log could not
\* be read, all (Hub::subscribe).
NothingLostButRaced ==
  \A s \in Sub \ Latest : Quiet /\ sub[s] \in Reading =>
    \A o \in Due(s) :
      \/ o \in Offsets(s)
      \/ ceiling[s] < o /\ o <= head[s]
      \/ o <= ceiling[s] /\ (o > Since[s] + REPLAY_MAX \/ s \in unread)

\* With nothing under way, a subscription has every row it asked for.
NothingLost ==
  \A s \in Sub \ Latest : Quiet /\ sub[s] \in Reading =>
    Due(s) \subseteq Offsets(s)

\* A latest_only ring holds one envelope per compaction key, and any other
\* ring outgrows its capacity by durable envelopes alone.
RingIsBounded ==
  \A s \in Sub :
    IF s \in Latest
    THEN \A i, j \in DOMAIN ring[s] :
           CompactionKey(ring[s][i].e) = CompactionKey(ring[s][j].e) => i = j
    ELSE Len(ring[s]) <= Cap[s] + MapThenSumSet(LAMBDA e : sent[e], Durable)

\* What is in the ring of an open subscription reaches its reader.
Delivered == \A s \in Sub : []<>(ring[s] = <<>> \/ ~alive[s])

\* A durable publish is answered (or base dies with it).
Resolves == \A p \in Pub : []<>(pub[p] = "idle")
=============================================================================
