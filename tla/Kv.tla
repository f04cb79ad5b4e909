--------------------------------- MODULE Kv ---------------------------------
(***************************************************************************)
(* The key-value facade of base (rs/base/src/kv.rs over rs/storage/src/    *)
(* kv.rs): ephemeral keys in memory, durable keys in the kv table, one     *)
(* revision counter whose high-water mark is reserved on disk in blocks,   *)
(* leases, and a sweep that deletes what has expired.  Any thread may call *)
(* it; a call is a series of steps, each under one of its locks, and only  *)
(* cas and incr hold a lock over all of theirs.  One env's keys.           *)
(***************************************************************************)
EXTENDS Integers, FiniteSets, FiniteSetsExt, Focus

CONSTANTS
  KvKey, Thread, Ticker, NoThread,
  Counter,       \* the key that only incr and cas write, durably
  REV_BLOCK, LeaseTtl,
  Expect, New,   \* arguments of cas
  KvWorlds       \* what callers may do, see KvWorld

\* A call: its operation and key, the value of a set, where it goes and what
\* ends it.
KvCalls ==
  [op : {"set", "del", "expire", "cas", "incr"}, key : KvKey, v : Nat, durable : BOOLEAN,
   ttl : Nat, leased : BOOLEAN]
\* The calls of those who count with a key.
Counts(c) == c.op \in {"cas", "incr"} /\ c.durable /\ c.ttl = 0 /\ ~c.leased

ASSUME KvAssumption ==
  /\ Ticker \in Thread /\ NoThread \notin Thread /\ REV_BLOCK \in Nat
  /\ Counter \in KvKey /\ Expect \in Nat /\ New \in Nat
  /\ KvWorlds \subseteq [ops : SUBSET KvCalls, calls : Nat, grants : Nat, crashes : Nat, until : Nat]
  /\ \A w \in KvWorlds : \A c \in w.ops : c.key = Counter => Counts(c)

VARIABLES
  mem,        \* ephemeral: key -> cell
  disk,       \* table kv
  revision, reserved,   \* the counter and its ceiling, in memory
  hwm,        \* kv_meta.rev_hwm
  leases,     \* lease id -> expires_at; 0 once removed
  th,         \* what each thread is doing
  sweep,      \* what tick() has found so far
  lock,       \* who holds cas_lock
  now,        \* the clock
  used,       \* revisions that reached a cell or an envelope
  fired,      \* the newest change each watcher of a key was told: its revision
  kdone,      \* incr and cas calls on Counter whose write is done
  crashed,    \* has base been restarted?
  revived,    \* leases kept alive or named by a set after they had expired
  kv_left     \* the world, with what its bounds leave

kvVars == <<mem, disk, revision, reserved, hwm, leases, th, sweep, lock, now,
            used, fired, kdone, crashed, revived, kv_left>>

NoCell == [v |-> 0, rev |-> 0, exp |-> 0, lease |-> 0]
Present(c) == c.rev > 0
\* expired(): no ttl is exp = 0.
Past(exp, t) == exp > 0 /\ exp <= t
Expired(c) == Past(c.exp, now)
NoVal == -1
Value(c) == IF Present(c) /\ ~Expired(c) THEN c.v ELSE NoVal

\* A world: the calls threads make, and how many calls, leases and crashes are
\* still to come and how far the clock goes.
KvWorld(ops, calls, grants, crashes, until) ==
  [ops |-> ops, calls |-> calls, grants |-> grants, crashes |-> crashes, until |-> until]

Set(k, v, durable, ttl, leased) ==
  [op |-> "set", key |-> k, v |-> v, durable |-> durable, ttl |-> ttl, leased |-> leased]
Op(o, k, durable) ==
  [op |-> o, key |-> k, v |-> 0, durable |-> durable, ttl |-> IF o = "expire" THEN 1 ELSE 0,
   leased |-> FALSE]
Idle == [at |-> "idle", c |-> Op("none", Counter, TRUE), rev |-> 0, gone |-> FALSE]

NoSweep == [at |-> 0, keys |-> {}, dead |-> {}, l |-> 0]

At(p, l) == th[p].at = l
Goes(p, l) == th' = [th EXCEPT ![p].at = l]
K(p) == th[p].c.key

\* The call of p ends: cas_lock is dropped, the sweep goes on with the next key.
Returned(p) == [th EXCEPT ![p] = IF p = Ticker THEN [Idle EXCEPT !.at = "bound"] ELSE Idle]
Unlocked(p) == IF lock = p THEN NoThread ELSE lock

---------------------------------------------------------------------------
KvInit ==
  /\ mem = [k \in KvKey |-> NoCell] /\ disk = mem
  /\ revision = 0 /\ reserved = 0 /\ hwm = 0
  /\ leases = <<>> /\ th = [p \in Thread |-> Idle] /\ sweep = NoSweep /\ lock = NoThread
  /\ now = 1 /\ used = {} /\ fired = [k \in KvKey |-> 0] /\ kdone = 0 /\ revived = {}
  /\ crashed = FALSE /\ kv_left \in KvWorlds

\* A thread calls set, del, expire, cas or incr.
Call(p, c) ==
  /\ p # Ticker /\ At(p, "idle") /\ kv_left.calls > 0 /\ c \in kv_left.ops
  /\ kv_left' = [kv_left EXCEPT !.calls = @ - 1]
  /\ th' = [th EXCEPT ![p] = [Idle EXCEPT !.c = c, !.at =
       CASE c.op = "set" -> "rev" [] c.op = "del" -> "delmem"
         [] c.op = "expire" -> "getmem" [] OTHER -> "lock"]]
  /\ UNCHANGED <<mem, disk, revision, reserved, hwm, leases, sweep, lock, now, used,
                 fired, kdone, crashed, revived>>

\* Mutant: cas and incr take no lock.
CasLockNone(p) ==
  /\ At(p, "lock") /\ Goes(p, "getmem")
  /\ UNCHANGED <<mem, disk, revision, reserved, hwm, leases, sweep, lock, now, used, fired,
                 kdone, crashed, revived, kv_left>>

\* cas_lock().
CasLock(p) ==
  /\ At(p, "lock") /\ lock = NoThread
  /\ lock' = p /\ Goes(p, "getmem")
  /\ UNCHANGED <<mem, disk, revision, reserved, hwm, leases, sweep, now, used, fired, kdone, crashed,
                 revived, kv_left>>

\* What cas, incr and expire do with the value get() found: fail, or go on.
Got(p, val) ==
  LET c == th[p].c
      fails == \/ c.op = "cas" /\ val # Expect
               \/ c.op = "expire" /\ val = NoVal
      v == CASE c.op = "cas" -> New
             [] c.op = "incr" -> IF val = NoVal THEN 1 ELSE val + 1
             [] OTHER -> val IN
  IF fails THEN /\ th' = Returned(p) /\ lock' = Unlocked(p)
  ELSE /\ th' = [th EXCEPT ![p].c.v = v, ![p].at = IF c.op = "expire" THEN "where" ELSE "rev"]
       /\ UNCHANGED lock

\* get(): memory first, and the table when memory has no cell.
GetMem(p) ==
  /\ At(p, "getmem")
  /\ IF Present(mem[K(p)]) THEN Got(p, Value(mem[K(p)])) ELSE Goes(p, "getdisk") /\ UNCHANGED lock
  /\ UNCHANGED <<mem, disk, revision, reserved, hwm, leases, sweep, now, used, fired, kdone, crashed,
                 revived, kv_left>>

GetDisk(p) ==
  /\ At(p, "getdisk")
  /\ Got(p, Value(disk[K(p)]))
  /\ UNCHANGED <<mem, disk, revision, reserved, hwm, leases, sweep, now, used, fired, kdone, crashed,
                 revived, kv_left>>

\* expire(): durable when the table has a row now.
ExpireWhere(p) ==
  /\ At(p, "where")
  /\ th' = [th EXCEPT ![p].c.durable = Present(disk[K(p)]), ![p].at = "rev"]
  /\ UNCHANGED <<mem, disk, revision, reserved, hwm, leases, sweep, lock, now, used, fired,
                 kdone, crashed, revived, kv_left>>

\* What follows next_rev() in del() and in write().
AfterRev(p) == IF th[p].c.op = "del" THEN "fire" ELSE "drop"

\* next_rev(): the counter, and the block that has to be reserved first.
NextRev(p) ==
  /\ At(p, "rev")
  /\ revision' = revision + 1
  /\ th' = [th EXCEPT ![p].rev = revision + 1,
              ![p].at = IF revision + 1 > reserved THEN "reserve" ELSE AfterRev(p)]
  /\ UNCHANGED <<mem, disk, reserved, hwm, leases, sweep, lock, now, used, fired, kdone, crashed,
                 revived, kv_left>>

Reserve(p) ==
  /\ At(p, "reserve")
  /\ hwm' = Max({hwm, th[p].rev + REV_BLOCK})
  /\ reserved' = Max({reserved, th[p].rev + REV_BLOCK})
  /\ Goes(p, AfterRev(p))
  /\ UNCHANGED <<mem, disk, revision, leases, sweep, lock, now, used, fired, kdone, crashed, revived,
                 kv_left>>

\* write(), first half: the other place forgets the key.
WriteDrop(p) ==
  /\ At(p, "drop")
  /\ IF th[p].c.durable THEN mem' = [mem EXCEPT ![K(p)] = NoCell] /\ UNCHANGED disk
     ELSE disk' = [disk EXCEPT ![K(p)] = NoCell] /\ UNCHANGED mem
  /\ Goes(p, "put")
  /\ UNCHANGED <<revision, reserved, hwm, leases, sweep, lock, now, used, fired, kdone, crashed, revived,
                 kv_left>>

\* The newest lease, which a leased set names; 0 before there is any.
NewestLease == Max({0} \cup DOMAIN leases)

\* write(), second half.  expire() tells nobody, set() does.
WritePut(p) ==
  LET c == th[p].c
      cell == [v |-> c.v, rev |-> th[p].rev, exp |-> IF c.ttl = 0 THEN 0 ELSE now + c.ttl,
               lease |-> IF c.leased THEN NewestLease ELSE 0] IN
  /\ At(p, "put")
  /\ IF c.durable THEN disk' = [disk EXCEPT ![c.key] = cell] /\ UNCHANGED mem
     ELSE mem' = [mem EXCEPT ![c.key] = cell] /\ UNCHANGED disk
  /\ used' = used \cup {th[p].rev}
  /\ kdone' = IF c.key = Counter THEN kdone + 1 ELSE kdone
  /\ IF c.op = "expire" THEN th' = Returned(p) /\ lock' = Unlocked(p)
     ELSE Goes(p, "fire") /\ UNCHANGED lock
  /\ revived' = revived \cup {l \in {cell.lease} \cap DOMAIN leases : leases[l] <= now}
  /\ UNCHANGED <<revision, reserved, hwm, leases, sweep, now, fired, crashed, kv_left>>

\* Mutant: the lock is dropped before the watchers are told.
FireLate(p) ==
  /\ At(p, "fire")
  /\ IF lock = p THEN lock' = NoThread /\ UNCHANGED <<fired, used, th>>
     ELSE /\ fired' = [fired EXCEPT ![K(p)] = th[p].rev]
          /\ used' = used \cup {th[p].rev}
          /\ th' = Returned(p) /\ UNCHANGED lock
  /\ UNCHANGED <<mem, disk, revision, reserved, hwm, leases, sweep, now, kdone, crashed, revived, kv_left>>

\* fire(): the change goes to the bus, and the call returns.
Fire(p) ==
  /\ At(p, "fire")
  /\ fired' = [fired EXCEPT ![K(p)] = th[p].rev]
  /\ used' = used \cup {th[p].rev}
  /\ th' = Returned(p) /\ lock' = Unlocked(p)
  /\ UNCHANGED <<mem, disk, revision, reserved, hwm, leases, sweep, now, kdone, crashed, revived, kv_left>>

\* del(): out of memory, out of the table, and told if there was anything.
DelMem(p) ==
  /\ At(p, "delmem")
  /\ mem' = [mem EXCEPT ![K(p)] = NoCell]
  /\ th' = [th EXCEPT ![p].at = "deldisk", ![p].gone = Present(mem[K(p)])]
  /\ UNCHANGED <<disk, revision, reserved, hwm, leases, sweep, lock, now, used, fired, kdone, crashed,
                 revived, kv_left>>

DelDisk(p) ==
  /\ At(p, "deldisk")
  /\ disk' = [disk EXCEPT ![K(p)] = NoCell]
  /\ IF th[p].gone \/ Present(disk[K(p)]) THEN Goes(p, "rev") ELSE th' = Returned(p)
  /\ UNCHANGED <<mem, revision, reserved, hwm, leases, sweep, lock, now, used, fired, kdone, crashed,
                 revived, kv_left>>

\* lease().
Grant ==
  /\ kv_left.grants > 0 /\ now + LeaseTtl <= kv_left.until
  /\ kv_left' = [kv_left EXCEPT !.grants = @ - 1]
  /\ leases' = [l \in 1 .. Cardinality(DOMAIN leases) + 1 |->
                  IF l \in DOMAIN leases THEN leases[l] ELSE now + LeaseTtl]
  /\ UNCHANGED <<mem, disk, revision, reserved, hwm, th, sweep, lock, now, used, fired, kdone, crashed,
                 revived>>

\* keep_alive(): a lease the sweep has not removed yet, expired or not.
KeepAlive(l) ==
  /\ leases[l] # 0 /\ kv_left.grants > 0 /\ now + LeaseTtl <= kv_left.until
  /\ kv_left' = [kv_left EXCEPT !.grants = @ - 1]
  /\ leases' = [leases EXCEPT ![l] = now + LeaseTtl]
  /\ revived' = IF leases[l] <= now THEN revived \cup {l} ELSE revived
  /\ UNCHANGED <<mem, disk, revision, reserved, hwm, th, sweep, lock, now, used, fired, kdone, crashed>>

\* tick(): the expired rows of the table, ...
TickDisk ==
  /\ At(Ticker, "idle")
  /\ sweep' = [NoSweep EXCEPT !.at = now, !.keys = {k \in KvKey : Past(disk[k].exp, now)}]
  /\ Goes(Ticker, "tickmem")
  /\ UNCHANGED <<mem, disk, revision, reserved, hwm, leases, lock, now, used, fired, kdone, crashed,
                 revived, kv_left>>

\* ... the expired cells of memory, ...
TickMem ==
  /\ At(Ticker, "tickmem")
  /\ sweep' = [sweep EXCEPT !.keys = @ \cup {k \in KvKey : Past(mem[k].exp, sweep.at)}]
  /\ Goes(Ticker, "ticklease")
  /\ UNCHANGED <<mem, disk, revision, reserved, hwm, leases, lock, now, used, fired, kdone, crashed,
                 revived, kv_left>>

\* ... the dead leases, ...
TickLeases ==
  /\ At(Ticker, "ticklease")
  /\ sweep' = [sweep EXCEPT !.dead = {l \in DOMAIN leases : Past(leases[l], sweep.at)}]
  /\ Goes(Ticker, "bound")
  /\ UNCHANGED <<mem, disk, revision, reserved, hwm, leases, lock, now, used, fired, kdone, crashed,
                 revived, kv_left>>

\* ... and for each the keys bound to it in the table and then in memory.
TickBound(l) ==
  /\ l \in sweep.dead
  /\ \/ /\ At(Ticker, "bound") /\ Goes(Ticker, "boundmem")
        /\ sweep' = [sweep EXCEPT !.l = l, !.keys = @ \cup {k \in KvKey : disk[k].lease = l}]
     \/ /\ At(Ticker, "boundmem") /\ l = sweep.l /\ Goes(Ticker, "forget")
        /\ sweep' = [sweep EXCEPT !.keys = @ \cup {k \in KvKey : mem[k].lease = l}]
  /\ UNCHANGED <<mem, disk, revision, reserved, hwm, leases, lock, now, used, fired, kdone, crashed,
                 revived, kv_left>>

\* The lease is removed, kept alive meanwhile or not.
TickForget ==
  /\ At(Ticker, "forget")
  /\ leases' = [leases EXCEPT ![sweep.l] = 0]
  /\ sweep' = [sweep EXCEPT !.dead = @ \ {sweep.l}]
  /\ Goes(Ticker, "bound")
  /\ UNCHANGED <<mem, disk, revision, reserved, hwm, lock, now, used, fired, kdone, crashed, revived,
                 kv_left>>

\* Each sweep key is deleted, whatever was written to it meanwhile.
TickDelete ==
  /\ At(Ticker, "bound") /\ sweep.dead = {}
  /\ IF sweep.keys = {} THEN Goes(Ticker, "idle") /\ sweep' = NoSweep
     ELSE \E k \in sweep.keys :
            /\ sweep' = [sweep EXCEPT !.keys = @ \ {k}]
            /\ th' = [th EXCEPT ![Ticker] = [Idle EXCEPT !.c = Op("del", k, TRUE), !.at = "delmem"]]
  /\ UNCHANGED <<mem, disk, revision, reserved, hwm, leases, lock, now, used, fired, kdone, crashed,
                 revived, kv_left>>

Advance ==
  /\ now < kv_left.until /\ now' = now + 1
  /\ UNCHANGED <<mem, disk, revision, reserved, hwm, leases, th, sweep, lock, used, fired,
                 kdone, crashed, revived, kv_left>>

\* new(): the counter starts where no revision was given out before.
Seed == Max({hwm} \cup {disk[k].rev : k \in KvKey})

\* base dies and starts again over its table.
Restart ==
  /\ kv_left.crashes > 0 /\ kv_left' = [kv_left EXCEPT !.crashes = @ - 1]
  /\ mem' = [k \in KvKey |-> NoCell] /\ leases' = [l \in DOMAIN leases |-> 0]
  /\ revision' = Seed /\ reserved' = Seed
  /\ th' = [p \in Thread |-> Idle] /\ sweep' = NoSweep /\ lock' = NoThread
  /\ UNCHANGED <<disk, hwm, now, used, fired, kdone, revived>>
  /\ crashed' = TRUE

ThreadStep(p) ==
  \/ CasLock(p) \/ GetMem(p) \/ GetDisk(p) \/ ExpireWhere(p) \/ NextRev(p) \/ Reserve(p)
  \/ WriteDrop(p) \/ WritePut(p) \/ Fire(p) \/ DelMem(p) \/ DelDisk(p)
TickStep ==
  TickDisk \/ TickMem \/ TickLeases \/ (\E l \in sweep.dead : TickBound(l)) \/ TickForget \/ TickDelete

KvNext ==
  \/ \E p \in Thread : ThreadStep(p) \/ \E c \in kv_left.ops : Call(p, c)
  \/ TickStep \/ Grant \/ (\E l \in DOMAIN leases : KeepAlive(l))
  \/ Advance \/ Restart

KvSpec == KvInit /\ [][KvNext]_kvVars

\* Threads run, the clock goes on and base's expiry loop comes round.
KvFairness ==
  /\ \A p \in Thread : WF_kvVars(focus = "kv" /\ ThreadStep(p))
  /\ WF_kvVars(focus = "kv" /\ TickStep) /\ WF_kvVars(focus = "kv" /\ Advance)

---------------------------------------------------------------------------
(* Properties.                                                             *)

\* No revision is given out twice, whatever restarts lie between and whoever
\* reserved which block: what was ever used is behind the counter.
RevisionsNeverReused == \A r \in used : r <= revision

\* Two writers that only use cas and incr never have the key in both places,
\* and at rest the watchers' newest revision is that of the cell.
LockedKeyIsSound ==
  /\ ~(Present(mem[Counter]) /\ Present(disk[Counter]))
  /\ lock = NoThread /\ ~crashed => fired[Counter] = disk[Counter].rev

\* incr and cas act one after the other: the detailed calls, with all that runs
\* between their steps and the crashes, implement KvCell.
Cell == INSTANCE KvCell WITH
          cell <- IF Present(disk[Counter]) THEN disk[Counter].v ELSE 0, done <- kdone
CallsAreAtomic == Cell!CellSpec

\* Both: no revision stands for two changes, and a key only the lock's holders
\* write is what they made it.
KvIsSound == RevisionsNeverReused /\ LockedKeyIsSound

\* A key past its ttl goes, or is written again.
TtlEnds == []<>(\A k \in KvKey : ~Expired(mem[k]) /\ ~Expired(disk[k]))

\* A key bound to a lease that is still running does not outlive it, unless
\* somebody kept the lease alive, or bound to it, after it had ended.
LeaseEnds ==
  <>[](\A k \in KvKey : mem[k].lease \in {0} \cup revived)
=============================================================================
