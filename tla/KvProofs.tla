------------------------------ MODULE KvProofs ------------------------------
(***************************************************************************)
(* Proofs about the key-value facade, for any keys, threads, calls and any *)
(* size of a block: a revision is never given out twice, and cas and incr  *)
(* are atomic on a durable key.                                            *)
(***************************************************************************)
EXTENDS Kv, TLAPS

\* The threads have the fields of Idle.
ThreadsAreRecords ==
  /\ DOMAIN th = Thread
  /\ \A p \in Thread : DOMAIN th[p] = {"at", "c", "rev", "gone"}

\* The counter, its ceiling in memory and the one on disk.
CountersAreOrdered ==
  revision \in Nat /\ reserved \in Nat /\ hwm \in Nat /\ reserved <= hwm

\* A thread that may write its revision or tell it has it from a block on disk.
HeldIsReserved ==
  \A p \in Thread :
    /\ th[p].rev \in Nat /\ th[p].rev <= revision
    /\ th[p].at \in {"drop", "put", "fire"} => th[p].rev <= hwm

\* So has every row of the table.
RowsAreReserved == DOMAIN disk = KvKey /\ \A k \in KvKey : disk[k].rev \in Nat /\ disk[k].rev <= hwm

\* What was used is behind the counter and, for the next start, on disk.
UsedIsReserved == \A r \in used : r \in Nat /\ r <= revision /\ r <= hwm

RevInv == ThreadsAreRecords /\ CountersAreOrdered /\ HeldIsReserved /\ RowsAreReserved /\ UsedIsReserved

---------------------------------------------------------------------------
\* Max of two numbers is a number no smaller than either (i64::max).
LEMMA MaxOfTwo ==
  ASSUME NEW a \in Nat, NEW b \in Nat
  PROVE  Max({a, b}) \in Nat /\ Max({a, b}) >= a /\ Max({a, b}) >= b
<1>1. \E x \in {a, b} : \A y \in {a, b} : x >= y
  OBVIOUS
<1> QED
  BY <1>1 DEF Max

\* The counter of a new base starts at the high-water mark: no row is above it.
LEMMA SeedIsReserved ==
  ASSUME CountersAreOrdered, RowsAreReserved
  PROVE  Seed = hwm
<1> DEFINE S == {hwm} \cup {disk[k].rev : k \in KvKey}
<1>1. hwm \in S /\ \A y \in S : y \in Nat /\ hwm >= y
  BY DEF CountersAreOrdered, RowsAreReserved
<1>2. \A x \in S : (\A y \in S : x >= y) => x = hwm
  BY <1>1 DEF CountersAreOrdered
<1>3. Max(S) \in S /\ \A y \in S : Max(S) >= y
  BY <1>1 DEF Max
<1> QED
  BY <1>2, <1>3 DEF Seed

---------------------------------------------------------------------------
\* A store that is empty has issued nothing (KvFacade::new).
LEMMA InitHasRevInv == KvInit => RevInv
BY DEF KvInit, RevInv, ThreadsAreRecords, CountersAreOrdered, HeldIsReserved, RowsAreReserved,
       UsedIsReserved, Idle, NoCell

\* No thread comes to where it writes, but from "drop" to "put", with no other
\* revision than it had.
MovesOnly ==
  /\ ThreadsAreRecords'
  /\ \A p \in Thread :
       \/ th'[p].rev = th[p].rev /\ th'[p].at = th[p].at
       \/ th'[p].rev \in {0, th[p].rev} /\ th'[p].at \notin {"drop", "put", "fire"}
       \/ th'[p].rev = th[p].rev /\ th[p].at = "drop"

\* Steps that give out no revision keep RevInv: they leave the counters and
\* what was used alone, and write no row but to delete it.
LEMMA OthersKeepRevInv ==
  ASSUME RevInv, UNCHANGED <<revision, reserved, hwm, used>>, MovesOnly, DOMAIN disk' = KvKey,
         \A k \in KvKey : disk'[k] \in {disk[k], NoCell}
  PROVE  RevInv'
<1>1. CountersAreOrdered' /\ UsedIsReserved'
  BY DEF RevInv, CountersAreOrdered, UsedIsReserved
<1>2. RowsAreReserved'
  BY DEF RevInv, RowsAreReserved, CountersAreOrdered, NoCell
<1>3. HeldIsReserved'
  BY DEF RevInv, HeldIsReserved, CountersAreOrdered, MovesOnly
<1> QED
  BY <1>1, <1>2, <1>3 DEF RevInv, MovesOnly

\* A thread that returns, or that begins a call, has no revision.
LEMMA StartsOver ==
  ASSUME ThreadsAreRecords, NEW p \in Thread, NEW new,
         DOMAIN new = {"at", "c", "rev", "gone"}, new.rev = 0,
         new.at \notin {"drop", "put", "fire"}, th' = [th EXCEPT ![p] = new]
  PROVE  MovesOnly
<1>1. \A q \in Thread : th'[q] = IF q = p THEN new ELSE th[q]
  BY DEF ThreadsAreRecords
<1>2. DOMAIN th' = Thread
  BY DEF ThreadsAreRecords
<1> QED
  BY <1>1, <1>2 DEF MovesOnly, ThreadsAreRecords

\* A call that begins (the entry of set, cas, incr ... of KvFacade) holds no revision yet.
LEMMA BeginMovesOnly ==
  ASSUME ThreadsAreRecords, NEW p \in Thread, NEW c, NEW l, l \notin {"drop", "put", "fire"},
         th' = [th EXCEPT ![p] = [Idle EXCEPT !.c = c, !.at = l]]
  PROVE  MovesOnly
<1> DEFINE new == [Idle EXCEPT !.c = c, !.at = l]
<1>1. DOMAIN new = {"at", "c", "rev", "gone"} /\ new.rev = 0 /\ new.at = l
  BY DEF Idle
<1> QED
  BY <1>1, StartsOver

\* A call that returns drops its guard and whatever revision it held.
LEMMA ReturnMovesOnly ==
  ASSUME ThreadsAreRecords, NEW p \in Thread, th' = Returned(p)
  PROVE  MovesOnly
<1> DEFINE new == IF p = Ticker THEN [Idle EXCEPT !.at = "bound"] ELSE Idle
<1>1. /\ DOMAIN new = {"at", "c", "rev", "gone"} /\ new.rev = 0
      /\ new.at \notin {"drop", "put", "fire"}
  BY DEF Idle
<1>2. th' = [th EXCEPT ![p] = new]
  BY DEF Returned
<1> HIDE DEF new
<1> QED
  BY <1>1, <1>2, StartsOver

\* cas, incr and expire after their get().
LEMMA GotMovesOnly ==
  ASSUME ThreadsAreRecords, NEW p \in Thread, NEW val, Got(p, val)
  PROVE  MovesOnly
<1>1. \/ th' = Returned(p)
      \/ \E v : th' = [th EXCEPT ![p].c.v = v, ![p].at = "where"]
      \/ \E v : th' = [th EXCEPT ![p].c.v = v, ![p].at = "rev"]
  BY DEF Got
<1>2. CASE th' = Returned(p)
  BY <1>2, ReturnMovesOnly
<1>3. ASSUME NEW v, NEW l \in {"where", "rev"}, th' = [th EXCEPT ![p].c.v = v, ![p].at = l]
      PROVE  MovesOnly
  BY <1>3 DEF ThreadsAreRecords, MovesOnly
<1> QED
  BY <1>1, <1>2, <1>3

\* The steps that only move a thread, write memory or delete.
LEMMA PlainStepKeepsRevInv ==
  ASSUME RevInv, NEW p \in Thread,
         CasLock(p) \/ GetMem(p) \/ GetDisk(p) \/ ExpireWhere(p) \/ WriteDrop(p) \/ DelMem(p)
           \/ DelDisk(p) \/ \E c \in kv_left.ops : Call(p, c)
  PROVE  RevInv'
<1> USE DEF RevInv, ThreadsAreRecords, RowsAreReserved, At, Goes
<1>1. CASE CasLock(p)
  BY <1>1, OthersKeepRevInv DEF CasLock, MovesOnly
<1>2. CASE GetMem(p)
  <2>1. MovesOnly
    <3>1. CASE Got(p, Value(mem[K(p)]))
      BY <3>1, GotMovesOnly
    <3>2. CASE Goes(p, "getdisk")
      BY <3>2 DEF MovesOnly
    <3> QED
      BY <1>2, <3>1, <3>2 DEF GetMem
  <2> QED
    BY <1>2, <2>1, OthersKeepRevInv DEF GetMem
<1>3. CASE GetDisk(p)
  <2>1. MovesOnly
    BY <1>3, GotMovesOnly DEF GetDisk
  <2> QED
    BY <1>3, <2>1, OthersKeepRevInv DEF GetDisk
<1>4. CASE ExpireWhere(p)
  BY <1>4, OthersKeepRevInv DEF ExpireWhere, MovesOnly
<1>5. CASE WriteDrop(p)
  BY <1>5, OthersKeepRevInv DEF WriteDrop, MovesOnly
<1>6. CASE DelMem(p)
  BY <1>6, OthersKeepRevInv DEF DelMem, MovesOnly
<1>7. CASE DelDisk(p)
  <2>1. MovesOnly
    <3>1. CASE th' = Returned(p)
      BY <3>1, ReturnMovesOnly
    <3>2. CASE Goes(p, "rev")
      BY <3>2 DEF MovesOnly
    <3> QED
      BY <1>7, <3>1, <3>2 DEF DelDisk
  <2> QED
    BY <1>7, <2>1, OthersKeepRevInv DEF DelDisk
<1>8. CASE \E c \in kv_left.ops : Call(p, c)
  <2>1. PICK c \in kv_left.ops : Call(p, c)
    BY <1>8
  <2> DEFINE l == CASE c.op = "set" -> "rev" [] c.op = "del" -> "delmem"
                    [] c.op = "expire" -> "getmem" [] OTHER -> "lock"
  <2>2. th' = [th EXCEPT ![p] = [Idle EXCEPT !.c = c, !.at = l]]
    BY <2>1 DEF Call
  <2>3. l \notin {"drop", "put", "fire"}
    OBVIOUS
  <2>4. MovesOnly
    BY <2>2, <2>3, BeginMovesOnly
  <2> QED
    BY <2>1, <2>4, OthersKeepRevInv DEF Call
<1> QED
  BY <1>1, <1>2, <1>3, <1>4, <1>5, <1>6, <1>7, <1>8

\* The sweep only reads until it has a key to delete.
LEMMA SweepKeepsRevInv ==
  ASSUME RevInv, Ticker \in Thread, TickStep
  PROVE  RevInv'
<1> USE DEF RevInv, ThreadsAreRecords, RowsAreReserved, At, Goes
<1>1. CASE TickDisk
  BY <1>1, OthersKeepRevInv DEF TickDisk, MovesOnly
<1>2. CASE TickMem
  BY <1>2, OthersKeepRevInv DEF TickMem, MovesOnly
<1>3. CASE TickLeases
  BY <1>3, OthersKeepRevInv DEF TickLeases, MovesOnly
<1>4. CASE \E l \in sweep.dead : TickBound(l)
  BY <1>4, OthersKeepRevInv DEF TickBound, MovesOnly
<1>5. CASE TickForget
  BY <1>5, OthersKeepRevInv DEF TickForget, MovesOnly
<1>6. CASE TickDelete
  <2>1. MovesOnly
    <3>1. CASE Goes(Ticker, "idle")
      BY <3>1 DEF MovesOnly
    <3>2. ASSUME NEW k, th' = [th EXCEPT ![Ticker] = [Idle EXCEPT !.c = Op("del", k, TRUE), !.at = "delmem"]]
          PROVE  MovesOnly
      BY <3>2, BeginMovesOnly
    <3> QED
      BY <1>6, <3>1, <3>2 DEF TickDelete
  <2> QED
    BY <1>6, <2>1, OthersKeepRevInv DEF TickDelete
<1> QED
  BY <1>1, <1>2, <1>3, <1>4, <1>5, <1>6 DEF TickStep

\* next_rev() gives out a revision above all that were, and lets the thread go
\* on with it only inside the block.
LEMMA NextRevKeepsRevInv ==
  ASSUME RevInv, NEW p \in Thread, NextRev(p)
  PROVE  RevInv'
BY DEF RevInv, ThreadsAreRecords, CountersAreOrdered, HeldIsReserved, RowsAreReserved,
       UsedIsReserved, NextRev, AfterRev, At

\* A new block takes in the revision it was reserved for.
LEMMA ReserveKeepsRevInv ==
  ASSUME RevInv, REV_BLOCK \in Nat, NEW p \in Thread, Reserve(p)
  PROVE  RevInv'
<1> DEFINE top == th[p].rev + REV_BLOCK
<1>1. top \in Nat /\ th[p].rev <= top
  BY DEF RevInv, HeldIsReserved
<1>2. /\ hwm' \in Nat /\ hwm' >= hwm /\ hwm' >= top
      /\ reserved' \in Nat /\ reserved' <= hwm'
  <2>1. hwm' = Max({hwm, top}) /\ reserved' = Max({reserved, top})
    BY DEF Reserve
  <2>2. hwm' \in Nat /\ hwm' >= hwm /\ hwm' >= top
    BY <2>1, <1>1, MaxOfTwo DEF RevInv, CountersAreOrdered
  <2>3. reserved' \in {reserved, top} /\ reserved' \in Nat
    <3>1. \E x \in {reserved, top} : \A y \in {reserved, top} : x >= y
      BY <1>1 DEF RevInv, CountersAreOrdered
    <3> QED
      BY <2>1, <3>1, <1>1 DEF Max, RevInv, CountersAreOrdered
  <2> QED
    BY <2>2, <2>3, <1>1 DEF RevInv, CountersAreOrdered
<1>3. ThreadsAreRecords' /\ HeldIsReserved'
  <2>1. th' = [th EXCEPT ![p].at = AfterRev(p)] /\ revision' = revision
    BY DEF Reserve, Goes
  <2> QED
    BY <1>1, <1>2, <2>1 DEF RevInv, ThreadsAreRecords, HeldIsReserved, CountersAreOrdered
<1>4. CountersAreOrdered'
  BY <1>2 DEF RevInv, CountersAreOrdered, Reserve
<1>5. RowsAreReserved' /\ UsedIsReserved'
  BY <1>2 DEF RevInv, RowsAreReserved, UsedIsReserved, CountersAreOrdered, Reserve
<1> QED
  BY <1>3, <1>4, <1>5 DEF RevInv

\* What is written or told has its revision from a block on disk.
LEMMA WriteKeepsRevInv ==
  ASSUME RevInv, NEW p \in Thread, WritePut(p) \/ Fire(p)
  PROVE  RevInv'
<1> USE DEF At
<1>1. /\ UNCHANGED <<revision, reserved, hwm>> /\ used' = used \cup {th[p].rev}
      /\ th[p].at \in {"put", "fire"}
  BY DEF WritePut, Fire
<1>2. th[p].rev \in Nat /\ th[p].rev <= revision /\ th[p].rev <= hwm
  BY <1>1 DEF RevInv, HeldIsReserved
<1>3. UsedIsReserved' /\ CountersAreOrdered'
  BY <1>1, <1>2 DEF RevInv, UsedIsReserved, CountersAreOrdered
<1>4. RowsAreReserved'
  <2>1. \/ disk' = disk
        \/ \E k, cell : cell.rev = th[p].rev /\ disk' = [disk EXCEPT ![k] = cell]
    BY DEF WritePut, Fire
  <2> QED
    BY <1>1, <1>2, <2>1 DEF RevInv, RowsAreReserved
<1>5. ThreadsAreRecords' /\ HeldIsReserved'
  <2>1. CASE th' = Returned(p)
    BY <2>1, <1>1, ReturnMovesOnly DEF RevInv, MovesOnly, HeldIsReserved, CountersAreOrdered
  <2>2. CASE Goes(p, "fire")
    BY <2>2, <1>1, <1>2 DEF RevInv, ThreadsAreRecords, HeldIsReserved, Goes
  <2> QED
    BY <2>1, <2>2 DEF WritePut, Fire
<1> QED
  BY <1>3, <1>4, <1>5 DEF RevInv

\* A base that starts again counts on from the high-water mark.
LEMMA RestartKeepsRevInv ==
  ASSUME RevInv, Restart
  PROVE  RevInv'
<1>1. revision' = hwm /\ reserved' = hwm
  BY SeedIsReserved DEF RevInv, Restart
<1> QED
  BY <1>1 DEF Restart, RevInv, ThreadsAreRecords, CountersAreOrdered, HeldIsReserved,
              RowsAreReserved, UsedIsReserved, Idle

\* Every step of a call, of the ticker and of a restart of base keeps RevInv.
LEMMA NextKeepsRevInv ==
  ASSUME RevInv, [KvNext]_kvVars
  PROVE  RevInv'
<1>1. CASE \E p \in Thread : ThreadStep(p) \/ \E c \in kv_left.ops : Call(p, c)
  BY <1>1, PlainStepKeepsRevInv, NextRevKeepsRevInv, ReserveKeepsRevInv, WriteKeepsRevInv,
     KvAssumption DEF ThreadStep
<1>2. CASE TickStep
  BY <1>2, SweepKeepsRevInv, KvAssumption
<1>3. CASE Grant \/ (\E l \in DOMAIN leases : KeepAlive(l)) \/ Advance \/ UNCHANGED kvVars
  BY <1>3 DEF Grant, KeepAlive, Advance, kvVars, RevInv, ThreadsAreRecords, CountersAreOrdered,
              HeldIsReserved, RowsAreReserved, UsedIsReserved
<1>4. CASE Restart
  BY <1>4, RestartKeepsRevInv
<1> QED
  BY <1>1, <1>2, <1>3, <1>4 DEF KvNext

---------------------------------------------------------------------------
\* next_rev() never gives out a revision that a cell or an envelope ever had,
\* whatever threads interleave and wherever base dies (kv.rs, next_rev and new).
THEOREM RevisionsAreFresh == KvSpec => []RevisionsNeverReused
<1>1. KvInit => RevInv
  BY InitHasRevInv
<1>2. RevInv /\ [KvNext]_kvVars => RevInv'
  BY NextKeepsRevInv
<1>3. RevInv => RevisionsNeverReused
  BY DEF RevInv, UsedIsReserved, RevisionsNeverReused
<1> QED
  BY <1>1, <1>2, <1>3, PTL DEF KvSpec

---------------------------------------------------------------------------
(* The key that only incr and cas write.                                   *)

\* Where a thread is while it serves a call; the sweep's own places are not.
Working == {"lock", "getmem", "getdisk", "where", "rev", "reserve", "drop", "put", "fire",
            "delmem", "deldisk"}
OnCounter(p) == th[p].at \in Working /\ th[p].c.key = Counter
CellValue == IF Present(disk[Counter]) THEN disk[Counter].v ELSE 0

\* What the holder of the lock is to write follows from what the cell holds now.
Decided(p) ==
  /\ th[p].c.op = "incr" => th[p].c.v = CellValue + 1
  /\ th[p].c.op = "cas" => th[p].c.v = New /\ CellValue = Expect

\* A thread has a whole call; on Counter it is past the lock only as its holder,
\* its value stays decided until it is put, and then it has the cell's revision
\* until it has told it.
ThreadSound(p) ==
  /\ DOMAIN th[p].c = {"op", "key", "v", "durable", "ttl", "leased"} /\ th[p].c.key \in KvKey
  /\ OnCounter(p) =>
       /\ Counts(th[p].c) /\ th[p].at \notin {"where", "delmem", "deldisk"}
       /\ th[p].at # "lock" => lock = p
       /\ th[p].at \in {"rev", "reserve", "drop", "put"} => Decided(p)
       /\ th[p].at = "fire" => disk[Counter].rev = th[p].rev
  /\ th[p].at \in {"reserve", "drop", "put", "fire"} => th[p].rev > 0

\* The cell is in the table or nowhere, and nothing makes it expire.
CellSound ==
  /\ DOMAIN mem = KvKey /\ mem[Counter] = NoCell
  /\ disk[Counter].exp = 0 /\ disk[Counter].lease = 0 /\ disk[Counter].v \in Nat

\* So the sweep never takes it up.
SweepSound ==
  /\ DOMAIN sweep = {"at", "keys", "dead", "l"} /\ sweep.keys \subseteq KvKey \ {Counter}
  /\ 0 \notin sweep.dead /\ 0 \notin DOMAIN leases

\* The watchers know of the cell, or the holder of the lock is about to tell.
FiredSound ==
  /\ DOMAIN fired = KvKey
  /\ crashed \/ fired[Counter] = disk[Counter].rev \/ \E p \in Thread : OnCounter(p) /\ At(p, "fire")

CallsSound ==
  DOMAIN kv_left = {"ops", "calls", "grants", "crashes", "until"} /\ kv_left.ops \subseteq KvCalls
    /\ \A c \in kv_left.ops : c.key = Counter => Counts(c)

LockInv ==
  /\ RevInv /\ CellSound /\ SweepSound /\ FiredSound /\ CallsSound
  /\ \A p \in Thread : ThreadSound(p)

\* The facade starts with no cell, no call and no sweep (KvFacade::new).
LEMMA InitHasLockInv == KvInit => LockInv
<1> SUFFICES ASSUME KvInit PROVE LockInv
  OBVIOUS
<1>1. RevInv
  BY InitHasRevInv
<1>2. CellSound /\ SweepSound /\ FiredSound
  BY KvAssumption DEF KvInit, CellSound, SweepSound, FiredSound, NoCell, NoSweep
<1>3. CallsSound
  BY KvAssumption DEF KvInit, CallsSound
<1>4. \A p \in Thread : ThreadSound(p)
  BY KvAssumption DEF KvInit, ThreadSound, OnCounter, Working, Idle, Op
<1> QED
  BY <1>1, <1>2, <1>3, <1>4 DEF LockInv

\* What p does leaves every other thread sound when it leaves the cell alone, or
\* p holds the lock: then no other is past it on Counter.
LEMMA OthersStaySound ==
  ASSUME LockInv, NEW p \in Thread, \A q \in Thread \ {p} : th'[q] = th[q],
         disk'[Counter] = disk[Counter] \/ lock = p,
         lock' = lock \/ lock' = Unlocked(p) \/ (lock = NoThread /\ lock' = p)
  PROVE  \A q \in Thread \ {p} : ThreadSound(q)'
<1> SUFFICES ASSUME NEW q \in Thread, q # p
             PROVE  ThreadSound(q)'
  OBVIOUS
<1>1. th'[q] = th[q] /\ ThreadSound(q)
  BY DEF LockInv
<1>2. OnCounter(q) /\ th[q].at # "lock" =>
        lock' = lock /\ lock' = q /\ disk'[Counter] = disk[Counter]
  BY <1>1, KvAssumption DEF ThreadSound, Unlocked
<1>3. CASE OnCounter(q) /\ th[q].at # "lock"
  BY <1>1, <1>2, <1>3 DEF ThreadSound, OnCounter, Decided, CellValue
<1>4. CASE ~(OnCounter(q) /\ th[q].at # "lock")
  BY <1>1, <1>4 DEF ThreadSound, OnCounter
<1> QED
  BY <1>3, <1>4

\* A step of p that writes nothing to Counter and tells nothing of it.
LEMMA QuietKeepsLockInv ==
  ASSUME LockInv, RevInv', NEW p \in Thread, \A q \in Thread \ {p} : th'[q] = th[q], ThreadSound(p)',
         ~(OnCounter(p) /\ At(p, "fire")), disk'[Counter] = disk[Counter],
         DOMAIN mem' = KvKey, mem'[Counter] = NoCell,
         DOMAIN fired' = KvKey, fired'[Counter] = fired[Counter], crashed' = crashed,
         lock' = lock \/ lock' = Unlocked(p) \/ (lock = NoThread /\ lock' = p),
         SweepSound', CallsSound'
  PROVE  LockInv'
<1>1. \A q \in Thread : ThreadSound(q)'
  BY OthersStaySound
<1>2. CellSound'
  BY DEF LockInv, CellSound
<1>3. FiredSound'
  BY DEF LockInv, FiredSound, OnCounter, At
<1> QED
  BY <1>1, <1>2, <1>3 DEF LockInv

\* A thread with no call, or that only waits for the lock, is sound.
LEMMA FreshIsSound ==
  ASSUME NEW p \in Thread, NEW new,
         DOMAIN new.c = {"op", "key", "v", "durable", "ttl", "leased"}, new.c.key \in KvKey,
         th'[p] = new, new.at \notin {"reserve", "drop", "put", "fire"},
         new.c.key = Counter => new.at \notin Working \/ (new.at = "lock" /\ Counts(new.c))
  PROVE  ThreadSound(p)'
BY DEF ThreadSound, OnCounter, Working

\* A call that returns.
LEMMA ReturnedIsSound ==
  ASSUME ThreadsAreRecords, NEW p \in Thread, th' = Returned(p)
  PROVE  ThreadSound(p)' /\ \A q \in Thread \ {p} : th'[q] = th[q]
<1> DEFINE new == IF p = Ticker THEN [Idle EXCEPT !.at = "bound"] ELSE Idle
<1>1. th'[p] = new /\ \A q \in Thread \ {p} : th'[q] = th[q]
  BY DEF Returned, ThreadsAreRecords
<1>2. new.at \in {"bound", "idle"} /\ new.c = Op("none", Counter, TRUE)
  BY DEF Idle
<1>3. /\ DOMAIN new.c = {"op", "key", "v", "durable", "ttl", "leased"}
      /\ new.c.key = Counter /\ Counter \in KvKey
  BY <1>2, KvAssumption DEF Op
<1> HIDE DEF new
<1> QED
  BY <1>1, <1>2, <1>3, FreshIsSound DEF Working

\* Nothing but the threads, the lock and, of other keys, memory and the table
\* has changed.
Beside ==
  /\ UNCHANGED <<sweep, leases, fired, crashed, kv_left>>
  /\ DOMAIN mem' = KvKey /\ mem'[Counter] = NoCell /\ disk'[Counter] = disk[Counter]

\* The rest is as sound as it was.
LEMMA BesideIsSound ==
  ASSUME LockInv, Beside
  PROVE  /\ SweepSound' /\ CallsSound' /\ DOMAIN fired' = KvKey
         /\ fired'[Counter] = fired[Counter] /\ crashed' = crashed
         /\ DOMAIN mem' = KvKey /\ mem'[Counter] = NoCell /\ disk'[Counter] = disk[Counter]
BY DEF LockInv, Beside, SweepSound, CallsSound, FiredSound

\* cas, incr and expire after their get(): the value of the holder is decided by
\* the cell, when it is the table's that was read.
LEMMA GotKeepsLockInv ==
  ASSUME LockInv, RevInv', NEW p \in Thread, NEW val, Got(p, val), Beside,
         th[p].at \in {"getmem", "getdisk"},
         OnCounter(p) => val = IF Present(disk[Counter]) THEN disk[Counter].v ELSE NoVal
  PROVE  LockInv'
<1> USE KvAssumption DEF LockInv, RevInv
<1>1. ThreadsAreRecords /\ ThreadSound(p) /\ ~At(p, "fire")
  BY DEF At
<1>2. CASE th' = Returned(p) /\ lock' = Unlocked(p)
  BY <1>1, <1>2, ReturnedIsSound, BesideIsSound, QuietKeepsLockInv
<1>3. CASE ~(th' = Returned(p) /\ lock' = Unlocked(p))
  <2>1. PICK v, l :
          /\ th' = [th EXCEPT ![p].c.v = v, ![p].at = l] /\ lock' = lock
          /\ l = (IF th[p].c.op = "expire" THEN "where" ELSE "rev")
          /\ th[p].c.op = "cas" => v = New /\ val = Expect
          /\ th[p].c.op = "incr" => v = IF val = NoVal THEN 1 ELSE val + 1
    <3> DEFINE w == CASE th[p].c.op = "cas" -> New
                      [] th[p].c.op = "incr" -> (IF val = NoVal THEN 1 ELSE val + 1)
                      [] OTHER -> val
               m == IF th[p].c.op = "expire" THEN "where" ELSE "rev"
    <3>1. /\ th' = [th EXCEPT ![p].c.v = w, ![p].at = m] /\ lock' = lock
          /\ th[p].c.op = "cas" => val = Expect
      BY <1>3 DEF Got
    <3>2. /\ th[p].c.op = "cas" => w = New
          /\ th[p].c.op = "incr" => w = IF val = NoVal THEN 1 ELSE val + 1
      OBVIOUS
    <3> HIDE DEF w
    <3> QED
      BY <3>1, <3>2
  <2>2. /\ \A q \in Thread \ {p} : th'[q] = th[q]
        /\ th'[p].at = l /\ th'[p].rev = th[p].rev /\ th'[p].c = [th[p].c EXCEPT !.v = v]
    BY <1>1, <2>1 DEF ThreadsAreRecords
  <2>3. /\ DOMAIN th'[p].c = DOMAIN th[p].c /\ th'[p].c.key = th[p].c.key /\ th'[p].c.v = v
        /\ th'[p].c.op = th[p].c.op
        /\ Counts(th[p].c) => Counts(th'[p].c)
    BY <1>1, <2>2 DEF ThreadSound, Counts
  <2>4. OnCounter(p)' => OnCounter(p) /\ Decided(p)' /\ l = "rev"
    <3> SUFFICES ASSUME OnCounter(p)' PROVE OnCounter(p) /\ Decided(p)' /\ l = "rev"
      OBVIOUS
    <3>1. OnCounter(p) /\ Counts(th[p].c)
      BY <1>1, <2>3 DEF OnCounter, Working, ThreadSound
    <3>2. val = IF Present(disk[Counter]) THEN disk[Counter].v ELSE NoVal
      BY <3>1
    <3>3. /\ CellValue' = CellValue
          /\ val = NoVal => CellValue = 0
          /\ val # NoVal => CellValue = val
      BY <3>2 DEF CellValue, Beside, CellSound, NoVal
    <3>4. l = "rev"
      BY <2>1, <3>1 DEF Counts
    <3>5. Decided(p)'
      BY <2>1, <2>3, <3>3 DEF Decided, NoVal
    <3> QED
      BY <3>1, <3>4, <3>5
  <2>5. ThreadSound(p)'
    <3>1. l \in {"where", "rev"}
      BY <2>1
    <3>2. OnCounter(p)' => Counts(th'[p].c) /\ lock' = p /\ l = "rev" /\ Decided(p)'
      BY <1>1, <2>1, <2>3, <2>4 DEF ThreadSound
    <3>3. DOMAIN th'[p].c = {"op", "key", "v", "durable", "ttl", "leased"} /\ th'[p].c.key \in KvKey
      BY <1>1, <2>3 DEF ThreadSound
    <3> QED
      BY <2>2, <3>1, <3>2, <3>3 DEF ThreadSound
  <2> QED
    BY <1>1, <2>1, <2>2, <2>5, BesideIsSound, QuietKeepsLockInv
<1> QED
  BY <1>2, <1>3

\* The steps that read: cas_lock, get(), expire()'s look at the table.
LEMMA ReadKeepsLockInv ==
  ASSUME LockInv, RevInv', NEW p \in Thread, CasLock(p) \/ GetMem(p) \/ GetDisk(p) \/ ExpireWhere(p)
  PROVE  LockInv'
<1> USE KvAssumption DEF LockInv, RevInv
<1>1. ThreadsAreRecords /\ ThreadSound(p) /\ RowsAreReserved
  OBVIOUS
<1>2. Beside
  BY DEF CasLock, GetMem, GetDisk, ExpireWhere, Beside, CellSound
<1>3. CASE CasLock(p)
  <2>1. /\ \A q \in Thread \ {p} : th'[q] = th[q]
        /\ th'[p] = [th[p] EXCEPT !.at = "getmem"]
        /\ lock = NoThread /\ lock' = p /\ th[p].at = "lock"
    BY <1>1, <1>3 DEF CasLock, Goes, At, ThreadsAreRecords
  <2>2. ThreadSound(p)'
    BY <1>1, <2>1 DEF ThreadSound, ThreadsAreRecords, OnCounter, Working
  <2> QED
    BY <1>2, <2>1, <2>2, BesideIsSound, QuietKeepsLockInv DEF At
<1>4. CASE GetMem(p)
  <2>1. th[p].at = "getmem"
    BY <1>4 DEF GetMem, At
  <2>2. CASE Present(mem[K(p)])
    <3>1. ~OnCounter(p)
      BY <2>2 DEF K, OnCounter, CellSound, Present, NoCell
    <3> QED
      BY <1>2, <1>4, <2>1, <2>2, <3>1, GotKeepsLockInv DEF GetMem
  <2>3. CASE ~Present(mem[K(p)])
    <3>1. /\ \A q \in Thread \ {p} : th'[q] = th[q]
          /\ th'[p] = [th[p] EXCEPT !.at = "getdisk"]
          /\ lock' = lock
      BY <1>1, <1>4, <2>3 DEF GetMem, Goes, ThreadsAreRecords
    <3>2. ThreadSound(p)'
      BY <1>1, <2>1, <3>1 DEF ThreadSound, ThreadsAreRecords, OnCounter, Working
    <3> QED
      BY <1>2, <2>1, <3>1, <3>2, BesideIsSound, QuietKeepsLockInv DEF At
  <2> QED
    BY <2>2, <2>3
<1>5. CASE GetDisk(p)
  <2>1. th[p].at = "getdisk" /\ Got(p, Value(disk[K(p)]))
    BY <1>5 DEF GetDisk, At
  <2>2. OnCounter(p) =>
          Value(disk[K(p)]) = IF Present(disk[Counter]) THEN disk[Counter].v ELSE NoVal
    BY DEF OnCounter, K, Value, Expired, Past, CellSound
  <2> QED
    BY <1>2, <2>1, <2>2, GotKeepsLockInv
<1>6. CASE ExpireWhere(p)
  <2>1. /\ th' = [th EXCEPT ![p].c.durable = Present(disk[K(p)]), ![p].at = "rev"]
        /\ th[p].at = "where" /\ lock' = lock
    BY <1>6 DEF ExpireWhere, At
  <2>2. /\ \A q \in Thread \ {p} : th'[q] = th[q]
        /\ th'[p].c = [th[p].c EXCEPT !.durable = Present(disk[K(p)])]
        /\ th'[p].at = "rev" /\ th'[p].rev = th[p].rev
    BY <1>1, <2>1 DEF ThreadsAreRecords
  <2>3. ~OnCounter(p) /\ th[p].c.key # Counter
    BY <1>1, <2>1 DEF ThreadSound, OnCounter, Working
  <2>4. ThreadSound(p)'
    BY <1>1, <2>2, <2>3 DEF ThreadSound, OnCounter
  <2> QED
    BY <1>2, <2>1, <2>2, <2>3, <2>4, BesideIsSound, QuietKeepsLockInv
<1> QED
  BY <1>3, <1>4, <1>5, <1>6

\* next_rev(), the block it may have to reserve, and the first half of write():
\* what the holder decided stays, for nobody else can put.
LEMMA RevKeepsLockInv ==
  ASSUME LockInv, RevInv', NEW p \in Thread, NextRev(p) \/ Reserve(p) \/ WriteDrop(p)
  PROVE  LockInv'
<1> USE KvAssumption DEF LockInv, RevInv
<1>1. ThreadsAreRecords /\ ThreadSound(p) /\ RowsAreReserved /\ CellSound
  OBVIOUS
<1>2. PICK l : /\ th'[p].at = l /\ th'[p].c = th[p].c /\ th'[p].rev > 0
               /\ l \in {"reserve", "drop", "put"} \/ (l = "fire" /\ th[p].c.op = "del")
               /\ th[p].at \in {"rev", "reserve", "drop"}
               /\ \A q \in Thread \ {p} : th'[q] = th[q]
  <2>1. CASE NextRev(p)
    BY <1>1, <2>1 DEF NextRev, AfterRev, At, ThreadsAreRecords, CountersAreOrdered
  <2>2. CASE Reserve(p)
    BY <1>1, <2>2 DEF Reserve, AfterRev, At, Goes, ThreadsAreRecords, ThreadSound
  <2>3. CASE WriteDrop(p)
    BY <1>1, <2>3 DEF WriteDrop, At, Goes, ThreadsAreRecords, ThreadSound
  <2> QED
    BY <2>1, <2>2, <2>3
<1>3. Beside /\ lock' = lock
  <2>1. CASE NextRev(p) \/ Reserve(p)
    BY <2>1 DEF NextRev, Reserve, Beside, CellSound
  <2>2. CASE WriteDrop(p)
    <3>1. ~th[p].c.durable => th[p].c.key # Counter
      BY <1>1, <2>2 DEF WriteDrop, At, ThreadSound, OnCounter, Working, Counts
    <3> QED
      BY <1>1, <2>2, <3>1 DEF WriteDrop, K, Beside, CellSound, RowsAreReserved
  <2> QED
    BY <2>1, <2>2
<1>4. OnCounter(p)' => OnCounter(p) /\ l \in {"reserve", "drop", "put"} /\ Decided(p)'
  <2>1. OnCounter(p)' => OnCounter(p)
    BY <1>2 DEF OnCounter, Working
  <2>2. OnCounter(p) => Counts(th[p].c) /\ Decided(p)
    BY <1>1, <1>2 DEF ThreadSound
  <2>3. CellValue' = CellValue
    BY <1>3 DEF CellValue, Beside, Present
  <2> QED
    BY <1>2, <2>1, <2>2, <2>3 DEF Counts, Decided
<1>5. ThreadSound(p)'
  <2>1. OnCounter(p)' => Counts(th'[p].c) /\ lock' = p
    BY <1>1, <1>2, <1>3, <1>4 DEF ThreadSound
  <2> QED
    BY <1>1, <1>2, <1>4, <2>1 DEF ThreadSound
<1> QED
  BY <1>2, <1>3, <1>5, BesideIsSound, QuietKeepsLockInv DEF At

\* del() of another key.
LEMMA DelKeepsLockInv ==
  ASSUME LockInv, RevInv', NEW p \in Thread, DelMem(p) \/ DelDisk(p)
  PROVE  LockInv'
<1> USE KvAssumption DEF LockInv, RevInv
<1>1. ThreadsAreRecords /\ ThreadSound(p) /\ RowsAreReserved /\ CellSound
  OBVIOUS
<1>2. th[p].at \in {"delmem", "deldisk"} /\ th[p].c.key # Counter
  BY <1>1 DEF DelMem, DelDisk, At, ThreadSound, OnCounter, Working
<1>3. Beside /\ lock' = lock
  BY <1>1, <1>2 DEF DelMem, DelDisk, K, Beside, CellSound, RowsAreReserved
<1>4. CASE th' = Returned(p)
  BY <1>1, <1>2, <1>3, <1>4, ReturnedIsSound, BesideIsSound, QuietKeepsLockInv DEF At
<1>5. CASE th' # Returned(p)
  <2>1. /\ th'[p].at \in {"deldisk", "rev"} /\ th'[p].c = th[p].c
        /\ \A q \in Thread \ {p} : th'[q] = th[q]
    BY <1>1, <1>5 DEF DelMem, DelDisk, Goes, ThreadsAreRecords
  <2>2. ThreadSound(p)'
    BY <1>1, <1>2, <2>1 DEF ThreadSound, OnCounter
  <2> QED
    BY <1>2, <1>3, <2>1, <2>2, BesideIsSound, QuietKeepsLockInv DEF At
<1> QED
  BY <1>4, <1>5

\* A caller begins: on Counter, with a call that counts.
LEMMA CallKeepsLockInv ==
  ASSUME LockInv, RevInv', NEW p \in Thread, NEW c \in kv_left.ops, Call(p, c)
  PROVE  LockInv'
<1> USE KvAssumption DEF LockInv, RevInv
<1> DEFINE l == CASE c.op = "set" -> "rev" [] c.op = "del" -> "delmem"
                  [] c.op = "expire" -> "getmem" [] OTHER -> "lock"
           new == [Idle EXCEPT !.c = c, !.at = l]
<1>1. c \in KvCalls /\ (c.key = Counter => Counts(c))
  BY DEF CallsSound
<1>2. new.c = c /\ new.at = l
  BY DEF Idle
<1>3. l \in {"rev", "delmem", "getmem", "lock"} /\ (Counts(c) => l = "lock")
  BY <1>1 DEF KvCalls, Counts
<1>4. /\ th'[p] = new /\ th[p].at = "idle"
      /\ \A q \in Thread \ {p} : th'[q] = th[q]
  BY DEF Call, At, ThreadsAreRecords
<1>5. DOMAIN c = {"op", "key", "v", "durable", "ttl", "leased"} /\ c.key \in KvKey
  BY <1>1 DEF KvCalls
<1> HIDE DEF new, l
<1>6. ThreadSound(p)'
  BY <1>1, <1>2, <1>3, <1>4, <1>5, FreshIsSound
<1>7. SweepSound' /\ CallsSound'
  BY DEF Call, SweepSound, CallsSound
<1> QED
  BY <1>4, <1>6, <1>7, QuietKeepsLockInv DEF Call, CellSound, FiredSound, At

\* write(), second half: the one place where the cell changes, as incr or cas
\* says, and only by the holder of the lock.
LEMMA PutKeepsLockInv ==
  ASSUME LockInv, RevInv', NEW p \in Thread, WritePut(p)
  PROVE  /\ LockInv'
         /\ \/ CellValue' = CellValue /\ kdone' = kdone
            \/ CellValue' = CellValue + 1 /\ kdone' = kdone + 1
            \/ CellValue = Expect /\ CellValue' = New /\ kdone' = kdone + 1
<1> USE KvAssumption DEF LockInv, RevInv
<1>1. ThreadsAreRecords /\ ThreadSound(p) /\ RowsAreReserved /\ CellSound /\ HeldIsReserved
  OBVIOUS
<1>2. th[p].at = "put" /\ th[p].rev \in Nat /\ th[p].rev > 0
  BY <1>1 DEF WritePut, At, ThreadSound, HeldIsReserved
<1>3. CASE th[p].c.key # Counter
  <2>1. Beside /\ kdone' = kdone
    BY <1>1, <1>3 DEF WritePut, Beside, CellSound, RowsAreReserved
  <2>2. CellValue' = CellValue
    BY <2>1 DEF CellValue, Beside, Present
  <2>3. CASE th' = Returned(p) /\ lock' = Unlocked(p)
    BY <1>1, <1>2, <2>1, <2>2, <2>3, ReturnedIsSound, BesideIsSound, QuietKeepsLockInv DEF At
  <2>4. CASE ~(th' = Returned(p) /\ lock' = Unlocked(p))
    <3>1. /\ th'[p].at = "fire" /\ th'[p].c = th[p].c /\ th'[p].rev = th[p].rev /\ lock' = lock
          /\ \A q \in Thread \ {p} : th'[q] = th[q]
      BY <1>1, <2>4 DEF WritePut, Goes, ThreadsAreRecords
    <3>2. ThreadSound(p)'
      BY <1>1, <1>2, <1>3, <3>1 DEF ThreadSound, OnCounter
    <3> QED
      BY <1>2, <2>1, <2>2, <3>1, <3>2, BesideIsSound, QuietKeepsLockInv DEF At
  <2> QED
    BY <2>3, <2>4
<1>4. CASE th[p].c.key = Counter
  <2>1. OnCounter(p) /\ Counts(th[p].c) /\ lock = p /\ Decided(p)
    BY <1>1, <1>2, <1>4 DEF OnCounter, Working, ThreadSound
  <2>2. /\ th'[p].at = "fire" /\ th'[p].c = th[p].c /\ th'[p].rev = th[p].rev /\ lock' = lock
        /\ \A q \in Thread \ {p} : th'[q] = th[q]
    BY <1>1, <2>1 DEF WritePut, Goes, ThreadsAreRecords, Counts
  <2>3. /\ disk'[Counter].v = th[p].c.v /\ disk'[Counter].rev = th[p].rev
        /\ disk'[Counter].exp = 0 /\ disk'[Counter].lease = 0
        /\ UNCHANGED <<mem, sweep, leases, fired, crashed, kv_left>> /\ kdone' = kdone + 1
    BY <1>1, <1>4, <2>1 DEF WritePut, Counts, RowsAreReserved
  <2>4. CellValue' = th[p].c.v
    BY <1>2, <2>3 DEF CellValue, Present
  <2>5. CellValue \in Nat
    BY <1>1 DEF CellValue, CellSound
  <2>6. \/ CellValue' = CellValue + 1
        \/ CellValue = Expect /\ CellValue' = New
    BY <2>1, <2>4 DEF Counts, Decided
  <2>7. CellSound'
    BY <1>1, <2>3, <2>4, <2>5, <2>6 DEF CellSound
  <2>8. ThreadSound(p)'
    BY <1>1, <1>2, <2>1, <2>2, <2>3 DEF ThreadSound, OnCounter
  <2>9. \A q \in Thread : ThreadSound(q)'
    BY <2>1, <2>2, <2>8, OthersStaySound
  <2>10. SweepSound' /\ CallsSound'
    BY <2>3 DEF SweepSound, CallsSound
  <2>11. FiredSound'
    BY <1>4, <2>2, <2>3 DEF FiredSound, OnCounter, Working, At
  <2> QED
    BY <2>3, <2>6, <2>7, <2>9, <2>10, <2>11
<1> QED
  BY <1>3, <1>4

\* fire(): the watchers are told of the cell before the lock is free.
LEMMA FireKeepsLockInv ==
  ASSUME LockInv, RevInv', NEW p \in Thread, Fire(p)
  PROVE  LockInv'
<1> USE KvAssumption DEF LockInv, RevInv
<1>1. ThreadsAreRecords /\ ThreadSound(p)
  OBVIOUS
<1>2. /\ th[p].at = "fire" /\ th' = Returned(p) /\ lock' = Unlocked(p)
      /\ UNCHANGED <<mem, disk, leases, sweep, crashed, kv_left>>
      /\ fired' = [fired EXCEPT ![th[p].c.key] = th[p].rev]
  BY DEF Fire, At, K
<1>3. ThreadSound(p)' /\ \A q \in Thread \ {p} : th'[q] = th[q]
  BY <1>1, <1>2, ReturnedIsSound
<1>4. \A q \in Thread : ThreadSound(q)'
  BY <1>2, <1>3, OthersStaySound
<1>5. CellSound' /\ SweepSound' /\ CallsSound'
  BY <1>2 DEF CellSound, SweepSound, CallsSound
<1>6. FiredSound'
  <2>1. CASE th[p].c.key = Counter
    <3>1. disk'[Counter].rev = th[p].rev
      BY <1>1, <1>2, <2>1 DEF ThreadSound, OnCounter, Working
    <3> QED
      BY <1>2, <2>1, <3>1 DEF FiredSound
  <2>2. CASE th[p].c.key # Counter
    <3>1. \A q \in Thread : OnCounter(q) /\ At(q, "fire") => (OnCounter(q) /\ At(q, "fire"))'
      BY <1>3, <2>2 DEF OnCounter, At
    <3> QED
      BY <1>2, <2>2, <3>1 DEF FiredSound
  <2> QED
    BY <2>1, <2>2
<1> QED
  BY <1>4, <1>5, <1>6

\* tick(): what it collects is expired or bound to a lease, which the cell of
\* Counter never is.
LEMMA SweepKeepsLockInv ==
  ASSUME LockInv, RevInv', TickStep
  PROVE  LockInv'
<1> USE KvAssumption DEF LockInv, RevInv
<1>1. ThreadsAreRecords /\ ThreadSound(Ticker) /\ CellSound /\ SweepSound
  OBVIOUS
<1>2. UNCHANGED <<mem, disk, lock, fired, crashed, kv_left>>
  BY DEF TickStep, TickDisk, TickMem, TickLeases, TickBound, TickForget, TickDelete
<1>3. th[Ticker].at \in {"idle", "tickmem", "ticklease", "bound", "boundmem", "forget"}
  BY DEF TickStep, TickDisk, TickMem, TickLeases, TickBound, TickForget, TickDelete, At
<1>4. SweepSound'
  <2>1. CASE TickDisk
    BY <1>1, <2>1 DEF TickDisk, SweepSound, CellSound, Past, NoSweep
  <2>2. CASE TickMem
    BY <1>1, <2>2 DEF TickMem, SweepSound, CellSound, Past, NoCell
  <2>3. CASE TickLeases
    BY <1>1, <2>3 DEF TickLeases, SweepSound
  <2>4. CASE \E l \in sweep.dead : TickBound(l)
    <3>1. PICK l \in sweep.dead : TickBound(l)
      BY <2>4
    <3>2. l # 0
      BY <1>1 DEF SweepSound
    <3>3. /\ DOMAIN sweep' = DOMAIN sweep /\ sweep'.dead = sweep.dead /\ leases' = leases
          /\ sweep'.keys \subseteq
               sweep.keys \cup {k \in KvKey : disk[k].lease = l} \cup {k \in KvKey : mem[k].lease = l}
      BY <1>1, <3>1 DEF TickBound, SweepSound
    <3>4. disk[Counter].lease # l /\ mem[Counter].lease # l
      BY <1>1, <3>2 DEF CellSound, NoCell
    <3> QED
      BY <1>1, <3>3, <3>4 DEF SweepSound
  <2>5. CASE TickForget
    BY <1>1, <2>5 DEF TickForget, SweepSound
  <2>6. CASE TickDelete
    <3>1. leases' = leases /\ (sweep' = NoSweep \/ \E k : sweep' = [sweep EXCEPT !.keys = @ \ {k}])
      BY <2>6 DEF TickDelete
    <3>2. CASE sweep' = NoSweep
      BY <1>1, <3>1, <3>2 DEF SweepSound, NoSweep
    <3>3. ASSUME NEW k, sweep' = [sweep EXCEPT !.keys = @ \ {k}]
          PROVE  SweepSound'
      BY <1>1, <3>1, <3>3 DEF SweepSound
    <3> QED
      BY <3>1, <3>2, <3>3
  <2> QED
    BY <2>1, <2>2, <2>3, <2>4, <2>5, <2>6 DEF TickStep
<1>5. ThreadSound(Ticker)' /\ \A q \in Thread \ {Ticker} : th'[q] = th[q]
  <2>1. ASSUME NEW l \in {"idle", "tickmem", "ticklease", "bound", "boundmem", "forget"},
               Goes(Ticker, l)
        PROVE  ThreadSound(Ticker)' /\ \A q \in Thread \ {Ticker} : th'[q] = th[q]
    <3>1. /\ th'[Ticker].at = l /\ th'[Ticker].c = th[Ticker].c
          /\ \A q \in Thread \ {Ticker} : th'[q] = th[q]
      BY <1>1, <2>1 DEF Goes, ThreadsAreRecords
    <3> QED
      BY <1>1, <3>1 DEF ThreadSound, OnCounter, Working
  <2>2. ASSUME NEW k \in sweep.keys,
               th' = [th EXCEPT ![Ticker] = [Idle EXCEPT !.c = Op("del", k, TRUE), !.at = "delmem"]]
        PROVE  ThreadSound(Ticker)' /\ \A q \in Thread \ {Ticker} : th'[q] = th[q]
    <3> DEFINE new == [Idle EXCEPT !.c = Op("del", k, TRUE), !.at = "delmem"]
    <3>1. /\ new.at = "delmem" /\ new.c.key = k
          /\ DOMAIN new.c = {"op", "key", "v", "durable", "ttl", "leased"}
      BY DEF Idle, Op
    <3>2. th'[Ticker] = new /\ \A q \in Thread \ {Ticker} : th'[q] = th[q]
      BY <1>1, <2>2 DEF ThreadsAreRecords
    <3>3. k \in KvKey /\ k # Counter
      BY <1>1 DEF SweepSound
    <3> HIDE DEF new
    <3> QED
      BY <3>1, <3>2, <3>3, FreshIsSound
  <2>3. \/ \E l \in {"idle", "tickmem", "ticklease", "bound", "boundmem", "forget"} : Goes(Ticker, l)
        \/ \E k \in sweep.keys :
             th' = [th EXCEPT ![Ticker] = [Idle EXCEPT !.c = Op("del", k, TRUE), !.at = "delmem"]]
    BY DEF TickStep, TickDisk, TickMem, TickLeases, TickBound, TickForget, TickDelete
  <2> QED
    BY <2>1, <2>2, <2>3
<1>6. CallsSound'
  BY <1>2 DEF CallsSound
<1> QED
  BY <1>2, <1>3, <1>4, <1>5, <1>6, QuietKeepsLockInv DEF At, CellSound, FiredSound

\* Leases, the clock, and a step of nobody.
LEMMA IdleKeepsLockInv ==
  ASSUME LockInv, RevInv',
         Grant \/ (\E l \in DOMAIN leases : KeepAlive(l)) \/ Advance \/ UNCHANGED kvVars
  PROVE  LockInv' /\ UNCHANGED <<disk, kdone>>
<1> USE DEF LockInv
<1>1. UNCHANGED <<mem, disk, th, sweep, lock, fired, crashed, kdone>>
  BY DEF Grant, KeepAlive, Advance, kvVars
<1>2. 0 \notin DOMAIN leases'
  <2>1. CASE Grant
    BY <2>1 DEF Grant
  <2>2. CASE \E l \in DOMAIN leases : KeepAlive(l)
    BY <2>2 DEF KeepAlive, SweepSound
  <2>3. CASE Advance \/ UNCHANGED kvVars
    BY <2>3 DEF Advance, kvVars, SweepSound
  <2> QED
    BY <2>1, <2>2, <2>3
<1>3. CallsSound'
  BY DEF Grant, KeepAlive, Advance, kvVars, CallsSound
<1>4. \A p \in Thread : ThreadSound(p)'
  BY <1>1 DEF ThreadSound, OnCounter, Decided, CellValue
<1> QED
  BY <1>1, <1>2, <1>3, <1>4 DEF CellSound, SweepSound, FiredSound, OnCounter, At

\* A restart drops every call; the cell stays as the table has it.
LEMMA RestartKeepsLockInv ==
  ASSUME LockInv, RevInv', Restart
  PROVE  LockInv' /\ UNCHANGED <<disk, kdone>>
<1> USE KvAssumption DEF LockInv
<1>1. CellSound' /\ SweepSound' /\ FiredSound' /\ CallsSound'
  BY DEF Restart, CellSound, SweepSound, FiredSound, CallsSound, NoSweep
<1>2. \A p \in Thread : ThreadSound(p)'
  BY DEF Restart, ThreadSound, OnCounter, Working, Idle, Op
<1> QED
  BY <1>1, <1>2 DEF Restart

\* Every step keeps the invariant, and is a step of KvCell or none.
LEMMA KvStep ==
  ASSUME LockInv, [KvNext]_kvVars
  PROVE  /\ LockInv'
         /\ \/ CellValue' = CellValue /\ kdone' = kdone
            \/ CellValue' = CellValue + 1 /\ kdone' = kdone + 1
            \/ CellValue = Expect /\ CellValue' = New /\ kdone' = kdone + 1
<1>1. RevInv'
  BY NextKeepsRevInv DEF LockInv
<1>2. disk'[Counter] = disk[Counter] => CellValue' = CellValue
  BY DEF CellValue, Present
<1>3. ASSUME NEW p \in Thread, ThreadStep(p) \/ \E c \in kv_left.ops : Call(p, c), ~WritePut(p)
      PROVE  LockInv' /\ disk'[Counter] = disk[Counter] /\ kdone' = kdone
  <2>1. LockInv'
    BY <1>1, <1>3, ReadKeepsLockInv, RevKeepsLockInv, DelKeepsLockInv, CallKeepsLockInv,
       FireKeepsLockInv DEF ThreadStep
  <2>2. kdone' = kdone
    BY <1>3 DEF ThreadStep, CasLock, GetMem, GetDisk, ExpireWhere, NextRev, Reserve, WriteDrop,
                Fire, DelMem, DelDisk, Call
  <2>3. ThreadSound(p) /\ RowsAreReserved
    BY DEF LockInv, RevInv
  <2>4. CASE WriteDrop(p)
    <3>1. ~th[p].c.durable => th[p].c.key # Counter
      BY <2>3, <2>4 DEF WriteDrop, At, ThreadSound, OnCounter, Working, Counts
    <3> QED
      BY <2>1, <2>2, <2>3, <2>4, <3>1, KvAssumption DEF WriteDrop, K, RowsAreReserved
  <2>5. CASE DelDisk(p)
    <3>1. th[p].c.key # Counter
      BY <2>3, <2>5 DEF DelDisk, At, ThreadSound, OnCounter, Working
    <3> QED
      BY <2>1, <2>2, <2>3, <2>5, <3>1, KvAssumption DEF DelDisk, K, RowsAreReserved
  <2>6. CASE ~WriteDrop(p) /\ ~DelDisk(p)
    <3>1. disk' = disk
      BY <1>3, <2>6 DEF ThreadStep, CasLock, GetMem, GetDisk, ExpireWhere, NextRev, Reserve, Fire,
                        DelMem, Call
    <3> QED
      BY <2>1, <2>2, <3>1
  <2> QED
    BY <2>4, <2>5, <2>6
<1>4. CASE TickStep
  <2>1. UNCHANGED <<disk, kdone>>
    BY <1>4 DEF TickStep, TickDisk, TickMem, TickLeases, TickBound, TickForget, TickDelete
  <2> QED
    BY <1>1, <1>2, <1>4, <2>1, SweepKeepsLockInv
<1>5. CASE Grant \/ (\E l \in DOMAIN leases : KeepAlive(l)) \/ Advance \/ UNCHANGED kvVars
  BY <1>1, <1>2, <1>5, IdleKeepsLockInv
<1>6. CASE Restart
  BY <1>1, <1>2, <1>6, RestartKeepsLockInv
<1> QED
  BY <1>1, <1>2, <1>3, <1>4, <1>5, <1>6, PutKeepsLockInv DEF KvNext

\* A revision is never given out twice, and a key only cas and incr write is in
\* one place and known to its watchers whenever the lock is free, for any keys,
\* threads, calls, leases and crashes (kv.rs, cas, incr, next_rev, fire).
THEOREM KvIsAlwaysSound == KvSpec => []KvIsSound
<1>1. LockInv /\ [KvNext]_kvVars => LockInv'
  BY KvStep
<1>2. LockInv => KvIsSound
  <2> SUFFICES ASSUME LockInv PROVE KvIsSound
    OBVIOUS
  <2>1. RevisionsNeverReused
    BY DEF LockInv, RevInv, UsedIsReserved, RevisionsNeverReused
  <2>2. ~(Present(mem[Counter]) /\ Present(disk[Counter]))
    BY DEF LockInv, CellSound, Present, NoCell
  <2>3. lock = NoThread /\ ~crashed => fired[Counter] = disk[Counter].rev
    BY KvAssumption DEF LockInv, FiredSound, ThreadSound, At
  <2> QED
    BY <2>1, <2>2, <2>3 DEF KvIsSound, LockedKeyIsSound
<1> QED
  BY <1>1, <1>2, InitHasLockInv, PTL DEF KvSpec

\* The detailed calls implement KvCell: incr and cas act one after the other on
\* the value the one before left, whatever other calls, sweeps and crashes come
\* between their steps (kv.rs, cas_lock).
THEOREM CallsActInTurn == KvSpec => CallsAreAtomic
<1>1. KvInit => Cell!CellInit
  BY KvAssumption DEF KvInit, Cell!CellInit, Present, NoCell
<1>2. LockInv /\ [KvNext]_kvVars => LockInv'
  BY KvStep
<1>3. LockInv /\ [KvNext]_kvVars =>
        [Cell!AtomicIncr \/ Cell!AtomicCas]_<<IF Present(disk[Counter]) THEN disk[Counter].v ELSE 0, kdone>>
  <2> SUFFICES ASSUME LockInv, [KvNext]_kvVars
               PROVE  [Cell!AtomicIncr \/ Cell!AtomicCas]_<<CellValue, kdone>>
    BY DEF CellValue
  <2> QED
    BY KvStep DEF CellValue, Cell!AtomicIncr, Cell!AtomicCas
<1> QED
  BY <1>1, <1>2, <1>3, InitHasLockInv, PTL DEF KvSpec, CallsAreAtomic, Cell!CellSpec
=============================================================================
