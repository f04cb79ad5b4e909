------------------------------ MODULE RateLimit ------------------------------
(***************************************************************************)
(* The account limiter and circuit breaker (rs/base/src/ratelimit.rs): a   *)
(* token bucket, a minute window, a day cap, a concurrency limit, a gap    *)
(* with jitter between grants, and a breaker that opens after a streak of  *)
(* throttled calls and halts the run after too many openings.  Callers     *)
(* share it under a mutex, so each call is one step.                       *)
(*                                                                         *)
(* Time is kept as ages: what the code writes now - t is an age here, and  *)
(* open_until - now is what is left.  Ages stop where they make no more    *)
(* difference, so the clock has no bound.  A token is MINUTE units.        *)
(***************************************************************************)
EXTENDS Integers, Sequences, FiniteSets, FiniteSetsExt, Focus

CONSTANTS
  Caller,
  rpm, rpd, MINUTE, DAY, min_gap, jitter, concurrency,
  breaker_threshold, breaker_max_opens, backoff_base, backoff_max,
  MaxGrants      \* grants the ghost log remembers

\* RateConfig: unsigned limits, and gaps that are not negative.
ASSUME RateAssumption ==
  /\ rpm \in Nat /\ MINUTE \in Nat /\ DAY \in Nat /\ min_gap \in Nat /\ jitter \in Nat
  /\ MaxGrants \in Nat \ {0}

VARIABLES
  lim,       \* the Limiter
  caller,    \* Caller -> "idle", "waits" for a slot or "runs"
  log        \* ages of the latest grants, newest first

limitVars == <<lim, caller, log>>

\* A limit of 0 is one of the bucket and of the calls in flight, and none of the
\* minute and the day.
AtLeastOne(n) == IF n = 0 THEN 1 ELSE n
RATE == AtLeastOne(rpm)
CAPACITY == RATE * MINUTE
OldGap == min_gap + jitter

\* Limiter::new().  Before the first call no age has begun.
NewLimiter ==
  [fresh |-> TRUE, tokens |-> CAPACITY, refill |-> 0, granted |-> OldGap, gap |-> 0,
   minute |-> 0, minute_count |-> 0, day |-> 0, day_count |-> 0, in_flight |-> 0,
   fails |-> 0, opens |-> 0, open |-> 0, halted |-> FALSE]

\* The windows and the bucket as try_acquire() brings them up to date.
Refilled(l) ==
  [l EXCEPT !.fresh = FALSE, !.tokens = Min({CAPACITY, @ + l.refill * RATE}), !.refill = 0,
            !.day = IF @ >= DAY THEN 0 ELSE @, !.day_count = IF l.day >= DAY THEN 0 ELSE @]
MinuteRolled(l) ==
  [l EXCEPT !.minute = IF @ >= MINUTE THEN 0 ELSE @,
            !.minute_count = IF l.minute >= MINUTE THEN 0 ELSE @]

DayFull(l) == rpd > 0 /\ l.day_count >= rpd
Grantable(l) ==
  /\ rpm > 0 => l.minute_count < rpm
  /\ l.in_flight < AtLeastOne(concurrency)
  /\ l.granted >= l.gap /\ l.tokens >= MINUTE
\* A grant, and the gap that the next one has to keep.
Granted(l, g) ==
  [l EXCEPT !.tokens = @ - MINUTE, !.granted = 0, !.gap = g, !.day_count = @ + 1,
            !.minute_count = @ + 1, !.in_flight = @ + 1]

\* try_acquire(): halted, open, day, minute, concurrency, gap, tokens.
TryAcquire(l, g) ==
  IF l.halted \/ l.open > 0 THEN [l |-> l, allow |-> FALSE]
  ELSE IF DayFull(Refilled(l)) THEN [l |-> Refilled(l), allow |-> FALSE]
  ELSE LET m == MinuteRolled(Refilled(l)) IN
       IF Grantable(m) THEN [l |-> Granted(m, g), allow |-> TRUE] ELSE [l |-> m, allow |-> FALSE]

\* release(), which never goes below zero.
Released(l) == [l EXCEPT !.in_flight = Max({0, @ - 1})]

\* record(): a throttled call that completes a streak opens the breaker, longer
\* each time, and the last opening halts.
Recorded(l, throttled) ==
  IF ~throttled THEN [l EXCEPT !.fails = 0]
  ELSE IF l.fails + 1 < breaker_threshold THEN [l EXCEPT !.fails = @ + 1]
  ELSE [l EXCEPT !.fails = 0, !.opens = @ + 1, !.open = Min({backoff_max, backoff_base * 2^l.opens}),
                 !.halted = l.opens + 1 >= breaker_max_opens]

\* A unit of time passes.
Older(l) ==
  LET by == IF l.fresh THEN 0 ELSE 1 IN
  [l EXCEPT !.refill = Min({MINUTE, @ + by}), !.granted = Min({OldGap, @ + 1}),
            !.minute = Min({MINUTE, @ + by}), !.day = Min({DAY, @ + by}),
            !.open = Max({0, @ - 1})]

---------------------------------------------------------------------------
RateInit ==
  /\ lim = NewLimiter /\ caller = [c \in Caller |-> "idle"] /\ log = <<>>

Ask(c) == caller[c] = "idle" /\ caller' = [caller EXCEPT ![c] = "waits"] /\ UNCHANGED <<lim, log>>

\* wait_for_slot(): ask again until the answer is Allow or Halt.
Acquire(c) ==
  /\ caller[c] = "waits" /\ ~lim.halted
  /\ \E g \in min_gap .. min_gap + jitter : LET t == TryAcquire(lim, g) IN
       /\ lim' = t.l
       /\ IF t.allow THEN /\ caller' = [caller EXCEPT ![c] = "runs"]
                          /\ log' = SubSeq(<<0>> \o log, 1, Min({MaxGrants, Len(log) + 1}))
          ELSE UNCHANGED <<caller, log>>

Halt(c) ==
  /\ caller[c] = "waits" /\ lim.halted
  /\ caller' = [caller EXCEPT ![c] = "idle"] /\ UNCHANGED <<lim, log>>

\* A call reports, and may report again before it ends.
Report(c) ==
  /\ caller[c] = "runs" /\ ~lim.halted
  /\ \E throttled \in BOOLEAN : lim' = Recorded(lim, throttled)
  /\ UNCHANGED <<caller, log>>

Release(c) ==
  /\ caller[c] = "runs" /\ caller' = [caller EXCEPT ![c] = "idle"]
  /\ lim' = Released(lim) /\ UNCHANGED log

RateTime ==
  /\ lim' = Older(lim) /\ log' = [i \in 1 .. Len(log) |-> Min({DAY, log[i] + 1})]
  /\ UNCHANGED caller

RateNext ==
  \/ \E c \in Caller : Ask(c) \/ Acquire(c) \/ Halt(c) \/ Report(c) \/ Release(c)
  \/ RateTime

RateSpec == RateInit /\ [][RateNext]_limitVars

\* Callers ask again, calls end, time passes.
RateFairness ==
  /\ WF_limitVars(focus = "rate" /\ RateTime)
  /\ \A c \in Caller :
      /\ WF_limitVars(focus = "rate" /\ (Acquire(c) \/ Halt(c)))
      /\ WF_limitVars(focus = "rate" /\ Release(c))

---------------------------------------------------------------------------
(* Properties.                                                             *)

\* Any stretch of grants stays under the bucket: n + 1 grants over an age of a
\* are at most one bucket and what a refills; and they keep the gap.
GrantsArePaced ==
  \A i, j \in 1 .. Len(log) : i < j /\ log[j] < DAY =>
    /\ (j - i + 1) * MINUTE <= CAPACITY + (log[j] - log[i]) * RATE
    /\ log[j] - log[i] >= (j - i) * min_gap

\* An open breaker lets nobody through, and a halted one never again.
BreakerHolds ==
  [][(lim.open > 0 \/ lim.halted) => lim'.in_flight <= lim.in_flight]_limitVars

\* Whoever waits, somebody is served or everybody is told to stop: no window
\* and no breaker stays shut for good.
LimiterServes ==
  []<>((\E c \in Caller : caller[c] = "runs") \/ lim.halted \/ \A c \in Caller : caller[c] # "waits")
\* Both: a breaker shuts everybody out while it is open, and nobody for good.
LimiterHolds == BreakerHolds /\ LimiterServes
=============================================================================
