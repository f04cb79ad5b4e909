------------------------------- MODULE Timers -------------------------------
(***************************************************************************)
(* The timer service of base (rs/base/src/timer.rs).  Timers are rows of   *)
(* the kv table; one wheel loads them all, fires the due ones and deletes  *)
(* or reschedules each, then sleeps until the next is due or a caller      *)
(* wakes it.  Callers set, replace and delete timers meanwhile.  A durable *)
(* set or del of one key is one step of the table (see Kv).                *)
(***************************************************************************)
EXTENDS Integers, FiniteSets, FiniteSetsExt, Focus

CONSTANTS
  TimerId,
  Intervals,      \* after_ms and every_ms callers ask for; every_ms 0 is none
  MAX_SLEEP,
  MaxSets, MaxDels, MaxTimerCrash, MaxClock,   \* bounds
  MaxDispatch     \* how long a dispatch takes at most

\* Ids are told apart from the phases of the wheel.
ASSUME TimersAssumption ==
  /\ TimerId \cap {"load", "fire", "sleep"} = {}
  /\ Intervals \subseteq Nat /\ MAX_SLEEP \in Nat \ {0}
  /\ MaxSets \in Nat /\ MaxDels \in Nat /\ MaxTimerCrash \in Nat
  /\ MaxClock \in Nat /\ MaxDispatch \in Nat

VARIABLES
  rowOf,     \* TimerId -> the record under /timers/<id>, or NoTimer
  wheel,     \* the wheel: what it does, its copy of the rows, when it sleeps to
  wake,      \* a permit of the Notify
  clock,
  fires,     \* times each timer ever set has fired
  lost,      \* timers whose row the wheel took for that of another and removed
  gone,      \* timers del() removed
  raced,     \* timers set or removed while the wheel held a due record of their id
  gens,      \* timers set so far
  tcrashes, dels

timerVars == <<rowOf, wheel, wake, clock, fires, lost, gone, raced, gens, tcrashes, dels>>

NoTimer == [gen |-> 0, fire_at |-> 0, every |-> 0]
Asleep(until, took) == [pc |-> "sleep", at |-> took, copy |-> [i \in {} |-> NoTimer], next |-> until]
Gen == 1 .. MaxSets

TimersInit ==
  /\ rowOf = [i \in TimerId |-> NoTimer] /\ wheel = [Asleep(0, 1) EXCEPT !.pc = "load"]
  /\ wake = FALSE /\ clock = 1 /\ fires = [g \in Gen |-> 0] /\ lost = {} /\ gone = {} /\ raced = {}
  /\ gens = 0 /\ tcrashes = 0 /\ dels = 0

\* Does the wheel hold a due record of i that it has still to fire or to write back?
Held(i) == i \in DOMAIN wheel.copy /\ wheel.copy[i].fire_at <= wheel.at

\* set(): a row, replaced if the id is taken, and the wheel is woken.
SetTimer(i, interval, every) ==
  /\ gens < MaxSets /\ clock + interval + MaxDispatch <= MaxClock
  /\ rowOf' = [rowOf EXCEPT ![i] = [gen |-> gens + 1, fire_at |-> clock + interval,
                                    every |-> every]]
  /\ raced' = IF Held(i) THEN raced \cup {gens + 1} ELSE raced
  /\ gens' = gens + 1 /\ wake' = TRUE
  /\ UNCHANGED <<wheel, clock, fires, lost, gone, tcrashes, dels>>

\* del().
DelTimer(i) ==
  /\ dels < MaxDels /\ rowOf[i] # NoTimer /\ dels' = dels + 1
  /\ rowOf' = [rowOf EXCEPT ![i] = NoTimer] /\ wake' = TRUE
  /\ gone' = gone \cup {rowOf[i].gen}
  /\ raced' = IF Held(i) THEN raced \cup {rowOf[i].gen} ELSE raced
  /\ UNCHANGED <<wheel, clock, fires, lost, gens, tcrashes>>

\* dispatch(at) begins: load() copies every row.
Load ==
  /\ wheel.pc = "load"
  /\ wheel' = [pc |-> "fire", at |-> clock, next |-> clock + MAX_SLEEP,
               copy |-> [i \in {j \in TimerId : rowOf[j] # NoTimer} |-> rowOf[i]]]
  /\ UNCHANGED <<rowOf, wake, clock, fires, lost, gone, raced, gens, tcrashes, dels>>

Rest(i) == [j \in DOMAIN wheel.copy \ {i} |-> wheel.copy[j]]

\* A row of another generation that the wheel overwrites or deletes is lost.
Overwritten(i) ==
  LET g == rowOf[i].gen IN IF g # 0 /\ g # wheel.copy[i].gen THEN lost \cup {g} ELSE lost

\* A record that is not due only bounds the sleep.
NotDue(i) ==
  /\ wheel.pc = "fire" /\ i \in DOMAIN wheel.copy /\ wheel.copy[i].fire_at > wheel.at
  /\ wheel' = [wheel EXCEPT !.next = Min({@, wheel.copy[i].fire_at}), !.copy = Rest(i)]
  /\ UNCHANGED <<rowOf, wake, clock, fires, lost, gone, raced, gens, tcrashes, dels>>

\* A due one fires: its envelope is emitted.
FireTimer(i) ==
  /\ wheel.pc = "fire" /\ i \in DOMAIN wheel.copy /\ wheel.copy[i].fire_at <= wheel.at
  /\ fires' = [fires EXCEPT ![wheel.copy[i].gen] = @ + 1]
  /\ wheel' = [wheel EXCEPT !.pc = i]
  /\ UNCHANGED <<rowOf, wake, clock, lost, gone, raced, gens, tcrashes, dels>>

\* reschedule(): a repeating timer is written back with its next time.
Reschedule(i) ==
  /\ wheel.pc = i /\ wheel.copy[i].every > 0
  /\ LET t == [wheel.copy[i] EXCEPT !.fire_at = wheel.at + wheel.copy[i].every] IN
       /\ rowOf' = [rowOf EXCEPT ![i] = t] /\ lost' = Overwritten(i)
       /\ wheel' = [wheel EXCEPT !.pc = "fire", !.copy = Rest(i), !.next = Min({@, t.fire_at})]
  /\ UNCHANGED <<wake, clock, fires, gone, raced, gens, tcrashes, dels>>

\* A one-shot timer is deleted, which wakes the wheel once more.
OneShot(i) ==
  /\ wheel.pc = i /\ wheel.copy[i].every = 0
  /\ rowOf' = [rowOf EXCEPT ![i] = NoTimer] /\ lost' = Overwritten(i) /\ wake' = TRUE
  /\ wheel' = [wheel EXCEPT !.pc = "fire", !.copy = Rest(i)]
  /\ UNCHANGED <<clock, fires, gone, raced, gens, tcrashes, dels>>

\* Mutant: the wheel sleeps as long as it may.
SleepFull ==
  /\ wheel.pc = "fire" /\ DOMAIN wheel.copy = {}
  /\ wheel' = Asleep(clock + MAX_SLEEP, clock - wheel.at)
  /\ UNCHANGED <<rowOf, wake, clock, fires, lost, gone, raced, gens, tcrashes, dels>>

\* dispatch() returns how long to sleep: until the next timer, at least 1.
Sleep ==
  /\ wheel.pc = "fire" /\ DOMAIN wheel.copy = {}
  /\ wheel' = Asleep(clock + Max({1, wheel.next - wheel.at}), clock - wheel.at)
  /\ UNCHANGED <<rowOf, wake, clock, fires, lost, gone, raced, gens, tcrashes, dels>>


\* The sleep ends or somebody woke the wheel.
WakeUp ==
  /\ wheel.pc = "sleep" /\ (wake \/ clock >= wheel.next)
  /\ \/ wake /\ wake' = FALSE
     \/ clock >= wheel.next /\ UNCHANGED wake
  /\ wheel' = [wheel EXCEPT !.pc = "load", !.at = clock]
  /\ UNCHANGED <<rowOf, clock, fires, lost, gone, raced, gens, tcrashes, dels>>

\* base restarts: the rows are still there, and the wheel loads them.
TimersRestart ==
  /\ tcrashes < MaxTimerCrash /\ tcrashes' = tcrashes + 1
  /\ wheel' = [Asleep(0, clock) EXCEPT !.pc = "load"] /\ wake' = FALSE
  /\ UNCHANGED <<rowOf, clock, fires, lost, gone, raced, gens, dels>>

TickClock ==
  /\ clock < MaxClock /\ (wheel.pc # "sleep" => clock < wheel.at + MaxDispatch)
  /\ clock' = clock + 1
  /\ UNCHANGED <<rowOf, wheel, wake, fires, lost, gone, raced, gens, tcrashes, dels>>

WheelStep ==
  \/ Load \/ Sleep \/ WakeUp
  \/ \E i \in TimerId : NotDue(i) \/ FireTimer(i) \/ Reschedule(i) \/ OneShot(i)

TimersNext ==
  \/ \E i \in TimerId : DelTimer(i) \/ \E n, e \in Intervals : SetTimer(i, n, e)
  \/ WheelStep \/ TimersRestart \/ TickClock

TimersSpec == TimersInit /\ [][TimersNext]_timerVars

\* The wheel's task runs and the clock goes on.
TimersFairness ==
  /\ WF_timerVars(focus = "timers" /\ WheelStep)
  /\ WF_timerVars(focus = "timers" /\ TickClock)

---------------------------------------------------------------------------
\* A sleeping wheel has missed nothing: it is woken, or no timer is due before
\* the sleep ends by more than the dispatch before it took.
SleepCoversTimers ==
  wheel.pc = "sleep" /\ ~wake =>
    \A i \in TimerId : rowOf[i] # NoTimer => rowOf[i].fire_at + wheel.at >= wheel.next

\* A timer is only lost, and a deleted one only comes back, when it was set or
\* deleted while the wheel was about to write back an older record of its id.
LossesAreRaces == lost \subseteq raced /\ {rowOf[i].gen : i \in TimerId} \cap gone \subseteq raced

\* A timer that does not repeat fires once, and once more for each restart
\* between its firing and its deletion.
OneShotOnce ==
  \A i \in TimerId : rowOf[i] # NoTimer /\ rowOf[i].every = 0 =>
    fires[rowOf[i].gen] <= tcrashes + (IF wheel.pc = i THEN 1 ELSE 0)

\* All three: a timer fires when it is due, and a one-shot timer once.
TimersAreExact == SleepCoversTimers /\ LossesAreRaces /\ OneShotOnce

\* Every timer set fires, unless its row goes before that.
TimerFires ==
  <>[](\A i \in TimerId : rowOf[i] # NoTimer => fires[rowOf[i].gen] > 0)

=============================================================================
