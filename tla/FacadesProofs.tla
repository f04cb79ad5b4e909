--------------------------- MODULE FacadesProofs ----------------------------
(***************************************************************************)
(* Proofs about the facades of base: the timer service, the trigger        *)
(* engine, the ingress routes, the account limiter and the agent's run,    *)
(* and what vets an envelope, the filters and the secrets; for any names,  *)
(* apps, quotas, limits, patterns and bounds.                              *)
(***************************************************************************)
EXTENDS Timers, Triggers, Ingress, CliAgent, Secrets, FiniteSetTheorems, SequenceTheorems,
        WellFoundedInduction, TLAPS

-----------------------------------------------------------------------------
(***************************************************************************)
(* Proofs about the timer service: for any timers, intervals, dispatch     *)
(* times, deletions and restarts, a sleeping wheel has missed nothing, a   *)
(* timer is lost only in the known race, and a one-shot timer fires once.  *)
(***************************************************************************)

TimerRow == [gen : Gen, fire_at : Nat, every : Nat]
Copies == UNION {[S -> TimerRow] : S \in SUBSET TimerId}
Phases == {"load", "fire", "sleep"}

\* The wheel at work has a due record in hand, and no record when it is not
\* at work.
TimersTyped ==
  /\ rowOf \in [TimerId -> TimerRow \cup {NoTimer}]
  /\ wheel \in [pc : TimerId \cup Phases, at : Nat, copy : Copies, next : Nat]
  /\ wake \in BOOLEAN /\ clock \in Nat /\ fires \in [Gen -> Nat]
  /\ gens \in 0 .. MaxSets /\ tcrashes \in Nat
  /\ wheel.pc \in TimerId => Held(wheel.pc)
  /\ wheel.pc \in {"load", "sleep"} => DOMAIN wheel.copy = {}
  /\ wheel.pc # "sleep" => wheel.at <= clock

\* A generation is of one id, wherever its record is.
GensAreOwn ==
  /\ \A g \in Gen : g > gens => fires[g] = 0
  /\ gone \subseteq 1 .. gens
  /\ \A i \in TimerId : rowOf[i].gen <= gens
  /\ \A i \in DOMAIN wheel.copy : wheel.copy[i].gen <= gens
  /\ \A i, j \in TimerId : rowOf[i].gen = rowOf[j].gen /\ rowOf[i].gen # 0 => i = j
  /\ \A i \in DOMAIN wheel.copy, j \in TimerId : wheel.copy[i].gen = rowOf[j].gen => i = j
  /\ \A i, j \in DOMAIN wheel.copy : wheel.copy[i].gen = wheel.copy[j].gen => i = j

\* What the wheel will overwrite, or bring back, was set or deleted while it
\* held the record.
HeldIsRaced ==
  \A i \in DOMAIN wheel.copy : Held(i) =>
    /\ rowOf[i].gen \in {0, wheel.copy[i].gen} \cup raced
    /\ wheel.copy[i].gen \in gone => wheel.copy[i].gen \in raced

\* The wheel at work, unless it was woken: what it has seen is due no earlier
\* than it will sleep to, and what it has still to see is as it was.
DispatchCovers ==
  wheel.pc \in TimerId \cup {"fire"} =>
    /\ wheel.next > wheel.at
    /\ ~wake => \A i \in TimerId :
         IF i \in DOMAIN wheel.copy THEN rowOf[i] = wheel.copy[i]
         ELSE rowOf[i] = NoTimer \/ rowOf[i].fire_at >= wheel.next

TimersInv ==
  TimersTyped /\ GensAreOwn /\ HeldIsRaced /\ DispatchCovers /\ TimersAreExact

---------------------------------------------------------------------------
(* Records, copies and bounds.                                             *)

\* A row is a timer of some generation, or none.
LEMMA RowIs ==
  ASSUME NEW r \in TimerRow \cup {NoTimer}
  PROVE  /\ r.gen \in Nat /\ r.fire_at \in Nat /\ r.every \in Nat
         /\ r = NoTimer <=> r.gen = 0
         /\ r # NoTimer => r.gen \in Gen
<1>1. NoTimer.gen = 0 /\ NoTimer.fire_at = 0 /\ NoTimer.every = 0
  BY DEF NoTimer
<1>2. ASSUME r \in TimerRow PROVE r.gen \in Gen /\ r.fire_at \in Nat /\ r.every \in Nat
  BY <1>2 DEF TimerRow
<1>3. \A g \in Gen : g \in Nat /\ g # 0
  BY TimersAssumption DEF Gen
<1> QED
  BY <1>1, <1>2, <1>3

\* The wheel's copy is of some ids (load()).
LEMMA CopyIs ==
  ASSUME NEW c \in Copies
  PROVE  /\ DOMAIN c \subseteq TimerId
         /\ \A i \in DOMAIN c : c[i] \in TimerRow /\ c[i] # NoTimer /\ c[i].gen \in Gen
                                /\ c[i].gen \in Nat /\ c[i].gen # 0
                                /\ c[i].fire_at \in Nat /\ c[i].every \in Nat
<1>1. PICK S \in SUBSET TimerId : c \in [S -> TimerRow]
  BY DEF Copies
<1>2. ASSUME NEW i \in DOMAIN c
      PROVE  /\ c[i] \in TimerRow /\ c[i].gen \in Gen /\ c[i].fire_at \in Nat /\ c[i].every \in Nat
             /\ c[i].gen \in Nat /\ c[i].gen # 0
    <2>1. c[i] \in TimerRow
      BY <1>1, <1>2
    <2>2. c[i].gen \in Gen /\ c[i].fire_at \in Nat /\ c[i].every \in Nat
      BY <2>1 DEF TimerRow
    <2> QED
      BY <2>1, <2>2, TimersAssumption DEF Gen
<1>3. ASSUME NEW i \in DOMAIN c PROVE c[i] # NoTimer
  <2>1. NoTimer.gen = 0
    BY DEF NoTimer
  <2> QED
    BY <1>2, <1>3, <2>1
<1> QED
  BY <1>1, <1>2, <1>3

\* The copy without the record the wheel is done with.
LEMMA RestIs ==
  ASSUME TimersTyped, NEW i
  PROVE  /\ Rest(i) \in Copies /\ DOMAIN Rest(i) = DOMAIN wheel.copy \ {i}
         /\ \A j \in DOMAIN Rest(i) : Rest(i)[j] = wheel.copy[j]
<1>1. PICK c \in Copies : c = wheel.copy
  BY DEF TimersTyped
<1>2. PICK S : S = DOMAIN c \ {i}
  OBVIOUS
<1>3. PICK d : d = [j \in S |-> c[j]]
  OBVIOUS
<1>4. S \in SUBSET TimerId /\ d \in [S -> TimerRow]
  BY <1>2, <1>3, CopyIs
<1>5. d \in Copies /\ DOMAIN d = S /\ \A j \in S : d[j] = c[j]
  BY <1>3, <1>4 DEF Copies
<1>6. Rest(i) = d
  BY <1>1, <1>2, <1>3 DEF Rest
<1> QED
  BY <1>1, <1>2, <1>5, <1>6

\* The smaller and the larger of two numbers.
LEMMA MinMaxIs ==
  ASSUME NEW a \in Int, NEW b \in Int
  PROVE  /\ Min({a, b}) \in {a, b} /\ Min({a, b}) <= a /\ Min({a, b}) <= b
         /\ Max({a, b}) \in {a, b} /\ Max({a, b}) >= a /\ Max({a, b}) >= b
<1>1. \E x \in {a, b} : \A y \in {a, b} : x =< y
  <2>1. a <= b \/ b <= a
    OBVIOUS
  <2> QED
    BY <2>1
<1>2. \E x \in {a, b} : \A y \in {a, b} : x >= y
  <2>1. a <= b \/ b <= a
    OBVIOUS
  <2> QED
    BY <2>1
<1>3. Min({a, b}) \in {a, b} /\ \A y \in {a, b} : Min({a, b}) =< y
  BY <1>1 DEF Min
<1>4. Max({a, b}) \in {a, b} /\ \A y \in {a, b} : Max({a, b}) >= y
  BY <1>2 DEF Max
<1> QED
  BY <1>3, <1>4

\* The fields of the wheel and of the rows.
LEMMA TimersAre ==
  ASSUME TimersInv
  PROVE  /\ wheel.pc \in TimerId \cup Phases /\ wheel.at \in Nat /\ wheel.next \in Nat
         /\ wheel.copy \in Copies /\ DOMAIN wheel.copy \subseteq TimerId
         /\ clock \in Nat /\ gens \in Nat /\ gens <= MaxSets /\ tcrashes \in Nat
         /\ rowOf \in [TimerId -> TimerRow \cup {NoTimer}]
         /\ \A i \in TimerId : /\ rowOf[i].gen \in Nat /\ rowOf[i].fire_at \in Nat
                               /\ rowOf[i].every \in Nat
                               /\ rowOf[i] = NoTimer <=> rowOf[i].gen = 0
                               /\ rowOf[i].gen # 0 => rowOf[i].gen \in Gen
<1>1. TimersTyped
  BY DEF TimersInv
<1>2. /\ wheel.pc \in TimerId \cup Phases /\ wheel.at \in Nat /\ wheel.next \in Nat
      /\ wheel.copy \in Copies
  BY <1>1 DEF TimersTyped
<1>3. /\ clock \in Nat /\ gens \in Nat /\ gens <= MaxSets /\ tcrashes \in Nat
      /\ rowOf \in [TimerId -> TimerRow \cup {NoTimer}]
  BY <1>1, TimersAssumption DEF TimersTyped
<1>4. DOMAIN wheel.copy \subseteq TimerId
  BY <1>2, CopyIs
<1>5. ASSUME NEW i \in TimerId
      PROVE  /\ rowOf[i].gen \in Nat /\ rowOf[i].fire_at \in Nat /\ rowOf[i].every \in Nat
             /\ rowOf[i] = NoTimer <=> rowOf[i].gen = 0
             /\ rowOf[i].gen # 0 => rowOf[i].gen \in Gen
  <2>1. PICK r \in TimerRow \cup {NoTimer} : r = rowOf[i]
    BY <1>3
  <2> QED
    BY <2>1, RowIs
<1> QED
  BY <1>2, <1>3, <1>4, <1>5

---------------------------------------------------------------------------
(* The callers.                                                            *)

\* set(): the new timer is of a fresh generation, and the wheel is woken.
LEMMA SetKeeps ==
  ASSUME TimersInv, NEW i \in TimerId, NEW n \in Intervals, NEW e \in Intervals, SetTimer(i, n, e)
  PROVE  TimersInv'
<1> USE TimersAre DEF TimersInv
<1>1. PICK d \in Nat \ {0} : d = gens + 1
  OBVIOUS
<1>2. PICK r \in TimerRow : r = [gen |-> d, fire_at |-> clock + n, every |-> e]
  <2>1. d \in Gen
    BY <1>1, TimersAssumption DEF SetTimer, Gen
  <2>2. clock + n \in Nat /\ e \in Nat
    BY TimersAssumption
  <2> QED
    BY <2>1, <2>2 DEF TimerRow
<1>3. /\ rowOf' = [rowOf EXCEPT ![i] = r] /\ wheel' = wheel /\ wake' = TRUE /\ gens' = d
      /\ clock' = clock /\ fires' = fires /\ lost' = lost /\ gone' = gone /\ tcrashes' = tcrashes
      /\ raced \subseteq raced' /\ (Held(i) => d \in raced') /\ gens < MaxSets
  BY <1>1, <1>2 DEF SetTimer
<1>4. r.gen = d /\ d \in Gen /\ d > gens /\ d \notin gone /\ fires[d] = 0
  <2>1. r.gen = d /\ d > gens
    BY <1>1, <1>2
  <2>2. d \in Gen
    BY <1>1, <1>3, TimersAssumption DEF Gen
  <2> QED
    BY <2>1, <2>2 DEF GensAreOwn
<1>5. rowOf'[i] = r /\ \A j \in TimerId \ {i} : rowOf'[j] = rowOf[j]
  BY <1>3
<1>6. TimersTyped'
  <2>1. rowOf' \in [TimerId -> TimerRow \cup {NoTimer}]
    BY <1>2, <1>3
  <2>2. gens' \in 0 .. MaxSets
    BY <1>1, <1>3, TimersAssumption
  <2>3. wheel.pc \in TimerId => Held(wheel.pc)'
    BY <1>3 DEF TimersTyped, Held
  <2> QED
    BY <1>3, <2>1, <2>2, <2>3 DEF TimersTyped
<1>7. GensAreOwn'
  <2>1. ASSUME NEW g \in Gen, g > d PROVE fires[g] = 0
    BY <1>1, <2>1, TimersAssumption DEF GensAreOwn, Gen
  <2>2. gone \subseteq 1 .. d
    BY <1>1 DEF GensAreOwn
  <2>3. ASSUME NEW j \in TimerId PROVE rowOf'[j].gen <= d /\ (j # i => rowOf'[j].gen # d)
    BY <1>1, <1>4, <1>5 DEF GensAreOwn
  <2>4. ASSUME NEW j \in DOMAIN wheel.copy PROVE wheel.copy[j].gen <= d /\ wheel.copy[j].gen # d
    BY <1>1, CopyIs DEF GensAreOwn
  <2>5. ASSUME NEW j \in TimerId, NEW k \in TimerId,
               rowOf'[j].gen = rowOf'[k].gen, rowOf'[j].gen # 0
        PROVE  j = k
    BY <1>4, <1>5, <2>3, <2>5 DEF GensAreOwn
  <2>6. ASSUME NEW j \in DOMAIN wheel.copy, NEW k \in TimerId, wheel.copy[j].gen = rowOf'[k].gen
        PROVE  j = k
    BY <1>4, <1>5, <2>4, <2>6 DEF GensAreOwn
  <2> QED
    BY <1>3, <2>1, <2>2, <2>3, <2>4, <2>5, <2>6 DEF GensAreOwn
<1>8. HeldIsRaced'
  BY <1>3, <1>4, <1>5 DEF HeldIsRaced, Held
<1>9. DispatchCovers' /\ SleepCoversTimers'
  BY <1>3 DEF DispatchCovers, SleepCoversTimers
<1>10. LossesAreRaces'
  BY <1>3, <1>4, <1>5 DEF TimersAreExact, LossesAreRaces
<1>11. OneShotOnce'
  <2>1. ASSUME NEW j \in TimerId, rowOf'[j] # NoTimer, rowOf'[j].every = 0
        PROVE  fires[rowOf'[j].gen] <= tcrashes + (IF wheel.pc = j THEN 1 ELSE 0)
    <3>1. CASE j = i
      BY <1>4, <1>5, <3>1
    <3>2. CASE j # i
      BY <1>5, <2>1, <3>2 DEF TimersAreExact, OneShotOnce
    <3> QED
      BY <3>1, <3>2
  <2> QED
    BY <1>3, <2>1 DEF OneShotOnce
<1> QED
  BY <1>6, <1>7, <1>8, <1>9, <1>10, <1>11 DEF TimersAreExact

\* del(): the row goes, and the wheel is woken.
LEMMA DelKeeps ==
  ASSUME TimersInv, NEW i \in TimerId, DelTimer(i)
  PROVE  TimersInv'
<1> USE TimersAre DEF TimersInv
<1>1. PICK d : d = rowOf[i].gen
  OBVIOUS
<1>2. /\ rowOf' = [rowOf EXCEPT ![i] = NoTimer] /\ wheel' = wheel /\ wake' = TRUE /\ gens' = gens
      /\ clock' = clock /\ fires' = fires /\ lost' = lost /\ gone' = gone \cup {d}
      /\ tcrashes' = tcrashes
      /\ raced \subseteq raced' /\ (Held(i) => d \in raced') /\ rowOf[i] # NoTimer
  BY <1>1 DEF DelTimer
<1>3. d \in 1 .. gens /\ d # 0
  BY <1>1, <1>2 DEF GensAreOwn
<1>4. rowOf'[i] = NoTimer /\ NoTimer.gen = 0 /\ \A j \in TimerId \ {i} : rowOf'[j] = rowOf[j]
  BY <1>2 DEF NoTimer
<1>5. \A j \in TimerId \ {i} : rowOf[j].gen # d
  BY <1>1, <1>3 DEF GensAreOwn
<1>6. \A j \in DOMAIN wheel.copy : wheel.copy[j].gen = d => j = i
  BY <1>1 DEF GensAreOwn
<1>7. TimersTyped'
  <2>1. rowOf' \in [TimerId -> TimerRow \cup {NoTimer}]
    BY <1>2
  <2>2. wheel.pc \in TimerId => Held(wheel.pc)'
    BY <1>2 DEF TimersTyped, Held
  <2> QED
    BY <1>2, <2>1, <2>2 DEF TimersTyped
<1>8. GensAreOwn'
  <2>1. \A j \in DOMAIN wheel.copy : wheel.copy[j].gen # 0
    BY CopyIs
  <2>2. \A j \in TimerId : rowOf'[j].gen <= gens
    BY <1>4 DEF GensAreOwn
  <2>3. \A j, k \in TimerId : rowOf'[j].gen = rowOf'[k].gen /\ rowOf'[j].gen # 0 => j = k
    BY <1>4 DEF GensAreOwn
  <2>4. \A j \in DOMAIN wheel.copy, k \in TimerId : wheel.copy[j].gen = rowOf'[k].gen => j = k
    BY <1>4, <2>1 DEF GensAreOwn
  <2> QED
    BY <1>2, <1>3, <2>2, <2>3, <2>4 DEF GensAreOwn
<1>9. HeldIsRaced'
  BY <1>2, <1>4, <1>6 DEF HeldIsRaced, Held
<1>10. DispatchCovers' /\ SleepCoversTimers'
  BY <1>2 DEF DispatchCovers, SleepCoversTimers
<1>11. LossesAreRaces'
  <2>1. ASSUME NEW j \in TimerId, rowOf'[j].gen \in gone \cup {d} PROVE rowOf'[j].gen \in raced
    <3>1. CASE j = i
      BY <1>3, <1>4, <2>1, <3>1 DEF GensAreOwn
    <3>2. CASE j # i
      BY <1>4, <1>5, <2>1, <3>2 DEF TimersAreExact, LossesAreRaces
    <3> QED
      BY <3>1, <3>2
  <2> QED
    BY <1>2, <2>1 DEF TimersAreExact, LossesAreRaces
<1>12. OneShotOnce'
  BY <1>2, <1>4 DEF TimersAreExact, OneShotOnce
<1> QED
  BY <1>7, <1>8, <1>9, <1>10, <1>11, <1>12 DEF TimersAreExact

---------------------------------------------------------------------------
(* The wheel.                                                              *)

\* Phases are not ids.
LEMMA PhasesAreNoIds == \A i \in TimerId : i # "load" /\ i # "fire" /\ i # "sleep"
BY TimersAssumption

\* load(): the copy is the table.
LEMMA LoadKeeps == ASSUME TimersInv, Load PROVE TimersInv'
<1> USE TimersAre DEF TimersInv
<1>1. PICK S : S = {j \in TimerId : rowOf[j] # NoTimer}
  OBVIOUS
<1>2. PICK c : c = [i \in S |-> rowOf[i]]
  OBVIOUS
<1>3. S \in SUBSET TimerId /\ c \in [S -> TimerRow]
  BY <1>1, <1>2
<1>4. c \in Copies /\ DOMAIN c = S /\ \A i \in S : c[i] = rowOf[i]
  BY <1>2, <1>3 DEF Copies
<1>5. PICK n \in Nat : n = clock + MAX_SLEEP
  BY TimersAssumption
<1>6. n > clock
  BY <1>5, TimersAssumption
<1>7. wheel' = [pc |-> "fire", at |-> clock, next |-> n, copy |-> c]
  BY <1>1, <1>2, <1>5 DEF Load
<1>8. wheel'.pc = "fire" /\ wheel'.at = clock /\ wheel'.next = n /\ wheel'.copy = c
  BY <1>7
<1>9. /\ UNCHANGED <<rowOf, wake, clock, fires, lost, gone, raced, gens, tcrashes>>
      /\ wheel.pc = "load"
  BY DEF Load
<1>10. TimersTyped'
  <2>1. wheel' \in [pc : TimerId \cup Phases, at : Nat, copy : Copies, next : Nat]
    BY <1>4, <1>7 DEF Phases
  <2> QED
    BY <1>8, <1>9, <2>1, PhasesAreNoIds DEF TimersTyped
<1>11. GensAreOwn'
  <2>1. \A i \in S : c[i].gen <= gens /\ c[i].gen # 0
    BY <1>1, <1>4 DEF GensAreOwn
  <2>2. \A i \in S, j \in TimerId : c[i].gen = rowOf[j].gen => i = j
    BY <1>1, <1>4, <2>1 DEF GensAreOwn
  <2>3. \A i \in S, j \in S : c[i].gen = c[j].gen => i = j
    BY <1>1, <1>4, <2>1 DEF GensAreOwn
  <2> QED
    BY <1>4, <1>8, <1>9, <2>1, <2>2, <2>3 DEF GensAreOwn
<1>12. HeldIsRaced'
  <2>1. \A i \in S : c[i].gen = rowOf[i].gen /\ (c[i].gen \in gone => c[i].gen \in raced)
    BY <1>1, <1>4 DEF TimersAreExact, LossesAreRaces
  <2> QED
    BY <1>4, <1>8, <1>9, <2>1 DEF HeldIsRaced
<1>13. DispatchCovers'
  <2>1. \A i \in TimerId : IF i \in S THEN rowOf[i] = c[i] ELSE rowOf[i] = NoTimer
    BY <1>1, <1>4
  <2> QED
    BY <1>4, <1>6, <1>8, <1>9, <2>1 DEF DispatchCovers
<1>14. SleepCoversTimers' /\ LossesAreRaces'
  BY <1>8, <1>9 DEF SleepCoversTimers, TimersAreExact, LossesAreRaces
<1>15. OneShotOnce'
  BY <1>8, <1>9, PhasesAreNoIds DEF OneShotOnce, TimersAreExact
<1> QED
  BY <1>10, <1>11, <1>12, <1>13, <1>14, <1>15 DEF TimersAreExact

\* The wheel is done with the record of i: it has n to sleep to.
Passes(i, n) ==
  /\ wheel' = [wheel EXCEPT !.pc = "fire", !.copy = Rest(i), !.next = n]
  /\ UNCHANGED <<clock, fires, gone, raced, gens, tcrashes>>

\* What passing a record keeps, whatever becomes of its row.
LEMMA PassKeeps ==
  ASSUME TimersInv, NEW i \in DOMAIN wheel.copy, NEW n \in Nat, Passes(i, n),
         wheel.pc \in TimerId \cup {"fire"},
         NEW r \in TimerRow \cup {NoTimer}, rowOf' = [rowOf EXCEPT ![i] = r],
         r.gen \in {0, wheel.copy[i].gen, rowOf[i].gen}, wake' \in BOOLEAN
  PROVE  /\ TimersTyped' /\ GensAreOwn' /\ HeldIsRaced'
         /\ wheel'.pc = "fire" /\ wheel'.at = wheel.at /\ wheel'.next = n
         /\ DOMAIN wheel'.copy = DOMAIN wheel.copy \ {i}
         /\ \A j \in DOMAIN wheel'.copy : wheel'.copy[j] = wheel.copy[j]
         /\ rowOf'[i] = r /\ \A j \in TimerId \ {i} : rowOf'[j] = rowOf[j]
<1> USE TimersAre DEF TimersInv
<1>1. PICK c \in Copies : c = Rest(i)
  BY RestIs
<1>2. DOMAIN c = DOMAIN wheel.copy \ {i} /\ \A j \in DOMAIN c : c[j] = wheel.copy[j]
  BY <1>1, RestIs
<1>3. wheel' = [pc |-> "fire", at |-> wheel.at, copy |-> c, next |-> n]
  BY <1>1 DEF Passes, TimersTyped
<1>4. wheel'.pc = "fire" /\ wheel'.at = wheel.at /\ wheel'.next = n /\ wheel'.copy = c
  BY <1>3
<1>5. i \in TimerId /\ rowOf'[i] = r /\ \A j \in TimerId \ {i} : rowOf'[j] = rowOf[j]
  OBVIOUS
<1>6. TimersTyped'
  <2>1. wheel' \in [pc : TimerId \cup Phases, at : Nat, copy : Copies, next : Nat]
    BY <1>3 DEF Phases
  <2>2. wheel.at <= clock
    BY PhasesAreNoIds DEF TimersTyped
  <2>3. rowOf' \in [TimerId -> TimerRow \cup {NoTimer}]
    OBVIOUS
  <2> QED
    BY <1>4, <2>1, <2>2, <2>3, PhasesAreNoIds DEF TimersTyped, Passes
<1>7. GensAreOwn'
  <2>1. \A j \in DOMAIN wheel.copy : wheel.copy[j].gen # 0 /\ wheel.copy[j].gen <= gens
    BY CopyIs DEF GensAreOwn
  <2>2. r.gen <= gens
    BY <1>5, <2>1 DEF GensAreOwn
  <2>3. \A j \in TimerId : rowOf'[j].gen <= gens
    BY <1>5, <2>2 DEF GensAreOwn
  <2>4. \A j \in TimerId \ {i} : r.gen # 0 => rowOf[j].gen # r.gen
    BY <1>5 DEF GensAreOwn
  <2>5. \A j \in DOMAIN wheel.copy \ {i} : wheel.copy[j].gen # r.gen
    BY <1>5, <2>1 DEF GensAreOwn
  <2>6. \A j, k \in TimerId : rowOf'[j].gen = rowOf'[k].gen /\ rowOf'[j].gen # 0 => j = k
    BY <1>5, <2>4 DEF GensAreOwn
  <2>7. \A j \in DOMAIN c, k \in TimerId : c[j].gen = rowOf'[k].gen => j = k
    BY <1>2, <1>5, <2>5 DEF GensAreOwn
  <2>8. \A j, k \in DOMAIN c : c[j].gen = c[k].gen => j = k
    BY <1>2 DEF GensAreOwn
  <2> QED
    BY <1>2, <1>4, <2>1, <2>3, <2>6, <2>7, <2>8 DEF GensAreOwn, Passes
<1>8. HeldIsRaced'
  <2>1. ASSUME NEW j \in DOMAIN c, c[j].fire_at <= wheel.at
        PROVE  /\ rowOf'[j].gen \in {0, c[j].gen} \cup raced
               /\ c[j].gen \in gone => c[j].gen \in raced
    <3>1. j \in DOMAIN wheel.copy /\ j # i /\ c[j] = wheel.copy[j] /\ rowOf'[j] = rowOf[j]
      BY <1>2, <1>5
    <3>2. Held(j)
      BY <2>1, <3>1 DEF Held
    <3> QED
      BY <3>1, <3>2 DEF HeldIsRaced
  <2> QED
    BY <1>4, <2>1 DEF HeldIsRaced, Held, Passes
<1> QED
  BY <1>2, <1>4, <1>5, <1>6, <1>7, <1>8

\* A record that is not due bounds the sleep.
LEMMA NotDueKeeps == ASSUME TimersInv, NEW i \in TimerId, NotDue(i) PROVE TimersInv'
<1> USE TimersAre DEF TimersInv
<1>1. PICK t : t = wheel.copy[i].fire_at
  OBVIOUS
<1>2. i \in DOMAIN wheel.copy /\ wheel.pc = "fire" /\ t > wheel.at /\ t \in Nat
  BY <1>1, CopyIs DEF NotDue
<1>3. PICK n : n = Min({wheel.next, t})
  OBVIOUS
<1>4. n \in {wheel.next, t} /\ n <= wheel.next /\ n <= t
  <2>1. wheel.next \in Int /\ t \in Int
    BY <1>2
  <2> HIDE DEF TimersInv
  <2> QED
    BY <1>3, <2>1, MinMaxIs
<1>5. n \in Nat /\ n > wheel.at
  BY <1>2, <1>4 DEF DispatchCovers
<1>6. Passes(i, n) /\ UNCHANGED <<rowOf, wake, lost>>
  BY <1>1, <1>2, <1>3 DEF NotDue, Passes, TimersTyped
<1>7. PICK r \in TimerRow \cup {NoTimer} : r = rowOf[i]
  OBVIOUS
<1>8. rowOf' = [rowOf EXCEPT ![i] = r] /\ wake' \in BOOLEAN
  BY <1>6, <1>7 DEF TimersTyped
<1>9. /\ TimersTyped' /\ GensAreOwn' /\ HeldIsRaced'
      /\ wheel'.pc = "fire" /\ wheel'.at = wheel.at /\ wheel'.next = n
      /\ DOMAIN wheel'.copy = DOMAIN wheel.copy \ {i}
      /\ \A j \in DOMAIN wheel'.copy : wheel'.copy[j] = wheel.copy[j]
  BY <1>2, <1>5, <1>6, <1>7, <1>8, PassKeeps
<1>10. DispatchCovers'
  <2>1. ASSUME ~wake, NEW j \in TimerId
        PROVE  IF j \in DOMAIN wheel'.copy THEN rowOf[j] = wheel'.copy[j]
               ELSE rowOf[j] = NoTimer \/ rowOf[j].fire_at >= n
    <3>1. CASE j = i
      <4>1. rowOf[i] = wheel.copy[i]
        BY <1>2, <2>1 DEF DispatchCovers
      <4> QED
        BY <1>1, <1>4, <1>9, <3>1, <4>1
    <3>2. CASE j # i /\ j \in DOMAIN wheel.copy
      BY <1>2, <1>9, <2>1, <3>2 DEF DispatchCovers
    <3>3. CASE j # i /\ j \notin DOMAIN wheel.copy
      <4>1. rowOf[j] = NoTimer \/ rowOf[j].fire_at >= wheel.next
        BY <1>2, <2>1, <3>3 DEF DispatchCovers
      <4>2. rowOf[j] = NoTimer \/ rowOf[j].fire_at >= n
        BY <1>4, <1>5, <4>1
      <4> QED
        BY <1>9, <3>3, <4>2
    <3> QED
      BY <3>1, <3>2, <3>3
  <2> QED
    BY <1>5, <1>6, <1>9, <2>1 DEF DispatchCovers
<1>11. SleepCoversTimers' /\ LossesAreRaces' /\ OneShotOnce'
  BY <1>2, <1>6, <1>9
  DEF SleepCoversTimers, TimersAreExact, LossesAreRaces, OneShotOnce, Passes
<1> QED
  BY <1>9, <1>10, <1>11 DEF TimersAreExact

\* fire(): the envelope of a due timer goes out.
LEMMA FireKeeps == ASSUME TimersInv, NEW i \in TimerId, FireTimer(i) PROVE TimersInv'
<1> USE TimersAre DEF TimersInv
<1>1. PICK g : g = wheel.copy[i].gen
  OBVIOUS
<1>2. /\ i \in DOMAIN wheel.copy /\ wheel.pc = "fire" /\ Held(i) /\ g \in Gen /\ g \in Nat
      /\ g <= gens
  BY <1>1, CopyIs DEF FireTimer, Held, GensAreOwn
<1>3. fires' = [fires EXCEPT ![g] = fires[g] + 1] /\ fires \in [Gen -> Nat]
  BY <1>1 DEF FireTimer, TimersTyped
<1>4. wheel' = [pc |-> i, at |-> wheel.at, copy |-> wheel.copy, next |-> wheel.next]
  BY DEF FireTimer, TimersTyped
<1>5. wheel'.pc = i /\ wheel'.at = wheel.at /\ wheel'.copy = wheel.copy /\ wheel'.next = wheel.next
  BY <1>4
<1>6. UNCHANGED <<rowOf, wake, clock, lost, gone, raced, gens, tcrashes>>
  BY DEF FireTimer
<1>7. TimersTyped'
  <2>1. wheel' \in [pc : TimerId \cup Phases, at : Nat, copy : Copies, next : Nat]
    BY <1>4
  <2>2. fires' \in [Gen -> Nat]
    BY <1>2, <1>3
  <2>3. Held(i)'
    BY <1>2, <1>5 DEF Held
  <2> QED
    BY <1>2, <1>5, <1>6, <2>1, <2>2, <2>3, PhasesAreNoIds DEF TimersTyped
<1>8. GensAreOwn'
  <2>1. \A x \in Gen : x > gens => fires'[x] = 0
    BY <1>2, <1>3 DEF GensAreOwn
  <2> QED
    BY <1>5, <1>6, <2>1 DEF GensAreOwn
<1>9. HeldIsRaced' /\ DispatchCovers'
  BY <1>2, <1>5, <1>6 DEF HeldIsRaced, Held, DispatchCovers
<1>10. SleepCoversTimers' /\ LossesAreRaces'
  BY <1>5, <1>6, PhasesAreNoIds DEF SleepCoversTimers, TimersAreExact, LossesAreRaces
<1>11. OneShotOnce'
  <2>1. ASSUME NEW j \in TimerId, rowOf[j] # NoTimer, rowOf[j].every = 0
        PROVE  fires'[rowOf[j].gen] <= tcrashes + (IF i = j THEN 1 ELSE 0)
    <3>1. PICK x \in Gen : x = rowOf[j].gen
      BY <2>1
    <3>2. fires[x] <= tcrashes /\ fires[x] \in Nat
      BY <1>2, <1>3, <2>1, <3>1, PhasesAreNoIds DEF TimersAreExact, OneShotOnce
    <3>3. CASE x = g
      <4>1. i = j
        BY <1>1, <1>2, <3>1, <3>3 DEF GensAreOwn
      <4>2. fires'[x] = fires[x] + 1
        BY <1>3, <3>3
      <4> QED
        BY <3>1, <3>2, <4>1, <4>2
    <3>4. CASE x # g
      <4>1. fires'[x] = fires[x]
        BY <1>3, <3>4
      <4> QED
        BY <3>1, <3>2, <4>1
    <3> QED
      BY <3>3, <3>4
  <2> QED
    BY <1>5, <1>6, <2>1 DEF OneShotOnce
<1> QED
  BY <1>7, <1>8, <1>9, <1>10, <1>11 DEF TimersAreExact

\* The row that is overwritten belongs to a timer of the race.
LEMMA OverwrittenIsRaced ==
  ASSUME TimersInv, NEW i \in DOMAIN wheel.copy, Held(i)
  PROVE  Overwritten(i) \subseteq raced
BY DEF TimersInv, Overwritten, HeldIsRaced, TimersAreExact, LossesAreRaces

\* reschedule(): a repeating timer is written back with its next time.
LEMMA RescheduleKeeps == ASSUME TimersInv, NEW i \in TimerId, Reschedule(i) PROVE TimersInv'
<1> USE TimersAre DEF TimersInv
<1>1. wheel.pc = i /\ Held(i) /\ i \in DOMAIN wheel.copy
  BY DEF Reschedule, TimersTyped, Held
<1>2. PICK q \in TimerRow : q = wheel.copy[i]
  BY <1>1, CopyIs
<1>3. q.gen \in Gen /\ q.fire_at \in Nat /\ q.every \in Nat /\ q.every > 0
  BY <1>2 DEF TimerRow, Reschedule
<1>4. PICK t \in Nat : t = wheel.at + q.every
  BY <1>3
<1>5. PICK r : r = [q EXCEPT !.fire_at = t]
  OBVIOUS
<1>6. r \in TimerRow /\ r.gen = q.gen /\ r.fire_at = t /\ r.every = q.every
  BY <1>5 DEF TimerRow
<1>7. PICK n : n = Min({wheel.next, t})
  OBVIOUS
<1>8. n \in {wheel.next, t} /\ n <= wheel.next /\ n <= t
  <2>1. wheel.next \in Int /\ t \in Int
    OBVIOUS
  <2> HIDE DEF TimersInv
  <2> QED
    BY <1>7, <2>1, MinMaxIs
<1>9. n \in Nat /\ n > wheel.at
  BY <1>1, <1>3, <1>4, <1>8 DEF DispatchCovers
<1>10. /\ rowOf' = [rowOf EXCEPT ![i] = r] /\ lost' = Overwritten(i)
       /\ wheel' = [wheel EXCEPT !.pc = "fire", !.copy = Rest(i), !.next = n]
       /\ wake' = wake
  BY <1>2, <1>4, <1>5, <1>6, <1>7 DEF Reschedule
<1>11. Passes(i, n)
  BY <1>10 DEF Reschedule, Passes
<1>12. r.gen \in {0, wheel.copy[i].gen, rowOf[i].gen} /\ wake' \in BOOLEAN
  BY <1>2, <1>6, <1>10 DEF TimersTyped
<1>13. /\ TimersTyped' /\ GensAreOwn' /\ HeldIsRaced'
       /\ wheel'.pc = "fire" /\ wheel'.at = wheel.at /\ wheel'.next = n
       /\ DOMAIN wheel'.copy = DOMAIN wheel.copy \ {i}
       /\ \A j \in DOMAIN wheel'.copy : wheel'.copy[j] = wheel.copy[j]
       /\ rowOf'[i] = r /\ \A j \in TimerId \ {i} : rowOf'[j] = rowOf[j]
  BY <1>1, <1>6, <1>9, <1>10, <1>11, <1>12, PassKeeps
<1>14. DispatchCovers'
  <2>1. ASSUME ~wake, NEW j \in TimerId
        PROVE  IF j \in DOMAIN wheel'.copy THEN rowOf'[j] = wheel'.copy[j]
               ELSE rowOf'[j] = NoTimer \/ rowOf'[j].fire_at >= n
    <3>1. CASE j = i
      BY <1>6, <1>8, <1>9, <1>13, <3>1
    <3>2. CASE j # i /\ j \in DOMAIN wheel.copy
      BY <1>1, <1>13, <2>1, <3>2 DEF DispatchCovers
    <3>3. CASE j # i /\ j \notin DOMAIN wheel.copy
      <4>1. rowOf[j] = NoTimer \/ rowOf[j].fire_at >= wheel.next
        BY <1>1, <2>1, <3>3 DEF DispatchCovers
      <4>2. rowOf[j] = NoTimer \/ rowOf[j].fire_at >= n
        BY <1>8, <1>9, <4>1
      <4> QED
        BY <1>13, <3>3, <4>2
    <3> QED
      BY <3>1, <3>2, <3>3
  <2> QED
    BY <1>9, <1>10, <1>13, <2>1 DEF DispatchCovers
<1>15. LossesAreRaces'
  <2>1. Overwritten(i) \subseteq raced
    BY <1>1, OverwrittenIsRaced
  <2>2. r.gen \in gone => r.gen \in raced
    BY <1>1, <1>2, <1>6 DEF HeldIsRaced
  <2>3. \A j \in TimerId : rowOf'[j].gen \in gone => rowOf'[j].gen \in raced
    BY <1>13, <2>2 DEF TimersAreExact, LossesAreRaces
  <2> QED
    BY <1>10, <1>11, <2>1, <2>3 DEF LossesAreRaces, Passes
<1>16. SleepCoversTimers'
  BY <1>13 DEF SleepCoversTimers
<1>17. OneShotOnce'
  <2>1. ASSUME NEW j \in TimerId, rowOf'[j] # NoTimer, rowOf'[j].every = 0
        PROVE  fires[rowOf'[j].gen] <= tcrashes + (IF "fire" = j THEN 1 ELSE 0)
    <3>1. j # i
      BY <1>3, <1>6, <1>13, <2>1
    <3>2. rowOf'[j] = rowOf[j] /\ wheel.pc # j /\ j # "fire"
      BY <1>1, <1>13, <3>1, PhasesAreNoIds
    <3>3. fires[rowOf[j].gen] <= tcrashes + 0
      BY <2>1, <3>2 DEF TimersAreExact, OneShotOnce
    <3> QED
      BY <3>2, <3>3
  <2> QED
    BY <1>11, <1>13, <2>1 DEF OneShotOnce, Passes
<1> QED
  BY <1>13, <1>14, <1>15, <1>16, <1>17 DEF TimersAreExact

\* A one-shot timer goes, and wakes the wheel.
LEMMA OneShotKeeps == ASSUME TimersInv, NEW i \in TimerId, OneShot(i) PROVE TimersInv'
<1> USE TimersAre DEF TimersInv
<1>1. wheel.pc = i /\ Held(i) /\ i \in DOMAIN wheel.copy
  BY DEF OneShot, TimersTyped, Held
<1>2. PICK n \in Nat : n = wheel.next
  OBVIOUS
<1>3. /\ rowOf' = [rowOf EXCEPT ![i] = NoTimer] /\ lost' = Overwritten(i) /\ wake' = TRUE
      /\ Passes(i, n) /\ NoTimer.gen = 0
  BY <1>2 DEF OneShot, Passes, TimersTyped, NoTimer
<1>4. /\ TimersTyped' /\ GensAreOwn' /\ HeldIsRaced'
      /\ wheel'.pc = "fire" /\ wheel'.at = wheel.at /\ wheel'.next = n
      /\ rowOf'[i] = NoTimer /\ \A j \in TimerId \ {i} : rowOf'[j] = rowOf[j]
  BY <1>1, <1>3, PassKeeps
<1>5. DispatchCovers' /\ SleepCoversTimers'
  BY <1>1, <1>2, <1>3, <1>4 DEF DispatchCovers, SleepCoversTimers
<1>6. LossesAreRaces'
  <2>1. Overwritten(i) \subseteq raced
    BY <1>1, OverwrittenIsRaced
  <2>2. 0 \notin gone
    BY DEF GensAreOwn
  <2>3. \A j \in TimerId : rowOf'[j].gen \in gone => rowOf'[j].gen \in raced
    BY <1>3, <1>4, <2>2 DEF TimersAreExact, LossesAreRaces
  <2> QED
    BY <1>3, <2>1, <2>3 DEF LossesAreRaces, Passes
<1>7. OneShotOnce'
  <2>1. ASSUME NEW j \in TimerId, rowOf'[j] # NoTimer, rowOf'[j].every = 0
        PROVE  fires[rowOf'[j].gen] <= tcrashes + (IF "fire" = j THEN 1 ELSE 0)
    <3>1. j # i
      BY <1>4, <2>1
    <3>2. rowOf'[j] = rowOf[j] /\ wheel.pc # j /\ j # "fire"
      BY <1>1, <1>4, <3>1, PhasesAreNoIds
    <3>3. fires[rowOf[j].gen] <= tcrashes + 0
      BY <2>1, <3>2 DEF TimersAreExact, OneShotOnce
    <3> QED
      BY <3>2, <3>3
  <2> QED
    BY <1>3, <1>4, <2>1 DEF OneShotOnce, Passes
<1> QED
  BY <1>4, <1>5, <1>6, <1>7 DEF TimersAreExact

\* The wheel off its copy, in phase p: nothing it did matters but when it sleeps to.
Rests(p, a, n) ==
  /\ wheel' = [pc |-> p, at |-> a, copy |-> [i \in {} |-> NoTimer], next |-> n]
  /\ UNCHANGED <<rowOf, clock, fires, lost, gone, raced, gens>>

\* What a wheel with no copy keeps.
LEMMA RestKeeps ==
  ASSUME TimersInv, NEW p \in {"load", "sleep"}, NEW a \in Nat, NEW n \in Nat, Rests(p, a, n),
         wake' \in BOOLEAN, tcrashes' \in Nat, p # "sleep" => a <= clock
  PROVE  /\ TimersTyped' /\ GensAreOwn' /\ HeldIsRaced' /\ DispatchCovers' /\ LossesAreRaces'
         /\ wheel'.pc = p /\ wheel'.at = a /\ wheel'.next = n
<1> USE TimersAre DEF TimersInv
<1>1. PICK c : c = [i \in {} |-> NoTimer]
  OBVIOUS
<1>2. DOMAIN c = {} /\ c \in [{} -> TimerRow]
  BY <1>1
<1>3. c \in Copies
  BY <1>2 DEF Copies
<1>4. wheel' = [pc |-> p, at |-> a, copy |-> c, next |-> n]
  BY <1>1 DEF Rests
<1>5. wheel'.pc = p /\ wheel'.at = a /\ wheel'.copy = c /\ wheel'.next = n
  BY <1>4
<1>6. UNCHANGED <<rowOf, clock, fires, lost, gone, raced, gens>>
  BY DEF Rests
<1>7. p \notin TimerId /\ p # "fire"
  BY PhasesAreNoIds
<1>8. TimersTyped'
  <2>1. wheel' \in [pc : TimerId \cup Phases, at : Nat, copy : Copies, next : Nat]
    BY <1>3, <1>4 DEF Phases
  <2> QED
    BY <1>2, <1>5, <1>6, <1>7, <2>1 DEF TimersTyped
<1>9. GensAreOwn' /\ HeldIsRaced'
  BY <1>2, <1>5, <1>6 DEF GensAreOwn, HeldIsRaced
<1>10. DispatchCovers' /\ LossesAreRaces'
  BY <1>5, <1>6, <1>7 DEF DispatchCovers, TimersAreExact, LossesAreRaces
<1> QED
  BY <1>5, <1>8, <1>9, <1>10

\* dispatch() returns: the wheel sleeps no longer than to the next timer.
LEMMA SleepKeeps == ASSUME TimersInv, Sleep PROVE TimersInv'
<1> USE TimersAre DEF TimersInv
<1>1. wheel.pc = "fire" /\ DOMAIN wheel.copy = {} /\ wheel.next > wheel.at /\ wheel.at <= clock
  BY DEF Sleep, DispatchCovers, TimersTyped
<1>2. PICK d \in Int : d = wheel.next - wheel.at
  OBVIOUS
<1>3. d >= 1
  BY <1>1, <1>2
<1>4. Max({1, d}) = d
  <2> HIDE DEF TimersInv
  <2>1. PICK u \in Int : u = 1
    OBVIOUS
  <2>2. Max({u, d}) \in {u, d} /\ Max({u, d}) >= d
    BY MinMaxIs
  <2> QED
    BY <1>3, <2>1, <2>2
<1>5. PICK n \in Nat : n = clock + d
  BY <1>3
<1>6. PICK a \in Nat : a = clock - wheel.at
  BY <1>1
<1>7. Rests("sleep", a, n) /\ UNCHANGED <<wake, tcrashes>>
  BY <1>2, <1>4, <1>5, <1>6 DEF Sleep, Rests, Asleep
<1>8. /\ TimersTyped' /\ GensAreOwn' /\ HeldIsRaced' /\ DispatchCovers' /\ LossesAreRaces'
      /\ wheel'.pc = "sleep" /\ wheel'.at = a /\ wheel'.next = n
  <2>1. wake' \in BOOLEAN /\ tcrashes' \in Nat
    BY <1>7 DEF TimersTyped
  <2> QED
    BY <1>7, <2>1, RestKeeps
<1>9. SleepCoversTimers'
  <2>1. ASSUME ~wake, NEW i \in TimerId, rowOf[i] # NoTimer PROVE rowOf[i].fire_at + a >= n
    <3>1. rowOf[i].fire_at >= wheel.next
      BY <1>1, <2>1 DEF DispatchCovers
    <3> QED
      BY <1>2, <1>5, <1>6, <3>1
  <2> QED
    BY <1>7, <1>8, <2>1 DEF SleepCoversTimers, Rests
<1>10. OneShotOnce'
  BY <1>1, <1>7, <1>8, PhasesAreNoIds DEF TimersAreExact, OneShotOnce, Rests
<1> QED
  BY <1>8, <1>9, <1>10 DEF TimersAreExact

\* The sleep ends, or a caller ends it.
LEMMA WakeUpKeeps == ASSUME TimersInv, WakeUp PROVE TimersInv'
<1> USE TimersAre DEF TimersInv
<1>1. wheel.pc = "sleep" /\ DOMAIN wheel.copy = {}
  BY DEF WakeUp, TimersTyped
<1>2. wake' \in BOOLEAN /\ UNCHANGED <<rowOf, clock, fires, lost, gone, raced, gens, tcrashes>>
  BY DEF WakeUp, TimersTyped
<1>3. wheel' = [pc |-> "load", at |-> clock, copy |-> wheel.copy, next |-> wheel.next]
  BY DEF WakeUp, TimersTyped
<1>4. /\ wheel'.pc = "load" /\ wheel'.at = clock /\ wheel'.copy = wheel.copy
      /\ wheel'.next = wheel.next
  BY <1>3
<1>5. TimersTyped'
  <2>1. wheel' \in [pc : TimerId \cup Phases, at : Nat, copy : Copies, next : Nat]
    BY <1>3 DEF Phases
  <2> QED
    BY <1>1, <1>2, <1>4, <2>1, PhasesAreNoIds DEF TimersTyped
<1>6. GensAreOwn' /\ HeldIsRaced'
  BY <1>1, <1>2, <1>4 DEF GensAreOwn, HeldIsRaced
<1>7. DispatchCovers' /\ SleepCoversTimers'
  BY <1>4, PhasesAreNoIds DEF DispatchCovers, SleepCoversTimers
<1>8. LossesAreRaces' /\ OneShotOnce'
  BY <1>1, <1>2, <1>4, PhasesAreNoIds DEF TimersAreExact, LossesAreRaces, OneShotOnce
<1> QED
  BY <1>5, <1>6, <1>7, <1>8 DEF TimersAreExact

\* A restart loads the rows again: what it had fired may fire once more.
LEMMA RestartKeeps == ASSUME TimersInv, TimersRestart PROVE TimersInv'
<1> USE TimersAre DEF TimersInv
<1>1. Rests("load", clock, 0) /\ wake' = FALSE /\ tcrashes' = tcrashes + 1
  BY DEF TimersRestart, Rests, Asleep
<1>2. /\ TimersTyped' /\ GensAreOwn' /\ HeldIsRaced' /\ DispatchCovers' /\ LossesAreRaces'
      /\ wheel'.pc = "load"
  <2>1. tcrashes' \in Nat
    BY <1>1
  <2>2. wake' \in BOOLEAN
    BY <1>1, Zenon
  <2> QED
    BY <1>1, <2>1, <2>2, RestKeeps
<1>3. SleepCoversTimers'
  BY <1>2 DEF SleepCoversTimers
<1>4. OneShotOnce'
  <2>1. ASSUME NEW i \in TimerId, rowOf[i] # NoTimer, rowOf[i].every = 0
        PROVE  fires[rowOf[i].gen] <= tcrashes + 1
    <3>1. PICK x \in Nat : x = fires[rowOf[i].gen]
      BY <2>1 DEF TimersTyped
    <3>2. x <= tcrashes + 1 \/ x <= tcrashes + 0
      BY <2>1, <3>1 DEF TimersAreExact, OneShotOnce
    <3> QED
      BY <3>1, <3>2
  <2>2. \A i \in TimerId : i # "load"
    BY PhasesAreNoIds
  <2>3. rowOf' = rowOf /\ fires' = fires
    BY <1>1 DEF Rests
  <2>4. tcrashes' + 0 = tcrashes + 1
    BY <1>1
  <2> QED
    BY <1>2, <2>1, <2>2, <2>3, <2>4 DEF OneShotOnce
<1> QED
  BY <1>2, <1>3, <1>4 DEF TimersAreExact

\* The clock goes on.
LEMMA TickKeeps == ASSUME TimersInv, TickClock PROVE TimersInv'
<1> USE TimersAre DEF TimersInv
<1>1. /\ clock' = clock + 1
      /\ UNCHANGED <<rowOf, wheel, wake, fires, lost, gone, raced, gens, tcrashes>>
  BY DEF TickClock
<1>2. TimersTyped'
  BY <1>1 DEF TimersTyped, Held
<1>3. GensAreOwn' /\ HeldIsRaced' /\ DispatchCovers'
  BY <1>1 DEF GensAreOwn, HeldIsRaced, DispatchCovers, Held
<1>4. TimersAreExact'
  BY <1>1 DEF TimersAreExact, SleepCoversTimers, LossesAreRaces, OneShotOnce
<1> QED
  BY <1>2, <1>3, <1>4

---------------------------------------------------------------------------
(* The theorem.                                                            *)

\* The wheel starts by loading an empty table.
LEMMA TimersInvInit == TimersInit => TimersInv
<1> SUFFICES ASSUME TimersInit PROVE TimersInv
  OBVIOUS
<1>1. PICK c : c = [i \in {} |-> NoTimer]
  OBVIOUS
<1>2. DOMAIN c = {} /\ c \in [{} -> TimerRow]
  BY <1>1
<1>3. c \in Copies
  BY <1>2 DEF Copies
<1>4. wheel = [pc |-> "load", at |-> 1, copy |-> c, next |-> 0]
  BY <1>1 DEF TimersInit, Asleep
<1>5. wheel.pc = "load" /\ wheel.at = 1 /\ wheel.copy = c
  BY <1>4
<1>6. \A i \in TimerId : rowOf[i] = NoTimer /\ rowOf[i].gen = 0
  BY DEF TimersInit, NoTimer
<1>7. TimersTyped
  <2>1. wheel \in [pc : TimerId \cup Phases, at : Nat, copy : Copies, next : Nat]
    BY <1>3, <1>4 DEF Phases
  <2>2. rowOf \in [TimerId -> TimerRow \cup {NoTimer}] /\ fires \in [Gen -> Nat]
    BY DEF TimersInit
  <2>3. gens \in 0 .. MaxSets
    BY TimersAssumption DEF TimersInit
  <2>4. wake \in BOOLEAN
    BY Zenon DEF TimersInit
  <2>5. clock = 1 /\ tcrashes = 0
    BY DEF TimersInit
  <2>6. "load" \notin TimerId
    BY PhasesAreNoIds
  <2> QED
    BY <1>2, <1>5, <2>1, <2>2, <2>3, <2>4, <2>5, <2>6 DEF TimersTyped
<1>8. GensAreOwn /\ HeldIsRaced
  BY <1>2, <1>5, <1>6 DEF GensAreOwn, HeldIsRaced, TimersInit
<1>9. DispatchCovers
  BY <1>5, PhasesAreNoIds DEF DispatchCovers
<1>10. TimersAreExact
  BY <1>5, <1>6 DEF TimersAreExact, SleepCoversTimers, LossesAreRaces, OneShotOnce, TimersInit
<1> QED
  BY <1>7, <1>8, <1>9, <1>10 DEF TimersInv

\* Every step of the callers, the wheel and the clock keeps it.
LEMMA TimersInvNext == TimersInv /\ [TimersNext]_timerVars => TimersInv'
<1> SUFFICES ASSUME TimersInv, [TimersNext]_timerVars PROVE TimersInv'
  OBVIOUS
<1>1. CASE \E i \in TimerId : DelTimer(i) \/ \E n, e \in Intervals : SetTimer(i, n, e)
  BY <1>1, DelKeeps, SetKeeps
<1>2. CASE WheelStep
  BY <1>2, LoadKeeps, SleepKeeps, WakeUpKeeps, NotDueKeeps, FireKeeps, RescheduleKeeps,
     OneShotKeeps DEF WheelStep
<1>3. CASE TimersRestart
  BY <1>3, RestartKeeps
<1>4. CASE TickClock
  BY <1>4, TickKeeps
<1>5. CASE UNCHANGED timerVars
  BY <1>5
  DEF TimersInv, TimersTyped, GensAreOwn, HeldIsRaced, DispatchCovers, TimersAreExact,
      SleepCoversTimers, LossesAreRaces, OneShotOnce, Held, timerVars
<1> QED
  BY <1>1, <1>2, <1>3, <1>4, <1>5 DEF TimersNext

\* For any timers, intervals and restarts: a sleeping wheel has missed no
\* timer, a timer is lost or comes back only in the race of a set or a del with
\* the wheel's write-back, and a one-shot timer fires once per restart at most.
THEOREM TimersStayExact == TimersSpec => []TimersAreExact
<1>1. TimersInv => TimersAreExact
  BY DEF TimersInv
<1> QED
  BY <1>1, TimersInvInit, TimersInvNext, PTL DEF TimersSpec

-----------------------------------------------------------------------------
(***************************************************************************)
(* Proofs about the trigger engine: for any rules, writers, hop cap and    *)
(* budget, chains of publications are short, posts are paced, prompts stay *)
(* in their env and the cached copy follows the table.                     *)
(***************************************************************************)

\* The rules that are on disk at boot or that somebody may set.
TrigRule == UNION {w.boot \cup w.set : w \in TrigWorlds}

RulesAreRules ==
  /\ tworld \in TrigWorlds /\ rows \subseteq TrigRule /\ rules \subseteq TrigRule
  /\ DOMAIN writer = TrigWriter
  /\ \A w \in TrigWriter : DOMAIN writer[w] = {"at", "scan"} /\ writer[w].scan \subseteq TrigRule
  /\ seeded \in Nat

\* The hop an envelope carries counts the publications that led to it.
HopsCount(e) ==
  /\ e.hop \in 0 .. hop_cap /\ e.path \in Seq(Nat \cup TrigRule) /\ Len(e.path) = e.hop + 1

\* So does the one a task holds, and its rule is one of the envelope's env.
TaskFollows(t) ==
  /\ DOMAIN t = {"rule", "source", "at", "try"}
  /\ t.rule \in TrigRule /\ t.rule.env = t.source.env /\ HopsCount(t.source)

ChainsAreCounted == (\A e \in inbox : HopsCount(e)) /\ (\A t \in tasks : TaskFollows(t))

\* While writers do not overlap one of them at most is at work, and what it
\* scanned is what the table holds.
ScanIsCurrent ==
  ~overlapped =>
    \A w \in TrigWriter :
      /\ \A v \in TrigWriter : writer[v].at # "idle" /\ writer[w].at # "idle" => v = w
      /\ writer[w].at = "store" =>
           rows \subseteq writer[w].scan /\ writer[w].scan \ rows \subseteq ttl_gone

PostsOf(i) == {p \in posts : p.id = i}
\* The posts of the window that budget b of an id opened, those of the WINDOW
\* before it, and those of the WINDOW that ends at t.
From(S, i, s) == {p \in S : p.id = i /\ p.at >= s}
Before(S, i, s) == {p \in S : p.id = i /\ p.at > s - WINDOW /\ p.at < s}
CurrentPosts(i, b) == From(posts, i, b.start)
EarlierPosts(i, b) == Before(posts, i, b.start)
PostsUntil(i, t) == Until(posts, i, t)

PostsAreKnown ==
  /\ tnow \in Nat /\ tnow > 0 /\ tdown \in Nat /\ IsFiniteSet(posts) /\ IsFiniteSet(earlier)
  /\ \A p \in posts \cup earlier : p.at \in 1 .. tnow

\* A budget counts the posts of its window, which began after the one before
\* it was over.
BudgetCounts(i, b) ==
  /\ DOMAIN b = {"start", "n"} /\ b.start \in 0 .. tnow /\ b.n \in 0 .. calls_per_min
  /\ b.start = 0 => PostsOf(i) = {}
  /\ \A p \in PostsOf(i) : p.at < b.start + WINDOW
  /\ Cardinality(CurrentPosts(i, b)) <= b.n
  /\ Cardinality(EarlierPosts(i, b)) <= calls_per_min

BudgetsCount == DOMAIN budgets = Ids /\ \A i \in Ids : BudgetCounts(i, budgets[i])

TableInv == RulesAreRules /\ ScanIsCurrent /\ CopyIsCurrent
\* What any WINDOW holds of the posts since base started, and of those before.
NowArePaced == \A i \in Ids, t \in 1 .. tnow : Cardinality(PostsUntil(i, t)) <= 2 * calls_per_min
EarlierArePaced ==
  \A i \in Ids, t \in 1 .. tnow :
    Cardinality(Until(earlier, i, t)) <= 2 * calls_per_min * tdown

BudgetInv == PostsAreKnown /\ BudgetsCount /\ NowArePaced
PaceInv == PostsAreKnown /\ (calls_per_min > 0 => BudgetInv /\ EarlierArePaced)
TrigInv == TableInv /\ ChainsAreCounted /\ PromptsStayHome /\ PaceInv

---------------------------------------------------------------------------
(* The budget.                                                             *)

\* A part of finitely many posts is finite, and no larger (posts).
LEMMA PartsOfPosts ==
  ASSUME PostsAreKnown, NEW S, S \subseteq posts
  PROVE  /\ IsFiniteSet(S) /\ Cardinality(S) \in Nat
         /\ \A T \in SUBSET S : Cardinality(T) \in Nat /\ Cardinality(T) <= Cardinality(S)
<1>1. IsFiniteSet(S)
  BY FS_Subset DEF PostsAreKnown
<1> QED
  BY <1>1, FS_Subset, FS_CardinalityType

\* spend() gives a budget that counts, of a window that is open now: when it
\* opens a new one, no post of the id is in it yet.
LEMMA SpendCounts ==
  ASSUME PostsAreKnown, BudgetsCount, NEW i \in Ids
  PROVE  LET b == Spend(budgets[i]) IN
         BudgetCounts(i, b) /\ b.start > 0 /\ tnow < b.start + WINDOW
<1> DEFINE b == budgets[i]
<1> USE TrigAssumption
<1>1. BudgetCounts(i, b)
  BY DEF BudgetsCount
<1>2. CASE ~(b.start = 0 \/ tnow - b.start >= WINDOW)
  BY <1>1, <1>2 DEF Spend, BudgetCounts, PostsAreKnown
<1>3. CASE b.start = 0 \/ tnow - b.start >= WINDOW
  <2> DEFINE c == [start |-> tnow, n |-> 0]
  <2>1. Spend(b) = c /\ c.start = tnow /\ c.n = 0 /\ DOMAIN c = {"start", "n"}
    BY <1>3 DEF Spend
  <2> HIDE DEF c
  <2>2. \A p \in PostsOf(i) : p.at \in Nat /\ p.at < tnow
    BY <1>1, <1>3 DEF BudgetCounts, PostsAreKnown, PostsOf
  <2>3. CurrentPosts(i, c) = {}
    BY <2>1, <2>2 DEF CurrentPosts, PostsOf, PostsAreKnown, From
  <2>4. EarlierPosts(i, c) \subseteq CurrentPosts(i, b) /\ CurrentPosts(i, b) \subseteq posts
    BY <1>1, <1>3, <2>1
       DEF EarlierPosts, CurrentPosts, BudgetCounts, PostsOf, PostsAreKnown, From, Before
  <2>5. /\ Cardinality(EarlierPosts(i, c)) \in Nat /\ Cardinality(CurrentPosts(i, b)) \in Nat
        /\ Cardinality(EarlierPosts(i, c)) <= Cardinality(CurrentPosts(i, b))
    BY <2>4, PartsOfPosts
  <2>6. Cardinality(EarlierPosts(i, c)) <= calls_per_min
    BY <1>1, <2>5 DEF BudgetCounts
  <2>7. Cardinality(CurrentPosts(i, c)) = 0
    BY <2>3, FS_EmptySet
  <2> QED
    BY <2>1, <2>2, <2>6, <2>7 DEF BudgetCounts, PostsAreKnown
<1> QED
  BY <1>2, <1>3

\* A window's worth before the open window and one in it: what lies in any
\* WINDOW that ends now.
LEMMA OpenWindowIsPaced ==
  ASSUME NEW P, IsFiniteSet(P), NEW now \in Nat, \A p \in P : p.at \in 1 .. now,
         NEW i, NEW s \in 0 .. now,
         Cardinality(From(P, i, s)) <= calls_per_min, Cardinality(Before(P, i, s)) <= calls_per_min
  PROVE  Cardinality(Until(P, i, now)) <= 2 * calls_per_min
<1> DEFINE C == From(P, i, s)
           E == Before(P, i, s)
           U == Until(P, i, now)
<1> USE TrigAssumption
<1>1. U \subseteq E \cup C /\ E \cap C = {}
  BY DEF From, Before, Until
<1>2. IsFiniteSet(E) /\ IsFiniteSet(C) /\ Cardinality(E) \in Nat /\ Cardinality(C) \in Nat
  <2>1. E \subseteq P /\ C \subseteq P
    BY DEF From, Before
  <2> QED
    BY <2>1, FS_Subset, FS_CardinalityType
<1>3. Cardinality(E) <= calls_per_min /\ Cardinality(C) <= calls_per_min
  OBVIOUS
<1> HIDE DEF C, E, U
<1>4. IsFiniteSet(E \cup C) /\ Cardinality(E \cup C) = Cardinality(E) + Cardinality(C)
  <2>1. Cardinality(E \cap C) = 0
    BY <1>1, FS_EmptySet
  <2>2. /\ IsFiniteSet(E \cup C)
        /\ Cardinality(E \cup C) = Cardinality(E) + Cardinality(C) - Cardinality(E \cap C)
    BY <1>2, FS_Union
  <2> QED
    BY <1>2, <2>1, <2>2
<1>5. Cardinality(U) \in Nat /\ Cardinality(U) <= Cardinality(E \cup C)
  BY <1>1, <1>4, FS_Subset, FS_CardinalityType
<1>6. Cardinality(U) <= 2 * calls_per_min
  BY <1>2, <1>3, <1>4, <1>5
<1> QED
  BY <1>6 DEF U

\* Time brings nothing into a WINDOW.
LEMMA TimeKeepsWindows ==
  ASSUME NEW S, IsFiniteSet(S), NEW now \in Nat, \A p \in S : p.at \in 1 .. now, NEW i, NEW k,
         \A t \in 1 .. now : Cardinality(Until(S, i, t)) <= k, k \in Nat
  PROVE  \A t \in 1 .. now + 1 : Cardinality(Until(S, i, t)) <= k
<1> USE TrigAssumption
<1> SUFFICES ASSUME NEW t \in 1 .. now + 1, t \notin 1 .. now
             PROVE  Cardinality(Until(S, i, t)) <= k
  OBVIOUS
<1>1. t = now + 1
  OBVIOUS
<1>2. CASE now = 0
  <2>1. Until(S, i, t) = {}
    BY <1>2 DEF Until
  <2> QED
    BY <2>1, FS_EmptySet
<1>3. CASE now > 0
  <2>1. Until(S, i, t) \subseteq Until(S, i, now) /\ Until(S, i, now) \subseteq S
    BY <1>1 DEF Until
  <2>2. /\ Cardinality(Until(S, i, t)) \in Nat /\ Cardinality(Until(S, i, now)) \in Nat
        /\ Cardinality(Until(S, i, t)) <= Cardinality(Until(S, i, now))
    BY <2>1, FS_Subset, FS_CardinalityType
  <2>3. Cardinality(Until(S, i, now)) <= k
    BY <1>3
  <2> QED
    BY <2>2, <2>3
<1> QED
  BY <1>2, <1>3

\* A WINDOW of two sets of posts holds no more than both of its parts.
LEMMA WindowsOfBoth ==
  ASSUME NEW S, NEW T, IsFiniteSet(S), IsFiniteSet(T), NEW i, NEW t, NEW k \in Nat, NEW m \in Nat,
         Cardinality(Until(S, i, t)) <= k, Cardinality(Until(T, i, t)) <= m
  PROVE  Cardinality(Until(S \cup T, i, t)) <= k + m
<1> DEFINE A == Until(S, i, t)
           B == Until(T, i, t)
<1>1. Until(S \cup T, i, t) = A \cup B /\ A \subseteq S /\ B \subseteq T
  BY DEF Until
<1>2. Cardinality(A) <= k /\ Cardinality(B) <= m
  OBVIOUS
<1> HIDE DEF A, B
<1>3. IsFiniteSet(A) /\ IsFiniteSet(B)
  BY <1>1, FS_Subset
<1>4. /\ Cardinality(A) \in Nat /\ Cardinality(B) \in Nat /\ Cardinality(A \cap B) \in Nat
      /\ Cardinality(A \cup B) = Cardinality(A) + Cardinality(B) - Cardinality(A \cap B)
  <2>1. IsFiniteSet(A \cap B)
    BY <1>3, FS_Intersection
  <2> QED
    BY <1>3, <2>1, FS_Union, FS_CardinalityType
<1>5. Cardinality(A \cup B) <= k + m
  BY <1>2, <1>4
<1> QED
  BY <1>1, <1>5

\* A restart adds one run's worth to what the runs before it may have spent.
LEMMA RunsAddUp ==
  /\ 2 * calls_per_min \in Nat
  /\ \A n \in Nat : /\ 2 * calls_per_min * n \in Nat
                     /\ 2 * calls_per_min * (n + 1) = 2 * calls_per_min + 2 * calls_per_min * n
                     /\ 2 * calls_per_min * (n + 1) = 2 * calls_per_min * n + 2 * calls_per_min
BY TrigAssumption

\* The budgets and the posts are those they were, and so is the clock.
LEMMA BudgetStays ==
  ASSUME BudgetInv, UNCHANGED <<tnow, tdown, posts, earlier, budgets>>
  PROVE  BudgetInv'
<1>1. PostsAreKnown' /\ NowArePaced'
  BY DEF BudgetInv, PostsAreKnown, NowArePaced, PostsUntil
<1>2. BudgetsCount'
  BY DEF BudgetInv, BudgetsCount, BudgetCounts, PostsOf, CurrentPosts, EarlierPosts
<1> QED
  BY <1>1, <1>2 DEF BudgetInv

\* Time brings no post into a WINDOW.
LEMMA TimeKeepsBudget ==
  ASSUME BudgetInv, tnow' = tnow + 1, UNCHANGED <<tdown, posts, earlier, budgets>>
  PROVE  BudgetInv'
<1> USE TrigAssumption
<1>1. PostsAreKnown'
  BY DEF BudgetInv, PostsAreKnown
<1>2. BudgetsCount'
  <2>1. ASSUME NEW i \in Ids, NEW b, b = budgets[i]
        PROVE  BudgetCounts(i, b)'
    <3>1. BudgetCounts(i, b)
      BY <2>1 DEF BudgetInv, BudgetsCount
    <3>2. /\ PostsOf(i)' = PostsOf(i) /\ CurrentPosts(i, b)' = CurrentPosts(i, b)
          /\ EarlierPosts(i, b)' = EarlierPosts(i, b)
      BY DEF PostsOf, CurrentPosts, EarlierPosts
    <3> QED
      BY <3>1, <3>2 DEF BudgetCounts, BudgetInv, PostsAreKnown
  <2> QED
    BY <2>1 DEF BudgetInv, BudgetsCount
<1>3. ASSUME NEW i \in Ids, NEW t \in 1 .. tnow'
      PROVE  Cardinality(PostsUntil(i, t)) <= 2 * calls_per_min
  <2>1. CASE t \in 1 .. tnow
    BY <2>1 DEF BudgetInv, NowArePaced, PostsUntil, Until
  <2>2. CASE t = tnow + 1
    <3>1. PostsUntil(i, t) \subseteq PostsUntil(i, tnow) /\ PostsUntil(i, tnow) \subseteq posts
      BY <2>2 DEF PostsUntil, BudgetInv, PostsAreKnown, Until
    <3>2. Cardinality(PostsUntil(i, tnow)) <= 2 * calls_per_min
      BY DEF BudgetInv, NowArePaced, PostsUntil, PostsAreKnown, Until
    <3>3. /\ Cardinality(PostsUntil(i, t)) \in Nat /\ Cardinality(PostsUntil(i, tnow)) \in Nat
          /\ Cardinality(PostsUntil(i, t)) <= Cardinality(PostsUntil(i, tnow))
      BY <3>1, PartsOfPosts DEF BudgetInv
    <3> QED
      BY <3>2, <3>3
  <2> QED
    BY <2>1, <2>2 DEF BudgetInv, PostsAreKnown
<1>4. NowArePaced'
  BY <1>3 DEF NowArePaced, PostsUntil
<1> QED
  BY <1>1, <1>2, <1>4 DEF BudgetInv

\* The budget of one id is set to one that counts, and no post is made.
LEMMA RefusalKeepsBudget ==
  ASSUME BudgetInv, NEW i \in Ids, NEW b, BudgetCounts(i, b),
         budgets' = [budgets EXCEPT ![i] = b], UNCHANGED <<posts, earlier, tnow, tdown>>
  PROVE  BudgetInv'
<1>1. \A j \in Ids : BudgetCounts(j, budgets'[j])
  BY DEF BudgetInv, BudgetsCount
<1>2. BudgetsCount'
  BY <1>1 DEF BudgetInv, BudgetsCount, BudgetCounts, PostsOf, CurrentPosts, EarlierPosts
<1> QED
  BY <1>2 DEF BudgetInv, PostsAreKnown, NowArePaced, PostsUntil

\* A slot x of budget b is spent, which c counts: the window that ends now holds
\* no more than two windows' worth, and older ones hold what they held.
LEMMA SlotKeepsBudget ==
  ASSUME BudgetInv, NEW i \in Ids, NEW b, BudgetCounts(i, b), b.start > 0, tnow < b.start + WINDOW,
         b.n < calls_per_min, NEW x, x.id = i, x.at = tnow,
         NEW c, DOMAIN c = {"start", "n"}, c.start = b.start, c.n = b.n + 1,
         posts' = posts \cup {x}, budgets' = [budgets EXCEPT ![i] = c], UNCHANGED <<tnow, tdown, earlier>>
  PROVE  BudgetInv'
<1> USE TrigAssumption
<1>1. PostsAreKnown /\ BudgetsCount
  BY DEF BudgetInv
<1>2. PostsAreKnown'
  BY <1>1, FS_AddElement DEF PostsAreKnown
<1>3. ASSUME NEW j \in Ids, NEW d, d = budgets'[j]
      PROVE  BudgetCounts(j, d)'
  <2>1. CASE j # i
    <3>1. /\ d = budgets[j] /\ PostsOf(j)' = PostsOf(j)
          /\ CurrentPosts(j, d)' = CurrentPosts(j, d) /\ EarlierPosts(j, d)' = EarlierPosts(j, d)
      BY <2>1, <1>1, <1>3 DEF PostsOf, CurrentPosts, EarlierPosts, BudgetsCount, From, Before
    <3>2. BudgetCounts(j, d)
      BY <3>1, <1>1 DEF BudgetsCount
    <3> QED
      BY <3>1, <3>2 DEF BudgetCounts
  <2>2. CASE j = i
    <3>1. d = c
      BY <2>2, <1>1, <1>3 DEF BudgetsCount
    <3>2. CurrentPosts(i, c)' = CurrentPosts(i, b) \cup {x}
      BY DEF CurrentPosts, BudgetCounts, From
    <3>3. EarlierPosts(i, c)' = EarlierPosts(i, b)
      BY <1>1 DEF EarlierPosts, BudgetCounts, PostsAreKnown, Before
    <3>4. CurrentPosts(i, b) \subseteq posts
      BY DEF CurrentPosts, From
    <3>5. IsFiniteSet(CurrentPosts(i, b)) /\ Cardinality(CurrentPosts(i, b)) \in Nat
      BY <3>4, <1>1, PartsOfPosts
    <3>6. Cardinality(CurrentPosts(i, b) \cup {x})
            \in {Cardinality(CurrentPosts(i, b)), Cardinality(CurrentPosts(i, b)) + 1}
      <4>1. CASE x \in CurrentPosts(i, b)
        <5>1. CurrentPosts(i, b) \cup {x} = CurrentPosts(i, b)
          BY <4>1
        <5> QED
          BY <5>1
      <4>2. CASE x \notin CurrentPosts(i, b)
        BY <4>2, <3>5, FS_AddElement
      <4> QED
        BY <4>1, <4>2
    <3>7. Cardinality(CurrentPosts(i, c)') <= c.n
      BY <3>2, <3>5, <3>6 DEF BudgetCounts
    <3>8. c.n \in 0 .. calls_per_min /\ c.start \in 0 .. tnow /\ c.start > 0
      BY DEF BudgetCounts
    <3>9. \A p \in PostsOf(i)' : p.at < c.start + WINDOW
      BY DEF BudgetCounts, PostsOf
    <3>10. Cardinality(EarlierPosts(i, c)') <= calls_per_min
      BY <3>3 DEF BudgetCounts
    <3>11. BudgetCounts(i, c)'
      BY <3>7, <3>8, <3>9, <3>10 DEF BudgetCounts
    <3> QED
      BY <2>2, <3>1, <3>11
  <2> QED
    BY <2>1, <2>2
<1>4. BudgetsCount'
  BY <1>1, <1>3 DEF BudgetsCount
<1>5. ASSUME NEW j \in Ids, NEW u \in 1 .. tnow'
      PROVE  Cardinality(PostsUntil(j, u)') <= 2 * calls_per_min
  <2>1. CASE u = tnow
    <3>1. PICK d : d = budgets'[j]
      OBVIOUS
    <3>2. BudgetCounts(j, d)'
      BY <3>1, <1>3
    <3>3. /\ CurrentPosts(j, d)' \subseteq posts' /\ d.start \in 0 .. tnow'
          /\ d.n \in 0 .. calls_per_min /\ Cardinality(CurrentPosts(j, d)') <= d.n
          /\ Cardinality(EarlierPosts(j, d)') <= calls_per_min
      BY <3>2 DEF BudgetCounts, CurrentPosts, From
    <3>4. Cardinality(CurrentPosts(j, d)') \in Nat
      BY <1>2, <3>3, FS_Subset, FS_CardinalityType DEF PostsAreKnown
    <3>5. Cardinality(CurrentPosts(j, d)') <= calls_per_min
      BY <3>3, <3>4
    <3>6. IsFiniteSet(posts') /\ tnow' \in Nat /\ \A p \in posts' : p.at \in 1 .. tnow'
      BY <1>2 DEF PostsAreKnown
    <3>7. PICK all, now : all = posts' /\ now = tnow'
      OBVIOUS
    <3>8. /\ Cardinality(From(all, j, d.start)) <= calls_per_min
          /\ Cardinality(Before(all, j, d.start)) <= calls_per_min
      BY <3>3, <3>5, <3>7 DEF CurrentPosts, EarlierPosts
    <3>9. /\ IsFiniteSet(all) /\ now \in Nat /\ d.start \in 0 .. now
          /\ \A p \in all : p.at \in 1 .. now
      BY <3>3, <3>6, <3>7
    <3>10. Cardinality(Until(all, j, now)) <= 2 * calls_per_min
      BY <3>8, <3>9, OpenWindowIsPaced
    <3> QED
      BY <2>1, <3>7, <3>10 DEF PostsUntil
  <2>2. CASE u # tnow
    <3>1. u \in 1 .. tnow /\ u < tnow
      BY <2>2, <1>1 DEF PostsAreKnown
    <3>2. PostsUntil(j, u)' = PostsUntil(j, u)
      BY <3>1, <1>1 DEF PostsUntil, PostsAreKnown, Until
    <3> QED
      BY <3>1, <3>2 DEF BudgetInv, NowArePaced, PostsUntil, Until
  <2> QED
    BY <2>1, <2>2
<1>6. NowArePaced'
  BY <1>5 DEF NowArePaced, PostsUntil
<1> QED
  BY <1>2, <1>4, <1>6 DEF BudgetInv

\* act_http_post() under a limit: refused, the id may have a new window; granted,
\* the slot is counted.
LEMMA PostKeepsBudget ==
  ASSUME BudgetInv, calls_per_min > 0, NEW t, t.rule.id \in Ids, ActPost(t)
  PROVE  BudgetInv'
<1> USE TrigAssumption
<1>1. PICK i \in Ids : i = t.rule.id
  OBVIOUS
<1>2. PICK b : b = Spend(budgets[i])
  OBVIOUS
<1>3. BudgetCounts(i, b) /\ b.start > 0 /\ tnow < b.start + WINDOW
  BY <1>2, SpendCounts DEF BudgetInv
<1>4. CASE b.n >= calls_per_min
  <2>1. calls_per_min # 0 /\ (calls_per_min > 0 /\ b.n >= calls_per_min) = TRUE
    BY <1>4
  <2>2. UNCHANGED <<posts, earlier, tnow, tdown>>
    BY <1>1, <1>2, <2>1 DEF ActPost
  <2>3. budgets' = [budgets EXCEPT ![i] = b]
    BY <1>1, <1>2, <2>1, Zenon DEF ActPost
  <2> QED
    BY <1>3, <2>2, <2>3, RefusalKeepsBudget
<1>5. CASE ~(b.n >= calls_per_min)
  <2>1. PICK x : x = [id |-> i, at |-> tnow, by |-> <<t.rule, t.source.path>>]
    OBVIOUS
  <2>2. PICK c : c = [b EXCEPT !.n = @ + 1]
    OBVIOUS
  <2>a. calls_per_min # 0 /\ ~(calls_per_min > 0 /\ b.n >= calls_per_min)
    BY <1>5
  <2>b. posts' = posts \cup {x} /\ UNCHANGED <<tnow, tdown, earlier>>
    BY <1>1, <1>2, <2>a, <2>1 DEF ActPost
  <2>c. budgets' = [budgets EXCEPT ![i] = c]
    BY <1>1, <1>2, <2>a, <2>2, Zenon DEF ActPost
  <2>3. /\ posts' = posts \cup {x} /\ budgets' = [budgets EXCEPT ![i] = c]
        /\ UNCHANGED <<tnow, tdown, earlier>>
    BY <2>b, <2>c
  <2>4. x.id = i /\ x.at = tnow
    BY <2>1
  <2>5. c.start = b.start /\ c.n = b.n + 1 /\ DOMAIN c = {"start", "n"} /\ b.n < calls_per_min
    BY <1>3, <1>5, <2>2 DEF BudgetCounts
  <2> QED
    BY <1>3, <2>3, <2>4, <2>5, SlotKeepsBudget
<1> QED
  BY <1>4, <1>5

\* A restart forgets the budgets (Trigger::new).
NothingSpent ==
  PostsAreKnown /\ posts = {} /\ budgets = [i \in Ids |-> [start |-> 0, n |-> 0]]

\* Then nothing is over its budget.
LEMMA RestartKeepsBudget == NothingSpent => BudgetInv
<1> SUFFICES ASSUME NothingSpent PROVE BudgetInv
  OBVIOUS
<1> USE TrigAssumption DEF NothingSpent
<1>1. \A S \in SUBSET posts : S = {} /\ Cardinality(S) = 0
  BY FS_EmptySet
<1>2. \A i \in Ids : BudgetCounts(i, budgets[i])
  BY <1>1 DEF BudgetCounts, PostsOf, CurrentPosts, EarlierPosts, From, Before, PostsAreKnown
<1>3. NowArePaced
  BY <1>1 DEF NowArePaced, PostsUntil, Until
<1> QED
  BY <1>2, <1>3 DEF BudgetInv, BudgetsCount

---------------------------------------------------------------------------
(* The pace, over restarts and without a limit too.                        *)

\* Nothing the pace is about changes.
LEMMA PaceStays ==
  ASSUME PaceInv, UNCHANGED <<tnow, tdown, posts, earlier, budgets>>
  PROVE  PaceInv'
<1>1. PostsAreKnown' /\ (EarlierArePaced => EarlierArePaced')
  BY DEF PaceInv, PostsAreKnown, EarlierArePaced
<1> QED
  BY <1>1, BudgetStays DEF PaceInv

\* Time passes.
LEMMA TimeKeepsPace ==
  ASSUME PaceInv, tnow' = tnow + 1, UNCHANGED <<tdown, posts, earlier, budgets>>
  PROVE  PaceInv'
<1>1. PostsAreKnown'
  BY DEF PaceInv, PostsAreKnown
<1>2. ASSUME EarlierArePaced PROVE EarlierArePaced'
  <2>1. PICK k \in Nat : k = 2 * calls_per_min * tdown
    BY RunsAddUp DEF PaceInv, PostsAreKnown
  <2>2. ASSUME NEW i \in Ids PROVE \A t \in 1 .. tnow + 1 : Cardinality(Until(earlier, i, t)) <= k
    <3>1. \A t \in 1 .. tnow : Cardinality(Until(earlier, i, t)) <= k
      BY <1>2, <2>1 DEF EarlierArePaced
    <3> QED
      BY <3>1, TimeKeepsWindows DEF PaceInv, PostsAreKnown
  <2> QED
    BY <2>1, <2>2 DEF EarlierArePaced
<1> QED
  BY <1>1, <1>2, TimeKeepsBudget DEF PaceInv

\* act_http_post(): a slot is spent, within the budget if there is one.
LEMMA PostKeepsPace ==
  ASSUME PaceInv, NEW t, t.rule.id \in Ids, ActPost(t)
  PROVE  PaceInv'
<1>1. UNCHANGED <<tnow, tdown, earlier>> /\ PostsAreKnown
  BY DEF ActPost, PaceInv
<1>2. EarlierArePaced => EarlierArePaced'
  BY <1>1 DEF EarlierArePaced
<1>3. PostsAreKnown'
  <2>1. PICK x : x = [id |-> t.rule.id, at |-> tnow, by |-> <<t.rule, t.source.path>>]
    OBVIOUS
  <2>2. x.at = tnow /\ (posts' = posts \/ posts' = posts \cup {x})
    BY <2>1 DEF ActPost
  <2> QED
    BY <1>1, <2>2, FS_AddElement DEF PostsAreKnown
<1> QED
  BY <1>2, <1>3, PostKeepsBudget DEF PaceInv

\* A restart: what was spent so far was spent by earlier runs.
LEMMA RestartKeepsPace ==
  ASSUME PaceInv, TrigRestart
  PROVE  PaceInv'
<1>1. /\ posts' = {} /\ earlier' = posts \cup earlier /\ tnow' = tnow /\ tdown' = tdown + 1
      /\ budgets' = [i \in Ids |-> [start |-> 0, n |-> 0]]
  BY DEF TrigRestart
<1>a. PostsAreKnown
  BY DEF PaceInv
<1>b. IsFiniteSet(posts) /\ IsFiniteSet(earlier) /\ tdown \in Nat
  BY <1>a DEF PostsAreKnown
<1>c. IsFiniteSet(posts') /\ IsFiniteSet(earlier')
  BY <1>1, <1>b, FS_Union, FS_EmptySet
<1>2. PostsAreKnown /\ PostsAreKnown'
  BY <1>1, <1>a, <1>c DEF PostsAreKnown
<1>3. NothingSpent'
  BY <1>1, <1>2 DEF NothingSpent
<1>4. BudgetInv'
  BY <1>3, RestartKeepsBudget, PTL
<1>5. ASSUME BudgetInv, EarlierArePaced PROVE EarlierArePaced'
  <2>1. PICK k \in Nat, m \in Nat : k = 2 * calls_per_min /\ m = 2 * calls_per_min * tdown
    BY RunsAddUp, <1>2 DEF PostsAreKnown
  <2>2. 2 * calls_per_min * (tdown + 1) = k + m
    BY RunsAddUp, <1>2, <2>1 DEF PostsAreKnown
  <2>3. ASSUME NEW i \in Ids, NEW t \in 1 .. tnow
        PROVE  Cardinality(Until(posts \cup earlier, i, t)) <= k + m
    <3>1. Cardinality(Until(posts, i, t)) <= k /\ Cardinality(Until(earlier, i, t)) <= m
      BY <1>5, <2>1 DEF BudgetInv, NowArePaced, PostsUntil, EarlierArePaced
    <3> QED
      BY <1>2, <3>1, WindowsOfBoth DEF PostsAreKnown
  <2> QED
    BY <1>1, <2>2, <2>3 DEF EarlierArePaced
<1> QED
  BY <1>2, <1>4, <1>5 DEF PaceInv

\* What the pace means (spend).
LEMMA PaceIsKept == PaceInv => PostsArePaced
<1> SUFFICES ASSUME PaceInv, calls_per_min > 0, NEW i \in Ids, NEW t \in 1 .. tnow
             PROVE  /\ Cardinality(Until(posts, i, t)) <= 2 * calls_per_min
                    /\ Cardinality(Until(posts \cup earlier, i, t)) <= 2 * calls_per_min * (tdown + 1)
  BY DEF PostsArePaced
<1>1. PICK k \in Nat, m \in Nat : k = 2 * calls_per_min /\ m = 2 * calls_per_min * tdown
  BY RunsAddUp DEF PaceInv, PostsAreKnown
<1>2. 2 * calls_per_min * (tdown + 1) = k + m
  BY RunsAddUp, <1>1 DEF PaceInv, PostsAreKnown
<1>3. Cardinality(Until(posts, i, t)) <= k /\ Cardinality(Until(earlier, i, t)) <= m
  BY <1>1 DEF PaceInv, BudgetInv, NowArePaced, PostsUntil, EarlierArePaced
<1>4. Cardinality(Until(posts \cup earlier, i, t)) <= k + m
  BY <1>3, WindowsOfBoth DEF PaceInv, PostsAreKnown
<1> QED
  BY <1>1, <1>2, <1>3, <1>4

---------------------------------------------------------------------------
(* The rules, in the table and in the copy.                                *)

\* The steps of writers, of the ttl and of a restart: a copy is stale only after
\* two writers overlapped (set, del, reload).
LEMMA TableStep ==
  ASSUME TableInv,
         \/ \E w \in TrigWriter, r \in tworld.set : TrigSet(w, r)
         \/ \E w \in TrigWriter, r \in rows : TrigDel(w, r)
         \/ \E r \in rows : TrigTtl(r)
         \/ \E w \in TrigWriter : ReloadScan(w) \/ ReloadStore(w)
         \/ TrigRestart
  PROVE  TableInv'
<1> USE DEF TableInv, RulesAreRules
<1>1. tworld.set \subseteq TrigRule
  BY DEF TrigRule
<1>2. ASSUME NEW w \in TrigWriter, writer[w].at = "idle", rows' \subseteq TrigRule,
             writer' = [writer EXCEPT ![w].at = "scan"],
             UNCHANGED <<rules, seeded, ttl_gone, tworld>>,
             overlapped' = (overlapped \/ \E v \in TrigWriter : writer[v].at # "idle")
      PROVE  TableInv'
  <2>1. \A v \in TrigWriter : /\ writer'[v].at = (IF v = w THEN "scan" ELSE writer[v].at)
                              /\ writer'[v].scan = writer[v].scan
                              /\ DOMAIN writer'[v] = {"at", "scan"}
    BY <1>2
  <2>2. RulesAreRules'
    BY <1>2, <2>1
  <2>3. ScanIsCurrent'
    BY <1>2, <2>1 DEF ScanIsCurrent
  <2>4. CopyIsCurrent'
    BY <1>2, <2>1 DEF CopyIsCurrent
  <2> QED
    BY <2>2, <2>3, <2>4
<1>3. ASSUME NEW w \in TrigWriter, NEW r \in tworld.set, TrigSet(w, r)
      PROVE  TableInv'
  <2>1. rows' \subseteq TrigRule
    BY <1>1, <1>3 DEF TrigSet
  <2> QED
    BY <1>2, <1>3, <2>1 DEF TrigSet
<1>4. ASSUME NEW w \in TrigWriter, NEW r \in rows, TrigDel(w, r)
      PROVE  TableInv'
  <2>1. rows' \subseteq TrigRule
    BY <1>4 DEF TrigDel
  <2> QED
    BY <1>2, <1>4, <2>1 DEF TrigDel
<1>5. ASSUME NEW r \in rows, TrigTtl(r)
      PROVE  TableInv'
  BY <1>5 DEF TrigTtl, ScanIsCurrent, CopyIsCurrent
<1>6. ASSUME NEW w \in TrigWriter, ReloadScan(w)
      PROVE  TableInv'
  <2>1. \A v \in TrigWriter : writer'[v] = IF v = w THEN [at |-> "store", scan |-> rows]
        ELSE writer[v]
    BY <1>6 DEF ReloadScan
  <2>2. RulesAreRules'
    BY <1>6, <2>1 DEF ReloadScan
  <2>3. ScanIsCurrent' /\ CopyIsCurrent'
    BY <1>6, <2>1 DEF ReloadScan, ScanIsCurrent, CopyIsCurrent
  <2> QED
    BY <2>2, <2>3
<1>7. ASSUME NEW w \in TrigWriter, ReloadStore(w)
      PROVE  TableInv'
  <2>1. /\ UNCHANGED <<rows, overlapped, ttl_gone, tworld, seeded>> /\ rules' = writer[w].scan
        /\ \A v \in TrigWriter : writer'[v] = IF v = w THEN Resting ELSE writer[v]
    BY <1>7 DEF ReloadStore
  <2>2. RulesAreRules'
    BY <1>7, <2>1 DEF ReloadStore, Resting
  <2>3. ScanIsCurrent' /\ CopyIsCurrent'
    BY <1>7, <2>1 DEF ReloadStore, ScanIsCurrent, CopyIsCurrent, Resting
  <2> QED
    BY <2>2, <2>3
<1>8. CASE TrigRestart
  BY <1>8 DEF TrigRestart, Resting, ScanIsCurrent, CopyIsCurrent
<1> QED
  BY <1>3, <1>4, <1>5, <1>6, <1>7, <1>8

\* Every other step leaves the table and the copy alone.
LEMMA TableStays ==
  ASSUME TableInv, UNCHANGED <<rows, rules, writer, overlapped, ttl_gone, tworld>>, seeded' \in Nat
  PROVE  TableInv'
BY DEF TableInv, RulesAreRules, ScanIsCurrent, CopyIsCurrent

---------------------------------------------------------------------------
(* Chains of publications, and prompts.                                    *)

\* A task goes on with the rule and the envelope it has.
LEMMA MovedFollows ==
  ASSUME NEW t, TaskFollows(t), NEW at
  PROVE  TaskFollows([t EXCEPT !.at = at]) /\ TaskFollows([t EXCEPT !.at = at, !.try = @ + 1])
BY DEF TaskFollows

\* Envelopes and tasks: a publication by a trigger is one hop further than what
\* made it (act_publish), and a task's rule is of the env of its envelope.
LEMMA ChainStep ==
  ASSUME TrigInv,
         \/ \E s \in tworld.seeds : TrigPublish(s)
         \/ \E e \in inbox : OnEnvelope(e)
         \/ \E t \in tasks : TaskStep(t)
         \/ TrigRestart
  PROVE  ChainsAreCounted'
<1> USE TrigAssumption DEF TrigInv, ChainsAreCounted
<1>1. ASSUME NEW s \in tworld.seeds, TrigPublish(s)
      PROVE  ChainsAreCounted'
  <2> DEFINE e == TrigEnvelope(s.topic, s.env, "other", 0, <<seeded + 1>>)
  <2>1. e.hop = 0 /\ e.path = <<seeded + 1>>
    BY DEF TrigEnvelope
  <2>2. <<seeded + 1>> \in Seq(Nat \cup TrigRule) /\ Len(<<seeded + 1>>) = 1
    BY DEF TableInv, RulesAreRules
  <2>3. HopsCount(e)
    <3> HIDE DEF e
    <3> QED
      BY <2>1, <2>2 DEF HopsCount
  <2> HIDE DEF e
  <2>4. inbox' = inbox \cup {e} /\ tasks' = tasks
    BY <1>1 DEF TrigPublish, e
  <2> QED
    BY <2>3, <2>4
<1>2. ASSUME NEW e \in inbox, OnEnvelope(e)
      PROVE  ChainsAreCounted'
  <2> DEFINE New(r) == [rule |-> r, source |-> e, at |-> "fire", try |-> 0]
  <2>1. \A r \in Matching(e) : r \in TrigRule /\ r.env = e.env
    BY DEF Matching, TableInv, RulesAreRules
  <2>2. \A r \in Matching(e) : TaskFollows(New(r))
    BY <2>1 DEF TaskFollows
  <2>3. tasks' \subseteq tasks \cup {New(r) : r \in Matching(e)} /\ inbox' \subseteq inbox
    BY <1>2 DEF OnEnvelope
  <2> HIDE DEF New
  <2> QED
    BY <2>2, <2>3
<1>3. ASSUME NEW t \in tasks, TaskStep(t)
      PROVE  ChainsAreCounted'
  <2>1. TaskFollows(t)
    OBVIOUS
  <2>2. CASE ActPublish(t)
    <3> DEFINE hop == t.source.hop + 1
               e == TrigEnvelope(t.rule.out, t.rule.env, "trigger", hop,
                      Append(t.source.path, t.rule))
    <3>1. tasks' \subseteq tasks /\ (inbox' = inbox \/ (hop <= hop_cap /\ inbox' = inbox \cup {e}))
      BY <2>2, <2>1 DEF ActPublish, TaskFollows, HopsCount
    <3>2. e.hop = hop /\ e.path = Append(t.source.path, t.rule)
      BY DEF TrigEnvelope
    <3>3. /\ hop \in Nat /\ Append(t.source.path, t.rule) \in Seq(Nat \cup TrigRule)
          /\ Len(Append(t.source.path, t.rule)) = hop + 1
      BY <2>1 DEF HopsCount, TaskFollows
    <3> HIDE DEF e, hop
    <3>4. hop <= hop_cap => HopsCount(e)
      BY <3>2, <3>3 DEF HopsCount
    <3> QED
      BY <3>1, <3>4
  <2>3. CASE ~ActPublish(t)
    <3>1. inbox' = inbox
      BY <1>3, <2>3 DEF TaskStep, TrigFire, Approved, ActPost, PostFails, PostWorks, Backoff,
         ActPrompt
    <3>2. \A u \in tasks' : \/ u \in tasks
                            \/ \E at : u \in {[t EXCEPT !.at = at],
                              [t EXCEPT !.at = at, !.try = @ + 1]}
      BY <1>3, <2>3 DEF TaskStep, TrigFire, Approved, ActPost, PostFails, PostWorks, Backoff,
                        ActPrompt, Moved
    <3>3. \A at : /\ TaskFollows([t EXCEPT !.at = at])
                  /\ TaskFollows([t EXCEPT !.at = at, !.try = @ + 1])
      BY <2>1, MovedFollows
    <3>4. \A u \in tasks' : TaskFollows(u)
      BY <3>2, <3>3
    <3> QED
      BY <3>1, <3>4
  <2> QED
    BY <2>2, <2>3
<1>4. CASE TrigRestart
  BY <1>4 DEF TrigRestart
<1> QED
  BY <1>1, <1>2, <1>3, <1>4

\* Every step of the engine keeps all four parts.
LEMMA TriggersStep ==
  ASSUME TrigInv, [TriggersNext]_trigVars
  PROVE  TrigInv'
<1> USE DEF TrigInv
<1>1. ASSUME \/ \E w \in TrigWriter, r \in tworld.set : TrigSet(w, r)
             \/ \E w \in TrigWriter, r \in rows : TrigDel(w, r)
             \/ (\E r \in rows : TrigTtl(r)) \/ ReloadStep
      PROVE  TrigInv'
  <2>1. UNCHANGED <<inbox, tasks, prompts, tnow, tdown, posts, earlier, budgets>>
    BY <1>1 DEF TrigSet, TrigDel, TrigTtl, ReloadStep, ReloadScan, ReloadStore
  <2>2. TableInv'
    BY <1>1, TableStep DEF ReloadStep
  <2> QED
    BY <2>1, <2>2, PaceStays DEF ChainsAreCounted, PromptsStayHome
<1>2. ASSUME NEW s \in tworld.seeds, TrigPublish(s)
      PROVE  TrigInv'
  <2>1. /\ UNCHANGED <<rows, rules, writer, overlapped, ttl_gone, tworld>> /\ seeded' \in Nat
        /\ UNCHANGED <<prompts, tnow, tdown, posts, earlier, budgets>>
    BY <1>2 DEF TrigPublish, TableInv, RulesAreRules
  <2> QED
    BY <1>2, <2>1, TableStays, ChainStep, PaceStays DEF PromptsStayHome
<1>3. ASSUME NEW e \in inbox, OnEnvelope(e)
      PROVE  TrigInv'
  <2>1. /\ UNCHANGED <<rows, rules, writer, overlapped, ttl_gone, tworld>> /\ seeded' \in Nat
        /\ UNCHANGED <<prompts, tnow, tdown, posts, earlier, budgets>>
    BY <1>3 DEF OnEnvelope, TableInv, RulesAreRules
  <2> QED
    BY <1>3, <2>1, TableStays, ChainStep, PaceStays DEF PromptsStayHome
<1>4. ASSUME NEW t \in tasks, TaskStep(t)
      PROVE  TrigInv'
  <2>1. UNCHANGED <<rows, rules, writer, overlapped, ttl_gone, tworld>> /\ seeded' \in Nat
    BY <1>4 DEF TaskStep, TrigFire, Approved, ActPublish, ActPost, PostFails, PostWorks, Backoff,
                ActPrompt, TableInv, RulesAreRules
  <2>2. TaskFollows(t)
    BY DEF ChainsAreCounted
  <2>3. PaceInv'
    <3>1. CASE ActPost(t)
      <4>1. t.rule.id \in Ids
        BY <2>2, TrigAssumption DEF TaskFollows, TrigRule
      <4> QED
        BY <3>1, <4>1, PostKeepsPace
    <3>2. CASE ~ActPost(t)
      <4>1. UNCHANGED <<tnow, tdown, posts, earlier, budgets>>
        BY <1>4, <3>2 DEF TaskStep, TrigFire, Approved, ActPublish, PostFails, PostWorks, Backoff,
                          ActPrompt
      <4> QED
        BY <4>1, PaceStays
    <3> QED
      BY <3>1, <3>2
  <2>4. PromptsStayHome'
    <3>1. CASE ActPrompt(t)
      BY <3>1, <2>2 DEF ActPrompt, PromptsStayHome, TaskFollows
    <3>2. CASE ~ActPrompt(t)
      BY <1>4, <3>2 DEF TaskStep, TrigFire, Approved, ActPublish, ActPost, PostFails, PostWorks,
                        Backoff, PromptsStayHome
    <3> QED
      BY <3>1, <3>2
  <2> QED
    BY <1>4, <2>1, <2>3, <2>4, TableStays, ChainStep
<1>5. CASE TrigRestart
  <2>1. UNCHANGED prompts
    BY <1>5 DEF TrigRestart
  <2>2. PaceInv'
    BY <1>5, RestartKeepsPace
  <2> QED
    BY <1>5, <2>1, <2>2, TableStep, ChainStep DEF PromptsStayHome
<1>6. CASE TrigTime
  BY <1>6, TableStays, TimeKeepsPace
     DEF TrigTime, ChainsAreCounted, PromptsStayHome, TableInv, RulesAreRules
<1>7. CASE UNCHANGED trigVars
  BY <1>7, TableStays, PaceStays
     DEF trigVars, ChainsAreCounted, PromptsStayHome, TableInv, RulesAreRules
<1> QED
  BY <1>1, <1>2, <1>3, <1>4, <1>5, <1>6, <1>7 DEF TriggersNext, EngineStep

\* A base that starts (Trigger::new, the first reload).
LEMMA InitHasTrigInv == TriggersInit => TrigInv
<1> SUFFICES ASSUME TriggersInit PROVE TrigInv
  OBVIOUS
<1>1. TableInv
  BY DEF TriggersInit, TableInv, RulesAreRules, ScanIsCurrent, CopyIsCurrent, TrigRule, Resting
<1>2. PaceInv
  <2>1. PostsAreKnown /\ tdown = 0 /\ earlier = {}
    BY FS_EmptySet DEF TriggersInit, PostsAreKnown
  <2>2. BudgetInv
    BY <2>1, RestartKeepsBudget DEF TriggersInit, NothingSpent
  <2>3. EarlierArePaced
    <3>1. \A i \in Ids, t \in 1 .. tnow : Until(earlier, i, t) = {}
      BY <2>1 DEF Until
    <3> QED
      BY <2>1, <3>1, FS_EmptySet, TrigAssumption DEF EarlierArePaced
  <2> QED
    BY <2>1, <2>2, <2>3 DEF PaceInv
<1> QED
  BY <1>1, <1>2 DEF TriggersInit, TrigInv, ChainsAreCounted, PromptsStayHome

\* For any rules, envelopes and writers: a chain of publications by triggers has
\* at most hop_cap of them; under any calls_per_min above zero an id spends at most
\* two windows' worth of slots in any WINDOW, and as much again for each restart of
\* base; a prompt stays in the env of its envelope unless an admin set the
\* rule, and the copy is what the table holds unless two writers overlapped
\* (act_publish, spend, act_prompt, reload).
THEOREM TriggersAreAlwaysContained == TriggersSpec => []TriggersAreContained
<1>1. TrigInv /\ [TriggersNext]_trigVars => TrigInv'
  BY TriggersStep
<1>2. TrigInv => TriggersAreContained
  <2> SUFFICES ASSUME TrigInv PROVE ChainsAreShort
    BY PaceIsKept DEF TrigInv, TableInv, TriggersAreContained
  <2> QED
    BY TrigAssumption DEF TrigInv, ChainsAreCounted, ChainsAreShort, HopsCount
<1> QED
  BY <1>1, <1>2, InitHasTrigInv, PTL DEF TriggersSpec

-----------------------------------------------------------------------------
(***************************************************************************)
(* Proofs about the ingress routes: for any apps, names, quotas and any    *)
(* lease longer than a round of the probe loop, the quotas hold, a route   *)
(* stays while its app answers, and no name changes env without being free.*)
(***************************************************************************)

\* Entry e of the loop's copy is still what the table says.
IsCopyOf(e, n) == e.name = n /\ e.app = route[n].app /\ e.lease = route[n].lease

IngressTypes ==
  /\ left \in Seq(0 .. LEASE)
  /\ DOMAIN route = RouteName
  /\ \A n \in RouteName : route[n] = NoRoute \/ route[n] \in [app : App, lease : 1 .. Len(left)]
  /\ alive \in [App -> BOOLEAN] /\ asks \subseteq App \X RouteName
  /\ DOMAIN round = {"due", "todo"}
  /\ round.todo \subseteq [name : RouteName, app : App, lease : 1 .. Len(left)]
  /\ misses \in [RouteName -> Nat] /\ slow \in Nat /\ deaths \in Nat

\* A lease is bound to one app of a name: the copy is older than a route of
\* another lease, never of another app.
CopiesTell ==
  \A e \in round.todo : route[e.name].lease = e.lease => route[e.name].app = e.app

\* While nothing died and nothing was slow, a route was renewed after the last
\* round, or the loop is still to come to it.
RoutesAreRenewed ==
  deaths = 0 /\ slow = 0 =>
    /\ \A a \in App : alive[a]
    /\ \A n \in Routed :
         LET l == route[n].lease IN
         /\ left[l] >= LEASE - 1
         /\ left[l] = LEASE \/ round.due \/ \E e \in round.todo : IsCopyOf(e, n)

\* What counts against a route: misses that came before it, or its own, which are
\* as many as its name has.
CountedFor(n) ==
  LET l == route[n].lease IN
  \/ strikes[l] >= PROBE_MISSES
  \/ misses[n] <= strikes[l] /\ \A e \in round.todo : e.name = n => e.lease = l

\* A lease is bound to one name, and the loop's copy has a name once.
StrikesCount ==
  /\ strikes \in Seq(Nat) /\ Len(strikes) = Len(left)
  /\ \A d, e \in round.todo : d.name = e.name => d = e
  /\ \A m, n \in Routed : route[m].lease = route[n].lease => m = n
  /\ \A e \in round.todo, n \in Routed : route[n].lease = e.lease => n = e.name
  /\ \A n \in Routed : CountedFor(n)

IngressInv == IngressTypes /\ QuotasHold /\ LiveRoutesStay /\ CopiesTell /\ RoutesAreRenewed

\* What a step does to a name that has a route.
NamesStay ==
  \A n \in RouteName : n \in Routed /\ route'[n] # NoRoute => EnvOf[route'[n].app] = Owner(n)

---------------------------------------------------------------------------
(* The quotas.                                                             *)

\* The routes of one env.
RoutedOf(v) == {n \in Routed : Owner(n) = v}

\* The names are finitely many, and so are the routes (RouteName).
LEMMA RoutesAreFinite ==
  /\ IsFiniteSet(Routed) /\ Cardinality(Routed) \in Nat
  /\ \A v : IsFiniteSet(RoutedOf(v)) /\ Cardinality(RoutedOf(v)) \in Nat
<1>1. Routed \subseteq RouteName /\ \A v : RoutedOf(v) \subseteq RouteName
  BY DEF Routed, RoutedOf
<1>2. \A S : S \subseteq RouteName => IsFiniteSet(S) /\ Cardinality(S) \in Nat
  BY IngressAssumption, FS_Subset, FS_CardinalityType
<1> QED
  BY <1>1, <1>2

\* Steps that give no name a route keep the quotas: drop, expiry, probes.
LEMMA FewerRoutesKeepQuotas ==
  ASSUME QuotasHold, \A n \in RouteName : route'[n] \in {route[n], NoRoute}
  PROVE  QuotasHold'
<1>1. Routed' \subseteq Routed /\ \A v : RoutedOf(v)' \subseteq RoutedOf(v)
  BY DEF Routed, RoutedOf, Owner
<1>2. Cardinality(Routed') <= Cardinality(Routed)
  BY <1>1, RoutesAreFinite, FS_Subset
<1>3. \A v : Cardinality(RoutedOf(v)') <= Cardinality(RoutedOf(v))
  BY <1>1, RoutesAreFinite, FS_Subset
<1>4. /\ Cardinality(Routed') \in Nat /\ Cardinality(Routed) \in Nat
      /\ \A v : Cardinality(RoutedOf(v)') \in Nat /\ Cardinality(RoutedOf(v)) \in Nat
  <2>1. Routed' \subseteq RouteName /\ \A v : RoutedOf(v)' \subseteq RouteName
    BY DEF Routed, RoutedOf
  <2> QED
    BY <2>1, RoutesAreFinite, IngressAssumption, FS_Subset, FS_CardinalityType
<1>5. /\ Cardinality(Routed) <= max_total
      /\ \A a \in App : Cardinality(RoutedOf(EnvOf[a])) <= max_per_env
  BY DEF QuotasHold, RoutedOf
<1>6. /\ Cardinality(Routed') <= max_total
      /\ \A a \in App : Cardinality(RoutedOf(EnvOf[a])') <= max_per_env
  BY <1>2, <1>3, <1>4, <1>5, IngressAssumption
<1> QED
  BY <1>6 DEF QuotasHold, RoutedOf

\* ingress_check() just before ingress_commit() keeps both quotas, whoever
\* registered since the app first asked.
LEMMA CommitKeepsQuotas ==
  ASSUME IngressTypes, QuotasHold, NEW a \in App, NEW n \in RouteName,
         IngressCheck(a, n), IngressCommit(a, n)
  PROVE  QuotasHold' /\ NamesStay
<1> DEFINE new == [app |-> a, lease |-> Len(left) + 1]
<1>1. /\ new # NoRoute /\ new.app = a
      /\ \A m \in RouteName : route'[m] = IF m = n THEN new ELSE route[m]
  BY DEF IngressTypes, IngressCommit, NoRoute
<1> HIDE DEF new
<1>2. Routed' = Routed \cup {n}
  BY <1>1 DEF Routed
<1>3. /\ \A m \in Routed' : Owner(m)' = IF m = n THEN EnvOf[a] ELSE Owner(m)
  BY <1>1 DEF Routed, Owner
<1>4. /\ Cardinality(Routed) <= max_total
      /\ \A b \in App : Cardinality(RoutedOf(EnvOf[b])) <= max_per_env
  BY DEF QuotasHold, RoutedOf
<1>5. CASE n \in Routed
  <2>1. Owner(n) = EnvOf[a]
    BY <1>5 DEF IngressCheck
  <2>2. Routed' = Routed /\ \A b \in App : RoutedOf(EnvOf[b])' = RoutedOf(EnvOf[b])
    BY <1>2, <1>3, <1>5, <2>1 DEF RoutedOf
  <2>3. QuotasHold'
    BY <2>2, <1>4 DEF QuotasHold, RoutedOf
  <2>4. NamesStay
    BY <1>1, <2>1 DEF NamesStay, Owner
  <2> QED
    BY <2>3, <2>4
<1>6. CASE n \notin Routed
  <2>1. Cardinality(Routed) < max_total /\ Cardinality(RoutedOf(EnvOf[a])) < max_per_env
    BY <1>6 DEF IngressCheck, RoutedOf
  <2>2. Cardinality(Routed') = Cardinality(Routed) + 1
    BY <1>2, <1>6, RoutesAreFinite, FS_AddElement
  <2>3. ASSUME NEW b \in App
        PROVE  Cardinality(RoutedOf(EnvOf[b])') <= max_per_env
    <3>1. CASE EnvOf[b] = EnvOf[a]
      <4>1. RoutedOf(EnvOf[b])' = RoutedOf(EnvOf[a]) \cup {n} /\ n \notin RoutedOf(EnvOf[a])
        BY <1>2, <1>3, <1>6, <3>1 DEF RoutedOf
      <4>2. Cardinality(RoutedOf(EnvOf[b])') = Cardinality(RoutedOf(EnvOf[a])) + 1
        BY <4>1, RoutesAreFinite, FS_AddElement
      <4> QED
        BY <4>2, <2>1, RoutesAreFinite, IngressAssumption
    <3>2. CASE EnvOf[b] # EnvOf[a]
      <4>1. RoutedOf(EnvOf[b])' = RoutedOf(EnvOf[b])
        BY <1>2, <1>3, <1>6, <3>2 DEF RoutedOf
      <4> QED
        BY <4>1, <1>4
    <3> QED
      BY <3>1, <3>2
  <2>4. QuotasHold'
    BY <2>1, <2>2, <2>3, RoutesAreFinite, IngressAssumption DEF QuotasHold, RoutedOf
  <2>5. NamesStay
    BY <1>1, <1>6 DEF NamesStay, Owner, Routed
  <2> QED
    BY <2>4, <2>5
<1> QED
  BY <1>5, <1>6

---------------------------------------------------------------------------
(* The steps.                                                              *)

\* A host that starts has no routes (spawn_liveness).
LEMMA InitHasIngressInv == IngressInit => IngressInv
<1> SUFFICES ASSUME IngressInit PROVE IngressInv
  OBVIOUS
<1>1. Routed = {}
  BY DEF IngressInit, Routed
<1>2. Routed = {} /\ \A a \in App : {n \in Routed : Owner(n) = EnvOf[a]} = {}
  BY <1>1
<1>3. QuotasHold
  BY <1>2, IngressAssumption, FS_EmptySet DEF QuotasHold
<1>4. IngressTypes
  BY DEF IngressInit, IngressTypes
<1> QED
  BY <1>1, <1>3, <1>4 DEF IngressInit, IngressInv, LiveRoutesStay, CopiesTell, RoutesAreRenewed

\* ingress_commit() after a check: the new lease is nobody's yet.
LEMMA CommitKeepsInv ==
  ASSUME IngressInv, NEW a \in App, NEW n \in RouteName, IngressCheck(a, n), IngressCommit(a, n),
         asks' \subseteq App \X RouteName,
         UNCHANGED <<alive, round, misses, wronged, slow, deaths>>
  PROVE  IngressInv' /\ NamesStay
<1> DEFINE new == [app |-> a, lease |-> Len(left) + 1]
<1> USE IngressAssumption
<1>1. QuotasHold' /\ NamesStay
  BY CommitKeepsQuotas DEF IngressInv
<1>2. /\ left \in Seq(0 .. LEASE) /\ left' \in Seq(0 .. LEASE)
      /\ Len(left) \in Nat /\ Len(left') = Len(left) + 1 /\ left'[Len(left) + 1] = LEASE
      /\ \A l \in 1 .. Len(left) : left'[l] = left[l]
  BY DEF IngressInv, IngressTypes, IngressCommit
<1>3. \A m \in RouteName : route'[m] = IF m = n THEN new ELSE route[m]
  BY DEF IngressInv, IngressTypes, IngressCommit
<1>4. new \in [app : App, lease : 1 .. Len(left')] /\ new.lease = Len(left) + 1 /\ new.app = a
  BY <1>2
<1>5. IngressTypes'
  BY <1>2, <1>3, <1>4 DEF IngressInv, IngressTypes, IngressCommit
<1> HIDE DEF new
<1>6. CopiesTell'
  <2>1. ASSUME NEW e \in round.todo, route'[e.name].lease = e.lease
        PROVE  route'[e.name].app = e.app
    <3>1. e.name \in RouteName /\ e.lease \in 1 .. Len(left)
      BY DEF IngressInv, IngressTypes
    <3>2. e.name # n
      BY <2>1, <3>1, <1>2, <1>3, <1>4
    <3> QED
      BY <2>1, <3>1, <3>2, <1>3 DEF IngressInv, CopiesTell
  <2> QED
    BY <2>1 DEF CopiesTell
<1>7. RoutesAreRenewed'
  <2>1. ASSUME deaths' = 0, slow' = 0, NEW m \in Routed'
        PROVE  LET l == route'[m].lease IN
               /\ left'[l] >= LEASE - 1
               /\ left'[l] = LEASE \/ round'.due \/ \E e \in round'.todo : IsCopyOf(e, m)'
    <3>1. CASE m = n
      BY <3>1, <1>2, <1>3, <1>4 DEF Routed
    <3>2. CASE m # n
      <4>1. m \in Routed /\ route'[m] = route[m] /\ route[m].lease \in 1 .. Len(left)
        BY <3>2, <1>3 DEF Routed, IngressInv, IngressTypes
      <4> QED
        BY <4>1, <2>1, <1>2 DEF IngressInv, RoutesAreRenewed, IsCopyOf
    <3> QED
      BY <3>1, <3>2
  <2> QED
    BY <2>1 DEF IngressInv, RoutesAreRenewed
<1> QED
  BY <1>1, <1>5, <1>6, <1>7 DEF IngressInv, LiveRoutesStay

\* A name loses its route: unregister, a second miss, kv's sweep.
LEMMA DropKeepsInv ==
  ASSUME IngressInv, NEW n \in RouteName, route' = [route EXCEPT ![n] = NoRoute],
         wronged' = wronged, misses' \in [RouteName -> Nat],
         UNCHANGED <<left, alive, asks, deaths>>,
         \/ UNCHANGED <<round, slow>>
         \/ \E e \in round.todo : e.name = n /\ round' = [round EXCEPT !.todo = @ \ {e}]
              /\ slow' \in Nat /\ slow' >= slow
  PROVE  IngressInv' /\ NamesStay
<1>1. \A m \in RouteName : route'[m] = IF m = n THEN NoRoute ELSE route[m]
  BY DEF IngressInv, IngressTypes
<1>2. \A m \in RouteName : route'[m] \in {route[m], NoRoute}
  BY <1>1
<1>3. QuotasHold'
  BY <1>2, FewerRoutesKeepQuotas DEF IngressInv
<1>4. NamesStay
  BY <1>2 DEF NamesStay, Owner
<1>5. /\ DOMAIN round' = {"due", "todo"} /\ round'.due = round.due
      /\ round'.todo \subseteq round.todo
      /\ \A e \in round.todo : e.name # n => e \in round'.todo
      /\ slow' \in Nat /\ slow' >= slow
  BY DEF IngressInv, IngressTypes
<1>6. IngressTypes'
  BY <1>2, <1>5 DEF IngressInv, IngressTypes
<1>7. CopiesTell'
  <2>1. ASSUME NEW e \in round'.todo, route'[e.name].lease = e.lease
        PROVE  route'[e.name].app = e.app
    <3>1. e \in round.todo /\ e.name \in RouteName /\ e.lease \in 1 .. Len(left)
      BY <1>5 DEF IngressInv, IngressTypes
    <3>2. e.name # n
      BY <2>1, <3>1, <1>1 DEF NoRoute, IngressInv, IngressTypes
    <3> QED
      BY <2>1, <3>1, <3>2, <1>1 DEF IngressInv, CopiesTell
  <2> QED
    BY <2>1 DEF CopiesTell
<1>8. RoutesAreRenewed'
  <2>1. ASSUME deaths' = 0, slow' = 0, NEW m \in Routed'
        PROVE  LET l == route'[m].lease IN
               /\ left'[l] >= LEASE - 1
               /\ left'[l] = LEASE \/ round'.due \/ \E e \in round'.todo : IsCopyOf(e, m)'
    <3>1. m \in RouteName /\ m # n /\ m \in Routed /\ route'[m] = route[m]
      BY <1>1 DEF Routed
    <3>2. deaths = 0 /\ slow = 0
      BY <2>1, <1>5 DEF IngressInv, IngressTypes
    <3>3. \A e \in round.todo : IsCopyOf(e, m) => e \in round'.todo /\ IsCopyOf(e, m)'
      BY <3>1, <1>5 DEF IsCopyOf
    <3> QED
      BY <3>1, <3>2, <3>3, <1>5 DEF IngressInv, RoutesAreRenewed
  <2>2. deaths' = 0 /\ slow' = 0 => \A a \in App : alive'[a]
    BY <1>5 DEF IngressInv, IngressTypes, RoutesAreRenewed
  <2> QED
    BY <2>1, <2>2 DEF RoutesAreRenewed
<1> QED
  BY <1>3, <1>4, <1>6, <1>7, <1>8 DEF IngressInv, LiveRoutesStay

\* The steps of apps and of the human: none of them breaks the quotas or takes
\* a live route.
LEMMA AppStepKeepsInv ==
  ASSUME IngressInv,
         \/ \E a \in App, n \in RouteName :
              Register(a, n) \/ RegisterApproved(a, n) \/ RegisterDenied(a, n) \/ Unregister(a, n)
         \/ \E a \in App : AppDies(a) \/ AppReturns(a)
  PROVE  IngressInv' /\ NamesStay
<1>1. ASSUME UNCHANGED <<route, left, alive, round, misses, wronged, slow, deaths>>,
             asks' \subseteq App \X RouteName
      PROVE  IngressInv' /\ NamesStay
  <2>1. QuotasHold' /\ Routed' = Routed
    BY <1>1 DEF IngressInv, QuotasHold, Routed, Owner
  <2> QED
    BY <1>1, <2>1 DEF IngressInv, IngressTypes, LiveRoutesStay, CopiesTell, RoutesAreRenewed,
                      IsCopyOf, NamesStay, Owner
<1>2. ASSUME NEW a \in App, NEW n \in RouteName, Register(a, n)
      PROVE  IngressInv' /\ NamesStay
  <2>1. asks' \subseteq App \X RouteName
    BY <1>2 DEF Register, IngressInv, IngressTypes
  <2> QED
    BY <1>1, <1>2, <2>1, CommitKeepsInv DEF Register
<1>3. ASSUME NEW a \in App, NEW n \in RouteName, RegisterApproved(a, n) \/ RegisterDenied(a, n)
      PROVE  IngressInv' /\ NamesStay
  <2>1. asks' \subseteq App \X RouteName
    BY <1>3 DEF RegisterApproved, RegisterDenied, IngressInv, IngressTypes
  <2> QED
    BY <1>1, <1>3, <2>1, CommitKeepsInv DEF RegisterApproved, RegisterDenied
<1>4. ASSUME NEW a \in App, NEW n \in RouteName, Unregister(a, n)
      PROVE  IngressInv' /\ NamesStay
  BY <1>4, DropKeepsInv DEF Unregister, IngressInv, IngressTypes
<1>5. ASSUME NEW a \in App, AppDies(a) \/ AppReturns(a)
      PROVE  IngressInv' /\ NamesStay
  <2>1. /\ UNCHANGED <<route, left, asks, round, misses, wronged, slow>>
        /\ alive' \in [App -> BOOLEAN] /\ deaths' \in Nat
        /\ deaths' = 0 /\ slow = 0 => deaths = 0 /\ \A b \in App : alive'[b]
    <3>1. CASE AppDies(a)
      BY <3>1 DEF AppDies, IngressInv, IngressTypes
    <3>2. CASE AppReturns(a)
      <4>1. /\ UNCHANGED <<route, left, asks, round, misses, wronged, slow, deaths>>
            /\ alive' \in [App -> BOOLEAN] /\ \A b \in App : alive[b] => alive'[b]
        BY <3>2 DEF AppReturns, IngressInv, IngressTypes
      <4> QED
        BY <4>1 DEF IngressInv, IngressTypes, RoutesAreRenewed
    <3> QED
      BY <1>5, <3>1, <3>2
  <2>2. QuotasHold' /\ Routed' = Routed
    BY <2>1 DEF IngressInv, QuotasHold, Routed, Owner
  <2> QED
    BY <2>1, <2>2 DEF IngressInv, IngressTypes, LiveRoutesStay, CopiesTell, RoutesAreRenewed,
                      IsCopyOf, NamesStay, Owner
<1> QED
  BY <1>2, <1>3, <1>4, <1>5

\* A round begins: every route is in the copy.
LEMMA RoundBeginsKeepsInv ==
  ASSUME IngressInv, RoundBegins
  PROVE  IngressInv' /\ NamesStay
<1> DEFINE Copy(n) == [name |-> n, app |-> route[n].app, lease |-> route[n].lease]
<1>1. /\ UNCHANGED <<route, left, alive, asks, wronged, slow, deaths>>
      /\ DOMAIN round' = {"due", "todo"} /\ round'.todo = {Copy(n) : n \in Routed}
      /\ misses' \in [RouteName -> Nat]
  BY DEF RoundBegins, IngressInv, IngressTypes
<1>2. \A n \in Routed : n \in RouteName /\ route[n] \in [app : App, lease : 1 .. Len(left)]
  BY DEF Routed, IngressInv, IngressTypes
<1>3. \A n \in Routed : Copy(n) \in [name : RouteName, app : App, lease : 1 .. Len(left)]
  BY <1>2
<1>4. \A n \in Routed : Copy(n).name = n /\ IsCopyOf(Copy(n), n)
  BY DEF IsCopyOf
<1> HIDE DEF Copy
<1>5. QuotasHold' /\ Routed' = Routed /\ NamesStay
  BY <1>1 DEF IngressInv, QuotasHold, Routed, Owner, NamesStay
<1>6. IngressTypes'
  BY <1>1, <1>3 DEF IngressInv, IngressTypes
<1>7. CopiesTell'
  BY <1>1, <1>4 DEF CopiesTell, IsCopyOf
<1>8. RoutesAreRenewed'
  <2>1. \A n \in Routed' : \E e \in round'.todo : IsCopyOf(e, n)'
    BY <1>1, <1>4, <1>5 DEF IsCopyOf
  <2> QED
    BY <2>1, <1>1, <1>5 DEF IngressInv, RoutesAreRenewed
<1> QED
  BY <1>1, <1>5, <1>6, <1>7, <1>8 DEF IngressInv, LiveRoutesStay

\* A probe that is answered renews the lease of the copy (keep_alive).
LEMMA AnswerKeepsInv ==
  ASSUME IngressInv, NEW e \in round.todo, ProbeAnswers(e)
  PROVE  IngressInv' /\ NamesStay
<1> USE IngressAssumption
<1>1. /\ UNCHANGED <<route, alive, asks, wronged, slow, deaths>>
      /\ DOMAIN round' = {"due", "todo"} /\ round'.todo = round.todo \ {e} /\ round'.due = round.due
      /\ misses' \in [RouteName -> Nat]
  BY DEF ProbeAnswers, IngressInv, IngressTypes
<1>2. /\ left \in Seq(0 .. LEASE) /\ left' \in Seq(0 .. LEASE) /\ Len(left') = Len(left)
      /\ \A l \in 1 .. Len(left) :
           /\ left[l] \in 0 .. LEASE
           /\ left'[l] = IF l = e.lease THEN IF left[l] = 0 THEN 0 ELSE LEASE ELSE left[l]
  BY DEF ProbeAnswers, IngressInv, IngressTypes
<1>3. QuotasHold' /\ Routed' = Routed /\ NamesStay
  BY <1>1 DEF IngressInv, QuotasHold, Routed, Owner, NamesStay
<1>4. IngressTypes'
  BY <1>1, <1>2 DEF IngressInv, IngressTypes
<1>5. CopiesTell'
  BY <1>1 DEF CopiesTell, IngressInv
<1>6. RoutesAreRenewed'
  <2>1. ASSUME deaths' = 0, slow' = 0, NEW m \in Routed'
        PROVE  LET l == route'[m].lease IN
               /\ left'[l] >= LEASE - 1
               /\ left'[l] = LEASE \/ round'.due \/ \E d \in round'.todo : IsCopyOf(d, m)'
    <3>1. m \in Routed /\ route[m].lease \in 1 .. Len(left) /\ route'[m] = route[m]
      BY <1>1, <1>3 DEF Routed, IngressInv, IngressTypes
    <3>2. /\ left[route[m].lease] >= LEASE - 1
          /\ left[route[m].lease] = LEASE \/ round.due \/ \E d \in round.todo : IsCopyOf(d, m)
      BY <2>1, <3>1, <1>1 DEF IngressInv, RoutesAreRenewed
    <3>3. CASE route[m].lease = e.lease
      BY <3>1, <3>2, <3>3, <1>2
    <3>4. CASE route[m].lease # e.lease
      <4>1. \A d \in round.todo : IsCopyOf(d, m) => d \in round'.todo /\ IsCopyOf(d, m)'
        BY <3>4, <1>1 DEF IsCopyOf
      <4> QED
        BY <3>1, <3>2, <3>4, <4>1, <1>1, <1>2
    <3> QED
      BY <3>3, <3>4
  <2> QED
    BY <2>1, <1>1 DEF IngressInv, RoutesAreRenewed
<1> QED
  BY <1>1, <1>3, <1>4, <1>5, <1>6 DEF IngressInv, LiveRoutesStay

\* The facts about a copy's lease and name that probes need.
LEMMA CopyFacts ==
  ASSUME IngressTypes, StrikesCount, NEW e \in round.todo
  PROVE  /\ e.name \in RouteName /\ e.app \in App /\ e.lease \in 1 .. Len(strikes)
         /\ Len(strikes) \in Nat /\ \A l \in 1 .. Len(strikes) : strikes[l] \in Nat
         /\ \A n \in Routed : n \in RouteName /\ route[n].lease \in 1 .. Len(strikes)
         /\ misses \in [RouteName -> Nat]
BY DEF IngressTypes, StrikesCount, Routed

\* The second miss takes a route that missed as often, or that came while the
\* verdict on an earlier one was under way (spawn_liveness).
LEMMA VerdictIsDue ==
  ASSUME IngressTypes, StrikesCount, NEW e \in round.todo, ProbeMisses(e)
  PROVE  wronged' = wronged
<1>0. PICK n \in RouteName : n = e.name
  BY CopyFacts
<1>1. PICK l : n = e.name /\ l = route[n].lease
  BY <1>0
<1>2. CASE ~(n \in Routed /\ misses[n] + 1 >= PROBE_MISSES)
  BY <1>1, <1>2, Zenon DEF ProbeMisses
<1>3. CASE n \in Routed /\ misses[n] + 1 >= PROBE_MISSES
  <2>1. /\ l \in 1 .. Len(strikes) /\ strikes[l] \in Nat /\ misses[n] \in Nat /\ PROBE_MISSES \in Nat
        /\ e.lease \in 1 .. Len(strikes) /\ strikes \in Seq(Nat)
    BY <1>1, <1>3, CopyFacts, IngressAssumption DEF StrikesCount
  <2>2. strikes' = [strikes EXCEPT ![e.lease] = @ + 1]
    BY DEF ProbeMisses
  <2>3. strikes'[l] = IF l = e.lease THEN strikes[l] + 1 ELSE strikes[l]
    BY <2>1, <2>2
  <2>4. CountedFor(n)
    BY <1>3 DEF StrikesCount
  <2>5. strikes'[l] >= PROBE_MISSES
    <3>1. \/ strikes[l] >= PROBE_MISSES
          \/ misses[n] <= strikes[l] /\ e.lease = l
      BY <1>1, <2>4 DEF CountedFor
    <3>2. strikes'[l] >= strikes[l] /\ (e.lease = l => strikes'[l] = strikes[l] + 1)
      BY <2>1, <2>3
    <3>3. strikes'[l] \in Nat
      BY <2>1, <2>3
    <3> QED
      BY <1>3, <2>1, <3>1, <3>2, <3>3
  <2>6. strikes'[l] \in Nat
    BY <2>1, <2>3
  <2>7. ~(strikes'[l] < PROBE_MISSES)
    BY <2>1, <2>5, <2>6
  <2> QED
    BY <1>1, <2>7, Zenon DEF ProbeMisses
<1> QED
  BY <1>2, <1>3

\* Every step keeps what counts against a route.
LEMMA StrikesStep ==
  ASSUME IngressTypes, StrikesCount, [IngressNext]_ingressVars
  PROVE  StrikesCount'
<1> USE IngressAssumption
<1>0. /\ strikes \in Seq(Nat) /\ Len(strikes) = Len(left) /\ Len(strikes) \in Nat
      /\ \A l \in 1 .. Len(strikes) : strikes[l] \in Nat
      /\ \A n \in Routed : n \in RouteName /\ route[n].lease \in 1 .. Len(strikes)
      /\ \A e \in round.todo : e.name \in RouteName /\ e.lease \in 1 .. Len(strikes)
      /\ misses \in [RouteName -> Nat] /\ DOMAIN route = RouteName
  BY DEF IngressTypes, StrikesCount, Routed
<1>1. ASSUME UNCHANGED <<route, round, misses, strikes>>, Len(left') = Len(left)
      PROVE  StrikesCount'
  BY <1>1 DEF StrikesCount, CountedFor, Routed
<1>2. ASSUME NEW a \in App, NEW n \in RouteName, IngressCommit(a, n), UNCHANGED <<round, misses>>
      PROVE  StrikesCount'
  <2>0. Strikes(n) \in Nat
    BY DEF Strikes
  <2>1. PICK x \in Nat, k \in Nat : x = Strikes(n) /\ k = Len(strikes) + 1
    BY <1>0, <2>0
  <2>2. /\ strikes' \in Seq(Nat) /\ Len(strikes') = k /\ Len(left') = k
        /\ \A l \in 1 .. Len(strikes') : strikes'[l] = IF l = k THEN x ELSE strikes[l]
    BY <1>0, <1>2, <2>1 DEF IngressCommit, IngressTypes
  <2>3. PICK new : new = [app |-> a, lease |-> k]
    OBVIOUS
  <2>4. new.lease = k /\ new # NoRoute
    BY <2>1, <2>3, <1>0 DEF NoRoute
  <2>5. \A m \in RouteName : route'[m] = IF m = n THEN new ELSE route[m]
    BY <1>0, <1>2, <2>1, <2>3 DEF IngressCommit
  <2>6. Routed' = Routed \cup {n}
    BY <2>4, <2>5 DEF Routed
  <2>7. \A m \in Routed' : (m = n /\ route'[m].lease = k)
                          \/ (m # n /\ m \in Routed /\ route'[m] = route[m] /\ route[m].lease < k)
    BY <1>0, <2>1, <2>4, <2>5, <2>6
  <2>a. \A m \in Routed : route[m].lease # k
    BY <1>0, <2>1
  <2>b. \A m, o \in Routed' : route'[m].lease = route'[o].lease => m = o
    BY <2>7, <2>a DEF StrikesCount
  <2>c. \A e \in round.todo : e.lease # k
    BY <1>0, <2>1
  <2>d. \A e \in round'.todo, m \in Routed' : route'[m].lease = e.lease => m = e.name
    BY <1>2, <2>7, <2>c DEF StrikesCount
  <2>8. /\ \A m, o \in Routed' : route'[m].lease = route'[o].lease => m = o
        /\ \A e \in round'.todo, m \in Routed' : route'[m].lease = e.lease => m = e.name
    BY <2>b, <2>d
  <2>9. ASSUME NEW m \in Routed' PROVE CountedFor(m)'
    <3>1. CASE m = n
      <4>1. x >= PROBE_MISSES \/ (misses[n] = 0 /\ \A e \in round.todo : e.name # n)
        BY <1>0, <2>1 DEF Strikes
      <4>2. route'[m].lease = k /\ strikes'[k] = x
        BY <2>1, <2>2, <2>7, <3>1
      <4> QED
        BY <1>2, <2>1, <3>1, <4>1, <4>2 DEF CountedFor
    <3>2. CASE m # n
      <4>1. m \in Routed /\ route'[m] = route[m] /\ strikes'[route[m].lease] = strikes[route[m].lease]
        BY <1>0, <2>1, <2>2, <2>7, <3>2
      <4>2. CountedFor(m)
        BY <4>1 DEF StrikesCount
      <4> QED
        BY <1>2, <4>1, <4>2 DEF CountedFor
    <3> QED
      BY <3>1, <3>2
  <2> QED
    BY <1>2, <2>2, <2>8, <2>9 DEF StrikesCount
<1>3. ASSUME NEW n \in RouteName, route' = [route EXCEPT ![n] = NoRoute],
             UNCHANGED <<left, round, misses, strikes>>
      PROVE  StrikesCount'
  <2>1. \A m \in Routed' : m \in Routed /\ route'[m] = route[m]
    BY <1>0, <1>3 DEF Routed
  <2> QED
    BY <1>3, <2>1 DEF StrikesCount, CountedFor
<1>4. CASE RoundBegins
  <2> DEFINE Copy(n) == [name |-> n, app |-> route[n].app, lease |-> route[n].lease]
  <2>1. /\ UNCHANGED <<route, left, strikes>> /\ round'.todo = {Copy(n) : n \in Routed}
        /\ \A n \in Routed : misses'[n] = misses[n]
    BY <1>0, <1>4 DEF RoundBegins
  <2>2. \A n \in Routed : Copy(n).name = n /\ Copy(n).lease = route[n].lease
    OBVIOUS
  <2> HIDE DEF Copy
  <2>3. Routed' = Routed
    BY <2>1 DEF Routed
  <2>4. /\ \A d, e \in round'.todo : d.name = e.name => d = e
        /\ \A e \in round'.todo, n \in Routed : route[n].lease = e.lease => n = e.name
        /\ \A e \in round'.todo, n \in Routed : e.name = n => e.lease = route[n].lease
    BY <2>1, <2>2 DEF StrikesCount
  <2>5. \A n \in Routed' : CountedFor(n)'
    BY <2>1, <2>3, <2>4 DEF StrikesCount, CountedFor
  <2> QED
    BY <2>1, <2>3, <2>4, <2>5 DEF StrikesCount
<1>5. ASSUME NEW e \in round.todo, ProbeAnswers(e)
      PROVE  StrikesCount'
  <2>1. /\ route' = route /\ Len(left') = Len(left) /\ round'.todo = round.todo \ {e}
        /\ Routed' = Routed
        /\ \A n \in RouteName : misses'[n] = IF n = e.name THEN 0 ELSE misses[n]
        /\ strikes' \in Seq(Nat) /\ Len(strikes') = Len(strikes)
        /\ \A l \in 1 .. Len(strikes) : strikes'[l] = IF l = e.lease THEN 0 ELSE strikes[l]
    <3>1. /\ route' = route /\ round'.todo = round.todo \ {e}
          /\ strikes' = [strikes EXCEPT ![e.lease] = 0]
      BY <1>5 DEF ProbeAnswers
    <3>2. Len(left') = Len(left)
      BY <1>0, <1>5 DEF ProbeAnswers, IngressTypes
    <3>3. \A n \in RouteName : misses'[n] = IF n = e.name THEN 0 ELSE misses[n]
      BY <1>0, <1>5 DEF ProbeAnswers, IngressTypes
    <3>4. /\ strikes' \in Seq(Nat) /\ Len(strikes') = Len(strikes)
          /\ \A l \in 1 .. Len(strikes) : strikes'[l] = IF l = e.lease THEN 0 ELSE strikes[l]
      BY <1>0, <3>1
    <3>5. Routed' = Routed
      BY <3>1 DEF Routed
    <3> QED
      BY <3>1, <3>2, <3>3, <3>4, <3>5
  <2>2. ASSUME NEW n \in Routed PROVE CountedFor(n)'
    <3>1. CountedFor(n) /\ n \in RouteName /\ route[n].lease \in 1 .. Len(strikes)
      BY <1>0 DEF StrikesCount
    <3>2. CASE route[n].lease = e.lease
      <4>1. n = e.name
        BY <3>2 DEF StrikesCount
      <4>2. misses'[n] = 0 /\ strikes'[route[n].lease] = 0 /\ \A d \in round'.todo : d.name # n
        BY <2>1, <3>1, <3>2, <4>1 DEF StrikesCount
      <4> QED
        BY <2>1, <4>2 DEF CountedFor
    <3>3. CASE route[n].lease # e.lease
      <4>1. strikes'[route[n].lease] = strikes[route[n].lease]
        BY <2>1, <3>1, <3>3
      <4>2. CASE n = e.name
        BY <2>1, <3>1, <3>3, <4>1, <4>2 DEF CountedFor
      <4>3. CASE n # e.name
        BY <2>1, <3>1, <4>1, <4>3 DEF CountedFor
      <4> QED
        BY <4>2, <4>3
    <3> QED
      BY <3>2, <3>3
  <2> QED
    BY <1>0, <2>1, <2>2 DEF StrikesCount
<1>6. ASSUME NEW e \in round.todo, ProbeMisses(e)
      PROVE  StrikesCount'
  <2>1. /\ Len(left') = Len(left) /\ round'.todo = round.todo \ {e}
        /\ strikes' \in Seq(Nat) /\ Len(strikes') = Len(strikes)
        /\ \A l \in 1 .. Len(strikes) : strikes'[l] = IF l = e.lease THEN strikes[l] + 1 ELSE strikes[l]
    <3>1. /\ left' = left /\ strikes' = [strikes EXCEPT ![e.lease] = @ + 1]
          /\ round'.todo = round.todo \ {e} /\ e.lease \in 1 .. Len(strikes)
      BY <1>0, <1>6 DEF ProbeMisses, IngressTypes
    <3>2. PICK k \in 1 .. Len(strikes) : k = e.lease
      BY <3>1
    <3>3. strikes' = [strikes EXCEPT ![k] = strikes[k] + 1] /\ strikes[k] + 1 \in Nat
      BY <1>0, <3>1, <3>2
    <3> QED
      BY <1>0, <3>1, <3>2, <3>3
  <2>2. \A n \in Routed' :
          /\ n \in Routed /\ route'[n] = route[n]
          /\ misses'[n] = IF n = e.name THEN misses[n] + 1 ELSE misses[n]
    BY <1>0, <1>6 DEF ProbeMisses, Routed
  <2>3. ASSUME NEW n \in Routed' PROVE CountedFor(n)'
    <3>1. /\ n \in Routed /\ CountedFor(n) /\ n \in RouteName /\ route[n].lease \in 1 .. Len(strikes)
          /\ misses[n] \in Nat /\ strikes[route[n].lease] \in Nat
      BY <1>0, <2>2 DEF StrikesCount
    <3>2. PICK l : l = route[n].lease
      OBVIOUS
    <3>a. l \in 1 .. Len(strikes) /\ strikes[l] \in Nat /\ route'[n].lease = l
      BY <2>2, <3>1, <3>2
    <3>3. CASE strikes[l] >= PROBE_MISSES
      <4>1. strikes'[l] >= PROBE_MISSES
        BY <2>1, <3>a, <3>3
      <4> QED
        BY <3>a, <4>1 DEF CountedFor
    <3>4. CASE misses[n] <= strikes[l] /\ \A d \in round.todo : d.name = n => d.lease = l
      <4>1. CASE n = e.name
        <5>1. l = e.lease
          BY <1>6, <3>4, <4>1
        <5> QED
          BY <2>1, <2>2, <3>1, <3>4, <3>a, <4>1, <5>1 DEF CountedFor
      <4>2. CASE n # e.name
        <5>1. misses'[n] = misses[n] /\ strikes'[l] >= strikes[l] /\ strikes'[l] \in Nat
          BY <2>1, <2>2, <3>a, <4>2
        <5>2. misses'[n] <= strikes'[l]
          BY <3>1, <3>4, <3>a, <5>1
        <5> QED
          BY <2>1, <3>4, <3>a, <5>2 DEF CountedFor
      <4> QED
        BY <4>1, <4>2
    <3> QED
      BY <3>1, <3>2, <3>3, <3>4 DEF CountedFor
  <2>4. /\ \A d, f \in round'.todo : d.name = f.name => d = f
        /\ \A m, n \in Routed' : route'[m].lease = route'[n].lease => m = n
        /\ \A d \in round'.todo, n \in Routed' : route'[n].lease = d.lease => n = d.name
    BY <2>1, <2>2 DEF StrikesCount
  <2> QED
    BY <1>0, <2>1, <2>3, <2>4 DEF StrikesCount
<1>7. CASE RoundPasses
  <2>1. /\ UNCHANGED <<route, misses, strikes>> /\ round'.todo = {} /\ round.todo = {}
        /\ Len(left') = Len(left)
    BY <1>7 DEF RoundPasses, IngressTypes
  <2> QED
    BY <2>1 DEF StrikesCount, CountedFor, Routed
<1>8. ASSUME NEW a \in App, NEW n \in RouteName,
             Register(a, n) \/ RegisterApproved(a, n) \/ RegisterDenied(a, n) \/ Unregister(a, n)
      PROVE  StrikesCount'
  <2>1. \/ IngressCommit(a, n) /\ UNCHANGED <<round, misses>>
        \/ UNCHANGED <<route, left, round, misses, strikes>>
        \/ route' = [route EXCEPT ![n] = NoRoute] /\ UNCHANGED <<left, round, misses, strikes>>
    BY <1>8 DEF Register, RegisterApproved, RegisterDenied, Unregister
  <2> QED
    BY <1>1, <1>2, <1>3, <2>1
<1>9. ASSUME NEW a \in App, AppDies(a) \/ AppReturns(a)
      PROVE  StrikesCount'
  BY <1>1, <1>9 DEF AppDies, AppReturns
<1>10. ASSUME NEW n \in RouteName, RouteExpires(n)
       PROVE  StrikesCount'
  BY <1>3, <1>10 DEF RouteExpires
<1>11. CASE UNCHANGED ingressVars
  BY <1>1, <1>11 DEF ingressVars
<1> QED
  BY <1>4, <1>5, <1>6, <1>7, <1>8, <1>9, <1>10, <1>11 DEF IngressNext, ProbeStep, ExpiryStep

\* A probe that is missed takes a route only when it is due, and the time of a
\* dead or slow app is no time in which every probe is answered.
LEMMA MissKeepsInv ==
  ASSUME IngressInv, StrikesCount, NEW e \in round.todo, ProbeMisses(e)
  PROVE  IngressInv' /\ NamesStay
<1> USE IngressAssumption
<1>1. e.name \in RouteName /\ e.app \in App
  BY DEF IngressInv, IngressTypes
<1>2. /\ UNCHANGED <<left, alive, asks, deaths>>
      /\ round' = [round EXCEPT !.todo = @ \ {e}]
      /\ slow' \in Nat /\ slow' >= slow /\ (alive[e.app] => slow' > 0)
      /\ misses' \in [RouteName -> Nat]
      /\ route' = route \/ route' = [route EXCEPT ![e.name] = NoRoute]
  BY <1>1 DEF ProbeMisses, IngressInv, IngressTypes
<1>3. wronged' = wronged
  BY VerdictIsDue DEF IngressInv
<1>4. CASE route' = [route EXCEPT ![e.name] = NoRoute]
  BY <1>1, <1>2, <1>3, <1>4, DropKeepsInv
<1>5. CASE route' = route
  <2>1. QuotasHold' /\ Routed' = Routed /\ NamesStay
    BY <1>5 DEF IngressInv, QuotasHold, Routed, Owner, NamesStay
  <2>2. DOMAIN round' = {"due", "todo"} /\ round'.todo = round.todo \ {e} /\ round'.due = round.due
    BY <1>2 DEF IngressInv, IngressTypes
  <2>3. IngressTypes' /\ CopiesTell'
    BY <1>2, <1>5, <2>2 DEF IngressInv, IngressTypes, CopiesTell
  <2>4. RoutesAreRenewed'
    <3>1. deaths' = 0 /\ slow' = 0 => FALSE
      BY <1>1, <1>2 DEF IngressInv, IngressTypes, RoutesAreRenewed
    <3> QED
      BY <3>1 DEF RoutesAreRenewed
  <2> QED
    BY <1>3, <2>1, <2>3, <2>4 DEF IngressInv, LiveRoutesStay
<1> QED
  BY <1>2, <1>4, <1>5

\* A round's time: every route was renewed since the last one, so none is
\* nearer to its end than one round.
LEMMA TimeKeepsInv ==
  ASSUME IngressInv, RoundPasses
  PROVE  IngressInv' /\ NamesStay
<1> USE IngressAssumption
<1>1. /\ UNCHANGED <<route, alive, asks, misses, wronged, slow, deaths>>
      /\ ~round.due /\ round.todo = {}
      /\ DOMAIN round' = {"due", "todo"} /\ round'.todo = {} /\ round'.due
  BY DEF RoundPasses, IngressInv, IngressTypes
<1>2. /\ left' \in Seq(0 .. LEASE) /\ Len(left') = Len(left)
      /\ \A l \in 1 .. Len(left) : left[l] = LEASE => left'[l] = LEASE - 1
  <2>1. Len(left) \in Nat /\ \A l \in 1 .. Len(left) : left[l] \in 0 .. LEASE
    BY DEF IngressInv, IngressTypes
  <2>2. left' = [l \in 1 .. Len(left) |-> IF left[l] > 0 THEN left[l] - 1 ELSE 0]
    BY DEF RoundPasses
  <2> QED
    BY <2>1, <2>2
<1>3. QuotasHold' /\ Routed' = Routed /\ NamesStay
  BY <1>1 DEF IngressInv, QuotasHold, Routed, Owner, NamesStay
<1>4. IngressTypes' /\ CopiesTell'
  BY <1>1, <1>2 DEF IngressInv, IngressTypes, CopiesTell
<1>5. RoutesAreRenewed'
  <2>1. \A n \in Routed : n \in RouteName /\ route[n].lease \in 1 .. Len(left)
    BY DEF Routed, IngressInv, IngressTypes
  <2>2. deaths = 0 /\ slow = 0 => \A n \in Routed : left[route[n].lease] = LEASE
    BY <1>1 DEF IngressInv, RoutesAreRenewed
  <2> QED
    BY <2>1, <2>2, <1>1, <1>2, <1>3 DEF IngressInv, RoutesAreRenewed
<1> QED
  BY <1>1, <1>3, <1>4, <1>5 DEF IngressInv, LiveRoutesStay

\* kv's sweep takes the route of an app that always answered from nobody: such
\* a lease has a round or more left.
LEMMA ExpiryKeepsInv ==
  ASSUME IngressInv, NEW n \in RouteName, RouteExpires(n)
  PROVE  IngressInv' /\ NamesStay
<1>1. ~(deaths = 0 /\ slow = 0)
  BY IngressAssumption DEF RouteExpires, IngressInv, RoutesAreRenewed
<1> QED
  BY <1>1, DropKeepsInv DEF RouteExpires, IngressInv, IngressTypes

\* Every step of the ingress keeps the invariant and the env of every name.
LEMMA IngressStep ==
  ASSUME IngressInv, StrikesCount, [IngressNext]_ingressVars
  PROVE  IngressInv' /\ [NamesStay]_ingressVars
<1>1. CASE IngressNext
  BY <1>1, AppStepKeepsInv, RoundBeginsKeepsInv, AnswerKeepsInv, MissKeepsInv, TimeKeepsInv,
     ExpiryKeepsInv DEF IngressNext, ProbeStep, ExpiryStep
<1>2. CASE UNCHANGED ingressVars
  BY <1>2 DEF ingressVars, IngressInv, IngressTypes, QuotasHold, Routed, Owner, LiveRoutesStay,
              CopiesTell, RoutesAreRenewed, IsCopyOf
<1> QED
  BY <1>1, <1>2

\* For any apps, names and quotas: routes stay within the quotas, go by probes only
\* for misses of their own or of a route of that name they came too early after,
\* keep their lease while every probe is answered, and a name goes to another env only after it was free,
\* whenever an approval comes (ingress_register, ingress_commit, spawn_liveness).
THEOREM RoutesAreAlwaysKept == IngressSpec => RoutesAreKept
<1>1. IngressInv /\ StrikesCount /\ [IngressNext]_ingressVars =>
        IngressInv' /\ StrikesCount' /\ [NamesStay]_ingressVars
  BY IngressStep, StrikesStep DEF IngressInv
<1>2. IngressInv => QuotasHold /\ LiveRoutesStay
  BY DEF IngressInv
<1>3. IngressInit => StrikesCount
  BY DEF IngressInit, StrikesCount, Routed
<1> QED
  BY <1>1, <1>2, <1>3, InitHasIngressInv, PTL DEF IngressSpec, RoutesAreKept, NamesStay

-----------------------------------------------------------------------------
(***************************************************************************)
(* Proofs about the account limiter and the command line agent's run: for  *)
(* any limits and budgets the grants of a limiter are within the bucket    *)
(* and keep the gap, and a run takes its container down in the step that   *)
(* finds out it must stop, and tells its end once.                         *)
(***************************************************************************)

LimFields == {"fresh", "tokens", "refill", "granted", "gap", "minute", "minute_count", "day",
              "day_count", "in_flight", "fails", "opens", "open", "halted"}

\* A limiter; what the breaker does with its times does not matter here.
Limiter(l) ==
  /\ DOMAIN l = LimFields
  /\ l.tokens \in Nat /\ l.refill \in Nat /\ l.granted \in Nat /\ l.gap \in Nat
  /\ l.in_flight \in Nat /\ l.halted \in BOOLEAN

\* Multiples of the limiter's numbers, named so that the provers need not multiply.
Cost(n) == n * MINUTE
Fill(a) == a * RATE
Gaps(n) == n * min_gap

\* What the bucket holds, with what it is to get at the next call.
Purse(l) == l.tokens + Fill(l.refill)

\* m is l with no more in the bucket and nothing said about grants.
NoRicher(l, m) ==
  /\ Limiter(m) /\ Purse(m) <= Purse(l)
  /\ m.granted = l.granted /\ m.gap = l.gap

\* m is l after try_acquire brought it up to date and found a slot.
Ready(l, m) ==
  /\ NoRicher(l, m) /\ m.refill = 0 /\ m.tokens <= CAPACITY /\ m.tokens >= MINUTE
  /\ m.granted >= m.gap

\* The smaller of two numbers.
LEMMA MinOfTwo ==
  ASSUME NEW a \in Int, NEW b \in Int
  PROVE  /\ Min({a, b}) \in Int /\ Min({a, b}) <= a /\ Min({a, b}) <= b
         /\ (Min({a, b}) = a \/ Min({a, b}) = b)
<1>1. \E x \in {a, b} : \A y \in {a, b} : x =< y
  OBVIOUS
<1> QED
  BY <1>1 DEF Min

\* The larger of two numbers.
LEMMA MaxOfTwo ==
  ASSUME NEW a \in Int, NEW b \in Int
  PROVE  (Max({a, b}) = a \/ Max({a, b}) = b) /\ Max({a, b}) >= a
<1>1. \E x \in {a, b} : \A y \in {a, b} : x >= y
  OBVIOUS
<1> QED
  BY <1>1 DEF Max

\* What multiplication by a natural number does.
LEMMA Products ==
  ASSUME NEW a \in Nat, NEW b \in Nat, NEW r \in Nat
  PROVE  /\ a * r \in Nat /\ 0 * r = 0 /\ (a + 1) * r = a * r + r
         /\ (a <= b => a * r <= b * r)
<1>1. a * r \in Nat /\ 0 * r = 0 /\ (a + 1) * r = a * r + r
  OBVIOUS
<1>2. a <= b => a * r <= b * r
  <2>1. SUFFICES ASSUME a <= b PROVE a * r <= b * r
    OBVIOUS
  <2>2. PICK d \in Nat : b = a + d
    BY <2>1
  <2>3. b * r = a * r + d * r /\ d * r \in Nat
    BY <2>2
  <2> QED
    BY <2>3, <1>1
<1> QED
  BY <1>1, <1>2

\* The bucket and the longest gap are numbers.
LEMMA CapacityIsNat == RATE \in Nat /\ CAPACITY \in Nat /\ OldGap \in Nat
<1>1. RATE \in Nat
  BY RateAssumption DEF RATE, AtLeastOne
<1> QED
  BY <1>1, RateAssumption, Products DEF CAPACITY, OldGap

\* What grants cost.
LEMMA CostIs ==
  ASSUME NEW a \in Nat
  PROVE  Cost(a) \in Nat /\ Cost(a + 1) = Cost(a) + MINUTE /\ Cost(1) = MINUTE
<1>1. a * MINUTE \in Nat /\ (a + 1) * MINUTE = a * MINUTE + MINUTE /\ 1 * MINUTE = MINUTE
  BY RateAssumption, Products
<1> QED
  BY <1>1 DEF Cost

\* What time refills.
LEMMA FillIs ==
  ASSUME NEW a \in Nat, NEW b \in Nat
  PROVE  Fill(a) \in Nat /\ Fill(0) = 0 /\ Fill(a + 1) = Fill(a) + RATE
         /\ (a <= b => Fill(a) <= Fill(b))
<1>1. a * RATE \in Nat /\ 0 * RATE = 0 /\ (a + 1) * RATE = a * RATE + RATE
      /\ (a <= b => a * RATE <= b * RATE)
  BY CapacityIsNat, Products
<1> QED
  BY <1>1 DEF Fill

\* The gaps between grants.
LEMMA GapsIs ==
  ASSUME NEW a \in Nat
  PROVE  Gaps(a) \in Nat /\ Gaps(a + 1) = Gaps(a) + min_gap /\ Gaps(1) = min_gap
<1>1. a * min_gap \in Nat /\ (a + 1) * min_gap = a * min_gap + min_gap /\ 1 * min_gap = min_gap
  BY RateAssumption, Products
<1> QED
  BY <1>1 DEF Gaps

\* What the bucket is worth.
LEMMA PurseIs ==
  ASSUME NEW l, Limiter(l)
  PROVE  Purse(l) \in Nat /\ (l.refill = 0 => Purse(l) = l.tokens)
<1>1. l.tokens \in Nat /\ l.refill \in Nat
  BY DEF Limiter
<1>2. Fill(l.refill) \in Nat /\ Fill(0) = 0
  BY <1>1, FillIs
<1> QED
  BY <1>1, <1>2 DEF Purse

\* Limiter::new() is a limiter that has halted nobody.
LEMMA NewIsLimiter == Limiter(NewLimiter) /\ NewLimiter.fresh /\ NewLimiter.halted = FALSE
  BY CapacityIsNat DEF Limiter, NewLimiter, LimFields

\* record() leaves bucket, windows and gap alone; a call that went well halts nobody.
LEMMA RecordedIsSame ==
  ASSUME NEW l, Limiter(l), NEW t \in BOOLEAN
  PROVE  /\ Limiter(Recorded(l, t)) /\ Recorded(l, t).tokens = l.tokens
            /\ Recorded(l, t).refill = l.refill
         /\ Recorded(l, t).granted = l.granted /\ Recorded(l, t).gap = l.gap
         /\ Recorded(l, t).in_flight = l.in_flight
         /\ ~t => Recorded(l, t).halted = l.halted
<1>1. CASE ~t
  BY <1>1 DEF Limiter, Recorded, LimFields
<1>2. CASE t /\ l.fails + 1 < breaker_threshold
  BY <1>2 DEF Limiter, Recorded, LimFields
<1>3. CASE t /\ ~(l.fails + 1 < breaker_threshold)
  <2>0. (l.opens + 1 >= breaker_max_opens) \in BOOLEAN
    OBVIOUS
  <2>1. PICK h : h = (l.opens + 1 >= breaker_max_opens)
    OBVIOUS
  <2>2. PICK v : v = Min({backoff_max, backoff_base * 2^l.opens})
    OBVIOUS
  <2>3. PICK m : m = Recorded(l, t)
    OBVIOUS
  <2>4. m = [l EXCEPT !.fails = 0, !.opens = @ + 1, !.open = v, !.halted = h]
    BY <1>3, <2>1, <2>2, <2>3 DEF Recorded
  <2>5. /\ DOMAIN m = LimFields /\ m.halted = h /\ m.tokens = l.tokens /\ m.refill = l.refill
        /\ m.granted = l.granted /\ m.gap = l.gap /\ m.in_flight = l.in_flight
    BY <2>4 DEF Limiter, LimFields
  <2> QED
    BY <1>3, <2>0, <2>1, <2>3, <2>5 DEF Limiter
<1> QED
  BY <1>1, <1>2, <1>3

\* release() gives back one place and nothing else.
LEMMA ReleasedIsSame ==
  ASSUME NEW l, Limiter(l)
  PROVE  NoRicher(l, Released(l)) /\ Released(l).in_flight <= l.in_flight
         /\ Released(l).halted = l.halted
<1>1. PICK m : m = Released(l)
  OBVIOUS
<1>2. PICK a \in Int, b \in Int : a = 0 /\ b = l.in_flight - 1 /\ l.in_flight \in Nat
  BY DEF Limiter
<1>3. PICK v : v = Max({a, b})
  OBVIOUS
<1>4. v \in Nat /\ v <= l.in_flight
  <2>1. (v = a \/ v = b) /\ v >= a
    BY <1>3, MaxOfTwo
  <2> QED
    BY <1>2, <2>1
<1>5. m = [l EXCEPT !.in_flight = v]
  BY <1>1, <1>2, <1>3 DEF Released
<1>6. /\ Limiter(m) /\ m.tokens = l.tokens /\ m.refill = l.refill /\ m.in_flight = v
      /\ m.granted = l.granted /\ m.gap = l.gap /\ m.halted = l.halted
  BY <1>4, <1>5 DEF Limiter, LimFields
<1>7. Purse(m) = Purse(l) /\ Purse(l) \in Nat
  BY <1>6, PurseIs DEF Purse
<1> QED
  BY <1>1, <1>4, <1>6, <1>7 DEF NoRicher

\* The refill of try_acquire(): what was owed is in the bucket, up to its capacity.
LEMMA RefilledIs ==
  ASSUME NEW l, Limiter(l)
  PROVE  NoRicher(l, Refilled(l)) /\ Refilled(l).refill = 0 /\ Refilled(l).tokens <= CAPACITY
         /\ Refilled(l).halted = l.halted
<1>1. PICK m : m = Refilled(l)
  OBVIOUS
<1>3. PICK c \in Nat, x \in Nat : c = CAPACITY /\ x = Purse(l)
  BY PurseIs, CapacityIsNat
<1>4. Min({c, x}) \in Nat /\ Min({c, x}) <= c /\ Min({c, x}) <= x
  <2>1. c \in Int /\ x \in Int
    OBVIOUS
  <2> QED
    BY <2>1, MinOfTwo
<1>5. /\ DOMAIN m = LimFields /\ m.tokens = Min({c, x}) /\ m.refill = 0 /\ m.in_flight = l.in_flight
      /\ m.granted = l.granted /\ m.gap = l.gap /\ m.halted = l.halted
  <2>1. PICK v : v = Min({c, x})
    OBVIOUS
  <2>2. PICK d, n : m = [l EXCEPT !.fresh = FALSE, !.tokens = v, !.refill = 0, !.day = d,
                      !.day_count = n]
    <3>1. Min({CAPACITY, l.tokens + l.refill * RATE}) = v
      BY <1>3, <2>1 DEF Purse, Fill
    <3> QED
      BY <1>1, <3>1 DEF Refilled
  <2> QED
    BY <2>1, <2>2 DEF Limiter, LimFields
<1>6. Limiter(m)
  BY <1>4, <1>5 DEF Limiter
<1>7. Purse(m) = m.tokens
  BY <1>5, <1>6, PurseIs
<1> QED
  BY <1>1, <1>3, <1>4, <1>5, <1>6, <1>7 DEF NoRicher

\* The minute window of try_acquire() touches only its own count.
LEMMA RolledIs ==
  ASSUME NEW l, Limiter(l)
  PROVE  /\ Limiter(MinuteRolled(l)) /\ MinuteRolled(l).tokens = l.tokens
            /\ MinuteRolled(l).refill = l.refill
         /\ MinuteRolled(l).granted = l.granted /\ MinuteRolled(l).gap = l.gap
         /\ MinuteRolled(l).halted = l.halted
  BY DEF Limiter, MinuteRolled, LimFields

\* try_acquire() either grants nothing and refills no more than it owed, or
\* grants from a bucket that has a token and after the gap.
LEMMA TriedIs ==
  ASSUME NEW l, Limiter(l), NEW g \in Nat
  PROVE  /\ ~TryAcquire(l, g).allow => NoRicher(l, TryAcquire(l, g).l)
         /\ TryAcquire(l, g).allow => \E m : Ready(l, m) /\ TryAcquire(l, g).l = Granted(m, g)
         /\ TryAcquire(l, g).allow \in BOOLEAN
<1>1. CASE l.halted \/ l.open > 0
  <2>1. TryAcquire(l, g) = [l |-> l, allow |-> FALSE]
    BY <1>1 DEF TryAcquire
  <2>2. NoRicher(l, l)
    <3>1. Purse(l) \in Nat
      BY PurseIs
    <3> QED
      BY <3>1 DEF NoRicher
  <2> QED
    BY <2>1, <2>2
<1>2. CASE ~(l.halted \/ l.open > 0)
  <2>1. PICK r : r = Refilled(l)
    OBVIOUS
  <2>2. NoRicher(l, r) /\ r.refill = 0 /\ r.tokens <= CAPACITY /\ Limiter(r)
    BY <2>1, RefilledIs DEF NoRicher
  <2>3. CASE DayFull(r)
    <3>1. TryAcquire(l, g) = [l |-> r, allow |-> FALSE]
      BY <1>2, <2>1, <2>3 DEF TryAcquire
    <3> QED
      BY <2>2, <3>1
  <2>4. CASE ~DayFull(r)
    <3>1. PICK m : m = MinuteRolled(r)
      OBVIOUS
    <3>2. /\ Limiter(m) /\ m.tokens = r.tokens /\ m.refill = r.refill /\ m.granted = r.granted
          /\ m.gap = r.gap /\ m.halted = r.halted
      BY <2>2, <3>1, RolledIs
    <3>3. NoRicher(l, m)
      BY <2>2, <3>2 DEF NoRicher, Purse
    <3>4. CASE Grantable(m)
      <4>1. TryAcquire(l, g) = [l |-> Granted(m, g), allow |-> TRUE]
        BY <1>2, <2>1, <2>4, <3>1, <3>4 DEF TryAcquire
      <4>2. Ready(l, m)
        BY <2>2, <3>2, <3>3, <3>4 DEF Ready, Grantable
      <4> QED
        BY <4>1, <4>2
    <3>5. CASE ~Grantable(m)
      <4>1. TryAcquire(l, g) = [l |-> m, allow |-> FALSE]
        BY <1>2, <2>1, <2>4, <3>1, <3>5 DEF TryAcquire
      <4> QED
        BY <3>3, <4>1
    <3> QED
      BY <3>4, <3>5
  <2> QED
    BY <2>3, <2>4
<1> QED
  BY <1>1, <1>2

\* A grant takes its token, restarts the gap and halts nobody.
LEMMA GrantedIs ==
  ASSUME NEW m, NEW g \in Nat, Limiter(m), m.tokens >= MINUTE
  PROVE  /\ Limiter(Granted(m, g)) /\ Granted(m, g).tokens = m.tokens - MINUTE
         /\ Granted(m, g).refill = m.refill /\ Granted(m, g).granted = 0 /\ Granted(m, g).gap = g
         /\ Granted(m, g).halted = m.halted
<1>1. PICK t \in Nat : t = m.tokens - MINUTE
  BY RateAssumption DEF Limiter
<1> QED
  BY <1>1 DEF Granted, Limiter, LimFields

\* What a stretch of grants that ends in the newest has cost, and what is left, is
\* what the bucket had and got since.
TokensArePaid ==
  \A j \in 1 .. Len(log) : log[j] < DAY => Cost(j) + Purse(lim) <= CAPACITY + Fill(log[j])

LogIsOrdered == \A i, j \in 1 .. Len(log) : i < j => log[i] <= log[j]

\* The limiter knows how long ago the newest grant was, as far as that matters.
GapIsKept ==
  Len(log) > 0 => /\ lim.gap >= min_gap
                  /\ log[1] < DAY => lim.granted <= log[1]

RateTypes == Limiter(lim) /\ log \in Seq(0 .. DAY)

\* GrantsArePaced, in the names of this module.
StretchesArePaid ==
  \A i, j \in 1 .. Len(log) : i < j /\ log[j] < DAY =>
    /\ Cost(j - i + 1) <= CAPACITY + Fill(log[j] - log[i])
    /\ log[j] - log[i] >= Gaps(j - i)

RateInv == RateTypes /\ TokensArePaid /\ LogIsOrdered /\ GapIsKept /\ StretchesArePaid

\* The stretches are GrantsArePaced.
LEMMA StretchesArePaced == StretchesArePaid <=> GrantsArePaced
  BY DEF StretchesArePaid, GrantsArePaced, Cost, Fill, Gaps

\* A new limiter has granted nothing.
LEMMA RateInitHolds == RateInit => RateInv
<1> SUFFICES ASSUME RateInit PROVE RateInv
  OBVIOUS
<1>1. Limiter(lim) /\ log \in Seq(0 .. DAY) /\ Len(log) = 0
  BY NewIsLimiter DEF RateInit
<1> QED
  BY <1>1 DEF RateInv, RateTypes, TokensArePaid, LogIsOrdered, GapIsKept, StretchesArePaid

\* What the types say.
LEMMA RateFacts ==
  ASSUME RateInv
  PROVE  /\ Limiter(lim) /\ log \in Seq(0 .. DAY) /\ Len(log) \in Nat
         /\ \A k \in 1 .. Len(log) : log[k] \in 0 .. DAY /\ log[k] \in Nat /\ k \in Nat
         /\ lim.granted \in Nat /\ lim.gap \in Nat /\ Purse(lim) \in Nat
         /\ DAY \in Nat /\ MINUTE \in Nat /\ min_gap \in Nat /\ RATE \in Nat /\ CAPACITY \in Nat
<1>1. Limiter(lim) /\ log \in Seq(0 .. DAY) /\ DAY \in Nat /\ RATE \in Nat /\ MINUTE \in Nat
      /\ min_gap \in Nat
  BY RateAssumption, CapacityIsNat DEF RateInv, RateTypes
<1>2. Len(log) \in Nat /\ \A k \in 1 .. Len(log) : log[k] \in 0 .. DAY
  BY <1>1, LenProperties, ElementOfSeq
<1>3. Purse(lim) \in Nat
  BY <1>1, PurseIs
<1> QED
  BY <1>1, <1>2, <1>3, CapacityIsNat DEF Limiter

\* A step that grants nothing and puts nothing into the bucket.
LEMMA NoGrantKeeps ==
  ASSUME RateInv, NoRicher(lim, lim'), log' = log
  PROVE  RateInv'
<1>1. Limiter(lim') /\ lim'.granted = lim.granted /\ lim'.gap = lim.gap
  BY DEF NoRicher
<1>2. Purse(lim') \in Nat /\ Purse(lim') <= Purse(lim)
  BY <1>1, PurseIs DEF NoRicher
<1>3. TokensArePaid'
  <2> SUFFICES ASSUME NEW j \in 1 .. Len(log), log[j] < DAY
               PROVE  Cost(j) + Purse(lim') <= CAPACITY + Fill(log[j])
    BY DEF TokensArePaid
  <2>1. Cost(j) + Purse(lim) <= CAPACITY + Fill(log[j])
    BY DEF RateInv, TokensArePaid
  <2>2. j \in Nat /\ log[j] \in Nat /\ Purse(lim) \in Nat /\ CAPACITY \in Nat
    BY RateFacts
  <2>3. Cost(j) \in Nat /\ Fill(log[j]) \in Nat
    BY <2>2, CostIs, FillIs
  <2> QED
    BY <1>2, <2>1, <2>2, <2>3
<1> QED
  BY <1>1, <1>3 DEF RateInv, RateTypes, LogIsOrdered, GapIsKept, StretchesArePaid

\* The first elements of a sequence.
LEMMA PrefixIs ==
  ASSUME NEW S, NEW s \in Seq(S), NEW n \in 0 .. Len(s)
  PROVE  SubSeq(s, 1, n) \in Seq(S) /\ Len(SubSeq(s, 1, n)) = n
         /\ \A k \in 1 .. n : SubSeq(s, 1, n)[k] = s[k]
<1>1. SubSeq(s, 1, n) \in Seq(S)
  OBVIOUS
<1>2. Len(SubSeq(s, 1, n)) = n
  OBVIOUS
<1>3. \A k \in 1 .. n : SubSeq(s, 1, n)[k] = s[k]
  OBVIOUS
<1> QED
  BY <1>1, <1>2, <1>3

\* The log after a grant.
LEMMA LogGrows ==
  ASSUME NEW q \in Seq(0 .. DAY),
         NEW r, r = SubSeq(<< 0 >> \o q, 1, Min({MaxGrants, Len(q) + 1}))
  PROVE  /\ r \in Seq(0 .. DAY) /\ Len(r) \in 1 .. Len(q) + 1 /\ r[1] = 0
         /\ \A k \in 2 .. Len(r) : r[k] = q[k - 1]
<1>1. Len(q) \in Nat /\ <<0>> \in Seq(0 .. DAY) /\ Len(<<0>>) = 1 /\ <<0>>[1] = 0
  BY LenProperties, RateAssumption
<1>2. PICK s : s = <<0>> \o q
  OBVIOUS
<1>3. s \in Seq(0 .. DAY) /\ Len(s) = Len(q) + 1
  BY <1>1, <1>2, ConcatProperties
<1>3a. \A k \in 1 .. Len(s) : s[k] = IF k <= 1 THEN <<0>>[k] ELSE q[k - 1]
  BY <1>1, <1>2, <1>3, ConcatProperties
<1>4. PICK a \in Int, b \in Int : a = MaxGrants /\ b = Len(q) + 1
  BY <1>1, RateAssumption
<1>5. PICK n : n = Min({a, b})
  OBVIOUS
<1>6. n \in 1 .. Len(q) + 1
  <2>1. n \in Int /\ n <= b /\ (n = a \/ n = b)
    BY <1>5, MinOfTwo
  <2>2. a >= 1 /\ b >= 1
    BY <1>1, <1>4, RateAssumption
  <2> QED
    BY <1>1, <1>4, <2>1, <2>2
<1>7. r = SubSeq(s, 1, n)
  BY <1>2, <1>4, <1>5
<1>9. r \in Seq(0 .. DAY) /\ Len(r) = n /\ \A k \in 1 .. n : r[k] = s[k]
  <2>1. PICK S : S = 0 .. DAY
    OBVIOUS
  <2>2. s \in Seq(S) /\ n \in 0 .. Len(s)
    BY <1>1, <1>3, <1>6, <2>1
  <2>3. SubSeq(s, 1, n) \in Seq(S) /\ Len(SubSeq(s, 1, n)) = n
        /\ \A k \in 1 .. n : SubSeq(s, 1, n)[k] = s[k]
    BY <2>2, PrefixIs
  <2> QED
    BY <1>7, <2>1, <2>3, Zenon
<1>10. r[1] = 0
  BY <1>1, <1>3, <1>3a, <1>6, <1>9
<1>11. ASSUME NEW k \in 2 .. Len(r) PROVE r[k] = q[k - 1]
  <2>1. k \in 1 .. n /\ k \in 1 .. Len(s) /\ ~(k <= 1)
    BY <1>1, <1>3, <1>6, <1>9
  <2> QED
    BY <1>3a, <1>9, <2>1
<1> QED
  BY <1>6, <1>9, <1>10, <1>11

\* A grant is paid for: the stretches that end in it are within the bucket and
\* keep the gap.
LEMMA GrantKeeps ==
  ASSUME RateInv, NEW m, NEW g \in Nat, g >= min_gap, Ready(lim, m), lim' = Granted(m, g),
         log' = SubSeq(<< 0 >> \o log, 1, Min({MaxGrants, Len(log) + 1}))
  PROVE  RateInv'
<1>0. /\ log \in Seq(0 .. DAY) /\ Len(log) \in Nat
      /\ \A k \in 1 .. Len(log) : log[k] \in Nat /\ k \in Nat
      /\ lim.granted \in Nat /\ lim.gap \in Nat /\ Purse(lim) \in Nat
      /\ DAY \in Nat /\ MINUTE \in Nat /\ min_gap \in Nat /\ RATE \in Nat /\ CAPACITY \in Nat
  BY RateFacts
<1>1. /\ Limiter(lim') /\ lim'.tokens = m.tokens - MINUTE /\ lim'.refill = 0 /\ lim'.granted = 0
      /\ lim'.gap = g
  <2>1. Limiter(m) /\ m.tokens >= MINUTE /\ m.refill = 0
    BY DEF Ready, NoRicher
  <2> QED
    BY <2>1, GrantedIs
<1>2. /\ log' \in Seq(0 .. DAY) /\ Len(log') \in 1 .. Len(log) + 1 /\ log'[1] = 0
      /\ \A k \in 2 .. Len(log') : log'[k] = log[k - 1]
  <2>1. PICK q, r : q = log /\ r = log'
    OBVIOUS
  <2>2. q \in Seq(0 .. DAY) /\ r = SubSeq(<< 0 >> \o q, 1, Min({MaxGrants, Len(q) + 1}))
    BY <1>0, <2>1
  <2>3. /\ r \in Seq(0 .. DAY) /\ Len(r) \in 1 .. Len(q) + 1 /\ r[1] = 0
        /\ \A k \in 2 .. Len(r) : r[k] = q[k - 1]
    BY <2>2, LogGrows
  <2> QED
    BY <2>1, <2>3
<1>3. \A k \in 2 .. Len(log') : \E j \in 1 .. Len(log) : k = j + 1 /\ log'[k] = log[j]
  <2> SUFFICES ASSUME NEW k \in 2 .. Len(log') PROVE \E j \in 1 .. Len(log) : k = j + 1
                      /\ log'[k] = log[j]
    OBVIOUS
  <2>1. k - 1 \in 1 .. Len(log) /\ log'[k] = log[k - 1] /\ k = (k - 1) + 1
    BY <1>0, <1>2
  <2> QED
    BY <2>1
<1>4. m.tokens \in Nat /\ m.tokens >= MINUTE /\ m.tokens <= CAPACITY /\ m.tokens <= Purse(lim)
  <2>1. Limiter(m) /\ m.refill = 0 /\ Purse(m) <= Purse(lim) /\ m.tokens >= MINUTE
        /\ m.tokens <= CAPACITY
    BY DEF Ready, NoRicher
  <2>2. Purse(m) = m.tokens /\ m.tokens \in Nat
    BY <2>1, PurseIs DEF Limiter
  <2> QED
    BY <2>1, <2>2
<1>5. Purse(lim') \in Nat /\ Purse(lim') = m.tokens - MINUTE
  <2>1. PICK l : l = lim'
    OBVIOUS
  <2>2. Purse(l) \in Nat /\ Purse(l) = l.tokens
    BY <1>1, <2>1, PurseIs
  <2> QED
    BY <1>1, <2>1, <2>2
\* What the older grants and this one cost.
<1>6. ASSUME NEW j \in 1 .. Len(log), log[j] < DAY
      PROVE  /\ Cost(j + 1) + Purse(lim') <= CAPACITY + Fill(log[j])
             /\ Cost(j + 1) \in Nat /\ Fill(log[j]) \in Nat
  <2>1. j \in Nat /\ log[j] \in Nat
    BY <1>0
  <2>2. Cost(j) + Purse(lim) <= CAPACITY + Fill(log[j])
    BY <1>6 DEF RateInv, TokensArePaid
  <2>3. Cost(j) \in Nat /\ Cost(j + 1) = Cost(j) + MINUTE /\ Fill(log[j]) \in Nat
    BY <2>1, CostIs, FillIs
  <2>4. PICK t \in Nat, c \in Nat, f \in Nat, u \in Nat :
          t = m.tokens /\ c = Cost(j) /\ f = Fill(log[j]) /\ u = Purse(lim)
    BY <1>0, <1>4, <2>3
  <2>5. c + u <= CAPACITY + f /\ t <= u /\ Purse(lim') = t - MINUTE /\ Cost(j + 1) = c + MINUTE
    BY <1>4, <1>5, <2>2, <2>3, <2>4
  <2>6. (c + MINUTE) + (t - MINUTE) <= CAPACITY + f /\ c + MINUTE \in Nat
    BY <1>0, <2>5
  <2> QED
    BY <2>4, <2>5, <2>6
<1>7. TokensArePaid'
  <2> SUFFICES ASSUME NEW k \in 1 .. Len(log'), log'[k] < DAY
               PROVE  Cost(k) + Purse(lim') <= CAPACITY + Fill(log'[k])
    BY DEF TokensArePaid
  <2>1. CASE k = 1
    <3>1. PICK z \in Nat : z = 0
      OBVIOUS
    <3>2. Cost(1) = MINUTE /\ Fill(0) = 0
      BY <3>1, CostIs, FillIs
    <3> QED
      BY <1>0, <1>2, <1>4, <1>5, <2>1, <3>2
  <2>2. CASE k # 1
    <3>1. k \in 2 .. Len(log')
      BY <1>2, <2>2
    <3>2. PICK j \in 1 .. Len(log) : k = j + 1 /\ log'[k] = log[j]
      BY <1>3, <3>1
    <3> QED
      BY <1>6, <3>2
  <2> QED
    BY <2>1, <2>2
<1>8. LogIsOrdered'
  <2> SUFFICES ASSUME NEW i \in 1 .. Len(log'), NEW j \in 1 .. Len(log'), i < j
               PROVE  log'[i] <= log'[j]
    BY DEF LogIsOrdered
  <2>1. PICK p \in 1 .. Len(log) : j = p + 1 /\ log'[j] = log[p]
    BY <1>2, <1>3
  <2>2. CASE i = 1
    BY <1>0, <1>2, <2>1, <2>2
  <2>3. CASE i # 1
    <3>0. i \in 2 .. Len(log')
      BY <1>2, <2>3
    <3>1. PICK o \in 1 .. Len(log) : i = o + 1 /\ log'[i] = log[o]
      BY <1>3, <3>0
    <3>2. o < p
      BY <1>0, <2>1, <3>1
    <3>3. log[o] <= log[p]
      BY <3>2 DEF RateInv, LogIsOrdered
    <3> QED
      BY <2>1, <3>1, <3>3
  <2> QED
    BY <2>2, <2>3
<1>9. GapIsKept'
  BY <1>0, <1>1, <1>2 DEF GapIsKept
<1>10. StretchesArePaid'
  <2> SUFFICES ASSUME NEW i \in 1 .. Len(log'), NEW j \in 1 .. Len(log'), i < j, log'[j] < DAY
               PROVE  /\ Cost(j - i + 1) <= CAPACITY + Fill(log'[j] - log'[i])
                      /\ log'[j] - log'[i] >= Gaps(j - i)
    BY DEF StretchesArePaid
  <2>1. PICK p \in 1 .. Len(log) : j = p + 1 /\ log'[j] = log[p]
    BY <1>2, <1>3
  <2>1a. p \in Nat /\ log[p] \in Nat /\ log[p] < DAY
    BY <1>0, <2>1
  <2>2. CASE i = 1
    <3>1. j - i + 1 = p + 1 /\ log'[j] - log'[i] = log[p] /\ j - i = p
      BY <1>2, <2>1, <2>1a, <2>2
    <3>2. Cost(p + 1) <= CAPACITY + Fill(log[p])
      BY <1>0, <1>5, <1>6, <2>1a
    <3>3. log[1] < DAY /\ 1 \in 1 .. Len(log) /\ log[1] \in Nat /\ Len(log) > 0
      <4>1. 1 \in 1 .. Len(log) /\ Len(log) > 0
        BY <1>0
      <4>2. p = 1 \/ log[1] <= log[p]
        BY <4>1 DEF RateInv, LogIsOrdered
      <4>3. log[1] \in Nat
        BY <1>0, <4>1
      <4> QED
        BY <1>0, <2>1a, <4>1, <4>2, <4>3
    <3>4. log[1] >= min_gap
      <4>1. m.granted = lim.granted /\ m.gap = lim.gap /\ m.granted >= m.gap
        BY DEF Ready, NoRicher
      <4>2. lim.gap >= min_gap /\ lim.granted <= log[1]
        BY <3>3 DEF RateInv, GapIsKept
      <4> QED
        BY <1>0, <3>3, <4>1, <4>2
    <3>5. log[p] >= Gaps(p)
      <4>1. CASE p = 1
        BY <2>1a, <3>4, <4>1, GapsIs
      <4>2. CASE p # 1
        <5>1. PICK d \in Nat : p = d + 1 /\ d = p - 1
          BY <2>1a, <4>2
        <5>2. log[p] - log[1] >= Gaps(p - 1)
          BY <2>1a, <3>3, <4>2 DEF RateInv, StretchesArePaid
        <5>3. Gaps(p) = Gaps(d) + min_gap /\ Gaps(d) \in Nat /\ Gaps(p - 1) = Gaps(d)
          BY <5>1, GapsIs
        <5> QED
          BY <1>0, <2>1a, <3>3, <3>4, <5>2, <5>3
      <4> QED
        BY <4>1, <4>2
    <3> QED
      BY <3>1, <3>2, <3>5
  <2>3. CASE i # 1
    <3>0. i \in 2 .. Len(log')
      BY <1>2, <2>3
    <3>1. PICK o \in 1 .. Len(log) : i = o + 1 /\ log'[i] = log[o]
      BY <1>3, <3>0
    <3>2. j - i = p - o /\ o < p /\ j - i + 1 = p - o + 1
      BY <1>0, <2>1, <3>1
    <3>3. /\ Cost(p - o + 1) <= CAPACITY + Fill(log[p] - log[o])
          /\ log[p] - log[o] >= Gaps(p - o)
      BY <2>1a, <3>2 DEF RateInv, StretchesArePaid
    <3> QED
      BY <2>1, <3>1, <3>2, <3>3
  <2> QED
    BY <2>2, <2>3
<1> QED
  BY <1>1, <1>2, <1>7, <1>8, <1>9, <1>10 DEF RateInv, RateTypes
\* A limiter a unit of time later: what it is to get grows by one unit's refill.
LEMMA OlderIs ==
  ASSUME NEW l, Limiter(l)
  PROVE  /\ Limiter(Older(l)) /\ Older(l).gap = l.gap /\ Older(l).granted <= l.granted + 1
         /\ Purse(Older(l)) <= Purse(l) + RATE
<1>1. l.tokens \in Nat /\ l.refill \in Nat /\ l.granted \in Nat /\ RATE \in Nat /\ MINUTE \in Nat
  BY RateAssumption, CapacityIsNat DEF Limiter
<1>2. PICK by \in {0, 1} : by = IF l.fresh THEN 0 ELSE 1
  OBVIOUS
<1>3. PICK a \in Int, b \in Int, c \in Int, d \in Int :
        a = MINUTE /\ b = l.refill + by /\ c = OldGap /\ d = l.granted + 1
  BY <1>1, <1>2, CapacityIsNat
<1>4. PICK x : x = Min({a, b})
  OBVIOUS
<1>5. x \in Nat /\ x <= l.refill + 1
  <2>1. x \in Int /\ x <= b /\ (x = a \/ x = b)
    BY <1>4, MinOfTwo
  <2> QED
    BY <1>1, <1>2, <1>3, <2>1
<1>6. PICK y : y = Min({c, d})
  OBVIOUS
<1>7. y \in Nat /\ y <= l.granted + 1
  <2>1. y \in Int /\ y <= d /\ (y = c \/ y = d)
    BY <1>6, MinOfTwo
  <2> QED
    BY <1>1, <1>3, <2>1, CapacityIsNat
<1>8. PICK m : m = Older(l)
  OBVIOUS
<1>9. PICK p, q, r : m = [l EXCEPT !.refill = x, !.granted = y, !.minute = p, !.day = q, !.open = r]
  BY <1>2, <1>3, <1>4, <1>6, <1>8 DEF Older
<1>10. /\ Limiter(m) /\ m.tokens = l.tokens /\ m.refill = x /\ m.granted = y /\ m.gap = l.gap
  BY <1>5, <1>7, <1>9 DEF Limiter, LimFields
<1>11. PICK n \in Nat : n = l.refill + 1
  BY <1>1
<1>12. Fill(x) \in Nat /\ Fill(l.refill) \in Nat /\ Fill(x) <= Fill(l.refill) + RATE
  <2>1. Fill(l.refill) \in Nat /\ Fill(l.refill + 1) = Fill(l.refill) + RATE
    BY <1>1, FillIs
  <2>2. Fill(x) \in Nat /\ Fill(x) <= Fill(n)
    BY <1>5, <1>11, FillIs
  <2> QED
    BY <1>11, <2>1, <2>2
<1> QED
  BY <1>1, <1>7, <1>8, <1>10, <1>12 DEF Purse

\* Time passes: a stretch that still counts is as long as before.
LEMMA TimeKeeps ==
  ASSUME RateInv, RateTime
  PROVE  RateInv'
<1>0. /\ log \in Seq(0 .. DAY) /\ Len(log) \in Nat /\ Limiter(lim)
      /\ \A k \in 1 .. Len(log) : log[k] \in 0 .. DAY /\ log[k] \in Nat /\ k \in Nat
      /\ lim.granted \in Nat /\ lim.gap \in Nat /\ Purse(lim) \in Nat
      /\ DAY \in Nat /\ MINUTE \in Nat /\ min_gap \in Nat /\ RATE \in Nat /\ CAPACITY \in Nat
  BY RateFacts
<1>1. /\ Limiter(lim') /\ lim'.gap = lim.gap /\ lim'.granted <= lim.granted + 1
      /\ Purse(lim') <= Purse(lim) + RATE /\ lim'.granted \in Nat /\ Purse(lim') \in Nat
  <2>1. PICK l, m : l = lim /\ m = Older(l)
    OBVIOUS
  <2>2. /\ Limiter(m) /\ m.gap = l.gap /\ m.granted <= l.granted + 1 /\ Purse(m) <= Purse(l) + RATE
    BY <1>0, <2>1, OlderIs
  <2>3. m.granted \in Nat /\ Purse(m) \in Nat
    BY <2>2, PurseIs DEF Limiter
  <2>4. lim' = m
    BY <2>1 DEF RateTime
  <2> QED
    BY <2>1, <2>2, <2>3, <2>4
<1>2. ASSUME NEW k \in 1 .. Len(log)
      PROVE  /\ Min({DAY, log[k] + 1}) \in 0 .. DAY
             /\ Min({DAY, log[k] + 1}) < DAY => Min({DAY, log[k] + 1}) = log[k] + 1 /\ log[k] < DAY
             /\ log[k] < DAY => Min({DAY, log[k] + 1}) = log[k] + 1
             /\ log[k] = DAY => Min({DAY, log[k] + 1}) = DAY
  <2>1. PICK a \in Int, b \in Int : a = DAY /\ b = log[k] + 1
    BY <1>0
  <2>2. PICK x : x = Min({a, b})
    OBVIOUS
  <2>3. x \in Int /\ x <= a /\ x <= b /\ (x = a \/ x = b)
    BY <2>2, MinOfTwo
  <2>4. log[k] \in 0 .. DAY
    BY <1>0
  <2>5. x \in 0 .. DAY /\ (x < DAY => x = log[k] + 1 /\ log[k] < DAY)
        /\ (log[k] < DAY => x = log[k] + 1)
        /\ (log[k] = DAY => x = DAY)
    BY <1>0, <2>1, <2>3, <2>4
  <2> QED
    BY <2>1, <2>2, <2>5
<1>3. /\ Len(log') = Len(log) /\ log' \in Seq(0 .. DAY)
      /\ \A k \in 1 .. Len(log) : log'[k] = Min({DAY, log[k] + 1})
  <2>1. log' = [i \in 1 .. Len(log) |-> Min({DAY, log[i] + 1})]
    BY DEF RateTime
  <2>2. log' \in Seq(0 .. DAY)
    BY <1>0, <1>2, <2>1
  <2>3. Len(log') = Len(log)
    BY <1>0, <2>1
  <2> QED
    BY <2>1, <2>2, <2>3
<1>4. \A k \in 1 .. Len(log) :
        /\ log'[k] \in Nat /\ log'[k] <= DAY
        /\ log'[k] < DAY => log'[k] = log[k] + 1 /\ log[k] < DAY
        /\ log[k] < DAY => log'[k] = log[k] + 1
        /\ log[k] = DAY => log'[k] = DAY
  <2> SUFFICES ASSUME NEW k \in 1 .. Len(log)
               PROVE  /\ log'[k] \in Nat /\ log'[k] <= DAY
                      /\ log'[k] < DAY => log'[k] = log[k] + 1 /\ log[k] < DAY
                      /\ log[k] < DAY => log'[k] = log[k] + 1
                      /\ log[k] = DAY => log'[k] = DAY
    OBVIOUS
  <2>1. PICK x : x = Min({DAY, log[k] + 1})
    OBVIOUS
  <2>2. /\ x \in 0 .. DAY /\ x = log'[k]
        /\ x < DAY => x = log[k] + 1 /\ log[k] < DAY
        /\ log[k] < DAY => x = log[k] + 1
        /\ log[k] = DAY => x = DAY
    BY <1>2, <1>3, <2>1, Zenon
  <2>3. x \in Nat /\ x <= DAY
    BY <1>0, <2>2
  <2> QED
    BY <2>2, <2>3
<1>5. TokensArePaid'
  <2> SUFFICES ASSUME NEW j \in 1 .. Len(log), log'[j] < DAY
               PROVE  Cost(j) + Purse(lim') <= CAPACITY + Fill(log'[j])
    BY <1>3 DEF TokensArePaid
  <2>1. log'[j] = log[j] + 1 /\ log[j] < DAY /\ j \in Nat /\ log[j] \in Nat
    BY <1>0, <1>4
  <2>2. Cost(j) + Purse(lim) <= CAPACITY + Fill(log[j])
    BY <2>1 DEF RateInv, TokensArePaid
  <2>3. Cost(j) \in Nat /\ Fill(log[j]) \in Nat /\ Fill(log[j] + 1) = Fill(log[j]) + RATE
    BY <2>1, CostIs, FillIs
  <2> QED
    BY <1>0, <1>1, <2>1, <2>2, <2>3
<1>6. LogIsOrdered'
  <2> SUFFICES ASSUME NEW i \in 1 .. Len(log), NEW j \in 1 .. Len(log), i < j
               PROVE  log'[i] <= log'[j]
    BY <1>3 DEF LogIsOrdered
  <2>1. log[i] <= log[j]
    BY DEF RateInv, LogIsOrdered
  <2>2. log[i] \in 0 .. DAY /\ log[j] \in 0 .. DAY
    BY <1>0
  <2>3. /\ log'[i] \in Nat /\ log'[j] \in Nat /\ log'[i] <= DAY
        /\ log[i] < DAY => log'[i] = log[i] + 1
        /\ log[j] < DAY => log'[j] = log[j] + 1
        /\ log[j] = DAY => log'[j] = DAY
    BY <1>4
  <2> QED
    BY <1>0, <2>1, <2>2, <2>3
<1>7. GapIsKept'
  <2> SUFFICES ASSUME Len(log) > 0
               PROVE  lim'.gap >= min_gap /\ (log'[1] < DAY => lim'.granted <= log'[1])
    BY <1>3 DEF GapIsKept
  <2>1. 1 \in 1 .. Len(log) /\ lim.gap >= min_gap /\ (log[1] < DAY => lim.granted <= log[1])
    BY <1>0 DEF RateInv, GapIsKept
  <2>2. log[1] \in Nat /\ (log'[1] < DAY => log'[1] = log[1] + 1 /\ log[1] < DAY)
    BY <1>0, <1>4, <2>1
  <2> QED
    BY <1>0, <1>1, <2>1, <2>2
<1>8. StretchesArePaid'
  <2> SUFFICES ASSUME NEW i \in 1 .. Len(log), NEW j \in 1 .. Len(log), i < j, log'[j] < DAY
               PROVE  /\ Cost(j - i + 1) <= CAPACITY + Fill(log'[j] - log'[i])
                      /\ log'[j] - log'[i] >= Gaps(j - i)
    BY <1>3 DEF StretchesArePaid
  <2>1. log[j] < DAY /\ log'[j] = log[j] + 1 /\ log[j] \in Nat /\ log[i] \in Nat
    BY <1>0, <1>4
  <2>2. log[i] <= log[j]
    BY DEF RateInv, LogIsOrdered
  <2>3. log'[i] = log[i] + 1
    BY <1>0, <1>4, <2>1, <2>2
  <2>4. log'[j] - log'[i] = log[j] - log[i]
    BY <2>1, <2>3
  <2>5. /\ Cost(j - i + 1) <= CAPACITY + Fill(log[j] - log[i])
        /\ log[j] - log[i] >= Gaps(j - i)
    BY <2>1 DEF RateInv, StretchesArePaid
  <2> QED
    BY <2>4, <2>5
<1> QED
  BY <1>1, <1>3, <1>5, <1>6, <1>7, <1>8 DEF RateInv, RateTypes

\* Every call of the limiter, and time, keep the account of its grants.
LEMMA RateStepKeeps == RateInv /\ [RateNext]_limitVars => RateInv'
<1> SUFFICES ASSUME RateInv, [RateNext]_limitVars PROVE RateInv'
  OBVIOUS
<1>0. Limiter(lim) /\ Purse(lim) \in Nat
  BY RateFacts
<1>0a. NoRicher(lim, lim)
  BY <1>0 DEF NoRicher
<1>1. CASE UNCHANGED limitVars
  BY <1>0a, <1>1, NoGrantKeeps DEF limitVars
<1>2. ASSUME NEW c \in Caller, Ask(c) \/ Halt(c) PROVE RateInv'
  <2>1. lim' = lim /\ log' = log
    BY <1>2 DEF Ask, Halt
  <2> QED
    BY <1>0a, <2>1, NoGrantKeeps
<1>3. ASSUME NEW c \in Caller, Acquire(c) PROVE RateInv'
  <2>1. PICK g \in min_gap .. min_gap + jitter : LET t == TryAcquire(lim, g) IN
       /\ lim' = t.l
       /\ IF t.allow THEN /\ caller' = [caller EXCEPT ![c] = "runs"]
                          /\ log' = SubSeq(<<0>> \o log, 1, Min({MaxGrants, Len(log) + 1}))
          ELSE UNCHANGED <<caller, log>>
    BY <1>3 DEF Acquire
  <2>2. g \in Nat /\ g >= min_gap
    BY RateAssumption
  <2>3. PICK l : l = lim
    OBVIOUS
  <2>3a. PICK t : t = TryAcquire(l, g)
    OBVIOUS
  <2>4. /\ ~t.allow => NoRicher(l, t.l)
        /\ t.allow => \E m : Ready(l, m) /\ t.l = Granted(m, g)
    BY <1>0, <2>2, <2>3, <2>3a, TriedIs
  <2>5. CASE t.allow
    <3>1. PICK m : Ready(l, m) /\ t.l = Granted(m, g)
      BY <2>4, <2>5
    <3>2. Ready(lim, m) /\ lim' = Granted(m, g)
      BY <2>1, <2>3, <2>3a, <3>1
    <3>3. log' = SubSeq(<<0>> \o log, 1, Min({MaxGrants, Len(log) + 1}))
      BY <2>1, <2>3, <2>3a, <2>5
    <3> QED
      BY <2>2, <3>2, <3>3, GrantKeeps
  <2>6. CASE ~t.allow
    <3>1. NoRicher(lim, lim') /\ log' = log
      BY <2>1, <2>3, <2>3a, <2>4, <2>6
    <3> QED
      BY <3>1, NoGrantKeeps
  <2> QED
    BY <2>5, <2>6
<1>4. ASSUME NEW c \in Caller, Report(c) PROVE RateInv'
  <2>1. PICK h \in BOOLEAN : lim' = Recorded(lim, h)
    BY <1>4 DEF Report
  <2>2. PICK l, m : l = lim /\ m = Recorded(l, h)
    OBVIOUS
  <2>3. /\ Limiter(m) /\ m.tokens = l.tokens /\ m.refill = l.refill /\ m.granted = l.granted
           /\ m.gap = l.gap
    BY <1>0, <2>2, RecordedIsSame
  <2>4. Limiter(m) /\ Purse(m) = Purse(l) /\ m.granted = l.granted /\ m.gap = l.gap /\ lim' = m
        /\ log' = log
    BY <1>4, <2>1, <2>2, <2>3 DEF Purse, Report
  <2> QED
    BY <1>0, <2>2, <2>4, NoGrantKeeps DEF NoRicher
<1>5. ASSUME NEW c \in Caller, Release(c) PROVE RateInv'
  <2>1. lim' = Released(lim) /\ log' = log
    BY <1>5 DEF Release
  <2>2. PICK l, m : l = lim /\ m = Released(l)
    OBVIOUS
  <2>3. NoRicher(l, m)
    BY <1>0, <2>2, ReleasedIsSame
  <2>4. NoRicher(lim, lim')
    BY <2>1, <2>2, <2>3
  <2> QED
    BY <2>1, <2>4, NoGrantKeeps
<1>6. CASE RateTime
  BY <1>6, TimeKeeps
<1> QED
  BY <1>1, <1>2, <1>3, <1>4, <1>5, <1>6 DEF RateNext
\* try_acquire() halts nothing.
LEMMA TriedKeepsHalt ==
  ASSUME NEW l, Limiter(l), NEW g \in Nat
  PROVE  Limiter(TryAcquire(l, g).l) /\ TryAcquire(l, g).l.halted = l.halted
<1>1. PICK r : r = Refilled(l)
  OBVIOUS
<1>2. Limiter(r) /\ r.halted = l.halted
  BY <1>1, RefilledIs DEF NoRicher
<1>3. PICK m : m = MinuteRolled(r)
  OBVIOUS
<1>4. Limiter(m) /\ m.halted = l.halted
  BY <1>2, <1>3, RolledIs
<1>5. PICK n : n = Granted(m, g)
  OBVIOUS
<1>6. Grantable(m) => Limiter(n) /\ n.halted = l.halted
  <2>1. Grantable(m) => m.tokens >= MINUTE
    BY DEF Grantable
  <2> QED
    BY <1>4, <1>5, <2>1, GrantedIs
<1>7. PICK t : t = TryAcquire(l, g)
  OBVIOUS
<1>8. t.l = l \/ t.l = r \/ t.l = m \/ (Grantable(m) /\ t.l = n)
  BY <1>1, <1>3, <1>5, <1>7 DEF TryAcquire
<1> QED
  BY <1>2, <1>4, <1>6, <1>7, <1>8

\* An open or halted breaker answers no.
LEMMA TriedWhenShut ==
  ASSUME NEW l, NEW g, l.open > 0
  PROVE  TryAcquire(l, g).l = l
  BY DEF TryAcquire

\* A step of the limiter while the breaker is open or halted lets nobody in.
LEMMA ShutLetsNobodyIn ==
  ASSUME RateInv, RateNext, lim.open > 0 \/ lim.halted
  PROVE  lim'.in_flight <= lim.in_flight
<1>0. Limiter(lim) /\ lim.in_flight \in Nat
  BY RateFacts DEF Limiter
<1>1. ASSUME NEW c \in Caller, Ask(c) \/ Halt(c) PROVE lim'.in_flight <= lim.in_flight
  BY <1>0, <1>1 DEF Ask, Halt
<1>2. ASSUME NEW c \in Caller, Acquire(c) PROVE lim'.in_flight <= lim.in_flight
  <2>1. lim.open > 0 /\ \E g : lim' = TryAcquire(lim, g).l
    BY <1>2 DEF Acquire
  <2>2. PICK g : lim' = TryAcquire(lim, g).l
    BY <2>1
  <2>3. PICK l : l = lim
    OBVIOUS
  <2>4. TryAcquire(l, g).l = l
    BY <2>1, <2>3, TriedWhenShut
  <2> QED
    BY <1>0, <2>2, <2>3, <2>4
<1>3. ASSUME NEW c \in Caller, Report(c) PROVE lim'.in_flight <= lim.in_flight
  <2>1. PICK h \in BOOLEAN : lim' = Recorded(lim, h)
    BY <1>3 DEF Report
  <2>2. PICK l, m : l = lim /\ m = Recorded(l, h)
    OBVIOUS
  <2>3. m.in_flight = l.in_flight
    BY <1>0, <2>2, RecordedIsSame
  <2> QED
    BY <1>0, <2>1, <2>2, <2>3
<1>4. ASSUME NEW c \in Caller, Release(c) PROVE lim'.in_flight <= lim.in_flight
  <2>1. PICK l, m : l = lim /\ m = Released(l)
    OBVIOUS
  <2>2. m.in_flight <= l.in_flight
    BY <1>0, <2>1, ReleasedIsSame
  <2> QED
    BY <1>4, <2>1, <2>2 DEF Release
<1>5. CASE RateTime
  <2>1. PICK a, b, p, q, r : lim' = [lim EXCEPT !.refill = a, !.granted = b, !.minute = p,
                               !.day = q, !.open = r]
    BY <1>5 DEF RateTime, Older
  <2>2. lim'.in_flight = lim.in_flight
    BY <1>0, <2>1 DEF Limiter, LimFields
  <2> QED
    BY <1>0, <2>2
<1> QED
  BY <1>1, <1>2, <1>3, <1>4, <1>5 DEF RateNext

\* A limiter's grants keep the bucket and the gap, whoever asks and when.
THEOREM GrantsStayPaced == RateSpec => []GrantsArePaced
<1>1. RateInit => RateInv
  BY RateInitHolds
<1>2. RateInv /\ [RateNext]_limitVars => RateInv'
  BY RateStepKeeps
<1>3. RateInv => GrantsArePaced
  BY StretchesArePaced DEF RateInv
<1> QED
  BY <1>1, <1>2, <1>3, PTL DEF RateSpec

\* An open breaker lets nobody through, and a halted one never again.
THEOREM BreakerAlwaysHolds == RateSpec => BreakerHolds
<1>1. RateInit => RateInv
  BY RateInitHolds
<1>2. RateInv /\ [RateNext]_limitVars => RateInv'
  BY RateStepKeeps
<1>3. RateInv /\ [RateNext]_limitVars =>
        [(lim.open > 0 \/ lim.halted) => lim'.in_flight <= lim.in_flight]_limitVars
  BY ShutLetsNobodyIn
<1> QED
  BY <1>1, <1>2, <1>3, PTL DEF RateSpec, BreakerHolds

---------------------------------------------------------------------------
CmdPhases == {"build", "preflight", "slot", "spawn", "pump", "join", "joined", "end"}

CliTypes ==
  /\ cmd \in CmdPhases /\ container \in {"none", "up", "down", "lost"} /\ agent \in {"none", "runs", "exited"}
  /\ Limiter(clim) /\ cworld.max_steps \in Nat
  /\ DOMAIN out = {"steps", "killed", "halted", "meta", "failed"} /\ out.steps \in Nat
  /\ out.killed \in BOOLEAN /\ out.failed \in BOOLEAN

\* The container is there from its building to the step that finds the end.
ContainerPhases ==
  /\ cmd = "build" => container = "none"
  /\ cmd \in {"preflight", "slot", "spawn", "pump"} => container = "up"
  /\ cmd = "end" => container # "up"

\* The agent starts with the pump, and the pump ends with it.
AgentPhases ==
  /\ cmd \in {"build", "preflight", "slot", "spawn"} => agent = "none"
  /\ cmd \in {"joined", "end"} => agent # "runs"

\* What the command has told, and what it knows of the run.
TellingPhases ==
  /\ cmd \in {"build", "preflight", "slot"} => told = <<>> /\ ~out.failed /\ ~out.killed
  /\ cmd = "spawn" => told = <<"started">> /\ ~out.failed /\ ~out.killed
  /\ cmd \in {"pump", "join"} => told = <<"started">> /\ ~out.failed
  /\ cmd = "joined" => /\ ~out.failed
                       /\ told \in {<<"error">>, <<"started", "error">>, <<"started", "done">>}
                       /\ out.killed => told = <<"started", "error">>
  /\ cmd = "end" => /\ out.failed <=> told = <<>>
                    /\ ~out.failed =>
                         told \in {<<"error">>, <<"started", "error">>, <<"started", "done">>}
                    /\ out.killed => told = <<"started", "error">>

CliInv == CliTypes /\ ContainerPhases /\ AgentPhases /\ TellingPhases /\ HaltTearsDown

\* The second word of a run.
LEMMA AppendToOne ==
  ASSUME NEW a, NEW b
  PROVE Append(<<a>>, b) = <<a, b>>
<1>1. PICK S : S = {a, b}
  OBVIOUS
<1>2. <<a>> \in Seq(S) /\ b \in S /\ Len(<<a>>) = 1
  BY <1>1
<1>3. /\ Append(<<a>>, b) \in Seq(S)
      /\ Len(Append(<<a>>, b)) = 2
  BY <1>2, AppendProperties
<1>3a.  Append(<<a>>, b)[1] = a /\ Append(<<a>>, b)[2] = b
  BY <1>2, AppendProperties
<1>4. <<a, b>> \in Seq(S) /\ Len(<<a, b>>) = 2 /\ <<a, b>>[1] = a /\ <<a, b>>[2] = b
  BY <1>1
<1>5. PICK s, t : s = Append(<<a>>, b) /\ t = <<a, b>>
  OBVIOUS
<1>6. s \in Seq(S) /\ t \in Seq(S) /\ Len(s) = Len(t) /\ \A i \in 1 .. Len(s) : s[i] = t[i]
  BY <1>3, <1>3a, <1>4, <1>5
<1>7. s = t
  BY <1>6, SeqEqual
<1> QED
  BY <1>5, <1>7

\* A command begins before everything.
LEMMA CliInitHolds == CliInit => CliInv
<1> SUFFICES ASSUME CliInit PROVE CliInv
  OBVIOUS
<1>1. Limiter(clim) /\ clim.halted = FALSE
  BY NewIsLimiter DEF CliInit
<1>2. cworld.max_steps \in Nat
  BY CliAssumption DEF CliInit
<1>3. /\ cmd = "build" /\ container = "none" /\ agent = "none" /\ told = <<>> /\ out.steps = 0
      /\ out.killed = FALSE /\ out.failed = FALSE
         /\ DOMAIN out = {"steps", "killed", "halted", "meta", "failed"}
  BY DEF CliInit, NoOutcome
<1>4. CliTypes
  <2>1. cmd \in CmdPhases /\ container \in {"none", "up", "down", "lost"}
        /\ agent \in {"none", "runs", "exited"}
    BY <1>3 DEF CmdPhases
  <2>2. out.steps \in Nat
    BY <1>3
  <2>3. out.killed \in BOOLEAN /\ out.failed \in BOOLEAN
    BY <1>3, Zenon
  <2> QED
    BY <1>1, <1>2, <1>3, <2>1, <2>2, <2>3, Zenon DEF CliTypes
<1>5. HaltTearsDown
  BY <1>1, <1>2, <1>3 DEF HaltTearsDown
<1> QED
  BY <1>3, <1>4, <1>5 DEF CliInv, ContainerPhases, AgentPhases, TellingPhases

\* A step that says nothing of the budgets and at most takes the container down.
LEMMA DownStaysDown ==
  ASSUME CliInv, clim'.halted => clim.halted, out'.steps = out.steps, UNCHANGED cworld,
         container' \in {"down", "lost"} \/ container' = container \/ cmd = "build",
         agent' = agent \/ agent' = "exited" \/ agent = "none"
  PROVE  HaltTearsDown'
<1>1. HaltTearsDown /\ ContainerPhases
  BY DEF CliInv
<1> QED
  BY <1>1 DEF HaltTearsDown, ContainerPhases

\* build_instance() makes the container or ends the command.
LEMMA BuildKeeps == CliInv /\ Build => CliInv'
<1> SUFFICES ASSUME CliInv, Build PROVE CliInv'
  OBVIOUS
<1>1. /\ cmd = "build" /\ agent' = agent /\ clim' = clim /\ told' = told /\ cworld' = cworld
      /\ \/ cmd' = "preflight" /\ container' = "up" /\ out' = out
         \/ cmd' = "end" /\ out' = [out EXCEPT !.failed = TRUE] /\ container' = container
  BY DEF Build
<1>2. /\ DOMAIN out' = DOMAIN out /\ out'.steps = out.steps /\ out'.killed = out.killed
      /\ out'.failed \in BOOLEAN /\ (cmd' = "end" => out'.failed = TRUE)
         /\ (cmd' = "preflight" => out' = out)
  BY <1>1 DEF CliInv, CliTypes
<1>3. CliTypes'
  BY <1>1, <1>2 DEF CliInv, CliTypes, CmdPhases
<1>4. ContainerPhases' /\ AgentPhases'
  BY <1>1 DEF CliInv, ContainerPhases, AgentPhases
<1>5. TellingPhases'
  BY <1>1, <1>2 DEF CliInv, TellingPhases
<1>6. HaltTearsDown'
  BY <1>1, <1>2, DownStaysDown
<1> QED
  BY <1>3, <1>4, <1>5, <1>6 DEF CliInv

\* preflight and the scaffold: the run may start, or the container goes.
LEMMA PreflightKeeps == CliInv /\ (Preflight \/ PreflightOnly \/ ScaffoldFails) => CliInv'
<1> SUFFICES ASSUME CliInv, Preflight \/ PreflightOnly \/ ScaffoldFails PROVE CliInv'
  OBVIOUS
<1>1. /\ cmd \in {"preflight", "slot"} /\ agent' = agent /\ clim' = clim /\ told' = told
         /\ cworld' = cworld
      /\ \/ cmd' = "slot" /\ container' = container /\ out' = [out EXCEPT !.meta = "running"]
         \/ cmd' = "end" /\ container' \in {"down", "lost"} /\ out' = [out EXCEPT !.failed = TRUE]
  BY DEF Preflight, PreflightOnly, ScaffoldFails, Launch, Destroy
<1>2. /\ DOMAIN out' = DOMAIN out /\ out'.steps = out.steps /\ out'.killed = out.killed
      /\ out'.failed \in BOOLEAN /\ (cmd' = "end" => out'.failed = TRUE)
      /\ (cmd' = "slot" => out'.failed = out.failed)
  BY <1>1 DEF CliInv, CliTypes
<1>3. CliTypes'
  BY <1>1, <1>2 DEF CliInv, CliTypes, CmdPhases
<1>4. ContainerPhases' /\ AgentPhases'
  BY <1>1 DEF CliInv, ContainerPhases, AgentPhases
<1>5. TellingPhases'
  BY <1>1, <1>2 DEF CliInv, TellingPhases
<1>6. HaltTearsDown'
  BY <1>1, <1>2, DownStaysDown
<1> QED
  BY <1>3, <1>4, <1>5, <1>6 DEF CliInv

\* wait_for_slot(): stopped before it began, or asked the limiter.
LEMMA SlotKeeps == CliInv /\ WaitForSlot => CliInv'
<1> SUFFICES ASSUME CliInv, WaitForSlot PROVE CliInv'
  OBVIOUS
<1>1. cmd = "slot" /\ container' = container /\ agent' = agent /\ cworld' = cworld
  BY DEF WaitForSlot
<1>2. told = <<>> /\ ~out.failed /\ ~out.killed /\ container = "up" /\ agent = "none" /\ Limiter(clim)
  BY <1>1 DEF CliInv, TellingPhases, ContainerPhases, AgentPhases, CliTypes
<1>3. CASE kill
  <2>1. cmd' = "joined" /\ out' = [out EXCEPT !.halted = TRUE] /\ told' = <<"error">> /\ clim' = clim
    BY <1>1, <1>2, <1>3 DEF WaitForSlot, Emit
  <2>2. /\ DOMAIN out' = DOMAIN out /\ out'.steps = out.steps /\ out'.killed = out.killed
           /\ out'.failed = out.failed
    BY <2>1 DEF CliInv, CliTypes
  <2>3. CliTypes'
    BY <1>1, <2>1, <2>2 DEF CliInv, CliTypes, CmdPhases
  <2>4. ContainerPhases' /\ AgentPhases'
    BY <1>1, <1>2, <2>1 DEF ContainerPhases, AgentPhases
  <2>5. TellingPhases'
    BY <1>2, <2>1, <2>2 DEF TellingPhases
  <2>6. HaltTearsDown'
    BY <1>1, <2>1, <2>2, DownStaysDown
  <2> QED
    BY <2>3, <2>4, <2>5, <2>6 DEF CliInv
<1>4. CASE ~kill
  <2>1. PICK g \in min_gap .. min_gap + jitter : AskSlot(g)
    BY <1>4 DEF WaitForSlot
  <2>2. g \in Nat
    BY RateAssumption
  <2>3. PICK l : l = clim
    OBVIOUS
  <2>4. PICK t : t = TryAcquire(l, g)
    OBVIOUS
  <2>5. Limiter(t.l) /\ t.l.halted = l.halted
    BY <1>2, <2>2, <2>3, <2>4, TriedKeepsHalt
  <2>6. clim' = t.l /\ out' = out
    BY <2>1, <2>3, <2>4 DEF AskSlot
  <2>7. (cmd' = "spawn" /\ told' = <<"started">>) \/ (cmd' = cmd /\ told' = told)
    BY <1>2, <2>1 DEF AskSlot, Emit
  <2>8. CliTypes'
    BY <1>1, <2>5, <2>6, <2>7 DEF CliInv, CliTypes, CmdPhases
  <2>9. ContainerPhases' /\ AgentPhases'
    BY <1>1, <1>2, <2>7 DEF ContainerPhases, AgentPhases
  <2>10. TellingPhases'
    BY <1>1, <1>2, <2>6, <2>7 DEF TellingPhases
  <2>11. HaltTearsDown'
    BY <1>1, <2>3, <2>5, <2>6, DownStaysDown
  <2> QED
    BY <2>8, <2>9, <2>10, <2>11 DEF CliInv
<1> QED
  BY <1>3, <1>4

\* spawn_streaming() starts the agent or closes the run.
LEMMA SpawnKeeps == CliInv /\ Spawn => CliInv'
<1> SUFFICES ASSUME CliInv, Spawn PROVE CliInv'
  OBVIOUS
<1>1. cmd = "spawn" /\ container' = container /\ cworld' = cworld
  BY DEF Spawn
<1>2. told = <<"started">> /\ ~out.failed /\ ~out.killed /\ container = "up" /\ agent = "none"
      /\ Limiter(clim)
  BY <1>1 DEF CliInv, TellingPhases, ContainerPhases, AgentPhases, CliTypes
<1>3. CASE cmd' = "pump" /\ agent' = "runs" /\ UNCHANGED <<out, clim, told>>
  <2>1. CliTypes'
    BY <1>1, <1>3 DEF CliInv, CliTypes, CmdPhases
  <2>2. ContainerPhases' /\ AgentPhases' /\ TellingPhases'
    BY <1>1, <1>2, <1>3 DEF ContainerPhases, AgentPhases, TellingPhases
  <2>3. HaltTearsDown'
    BY <1>1, <1>2, <1>3, DownStaysDown
  <2> QED
    BY <2>1, <2>2, <2>3 DEF CliInv
<1>4. CASE /\ cmd' = "joined" /\ out' = [out EXCEPT !.halted = TRUE]
           /\ Emit("error") /\ clim' = Released(clim) /\ UNCHANGED agent
  <2>1. PICK l, m : l = clim /\ m = Released(l)
    OBVIOUS
  <2>2. Limiter(m) /\ m.halted = l.halted
    BY <1>2, <2>1, ReleasedIsSame DEF NoRicher
  <2>3. Limiter(clim') /\ clim'.halted = clim.halted
    BY <1>4, <2>1, <2>2
  <2>4. told' = <<"started", "error">>
    <3>1. told' = Append(<<"started">>, "error")
      BY <1>2, <1>4 DEF Emit
    <3>2. Append(<<"started">>, "error") = <<"started", "error">>
      BY AppendToOne
    <3> QED
      BY <3>1, <3>2
  <2>5. /\ DOMAIN out' = DOMAIN out /\ out'.steps = out.steps /\ out'.killed = out.killed
           /\ out'.failed = out.failed
    BY <1>4 DEF CliInv, CliTypes
  <2>6. CliTypes'
    BY <1>1, <1>4, <2>3, <2>5 DEF CliInv, CliTypes, CmdPhases
  <2>7. ContainerPhases' /\ AgentPhases'
    BY <1>1, <1>2, <1>4 DEF ContainerPhases, AgentPhases
  <2>8. TellingPhases'
    BY <1>2, <1>4, <2>4, <2>5 DEF TellingPhases
  <2>9. HaltTearsDown'
    BY <1>1, <1>2, <2>3, <2>5, DownStaysDown
  <2> QED
    BY <2>6, <2>7, <2>8, <2>9 DEF CliInv
<1> QED
  BY <1>3, <1>4 DEF Spawn

\* A line comes in: what it does to the budgets.
LEMMA LineIs ==
  ASSUME NEW l, Limiter(l), NEW k
  PROVE  /\ HandleLine(l, k).step \in {0, 1} /\ HandleLine(l, k).halted \in BOOLEAN
         /\ Limiter(HandleLine(l, k).lim)
         /\ HandleLine(l, k).lim.halted => l.halted \/ HandleLine(l, k).halted
<1>1. PICK t \in BOOLEAN : t = TRUE
  OBVIOUS
<1>2. PICK m : m = Recorded(l, t)
  OBVIOUS
<1>3. Limiter(m)
  BY <1>2, RecordedIsSame
<1>4. PICK b : b = IF k = "throttled" THEN m ELSE l
  OBVIOUS
<1>5. Limiter(b) /\ b.halted \in BOOLEAN
  BY <1>3, <1>4 DEF Limiter
<1>6. HandleLine(l, k) = [step |-> IF k = "step" THEN 1
        ELSE 0, lim |-> b, halted |-> k = "throttled" /\ b.halted]
  BY <1>1, <1>2, <1>4 DEF HandleLine
<1>7. HandleLine(l, k).step = (IF k = "step" THEN 1 ELSE 0) /\ HandleLine(l, k).lim = b
      /\ HandleLine(l, k).halted = (k = "throttled" /\ b.halted)
  BY <1>6
<1>8. k # "throttled" => b = l
  BY <1>4
<1> QED
  BY <1>5, <1>7, <1>8

\* A line that uses up a budget tears the container down in the same step.
LEMMA PumpLineKeeps == CliInv /\ PumpLine => CliInv'
<1> SUFFICES ASSUME CliInv, PumpLine PROVE CliInv'
  OBVIOUS
<1>1. PICK l, k, h : l = clim /\ k = Head(pipe.buf) /\ h = HandleLine(l, k)
  OBVIOUS
<1>2. /\ cmd = "pump" /\ cworld' = cworld /\ told' = told /\ clim' = h.lim
  BY <1>1 DEF PumpLine
<1>3. /\ told = <<"started">> /\ ~out.failed /\ container = "up" /\ Limiter(l) /\ out.steps \in Nat
      /\ DOMAIN out = {"steps", "killed", "halted", "meta", "failed"} /\ cworld.max_steps \in Nat
      /\ out.failed \in BOOLEAN /\ agent \in {"none", "runs", "exited"}
  BY <1>1, <1>2 DEF CliInv, TellingPhases, ContainerPhases, CliTypes
<1>4. ~l.halted
  BY <1>1, <1>3 DEF CliInv, HaltTearsDown
<1>5. h.step \in {0, 1} /\ h.halted \in BOOLEAN /\ Limiter(h.lim) /\ (h.lim.halted => h.halted)
  BY <1>1, <1>3, <1>4, LineIs
<1>6. PICK n \in Nat : n = out.steps + h.step
  BY <1>3, <1>5
<1>7. PICK stop \in BOOLEAN : stop = (h.halted \/ (cworld.max_steps > 0 /\ n >= cworld.max_steps))
  OBVIOUS
<1>8. out' = [out EXCEPT !.steps = n, !.halted = stop, !.killed = stop]
  BY <1>1, <1>6, <1>7 DEF PumpLine
<1>9. /\ DOMAIN out' = DOMAIN out /\ out'.steps = n /\ out'.killed = stop /\ out'.failed = out.failed
  BY <1>3, <1>8
<1>10. CASE stop
  <2>1. container' \in {"down", "lost"} /\ agent' = "exited" /\ cmd' = "join"
    BY <1>1, <1>6, <1>7, <1>10 DEF PumpLine, Teardown, Destroy
  <2>2. CliTypes'
    BY <1>2, <1>3, <1>5, <1>9, <2>1 DEF CliTypes, CmdPhases
  <2>3. ContainerPhases' /\ AgentPhases' /\ TellingPhases' /\ HaltTearsDown'
    BY <1>2, <1>3, <1>9, <2>1 DEF ContainerPhases, AgentPhases, TellingPhases, HaltTearsDown
  <2> QED
    BY <2>2, <2>3 DEF CliInv
<1>11. CASE ~stop
  <2>1. container' = container /\ agent' = agent /\ cmd' = cmd
    BY <1>1, <1>6, <1>7, <1>11 DEF PumpLine
  <2>2. CliTypes'
    BY <1>2, <1>3, <1>5, <1>9, <2>1 DEF CliTypes, CmdPhases
  <2>3. ContainerPhases' /\ AgentPhases' /\ TellingPhases'
    BY <1>2, <1>3, <1>9, <2>1 DEF ContainerPhases, AgentPhases, TellingPhases
  <2>4. ~clim'.halted /\ ~(cworld'.max_steps > 0 /\ out'.steps >= cworld'.max_steps)
    BY <1>2, <1>5, <1>7, <1>9, <1>11
  <2>5. HaltTearsDown'
    BY <2>4 DEF HaltTearsDown
  <2> QED
    BY <2>2, <2>3, <2>5 DEF CliInv
<1> QED
  BY <1>10, <1>11

\* A stop seen at a poll tears the container down.
LEMMA PumpTimeoutKeeps == CliInv /\ PumpTimeout => CliInv'
<1> SUFFICES ASSUME CliInv, PumpTimeout PROVE CliInv'
  OBVIOUS
<1>1. /\ cmd = "pump" /\ container' \in {"down", "lost"} /\ agent' = "exited" /\ cmd' = "join"
      /\ clim' = clim /\ told' = told /\ cworld' = cworld
      /\ out' = [out EXCEPT !.killed = TRUE, !.halted = ~kill]
  BY DEF PumpTimeout, Teardown, Destroy
<1>2. DOMAIN out' = DOMAIN out /\ out'.steps = out.steps /\ out'.killed = TRUE
      /\ out'.failed = out.failed
  BY <1>1 DEF CliInv, CliTypes
<1>3. CliTypes'
  BY <1>1, <1>2 DEF CliInv, CliTypes, CmdPhases
<1>4. ContainerPhases' /\ AgentPhases' /\ HaltTearsDown'
  BY <1>1 DEF ContainerPhases, AgentPhases, HaltTearsDown
<1>5. TellingPhases'
  BY <1>1, <1>2 DEF CliInv, TellingPhases
<1> QED
  BY <1>3, <1>4, <1>5 DEF CliInv

\* pump() tells how the run ended.
LEMMA PumpEndsKeeps == CliInv /\ PumpEnds => CliInv'
<1> SUFFICES ASSUME CliInv, PumpEnds PROVE CliInv'
  OBVIOUS
<1>1. /\ cmd = "join" /\ agent = "exited" /\ cmd' = "joined" /\ agent' = agent
         /\ container' = container
      /\ out' = out /\ cworld' = cworld
  BY DEF PumpEnds
<1>2. told = <<"started">> /\ ~out.failed /\ Limiter(clim) /\ out.killed \in BOOLEAN
  BY <1>1 DEF CliInv, TellingPhases, CliTypes
<1>3. told' = IF out.killed THEN <<"started", "error">> ELSE <<"started", "done">>
  <2>1. told' = Append(<<"started">>, IF out.killed THEN "error" ELSE "done")
    BY <1>2 DEF PumpEnds, Emit
  <2>2. /\ Append(<<"started">>, "error") = <<"started", "error">>
        /\ Append(<<"started">>, "done") = <<"started", "done">>
    BY AppendToOne
  <2> QED
    BY <2>1, <2>2
<1>4. Limiter(clim') /\ clim'.halted = clim.halted
  <2>1. PICK l : l = clim
    OBVIOUS
  <2>2. PICK f \in BOOLEAN : f = FALSE
    OBVIOUS
  <2>3. PICK m : m = Recorded(l, f)
    OBVIOUS
  <2>4. Limiter(m) /\ m.halted = l.halted
    BY <1>2, <2>1, <2>2, <2>3, RecordedIsSame
  <2>5. PICK n : n = Released(m)
    OBVIOUS
  <2>6. Limiter(n) /\ n.halted = m.halted
    BY <2>4, <2>5, ReleasedIsSame DEF NoRicher
  <2>7. clim' = n
    BY <2>1, <2>2, <2>3, <2>5 DEF PumpEnds
  <2> QED
    BY <2>1, <2>4, <2>6, <2>7
<1>5. CliTypes'
  BY <1>1, <1>4 DEF CliInv, CliTypes, CmdPhases
<1>6. ContainerPhases' /\ AgentPhases'
  BY <1>1 DEF ContainerPhases, AgentPhases
<1>7. TellingPhases'
  BY <1>1, <1>2, <1>3 DEF TellingPhases
<1>8. HaltTearsDown'
  BY <1>1, <1>4, DownStaysDown
<1> QED
  BY <1>5, <1>6, <1>7, <1>8 DEF CliInv

\* run() destroys the container whatever happened.
LEMMA FinishKeeps == CliInv /\ Finish => CliInv'
<1> SUFFICES ASSUME CliInv, Finish PROVE CliInv'
  OBVIOUS
<1>1. /\ cmd = "joined" /\ cmd' = "end" /\ agent' = agent /\ container' \in {"down", "lost"} /\ told' = told
      /\ clim' = clim /\ cworld' = cworld
      /\ out' = [out EXCEPT !.meta = IF out.killed THEN "killed" ELSE "done"]
  BY DEF Finish, Destroy
<1>2. DOMAIN out' = DOMAIN out /\ out'.steps = out.steps /\ out'.killed = out.killed
      /\ out'.failed = out.failed
  BY <1>1 DEF CliInv, CliTypes
<1>3. CliTypes'
  BY <1>1, <1>2 DEF CliInv, CliTypes, CmdPhases
<1>4. ContainerPhases' /\ AgentPhases' /\ HaltTearsDown'
  BY <1>1 DEF CliInv, ContainerPhases, AgentPhases, HaltTearsDown
<1>5. TellingPhases'
  <2>1. /\ ~out.failed /\ told \in {<<"error">>, <<"started", "error">>, <<"started", "done">>}
        /\ out.killed => told = <<"started", "error">>
    BY <1>1 DEF CliInv, TellingPhases
  <2>2. told # <<>>
    BY <2>1
  <2> QED
    BY <1>1, <1>2, <2>1, <2>2 DEF TellingPhases
<1> QED
  BY <1>3, <1>4, <1>5 DEF CliInv

\* The agent, the watcher, the clock and the human change neither the command's
\* outcome nor its limiter.
LEMMA OthersKeep ==
  CliInv /\ (PumpEof \/ Watch \/ WallPasses \/ Sigint \/ StopFile \/ AgentExits
             \/ OutputEnds \/ (\E k \in LineKind : AgentPrints(k)) \/ UNCHANGED cliVars) => CliInv'
<1> SUFFICES ASSUME CliInv, PumpEof \/ Watch \/ WallPasses \/ Sigint \/ StopFile \/ AgentExits
                            \/ OutputEnds \/ (\E k \in LineKind : AgentPrints(k)) \/ UNCHANGED cliVars
             PROVE  CliInv'
  OBVIOUS
<1>1. /\ container' = container /\ clim' = clim /\ out' = out /\ told' = told /\ cworld' = cworld
      /\ (cmd' = cmd \/ (cmd = "pump" /\ cmd' = "join"))
      /\ (agent' = agent \/ (agent = "runs" /\ agent' = "exited"))
  BY DEF PumpEof, Watch, WallPasses, Sigint, StopFile, AgentExits, OutputEnds, AgentPrints, cliVars
<1>2. CliTypes'
  BY <1>1 DEF CliInv, CliTypes, CmdPhases
<1>3. ContainerPhases' /\ AgentPhases'
  BY <1>1 DEF CliInv, ContainerPhases, AgentPhases
<1>4. TellingPhases'
  BY <1>1 DEF CliInv, TellingPhases
<1>5. HaltTearsDown'
  BY <1>1, DownStaysDown
<1> QED
  BY <1>2, <1>3, <1>4, <1>5 DEF CliInv

\* Every step of a run keeps its phases.
LEMMA CliStepKeeps == CliInv /\ [CliNext]_cliVars => CliInv'
  BY BuildKeeps, PreflightKeeps, SlotKeeps, SpawnKeeps, PumpLineKeeps, PumpTimeoutKeeps,
  PumpEndsKeeps,
     FinishKeeps, OthersKeep DEF CliNext, CmdStep

\* All of it, for every limiter, with limits of zero too, every budget and every
\* agent, whether its output ends with it or not and whether destroy() works or not
\* (try_acquire, run_with, pump, teardown).
THEOREM AgentsStayPaced == RateSpec /\ CliSpec => []AgentsArePaced
<1>1. RateInit => RateInv
  BY RateInitHolds
<1>2. RateInv /\ [RateNext]_limitVars => RateInv'
  BY RateStepKeeps
<1>3. CliInit => CliInv
  BY CliInitHolds
<1>4. CliInv /\ [CliNext]_cliVars => CliInv'
  BY CliStepKeeps
<1>5. CliInv => RunsEndClean /\ HaltTearsDown
  <2> SUFFICES ASSUME CliInv PROVE RunsEndClean /\ HaltTearsDown
    OBVIOUS
  <2>1. ContainerPhases /\ AgentPhases /\ TellingPhases /\ HaltTearsDown
    BY DEF CliInv
  <2>2. RunsEndClean
    BY <2>1 DEF RunsEndClean, ContainerPhases, AgentPhases, TellingPhases
  <2> QED
    BY <2>1, <2>2
<1>6. RateInv => GrantsArePaced
  BY StretchesArePaced DEF RateInv
<1>7. RateInv /\ CliInv => AgentsArePaced
  BY <1>5, <1>6 DEF AgentsArePaced
<1> QED
  BY <1>1, <1>2, <1>3, <1>4, <1>7, PTL DEF RateSpec, CliSpec

-----------------------------------------------------------------------------
(***************************************************************************)
(* Proofs about filters: seg_match() searches from the left, Fits says     *)
(* what a pattern means.  FitsFrom is Fits for the pattern from i and the  *)
(* topic from j; it solves the equation of glob(), which has one solution. *)
(***************************************************************************)

\* A set of naturals that is not empty has a least element.
LEMMA LeastOfNat ==
  ASSUME NEW T, T \subseteq Nat, T # {}
  PROVE \E x \in T : \A y \in T : x <= y
<1>1. IsWellFoundedOn(OpToRel(<, Nat), Nat) BY NatLessThanWellFounded
<1> DEFINE R == OpToRel(<, Nat)
<1>2. \A x, y \in Nat : x < y => <<x, y>> \in R BY DEF OpToRel
<1> HIDE DEF R
<1>3. IsWellFoundedOn(R, Nat) BY <1>1 DEF R
<1>4. PICK x \in T : \A y \in T : ~ (<<y, x>> \in R) BY <1>3, WFMin
<1>5. ASSUME NEW y \in T PROVE x <= y
  <2>1. ~(y < x) BY <1>2, <1>4
  <2> QED BY <2>1
<1> QED BY <1>4, <1>5

\* Induction, with a set in the place of a predicate.
LEMMA NatInductionOnSets ==
  ASSUME NEW S, 0 \in S, \A n \in Nat : n \in S => n + 1 \in S
  PROVE Nat \subseteq S
<1> SUFFICES ASSUME NEW k \in Nat, k \notin S PROVE FALSE OBVIOUS
<1>1. PICK x \in Nat \ S : \A y \in Nat \ S : x <= y BY LeastOfNat
<1>2. x # 0 BY <1>1
<1>3. x - 1 \in Nat /\ x - 1 < x /\ x - 1 + 1 = x BY <1>1, <1>2
<1>4. x - 1 \in S BY <1>1, <1>3
<1> QED BY <1>1, <1>3, <1>4

\* The equation of glob(), and what it chooses.
IsGlob(p, t, m) ==
  m = [i \in 1 .. Len(p) + 1 |-> [j \in 1 .. Len(t) + 1 |->
         IF i > Len(p) THEN j > Len(t) ELSE seg_match(p, t, i, j, m[i + 1])]]
Globs(p, t) == CHOOSE m : IsGlob(p, t, m)

FitsFrom(p, t, i, j) ==
  \E cut \in [i - 1 .. Len(p) -> 0 .. Len(t)] :
    /\ cut[i - 1] = j - 1 /\ cut[Len(p)] = Len(t)
    /\ \A k \in i .. Len(p) : Piece(p, t, k, cut[k - 1], cut[k])
AllFits(p, t) == [i \in 1 .. Len(p) + 1 |-> [j \in 1 .. Len(t) + 1 |-> FitsFrom(p, t, i, j)]]

\* A pattern that is used up fits the rest of the topic when there is none.
LEMMA NothingFitsNothing ==
  ASSUME NEW p \in Seq(Segment), NEW t \in Seq(Segment), NEW j \in 1 .. Len(t) + 1,
         NEW i, i = Len(p) + 1
  PROVE FitsFrom(p, t, i, j) <=> j > Len(t)
<1>1. Len(p) \in Nat /\ Len(t) \in Nat BY LenProperties
<1>2. i - 1 = Len(p) /\ (i .. Len(p)) = {} /\ Len(p) \in i - 1 .. Len(p) BY <1>1
<1>3. ASSUME FitsFrom(p, t, i, j) PROVE j > Len(t)
  <2>1. PICK cut \in [i - 1 .. Len(p) -> 0 .. Len(t)] : cut[i - 1] = j - 1 /\ cut[Len(p)] = Len(t)
    BY <1>3 DEF FitsFrom
  <2>2. cut[i - 1] = cut[Len(p)] BY <1>2
  <2> QED BY <1>1, <2>1, <2>2
<1>4. ASSUME j > Len(t) PROVE FitsFrom(p, t, i, j)
  <2> DEFINE cut == [k \in i - 1 .. Len(p) |-> Len(t)]
  <2>1. cut \in [i - 1 .. Len(p) -> 0 .. Len(t)] BY <1>1
  <2>2. cut[i - 1] = j - 1 /\ cut[Len(p)] = Len(t) BY <1>1, <1>2, <1>4
  <2> QED BY <2>1, <2>2, <1>2 DEF FitsFrom
<1> QED BY <1>3, <1>4

\* A pattern fits when its first segment takes a piece and the others fit what is left.
LEMMA FirstPiece ==
  ASSUME NEW p \in Seq(Segment), NEW t \in Seq(Segment),
         NEW i \in 1 .. Len(p), NEW j \in 1 .. Len(t) + 1
  PROVE FitsFrom(p, t, i, j) <=>
          \E k \in 1 .. Len(t) + 1 : Piece(p, t, i, j - 1, k - 1) /\ FitsFrom(p, t, i + 1, k)
<1>1. Len(p) \in Nat /\ Len(t) \in Nat BY LenProperties
<1>2. i + 1 - 1 = i /\ i \in i - 1 .. Len(p) /\ i - 1 \in i - 1 .. Len(p)
      /\ Len(p) \in i .. Len(p) BY <1>1
<1>3. ASSUME FitsFrom(p, t, i, j)
      PROVE \E k \in 1 .. Len(t) + 1 : Piece(p, t, i, j - 1, k - 1) /\ FitsFrom(p, t, i + 1, k)
  <2>1. PICK cut \in [i - 1 .. Len(p) -> 0 .. Len(t)] :
          /\ cut[i - 1] = j - 1 /\ cut[Len(p)] = Len(t)
          /\ \A k \in i .. Len(p) : Piece(p, t, k, cut[k - 1], cut[k])
    BY <1>3 DEF FitsFrom
  <2>2. PICK k : k = cut[i] + 1 OBVIOUS
  <2>3. k \in 1 .. Len(t) + 1 /\ cut[i] = k - 1
    <3>1. cut[i] \in 0 .. Len(t) BY <1>2
    <3> QED BY <3>1, <2>2, <1>1
  <2> DEFINE rest == [n \in i .. Len(p) |-> cut[n]]
  <2>4. rest \in [i + 1 - 1 .. Len(p) -> 0 .. Len(t)] BY <1>1, <1>2
  <2>5. rest[i + 1 - 1] = k - 1 /\ rest[Len(p)] = Len(t) BY <1>1, <1>2, <2>1, <2>3
  <2>6. ASSUME NEW n \in i + 1 .. Len(p) PROVE Piece(p, t, n, rest[n - 1], rest[n])
    <3>1. n \in i .. Len(p) /\ n - 1 \in i .. Len(p) BY <1>1
    <3> QED BY <3>1, <2>1
  <2>7. FitsFrom(p, t, i + 1, k)
    <3> HIDE DEF rest
    <3> QED BY <2>4, <2>5, <2>6 DEF FitsFrom
  <2>8. Piece(p, t, i, j - 1, k - 1) BY <2>1, <2>3, <1>1
  <2> QED BY <2>3, <2>7, <2>8
<1>4. ASSUME NEW k \in 1 .. Len(t) + 1, Piece(p, t, i, j - 1, k - 1), FitsFrom(p, t, i + 1, k)
      PROVE FitsFrom(p, t, i, j)
  <2>1. PICK rest \in [i .. Len(p) -> 0 .. Len(t)] :
          /\ rest[i] = k - 1 /\ rest[Len(p)] = Len(t)
          /\ \A n \in i + 1 .. Len(p) : Piece(p, t, n, rest[n - 1], rest[n])
    <3>1. PICK h : h = i + 1 OBVIOUS
    <3>2. h - 1 = i BY <1>2, <3>1
    <3>3. FitsFrom(p, t, h, k) BY <1>4, <3>1
    <3>4. PICK rest \in [h - 1 .. Len(p) -> 0 .. Len(t)] :
            /\ rest[h - 1] = k - 1 /\ rest[Len(p)] = Len(t)
            /\ \A n \in h .. Len(p) : Piece(p, t, n, rest[n - 1], rest[n])
      BY <3>3 DEF FitsFrom
    <3> QED BY <3>1, <3>2, <3>4
  <2> DEFINE cut == [n \in i - 1 .. Len(p) |-> IF n = i - 1 THEN j - 1 ELSE rest[n]]
  <2>2. \A n \in i .. Len(p) : n \in i - 1 .. Len(p) /\ n # i - 1 /\ cut[n] = rest[n] BY <1>1
  <2>3. cut[i - 1] = j - 1 BY <1>2
  <2>4. cut \in [i - 1 .. Len(p) -> 0 .. Len(t)]
    <3>1. ASSUME NEW n \in i - 1 .. Len(p) PROVE (IF n = i - 1 THEN j - 1
                   ELSE rest[n]) \in 0 .. Len(t)
      <4>1. n = i - 1 \/ n \in i .. Len(p) BY <1>1
      <4> QED BY <4>1, <1>1
    <3> QED BY <3>1
  <2>5. cut[Len(p)] = Len(t) BY <2>1, <2>2, <1>2
  <2>6. ASSUME NEW n \in i .. Len(p) PROVE Piece(p, t, n, cut[n - 1], cut[n])
    <3>1. CASE n = i
      <4>1. cut[n - 1] = j - 1 /\ cut[n] = k - 1 BY <3>1, <2>3, <2>2, <2>1, <1>2
      <4> QED BY <4>1, <3>1, <1>4
    <3>2. CASE n # i
      <4>1. n \in i + 1 .. Len(p) /\ n - 1 \in i .. Len(p) BY <3>2, <1>1
      <4>2. cut[n] = rest[n] /\ cut[n - 1] = rest[n - 1] BY <4>1, <2>2
      <4> QED BY <4>1, <4>2, <2>1
    <3> QED BY <3>1, <3>2
  <2> HIDE DEF cut
  <2> QED BY <2>3, <2>4, <2>5, <2>6 DEF FitsFrom
<1> QED BY <1>3, <1>4

\* A last "**" fits whatever is left.
LEMMA RestFits ==
  ASSUME NEW p \in Seq(Segment), NEW t \in Seq(Segment), NEW j \in 1 .. Len(t) + 1,
         Len(p) \in 1 .. Len(p), p[Len(p)] = "**"
  PROVE FitsFrom(p, t, Len(p), j)
<1>1. Len(p) \in Nat /\ Len(t) \in Nat BY LenProperties
<1>2. PICK k : k = Len(t) + 1 OBVIOUS
<1>3. k \in 1 .. Len(t) + 1 /\ k > Len(t) /\ k - 1 >= j - 1 BY <1>1, <1>2
<1>4. FitsFrom(p, t, Len(p) + 1, k) BY <1>3, NothingFitsNothing
<1>5. Piece(p, t, Len(p), j - 1, k - 1) BY <1>3 DEF Piece
<1> QED BY <1>3, <1>4, <1>5, FirstPiece

\* FitsFrom is what seg_match() makes of the rest.
LEMMA FitsSolves ==
  ASSUME NEW p \in Seq(Segment), NEW t \in Seq(Segment), NEW i \in 1 .. Len(p),
         NEW j \in 1 .. Len(t) + 1
  PROVE FitsFrom(p, t, i, j) = seg_match(p, t, i, j, AllFits(p, t)[i + 1])
<1>1. Len(p) \in Nat /\ Len(t) \in Nat BY LenProperties
<1>2. i + 1 \in 1 .. Len(p) + 1 BY <1>1
<1>3. \A k \in 1 .. Len(t) + 1 : AllFits(p, t)[i + 1][k] = FitsFrom(p, t, i + 1,
        k) BY <1>2 DEF AllFits
<1>4. FitsFrom(p, t, i, j) <=>
          \E k \in 1 .. Len(t) + 1 : Piece(p, t, i, j - 1, k - 1) /\ FitsFrom(p, t, i + 1, k)
  BY FirstPiece
<1>5. CASE p[i] = "**"
  <2>1. \A k \in 1 .. Len(t) + 1 : Piece(p, t, i, j - 1, k - 1) <=> k \in j .. Len(t) + 1
    BY <1>1, <1>5 DEF Piece
  <2>2. j .. Len(t) + 1 \subseteq 1 .. Len(t) + 1 BY <1>1
  <2>3. FitsFrom(p, t, i, j) <=> \E k \in j .. Len(t) + 1 : FitsFrom(p, t, i + 1, k) BY <2>1, <2>2,
        <1>4
  <2>4. FitsFrom(p, t, i, j) <=> \E k \in j .. Len(t) + 1 : AllFits(p, t)[i + 1][k]
    BY <2>2, <2>3, <1>3
  <2>5. i = Len(p) => FitsFrom(p, t, i, j) BY <1>5, RestFits
  <2>6. FitsFrom(p, t, i, j) \in BOOLEAN BY Zenon DEF FitsFrom
  <2> QED BY <2>4, <2>5, <2>6, <1>5 DEF seg_match
<1>6. CASE p[i] # "**"
  <2>1. \A k \in 1 .. Len(t) + 1 :
          Piece(p, t, i, j - 1, k - 1) <=> k = j + 1 /\ p[i] \in {"*", t[j]}
    BY <1>1, <1>6 DEF Piece
  <2>2. j + 1 \in 1 .. Len(t) + 1 <=> j <= Len(t) BY <1>1
  <2>3. FitsFrom(p, t, i, j) <=> j <= Len(t) /\ p[i] \in {"*", t[j]} /\ FitsFrom(p, t, i + 1, j + 1)
    BY <2>1, <2>2, <1>4
  <2>4. FitsFrom(p, t, i, j) <=> j <= Len(t) /\ p[i] \in {"*", t[j]} /\ AllFits(p, t)[i + 1][j + 1]
    BY <2>2, <2>3, <1>3
  <2>6. FitsFrom(p, t, i, j) \in BOOLEAN BY Zenon DEF FitsFrom
  <2> QED BY <2>4, <2>6, <1>6 DEF seg_match
<1> QED BY <1>5, <1>6

\* So there is a function that satisfies the equation.
LEMMA AllFitsIsGlob ==
  ASSUME NEW p \in Seq(Segment), NEW t \in Seq(Segment)
  PROVE IsGlob(p, t, AllFits(p, t))
<1>1. Len(p) \in Nat /\ Len(t) \in Nat BY LenProperties
<1>2. ASSUME NEW i \in 1 .. Len(p) + 1, NEW j \in 1 .. Len(t) + 1
      PROVE FitsFrom(p, t, i, j) =
              IF i > Len(p) THEN j > Len(t) ELSE seg_match(p, t, i, j, AllFits(p, t)[i + 1])
  <2>1. CASE i > Len(p)
    <3>1. i = Len(p) + 1 BY <1>1, <2>1
    <3>2. FitsFrom(p, t, i, j) <=> j > Len(t) BY <3>1, NothingFitsNothing
    <3>3. FitsFrom(p, t, i, j) \in BOOLEAN BY Zenon DEF FitsFrom
    <3> QED BY <2>1, <3>2, <3>3
  <2>2. CASE ~(i > Len(p))
    <3>1. i \in 1 .. Len(p) BY <1>1, <2>2
    <3> QED BY <3>1, <2>2, FitsSolves
  <2> QED BY <2>1, <2>2
<1>3. AllFits(p, t) = [i \in 1 .. Len(p) + 1 |-> [j \in 1 .. Len(t) + 1 |->
         IF i > Len(p) THEN j > Len(t) ELSE seg_match(p, t, i, j, AllFits(p, t)[i + 1])]]
  BY <1>2, Zenon DEF AllFits
<1> QED BY <1>3 DEF IsGlob

\* And there is only one: from the end of the pattern to its start, rows are alike.
LEMMA GlobIsOne ==
  ASSUME NEW p \in Seq(Segment), NEW t \in Seq(Segment), NEW m, IsGlob(p, t, m), NEW q,
         IsGlob(p, t, q)
  PROVE \A i \in 1 .. Len(p) + 1 : m[i] = q[i]
<1>1. Len(p) \in Nat BY LenProperties
<1> DEFINE S == {n \in Nat : n <= Len(p) => m[Len(p) + 1 - n] = q[Len(p) + 1 - n]}
<1>2. 0 \in S
  <2>1. Len(p) + 1 \in 1 .. Len(p) + 1 /\ Len(p) + 1 > Len(p) BY <1>1
  <2>2. m[Len(p) + 1] = [j \in 1 .. Len(t) + 1 |-> j > Len(t)] BY <2>1 DEF IsGlob
  <2>3. q[Len(p) + 1] = [j \in 1 .. Len(t) + 1 |-> j > Len(t)] BY <2>1 DEF IsGlob
  <2>4. Len(p) + 1 - 0 = Len(p) + 1 BY <1>1
  <2> QED BY <2>2, <2>3, <2>4
<1>3. ASSUME NEW n \in Nat, n \in S PROVE n + 1 \in S
  <2>1. SUFFICES ASSUME n + 1 <= Len(p)
                 PROVE  m[Len(p) + 1 - (n + 1)] = q[Len(p) + 1 - (n + 1)] OBVIOUS
  <2>2. PICK i : i = Len(p) + 1 - (n + 1) OBVIOUS
  <2>3. i \in 1 .. Len(p) + 1 /\ ~(i > Len(p)) /\ i + 1 = Len(p) + 1 - n BY <1>1, <2>1, <2>2
  <2>4. m[i + 1] = q[i + 1] BY <1>3, <2>1, <2>3, <1>1
  <2>5. m[i] = [j \in 1 .. Len(t) + 1 |-> seg_match(p, t, i, j, m[i + 1])] BY <2>3 DEF IsGlob
  <2>6. q[i] = [j \in 1 .. Len(t) + 1 |-> seg_match(p, t, i, j, q[i + 1])] BY <2>3 DEF IsGlob
  <2> QED BY <2>2, <2>4, <2>5, <2>6
<1>4. Nat \subseteq S
  <2> HIDE DEF S
  <2> QED BY <1>2, <1>3, NatInductionOnSets
<1>5. ASSUME NEW i \in 1 .. Len(p) + 1 PROVE m[i] = q[i]
  <2>1. Len(p) + 1 - i \in Nat /\ Len(p) + 1 - i <= Len(p)
        /\ Len(p) + 1 - (Len(p) + 1 - i) = i BY <1>1
  <2> QED BY <2>1, <1>4
<1> QED BY <1>5

\* For every pattern and every topic, the search of glob() finds what a pattern means
\* (filter.rs glob, seg_match).
THEOREM GlobIsFits ==
  ASSUME NEW p \in Seq(Segment), NEW t \in Seq(Segment)
  PROVE glob(p, t) <=> Fits(p, t)
<1>1. Len(p) \in Nat /\ Len(t) \in Nat BY LenProperties
<1>2. glob(p, t) = Globs(p, t)[1][1] BY Zenon DEF glob, Globs, IsGlob
<1>3. IsGlob(p, t, Globs(p, t)) BY AllFitsIsGlob, Zenon DEF Globs
<1>4. 1 \in 1 .. Len(p) + 1 /\ 1 \in 1 .. Len(t) + 1 BY <1>1
<1>5. PICK q : q = Globs(p, t) OBVIOUS
<1>6. PICK m : m = AllFits(p, t) OBVIOUS
<1>7. IsGlob(p, t, q) /\ IsGlob(p, t, m) BY <1>3, <1>5, <1>6, AllFitsIsGlob
<1>8. m[1] = q[1] BY <1>4, <1>7, GlobIsOne
<1>9. m[1][1] = FitsFrom(p, t, 1, 1) BY <1>4, <1>6 DEF AllFits
<1>10. FitsFrom(p, t, 1, 1) <=> Fits(p, t) BY DEF FitsFrom, Fits
<1> QED BY <1>2, <1>5, <1>8, <1>9, <1>10

\* The filter of a subscription is what Subscribe makes of a body, and what was offered
\* last was judged by it.
FilterInv ==
  /\ offered # <<>> =>
       /\ subFilter # <<>>
       /\ \E e \in EnvelopeInputs : offered = <<e, matches(subFilter, e)>>
  /\ subFilter # <<>> =>
       /\ subFilter.topics \subseteq Seq(Segment)
       /\ subFilter.scoped => subFilter.env # Anyone

\* auth.scope, bus.subscribe and fan_out keep it.
LEMMA FilterStepKeeps == FilterInv /\ [FilterNext]_filterVars => FilterInv'
<1> SUFFICES ASSUME FilterInv, [FilterNext]_filterVars PROVE FilterInv' OBVIOUS
<1>1. ASSUME NEW env \in BindEnvs, BindScope(env) PROVE FilterInv'
  BY <1>1 DEF FilterInv, BindScope, matches
<1>2. ASSUME NEW body \in SubscribeBodies, Subscribe(body) PROVE FilterInv'
  <2>1. offered' = <<>> BY <1>2 DEF FilterInv, Subscribe
  <2>2. PICK f : f = subFilter' OBVIOUS
  <2>3. f.topics = body.topics /\ (f.scoped => f.env # Anyone) BY <1>2, <2>2 DEF Subscribe
  <2>4. f.topics \subseteq Seq(Segment) BY <2>3, FilterAssumption
  <2> QED BY <2>1, <2>2, <2>3, <2>4 DEF FilterInv
<1>3. ASSUME NEW e \in EnvelopeInputs, Offer(e) PROVE FilterInv'
  BY <1>3 DEF FilterInv, Offer, matches
<1>4. CASE UNCHANGED filterVars BY <1>4 DEF FilterInv, filterVars, matches
<1> QED BY <1>1, <1>2, <1>3, <1>4 DEF FilterNext

\* What Filter::matches() lets through is what the subscriber asked for and may see.
LEMMA FilterInvImplies == FilterInv => FiltersAreExact
<1> SUFFICES ASSUME FilterInv, offered # <<>> PROVE FiltersAreExact BY DEF FiltersAreExact
<1>1. PICK e \in EnvelopeInputs : offered = <<e, matches(subFilter, e)>> BY DEF FilterInv
<1>2. PICK f : f = subFilter OBVIOUS
<1>3. f.topics \subseteq Seq(Segment) /\ (f.scoped => f.env # Anyone) BY <1>2 DEF FilterInv
<1>4. e.topic \in Seq(Segment) BY FilterAssumption
<1>5. \A p \in f.topics : glob(p, e.topic) <=> Fits(p, e.topic) BY <1>3, <1>4, GlobIsFits
<1>6. offered[1] = e /\ offered[2] = matches(f, e) BY <1>1, <1>2
<1> DEFINE wanted == /\ f.topics = {} \/ \E p \in f.topics : Fits(p, e.topic)
                     /\ f.levels = {} \/ e.level \in f.levels
                     /\ f.env \in {Anyone, e.env} /\ f.session \in {Anyone, e.session}
<1>7. matches(f, e) <=> wanted BY <1>3, <1>5 DEF matches
<1>8. matches(f, e) /\ f.scoped => e.env = f.env /\ e.env # Anyone BY <1>3 DEF matches
<1> QED BY <1>2, <1>6, <1>7, <1>8 DEF FiltersAreExact

-----------------------------------------------------------------------------
(***************************************************************************)
(* Proofs about secrets: while set() calls come one after the other, one   *)
(* task is under way, and at each of its steps the temporary file is not   *)
(* secrets.yml, whose content holds every accepted entry.                  *)
(***************************************************************************)

Contents == {NoBytes, Torn} \cup SUBSET secLeft.sets
SetterPhases == {"idle", "copy", "open", "write", "rename", "rules", "push"}

\* A task of secret.set, with n files.
Task(n) == [at : SetterPhases, e : secLeft.sets \cup {NoBytes}, copy : SUBSET secLeft.sets,
  fd : 0 .. n]

SecretTypes ==
  /\ \E world \in SecretWorlds : secLeft.sets = world.sets
  /\ secLeft \in [sets : {secLeft.sets}, calls : Nat, fails : Nat, crashes : Nat]
  /\ secrets \subseteq secLeft.sets /\ guardRules \subseteq secLeft.sets
     /\ kept \subseteq secLeft.sets
  /\ inode \in Seq(Contents)
  /\ yml \in 0 .. Len(inode) /\ tmp \in 0 .. Len(inode)
  /\ setter \in [Setter -> Task(Len(inode))]
  /\ \A t \in Setter : setter[t].at = "write" => setter[t].fd # 0

\* What a new base reads holds what was accepted; so do the entries and the rules.
FileHasKept ==
  /\ yml = 0 => kept = {}
  /\ yml # 0 => inode[yml] \in SUBSET secLeft.sets /\ kept \subseteq inode[yml]
  /\ tmp # 0 => tmp # yml
  /\ kept \subseteq secrets /\ kept \subseteq guardRules

OneSetter == \A t, u \in Setter : ~SetterAt(t, "idle") /\ ~SetterAt(u, "idle") => t = u

\* Where the task of secret.set is, and what it has done.
SetterPhase(t) ==
  /\ setter[t].at \in {"open", "write", "rename", "push"} => setter[t].copy = secrets
  /\ setter[t].at = "write" => tmp # 0 /\ setter[t].fd = tmp /\ inode[tmp] = NoBytes
  /\ setter[t].at = "rename" => tmp # 0 /\ inode[tmp] = secrets
  /\ setter[t].at \in {"rules", "push"} => yml # 0 /\ inode[yml] = secrets

SecretsGood == FileHasKept /\ OneSetter /\ \A t \in Setter : SetterPhase(t)
SecretInv == SecretTypes /\ (~overlap => SecretsGood)

\* A file created or changed leaves the others as they are.
LEMMA FileAdded ==
  ASSUME SecretTypes, NEW c \in Contents
  PROVE /\ Append(inode, c) \in Seq(Contents) /\ Len(Append(inode, c)) = Len(inode) + 1
        /\ Append(inode, c)[Len(inode) + 1] = c
        /\ \A f \in 1 .. Len(inode) : Append(inode, c)[f] = inode[f]
  BY AppendProperties DEF SecretTypes

\* The same of a file that is written or torn (write_private).
LEMMA FileChanged ==
  ASSUME SecretTypes, NEW f \in 1 .. Len(inode), NEW c \in Contents
  PROVE /\ [inode EXCEPT ![f] = c] \in Seq(Contents) /\ Len([inode EXCEPT ![f] = c]) = Len(inode)
        /\ [inode EXCEPT ![f] = c][f] = c
        /\ \A g \in 1 .. Len(inode) : g # f => [inode EXCEPT ![f] = c][g] = inode[g]
  BY ExceptSeq DEF SecretTypes

\* A task that goes on to another place of set() is a task still.
LEMMA TaskGoes ==
  ASSUME NEW n \in Nat, NEW r \in Task(n), NEW a \in SetterPhases
  PROVE [r EXCEPT !.at = a] \in Task(n) /\ [r EXCEPT !.at = a].at = a
        /\ [r EXCEPT !.at = a].copy = r.copy
  BY DEF Task

\* So is one that has nothing to do, ...
LEMMA TaskStarts ==
  ASSUME NEW n \in Nat
  PROVE SetterIdle \in Task(n) /\ SetterIdle.at = "idle"
<1>1. NoBytes \in secLeft.sets \cup {NoBytes} /\ {} \in SUBSET secLeft.sets /\ 0 \in 0 .. n OBVIOUS
<1>2. "idle" \in SetterPhases BY DEF SetterPhases
<1> QED BY <1>1, <1>2 DEF SetterIdle, Task

\* ... and one that has just changed the entries (Secrets::set).
LEMMA TaskEnters ==
  ASSUME NEW n \in Nat, NEW x \in secLeft.sets
  PROVE [at |-> "copy", e |-> x, copy |-> {}, fd |-> 0] \in Task(n)
<1>1. {} \in SUBSET secLeft.sets /\ 0 \in 0 .. n OBVIOUS
<1>2. "copy" \in SetterPhases BY DEF SetterPhases
<1> QED BY <1>1, <1>2 DEF Task

\* A step of one task, and what it does to files, entries and rules, keep the types.
LEMMA TypesKept ==
  ASSUME SecretTypes, NEW t \in Setter, NEW r, setter' = [setter EXCEPT ![t] = r],
         r \in Task(Len(inode')),
         r.at = "write" => r.fd # 0, secLeft'.sets = secLeft.sets,
         secLeft' \in [sets : {secLeft.sets}, calls : Nat, fails : Nat, crashes : Nat],
         secrets' \subseteq secLeft.sets, guardRules' \subseteq secLeft.sets,
         kept' \subseteq secLeft.sets,
         inode' \in Seq(Contents), Len(inode') >= Len(inode),
         yml' \in 0 .. Len(inode'), tmp' \in 0 .. Len(inode')
  PROVE SecretTypes' /\ setter'[t] = r /\ \A u \in Setter \ {t} : setter'[u] = setter[u]
<1>1. Len(inode) \in Nat /\ Len(inode') \in Nat BY LenProperties DEF SecretTypes
<1>2. Task(Len(inode)) \subseteq Task(Len(inode'))
  BY <1>1 DEF Task
<1>3. setter' \in [Setter -> Task(Len(inode'))] BY <1>2 DEF SecretTypes
<1>4. \A u \in Setter : setter'[u].at = "write" => setter'[u].fd # 0 BY DEF SecretTypes
<1>5. Contents' = Contents BY DEF Contents
<1>6. \E world \in SecretWorlds : secLeft'.sets = world.sets BY DEF SecretTypes
<1>7. Task(Len(inode))' = Task(Len(inode')) BY DEF Task
<1>8. SecretTypes' BY <1>3, <1>4, <1>5, <1>6, <1>7 DEF SecretTypes
<1> QED BY <1>8 DEF SecretTypes

\* The first set(), or one when no other is under way.
LEMMA SetEntryKeeps ==
  ASSUME SecretInv, NEW t \in Setter, NEW e \in secLeft.sets, SetEntry(t, e)
  PROVE SecretInv'
<1> USE DEF SecretInv
<1>1. secLeft'.sets = secLeft.sets BY DEF SetEntry, SecretTypes
<1>2. SecretTypes' /\ setter'[t].at = "copy" /\ \A u \in Setter \ {t} : setter'[u] = setter[u]
  <2>1. PICK r : r = [at |-> "copy", e |-> e, copy |-> {}, fd |-> 0] OBVIOUS
  <2>2. Len(inode) \in Nat BY LenProperties DEF SecretTypes
  <2>3. r \in Task(Len(inode')) /\ r.at = "copy" BY <2>1, <2>2, TaskEnters DEF SetEntry
  <2>4. setter' = [setter EXCEPT ![t] = r] BY <2>1 DEF SetEntry
  <2>5. secLeft' \in [sets : {secLeft.sets}, calls : Nat, fails : Nat, crashes : Nat]
    BY DEF SetEntry, SecretTypes
  <2>6. /\ secrets' \subseteq secLeft.sets /\ guardRules' \subseteq secLeft.sets
           /\ kept' \subseteq secLeft.sets
        /\ inode' \in Seq(Contents) /\ Len(inode') >= Len(inode)
        /\ yml' \in 0 .. Len(inode') /\ tmp' \in 0 .. Len(inode')
    BY <2>2 DEF SetEntry, SecretTypes
  <2> QED BY <1>1, <2>3, <2>4, <2>5, <2>6, TypesKept
<1>3. ASSUME ~overlap' PROVE SecretsGood'
  <2>1. SecretsGood /\ \A u \in Setter \ {t} : SetterAt(u, "idle") BY <1>3 DEF SetEntry
  <2>2. \A u \in Setter \ {t} : setter'[u] = setter[u] BY <1>2
  <2>3. setter'[t].at = "copy" BY <1>2
  <2>4. OneSetter' BY <2>1, <2>2 DEF OneSetter, SetterAt
  <2>5. \A u \in Setter : SetterPhase(u)' BY <2>1, <2>2, <2>3 DEF SetterPhase, SetterAt
  <2>6. FileHasKept' BY <2>1, <1>1 DEF SecretsGood, FileHasKept, SetEntry, SecretTypes
  <2> QED BY <2>4, <2>5, <2>6 DEF SecretsGood
<1> QED BY <1>2, <1>3

\* A task that goes on, while the entries and overlap stay: what is left to show of it.
LEMMA SetterMoves ==
  ASSUME SecretInv, NEW t \in Setter, ~SetterAt(t, "idle"), SecretTypes',
         secrets' = secrets, overlap' = overlap, \A u \in Setter \ {t} : setter'[u] = setter[u],
         ~overlap /\ SecretsGood => FileHasKept' /\ SetterPhase(t)'
  PROVE SecretInv'
<1> SUFFICES ASSUME ~overlap PROVE SecretsGood' BY DEF SecretInv
<1>1. SecretsGood /\ FileHasKept' /\ SetterPhase(t)' BY DEF SecretInv
<1>2. \A u \in Setter \ {t} : SetterAt(u, "idle") BY <1>1 DEF SecretsGood, OneSetter
<1>3. OneSetter' BY <1>2 DEF OneSetter, SetterAt
<1>4. ASSUME NEW u \in Setter \ {t} PROVE SetterPhase(u)' BY <1>2 DEF SetterPhase, SetterAt
<1> QED BY <1>1, <1>3, <1>4 DEF SecretsGood

\* Steps that touch no file and no entry.
LEMMA StillTyped ==
  ASSUME SecretTypes, UNCHANGED <<secrets, inode, yml, tmp, secLeft>>
  PROVE /\ Len(inode) \in Nat /\ Len(inode') = Len(inode) /\ Len(inode') >= Len(inode)
        /\ secLeft'.sets = secLeft.sets
        /\ secLeft' \in [sets : {secLeft.sets}, calls : Nat, fails : Nat, crashes : Nat]
        /\ secrets' \subseteq secLeft.sets /\ inode' \in Seq(Contents)
        /\ yml' \in 0 .. Len(inode') /\ tmp' \in 0 .. Len(inode')
<1>1. Len(inode) \in Nat BY LenProperties DEF SecretTypes
<1> QED BY <1>1 DEF SecretTypes

\* persist() copies the entries.
LEMMA CopyKeeps ==
  ASSUME SecretInv, NEW t \in Setter, CopyEntries(t)
  PROVE SecretInv'
<1>1. SecretTypes /\ (~overlap => SecretsGood) BY DEF SecretInv
<1>2. PICK r : r = [setter[t] EXCEPT !.at = "open", !.copy = secrets] OBVIOUS
<1>3. SecretTypes' /\ setter'[t].at = "open" /\ setter'[t].copy = secrets
      /\ \A u \in Setter \ {t} : setter'[u] = setter[u]
  <2>1. Len(inode) \in Nat /\ setter[t] \in Task(Len(inode)) BY <1>1, LenProperties DEF SecretTypes
  <2>2. "open" \in SetterPhases /\ secrets \in SUBSET secLeft.sets BY <1>1 DEF SetterPhases,
        SecretTypes
  <2>3. r \in Task(Len(inode)) /\ r.at = "open" /\ r.copy = secrets BY <1>2, <2>1, <2>2 DEF Task
  <2>4. setter' = [setter EXCEPT ![t] = r] BY <1>2 DEF CopyEntries
  <2>5. guardRules' \subseteq secLeft.sets
        /\ kept' \subseteq secLeft.sets BY <1>1 DEF CopyEntries, SecretTypes
  <2>6. UNCHANGED <<secrets, inode, yml, tmp, secLeft>> BY DEF CopyEntries
  <2> QED BY <1>1, <2>3, <2>4, <2>5, <2>6, StillTyped, TypesKept
<1>4. ~overlap /\ SecretsGood => FileHasKept' /\ SetterPhase(t)'
  BY <1>3 DEF SecretsGood, FileHasKept, SetterPhase, CopyEntries, SetterAt
<1>6. secrets' = secrets /\ overlap' = overlap /\ ~SetterAt(t, "idle") BY DEF CopyEntries, SetterAt
<1> QED BY <1>3, <1>4, <1>6, SetterMoves

\* The temporary file is opened, which is never secrets.yml.
LEMMA OpenKeeps ==
  ASSUME SecretInv, NEW t \in Setter, OpenTmp(t)
  PROVE SecretInv'
<1>1. SecretTypes /\ (~overlap => SecretsGood) BY DEF SecretInv
<1>2. Len(inode) \in Nat /\ NoBytes \in Contents BY <1>1, LenProperties DEF SecretTypes, Contents
<1>3. PICK f : f = IF tmp = 0 THEN Len(inode) + 1 ELSE tmp OBVIOUS
<1>4. tmp' = f BY <1>3 DEF OpenTmp
<1>5. /\ inode' \in Seq(Contents) /\ Len(inode') \in Nat /\ Len(inode') >= Len(inode)
      /\ f \in 1 .. Len(inode') /\ inode'[f] = NoBytes
      /\ \A g \in 1 .. Len(inode) : g # f => inode'[g] = inode[g]
  <2>1. CASE tmp = 0
    <3>1. inode' = Append(inode, NoBytes) /\ f = Len(inode) + 1 BY <2>1, <1>3 DEF OpenTmp
    <3> QED BY <3>1, <1>1, <1>2, FileAdded
  <2>2. CASE tmp # 0
    <3>1. inode' = [inode EXCEPT ![f] = NoBytes] /\ f \in 1 .. Len(inode)
      BY <2>2, <1>1, <1>2, <1>3 DEF OpenTmp, SecretTypes
    <3> QED BY <3>1, <1>1, <1>2, FileChanged
  <2> QED BY <2>1, <2>2
<1>6. SecretTypes' /\ setter'[t].at = "write" /\ setter'[t].fd = f /\ setter'[t].copy = setter[t].copy
      /\ \A u \in Setter \ {t} : setter'[u] = setter[u]
  <2>1. PICK r : r = [setter[t] EXCEPT !.at = "write", !.fd = f] OBVIOUS
  <2>2. setter[t] \in Task(Len(inode))
        /\ "write" \in SetterPhases BY <1>1 DEF SecretTypes, SetterPhases
  <2>3. r \in Task(Len(inode')) /\ r.at = "write" /\ r.fd = f /\ r.copy = setter[t].copy /\ f # 0
    <3>1. f \in 0 .. Len(inode') /\ f # 0 BY <1>5
    <3>2. PICK n \in Nat, k \in Nat : n = Len(inode) /\ k = Len(inode') BY <1>2, <1>5
    <3>3. n <= k /\ setter[t] \in Task(n) /\ f \in 0 .. k BY <3>1, <3>2, <1>5, <2>2
    <3>4. r \in Task(k) /\ r.at = "write" /\ r.fd = f /\ r.copy = setter[t].copy
      BY <3>3, <2>1, <2>2 DEF Task
    <3> QED BY <3>1, <3>2, <3>4
  <2>4. setter' = [setter EXCEPT ![t] = r] BY <2>1, <1>3 DEF OpenTmp
  <2>5. yml' = yml /\ secrets' = secrets /\ guardRules' = guardRules /\ kept' = kept
        /\ secLeft' = secLeft
    BY DEF OpenTmp
  <2>6. yml' \in 0 .. Len(inode') /\ tmp' \in 0 .. Len(inode')
    BY <1>1, <1>2, <1>4, <1>5, <2>5 DEF SecretTypes
  <2>7. /\ secLeft'.sets = secLeft.sets
           /\ secLeft' \in [sets : {secLeft.sets}, calls : Nat, fails : Nat, crashes : Nat]
        /\ secrets' \subseteq secLeft.sets /\ guardRules' \subseteq secLeft.sets
           /\ kept' \subseteq secLeft.sets
    BY <1>1, <2>5 DEF SecretTypes
  <2> QED BY <1>1, <1>5, <2>3, <2>4, <2>6, <2>7, TypesKept
<1>7. ~overlap /\ SecretsGood => FileHasKept' /\ SetterPhase(t)'
  <2> SUFFICES ASSUME SecretsGood PROVE FileHasKept' /\ SetterPhase(t)' OBVIOUS
  <2>1. setter[t].copy = secrets BY DEF SecretsGood, SetterPhase, OpenTmp, SetterAt
  <2>2. f # yml /\ f # 0
    BY <1>1, <1>2, <1>3 DEF SecretsGood, FileHasKept, SecretTypes
  <2>3. yml # 0 => inode'[yml] = inode[yml] BY <2>2, <1>1, <1>2, <1>5 DEF SecretTypes
  <2>4. FileHasKept' BY <2>2, <2>3, <1>4 DEF SecretsGood, FileHasKept, OpenTmp
  <2>5. SetterPhase(t)' BY <2>1, <2>2, <1>4, <1>5, <1>6 DEF SetterPhase, OpenTmp
  <2> QED BY <2>4, <2>5
<1>9. secrets' = secrets /\ overlap' = overlap /\ ~SetterAt(t, "idle") BY DEF OpenTmp, SetterAt
<1> QED BY <1>6, <1>7, <1>9, SetterMoves

\* The copy is written to it.
LEMMA WriteKeeps ==
  ASSUME SecretInv, NEW t \in Setter, WriteTmp(t)
  PROVE SecretInv'
<1>1. SecretTypes /\ (~overlap => SecretsGood) BY DEF SecretInv
<1>2. Len(inode) \in Nat BY <1>1, LenProperties DEF SecretTypes
<1>3. PICK c \in {setter[t].copy} \cup (IF inode[setter[t].fd] = NoBytes THEN {} ELSE {Torn}) :
        inode' = [inode EXCEPT ![setter[t].fd] = c] BY DEF WriteTmp
<1>4. setter[t].copy \in SUBSET secLeft.sets BY <1>1 DEF SecretTypes, Task
<1>5. c \in Contents BY <1>3, <1>4 DEF Contents
<1>6. PICK f : f = setter[t].fd OBVIOUS
<1>7. f \in 1 .. Len(inode) BY <1>1, <1>2, <1>6 DEF SecretTypes, Task, WriteTmp, SetterAt
<1>8. SecretTypes' /\ setter'[t].at = "rename" /\ setter'[t].copy = setter[t].copy
      /\ \A u \in Setter \ {t} : setter'[u] = setter[u]
  <2>1. PICK r : r = [setter[t] EXCEPT !.at = "rename"] OBVIOUS
  <2>2. setter[t] \in Task(Len(inode))
        /\ "rename" \in SetterPhases BY <1>1 DEF SecretTypes, SetterPhases
  <2>3. inode' \in Seq(Contents) /\ Len(inode') = Len(inode) /\ Len(inode') >= Len(inode)
    BY <1>1, <1>2, <1>3, <1>5, <1>6, <1>7, FileChanged
  <2>4. r \in Task(Len(inode')) /\ r.at = "rename" /\ r.copy = setter[t].copy
    BY <2>1, <2>2, <2>3, <1>2, TaskGoes
  <2>5. setter' = [setter EXCEPT ![t] = r] BY <2>1 DEF WriteTmp, SetterGoes
  <2>6. yml' = yml /\ tmp' = tmp /\ secrets' = secrets /\ guardRules' = guardRules /\ kept' = kept
        /\ secLeft' = secLeft
    BY DEF WriteTmp
  <2>7. /\ secLeft'.sets = secLeft.sets
           /\ secLeft' \in [sets : {secLeft.sets}, calls : Nat, fails : Nat, crashes : Nat]
        /\ secrets' \subseteq secLeft.sets /\ guardRules' \subseteq secLeft.sets
           /\ kept' \subseteq secLeft.sets
        /\ yml' \in 0 .. Len(inode') /\ tmp' \in 0 .. Len(inode')
    BY <1>1, <2>3, <2>6 DEF SecretTypes
  <2> QED BY <1>1, <2>3, <2>4, <2>5, <2>7, TypesKept
<1>9. ~overlap /\ SecretsGood => FileHasKept' /\ SetterPhase(t)'
  <2> SUFFICES ASSUME SecretsGood PROVE FileHasKept' /\ SetterPhase(t)' OBVIOUS
  <2>1. setter[t].copy = secrets /\ tmp # 0 /\ setter[t].fd = tmp /\ inode[tmp] = NoBytes
    BY DEF SecretsGood, SetterPhase, WriteTmp, SetterAt
  <2>2. c = secrets /\ tmp \in 1 .. Len(inode) /\ tmp # yml
    BY <2>1, <1>1, <1>2, <1>3 DEF SecretsGood, FileHasKept, SecretTypes
  <2>3. inode'[tmp] = secrets /\ \A g \in 1 .. Len(inode) : g # tmp => inode'[g] = inode[g]
    BY <2>1, <2>2, <1>1, <1>3, <1>5, FileChanged
  <2>4. yml # 0 => inode'[yml] = inode[yml] BY <2>2, <2>3, <1>1, <1>2 DEF SecretTypes
  <2>5. FileHasKept' BY <2>4 DEF SecretsGood, FileHasKept, WriteTmp
  <2>6. SetterPhase(t)' BY <2>1, <2>3, <1>8 DEF SetterPhase, WriteTmp
  <2> QED BY <2>5, <2>6
<1>11. secrets' = secrets /\ overlap' = overlap /\ ~SetterAt(t, "idle") BY DEF WriteTmp, SetterAt
<1> QED BY <1>8, <1>9, <1>11, SetterMoves

\* A task that ends, or fails, is idle again.
LEMMA EndedIsIdle ==
  ASSUME SecretTypes, NEW t \in Setter, SetterEnds(t), Len(inode') = Len(inode),
         secLeft'.sets = secLeft.sets,
         secLeft' \in [sets : {secLeft.sets}, calls : Nat, fails : Nat, crashes : Nat],
         secrets' \subseteq secLeft.sets, guardRules' \subseteq secLeft.sets,
         kept' \subseteq secLeft.sets,
         inode' \in Seq(Contents), yml' = yml, tmp' = tmp
  PROVE SecretTypes' /\ setter'[t].at = "idle" /\ \A u \in Setter \ {t} : setter'[u] = setter[u]
<1>1. PICK r : r = SetterIdle OBVIOUS
<1>2. Len(inode) \in Nat /\ Len(inode') >= Len(inode) BY LenProperties DEF SecretTypes
<1>3. r \in Task(Len(inode')) /\ r.at = "idle" BY <1>1, <1>2, TaskStarts
<1>4. setter' = [setter EXCEPT ![t] = r] BY <1>1 DEF SetterEnds
<1>5. yml' \in 0 .. Len(inode') /\ tmp' \in 0 .. Len(inode') BY DEF SecretTypes
<1> QED BY <1>2, <1>3, <1>4, <1>5, TypesKept

\* It gets the name secrets.yml.
LEMMA RenameKeeps ==
  ASSUME SecretInv, NEW t \in Setter, RenameTmp(t)
  PROVE SecretInv'
<1>1. SecretTypes /\ (~overlap => SecretsGood) BY DEF SecretInv
<1>2. CASE tmp = 0
  <2>1. SetterEnds(t) /\ UNCHANGED <<yml, tmp>> BY <1>2 DEF RenameTmp
  <2>2. SecretTypes'
    <3>1. UNCHANGED <<secrets, inode, yml, tmp, secLeft, guardRules, kept>> BY <2>1 DEF RenameTmp
    <3>2. guardRules' \subseteq secLeft.sets
          /\ kept' \subseteq secLeft.sets BY <1>1, <3>1 DEF SecretTypes
    <3> QED BY <1>1, <2>1, <3>1, <3>2, StillTyped, EndedIsIdle
  <2>3. overlap
    BY <1>1, <1>2 DEF SecretsGood, SetterPhase, RenameTmp, SetterAt
  <2> QED BY <2>2, <2>3 DEF SecretInv, RenameTmp
<1>3. CASE tmp # 0
  <2>1. SetterGoes(t, "rules") /\ yml' = tmp /\ tmp' = 0 BY <1>3 DEF RenameTmp
  <2>2. SecretTypes' /\ setter'[t].at = "rules" /\ \A u \in Setter \ {t} : setter'[u] = setter[u]
    <3>1. PICK r : r = [setter[t] EXCEPT !.at = "rules"] OBVIOUS
    <3>2. Len(inode) \in Nat /\ setter[t] \in Task(Len(inode)) /\ "rules" \in SetterPhases
      BY <1>1, LenProperties DEF SecretTypes, SetterPhases
    <3>3. inode' = inode /\ secrets' = secrets /\ guardRules' = guardRules /\ kept' = kept
          /\ secLeft' = secLeft
      BY DEF RenameTmp
    <3>4. r \in Task(Len(inode')) /\ r.at = "rules" BY <3>1, <3>2, <3>3, TaskGoes
    <3>5. setter' = [setter EXCEPT ![t] = r] BY <2>1, <3>1 DEF SetterGoes
    <3>6. /\ secLeft'.sets = secLeft.sets
             /\ secLeft' \in [sets : {secLeft.sets}, calls : Nat, fails : Nat, crashes : Nat]
          /\ secrets' \subseteq secLeft.sets /\ guardRules' \subseteq secLeft.sets
             /\ kept' \subseteq secLeft.sets
          /\ inode' \in Seq(Contents) /\ Len(inode') >= Len(inode)
          /\ yml' \in 0 .. Len(inode') /\ tmp' \in 0 .. Len(inode')
      BY <1>1, <2>1, <3>2, <3>3 DEF SecretTypes
    <3> QED BY <1>1, <3>4, <3>5, <3>6, TypesKept
  <2>4. ~overlap /\ SecretsGood => FileHasKept' /\ SetterPhase(t)'
    <3> SUFFICES ASSUME SecretsGood PROVE FileHasKept' /\ SetterPhase(t)' OBVIOUS
    <3>1. inode[tmp] = secrets BY DEF SecretsGood, SetterPhase, RenameTmp, SetterAt
    <3>2. FileHasKept' BY <3>1, <2>1, <1>1, <1>3 DEF SecretsGood, FileHasKept, RenameTmp, SecretTypes
    <3>3. SetterPhase(t)' BY <3>1, <2>1, <2>2, <1>3 DEF SetterPhase, RenameTmp
    <3> QED BY <3>2, <3>3
  <2>6. secrets' = secrets /\ overlap' = overlap /\ ~SetterAt(t, "idle") BY DEF RenameTmp, SetterAt
  <2> QED BY <2>2, <2>4, <2>6, SetterMoves
<1> QED BY <1>2, <1>3

\* The disk fails: the file in the making may be torn, secrets.yml is not touched.
LEMMA FailKeeps ==
  ASSUME SecretInv, NEW t \in Setter, PersistFails(t)
  PROVE SecretInv'
<1>1. SecretTypes /\ (~overlap => SecretsGood) BY DEF SecretInv
<1>2. Len(inode) \in Nat BY <1>1, LenProperties DEF SecretTypes
<1>3. Torn \in Contents BY DEF Contents
<1>4. secLeft'.sets = secLeft.sets
  BY <1>1 DEF PersistFails, SecretTypes
<1>5. secLeft' \in [sets : {secLeft.sets}, calls : Nat, fails : Nat, crashes : Nat]
  BY <1>1 DEF PersistFails, SecretTypes
<1>6. inode' \in Seq(Contents) /\ Len(inode') = Len(inode)
  <2>1. CASE SetterAt(t, "write")
    <3>1. PICK f : f = setter[t].fd OBVIOUS
    <3>2. f \in 1 .. Len(inode) BY <1>1, <1>2, <2>1, <3>1 DEF SecretTypes, Task, SetterAt
    <3>3. inode' = [inode EXCEPT ![f] = Torn] BY <2>1, <3>1 DEF PersistFails
    <3> QED BY <1>1, <1>3, <3>2, <3>3, FileChanged
  <2>2. CASE ~SetterAt(t, "write") BY <2>2, <1>1 DEF PersistFails, SecretTypes
  <2> QED BY <2>1, <2>2
<1>7. SetterEnds(t) BY DEF PersistFails
<1>8. SecretTypes' /\ setter'[t].at = "idle" /\ \A u \in Setter \ {t} : setter'[u] = setter[u]
  <2>1. secrets' = secrets /\ guardRules' = guardRules /\ kept' = kept /\ yml' = yml /\ tmp' = tmp
    BY DEF PersistFails
  <2>2. secrets' \subseteq secLeft.sets /\ guardRules' \subseteq secLeft.sets
        /\ kept' \subseteq secLeft.sets
    BY <1>1, <2>1 DEF SecretTypes
  <2> QED BY <1>1, <1>4, <1>5, <1>6, <1>7, <2>1, <2>2, EndedIsIdle
<1>9. ~overlap /\ SecretsGood => FileHasKept' /\ SetterPhase(t)'
  <2> SUFFICES ASSUME SecretsGood PROVE FileHasKept' /\ SetterPhase(t)' OBVIOUS
  <2>1. SetterPhase(t)' BY <1>8 DEF SetterPhase
  <2>2. yml # 0 => inode'[yml] = inode[yml]
    <3>1. CASE SetterAt(t, "write")
      <4>1. setter[t].fd = tmp /\ tmp # 0 BY <3>1 DEF SecretsGood, SetterPhase, SetterAt
      <4>2. inode' = [inode EXCEPT ![tmp] = Torn] /\ tmp # yml
        BY <3>1, <4>1 DEF PersistFails, SecretsGood, FileHasKept
      <4> QED BY <4>1, <4>2, <1>1, <1>2, <1>3, FileChanged DEF SecretTypes
    <3>2. CASE ~SetterAt(t, "write") BY <3>2 DEF PersistFails
    <3> QED BY <3>1, <3>2
  <2>3. FileHasKept' BY <2>2, <1>4 DEF SecretsGood, FileHasKept, PersistFails
  <2> QED BY <2>1, <2>3
<1>11. secrets' = secrets /\ overlap' = overlap /\ ~SetterAt(t, "idle") BY DEF PersistFails, SetterAt
<1> QED BY <1>8, <1>9, <1>11, SetterMoves

\* The rules are copied under the lock (push_to_hub).
LEMMA PushCopyKeeps ==
  ASSUME SecretInv, NEW t \in Setter, PushCopy(t)
  PROVE SecretInv'
<1>1. SecretTypes /\ (~overlap => SecretsGood) BY DEF SecretInv
<1>2. PICK r : r = [setter[t] EXCEPT !.at = "push", !.copy = secrets] OBVIOUS
<1>3. SecretTypes' /\ setter'[t].at = "push" /\ setter'[t].copy = secrets
      /\ \A u \in Setter \ {t} : setter'[u] = setter[u]
  <2>1. Len(inode) \in Nat /\ setter[t] \in Task(Len(inode)) BY <1>1, LenProperties DEF SecretTypes
  <2>2. "push" \in SetterPhases /\ secrets \in SUBSET secLeft.sets BY <1>1 DEF SetterPhases,
        SecretTypes
  <2>3. r \in Task(Len(inode)) /\ r.at = "push" /\ r.copy = secrets BY <1>2, <2>1, <2>2 DEF Task
  <2>4. setter' = [setter EXCEPT ![t] = r] BY <1>2 DEF PushCopy
  <2>5. guardRules' \subseteq secLeft.sets
        /\ kept' \subseteq secLeft.sets BY <1>1 DEF PushCopy, SecretTypes
  <2>6. UNCHANGED <<secrets, inode, yml, tmp, secLeft>> BY DEF PushCopy
  <2> QED BY <1>1, <2>3, <2>4, <2>5, <2>6, StillTyped, TypesKept
<1>4. ~overlap /\ SecretsGood => FileHasKept' /\ SetterPhase(t)'
  BY <1>3 DEF SecretsGood, FileHasKept, SetterPhase, PushCopy, SetterAt
<1>6. secrets' = secrets /\ overlap' = overlap /\ ~SetterAt(t, "idle") BY DEF PushCopy, SetterAt
<1> QED BY <1>3, <1>4, <1>6, SetterMoves

\* The hub has the rules, and set() answers (push_to_hub).
LEMMA PushKeeps ==
  ASSUME SecretInv, NEW t \in Setter, PushRules(t)
  PROVE SecretInv'
<1>1. SecretTypes /\ (~overlap => SecretsGood) BY DEF SecretInv
<1>2. SetterEnds(t) BY DEF PushRules
<1>3. setter[t].copy \in SUBSET secLeft.sets BY <1>1 DEF SecretTypes, Task
<1>4. SecretTypes' /\ setter'[t].at = "idle" /\ \A u \in Setter \ {t} : setter'[u] = setter[u]
  <2>1. UNCHANGED <<secrets, inode, yml, tmp, secLeft>> BY DEF PushRules
  <2>2. guardRules' \subseteq secLeft.sets /\ kept' \subseteq secLeft.sets
    BY <1>1, <1>3 DEF PushRules, SecretTypes
  <2> QED BY <1>1, <1>2, <2>1, <2>2, StillTyped, EndedIsIdle
<1>5. ~overlap /\ SecretsGood => FileHasKept' /\ SetterPhase(t)'
  <2> SUFFICES ASSUME SecretsGood PROVE FileHasKept' /\ SetterPhase(t)' OBVIOUS
  <2>1. SetterPhase(t)' BY <1>4 DEF SetterPhase
  <2>2. setter[t].copy = secrets /\ yml # 0 /\ inode[yml] = secrets
    BY DEF SecretsGood, SetterPhase, PushRules, SetterAt
  <2>3. FileHasKept' BY <2>2 DEF SecretsGood, FileHasKept, PushRules
  <2> QED BY <2>1, <2>3
<1>7. secrets' = secrets /\ overlap' = overlap /\ ~SetterAt(t, "idle") BY DEF PushRules, SetterAt
<1> QED BY <1>4, <1>5, <1>7, SetterMoves

\* What a new base loads is what accepted sets left in secrets.yml.
LEMMA ReloadKeeps ==
  ASSUME SecretInv, SecretsRestart
  PROVE SecretInv'
<1>1. SecretTypes /\ (~overlap => SecretsGood) BY DEF SecretInv
<1>2. Len(inode) \in Nat BY <1>1, LenProperties DEF SecretTypes
<1>3. secLeft'.sets = secLeft.sets
  BY <1>1 DEF SecretsRestart, SecretTypes
<1>4. secLeft' \in [sets : {secLeft.sets}, calls : Nat, fails : Nat, crashes : Nat]
  BY <1>1 DEF SecretsRestart, SecretTypes
<1>5. PICK s \in Loads(yml) : secrets' = s /\ guardRules' = s BY DEF SecretsRestart
<1>6. s \in SUBSET secLeft.sets
  <2>1. yml # 0 => inode[yml] \in Contents BY <1>1, <1>2, ElementOfSeq DEF SecretTypes
  <2> QED BY <2>1, <1>5 DEF Loads, Contents
<1>7. setter' \in [Setter -> Task(Len(inode))]
      /\ \A u \in Setter : setter'[u].at = "idle"
  <2>1. SetterIdle \in Task(Len(inode)) /\ SetterIdle.at = "idle" BY <1>2, TaskStarts
  <2> HIDE DEF SetterIdle
  <2> QED BY <2>1 DEF SecretsRestart
<1>8. SecretTypes'
  <2>1. Task(Len(inode))' = Task(Len(inode))
        /\ Contents' = Contents BY <1>3 DEF Task, Contents, SecretsRestart
  <2>2. \A u \in Setter : setter'[u].at = "write" => setter'[u].fd # 0 BY <1>7
  <2> QED BY <2>1, <2>2, <1>1, <1>3, <1>4, <1>5, <1>6, <1>7 DEF SecretsRestart, SecretTypes
<1>9. ASSUME ~overlap' PROVE SecretsGood'
  <2>1. SecretsGood BY <1>1, <1>9 DEF SecretsRestart
  <2>2. OneSetter' /\ \A u \in Setter : SetterPhase(u)' BY <1>7 DEF OneSetter, SetterAt, SetterPhase
  <2>3. PICK world \in SecretWorlds : secLeft.sets = world.sets BY <1>1 DEF SecretTypes
  <2>4. kept \subseteq s
    <3>1. CASE yml = 0 BY <3>1, <2>1 DEF SecretsGood, FileHasKept
    <3>2. CASE yml # 0
      <4>1. inode[yml] \in SUBSET secLeft.sets /\ kept \subseteq inode[yml]
        BY <2>1, <3>2 DEF SecretsGood, FileHasKept
      <4>2. inode[yml] # NoBytes /\ inode[yml] # Torn BY <4>1, <2>3, SecretAssumption
      <4> QED BY <4>1, <4>2, <3>2, <1>5 DEF Loads
    <3> QED BY <3>1, <3>2
  <2>5. FileHasKept' BY <2>1, <2>4, <1>3, <1>5 DEF SecretsGood, FileHasKept, SecretsRestart
  <2> QED BY <2>2, <2>5 DEF SecretsGood
<1> QED BY <1>8, <1>9 DEF SecretInv

\* Every step of secret.set, of the disk and of base.
LEMMA SecretStepKeeps == SecretInv /\ [SecretsNext]_secretVars => SecretInv'
<1> SUFFICES ASSUME SecretInv, [SecretsNext]_secretVars PROVE SecretInv' OBVIOUS
<1>1. CASE UNCHANGED secretVars
  BY <1>1 DEF secretVars, SecretInv, SecretTypes, Contents, SecretsGood, FileHasKept, OneSetter,
  SetterPhase, SetterAt, Task
<1> QED BY <1>1, SetEntryKeeps, CopyKeeps, OpenKeeps, WriteKeeps, RenameKeeps, FailKeeps,
    PushCopyKeeps,
           PushKeeps, ReloadKeeps DEF SecretsNext

\* A base without secrets.
LEMMA SecretInitHolds == SecretsInit => SecretInv
<1> SUFFICES ASSUME SecretsInit PROVE SecretInv OBVIOUS
<1>1. secLeft \in SecretWorlds /\ inode = <<>> /\ Len(inode) = 0 BY EmptySeq DEF SecretsInit
<1>2. secLeft \in [sets : SUBSET secLeft.sets, calls : Nat, fails : Nat, crashes : Nat]
  BY <1>1, SecretAssumption
<1>3. secLeft \in [sets : {secLeft.sets}, calls : Nat, fails : Nat, crashes : Nat] BY <1>2
<1>4. inode \in Seq(Contents) BY <1>1, EmptySeq
<1>5. SetterIdle \in Task(Len(inode)) /\ SetterIdle.at = "idle" BY <1>1, TaskStarts
<1> HIDE DEF SetterIdle
<1>7. setter \in [Setter -> Task(Len(inode))]
      /\ \A u \in Setter : setter[u].at = "idle"
  BY <1>5 DEF SecretsInit
<1>8. SecretTypes BY <1>1, <1>3, <1>4, <1>7 DEF SecretTypes, SecretsInit
<1>9. SecretsGood BY <1>7 DEF SecretsGood, FileHasKept, OneSetter, SetterPhase, SetterAt, SecretsInit
<1> QED BY <1>8, <1>9 DEF SecretInv

\* Rules that hold every accepted entry let none of their values through.
LEMMA SecretInvImplies == SecretInv => SecretsAreGuarded
<1> SUFFICES ASSUME SecretInv, ~overlap PROVE SecretsAreGuarded BY DEF SecretsAreGuarded
<1>1. SecretTypes /\ SecretsGood BY DEF SecretInv
<1>2. PICK world \in SecretWorlds : secLeft.sets = world.sets BY <1>1 DEF SecretTypes
<1>3. ASSUME NEW payload, NEW tags, NEW e \in kept PROVE e.value \notin scan_envelope(payload, tags)
  <2>1. e \in guardRules /\ e \in secLeft.sets BY <1>1 DEF SecretsGood, FileHasKept, SecretTypes
  <2>2. e.leak \in {"mask", "block"} BY <1>2, <2>1, SecretAssumption
  <2>3. CASE e.leak = "mask" BY <2>1, <2>3 DEF scan_envelope, Masked
  <2>4. CASE e.leak = "block" BY <2>1, <2>4 DEF scan_envelope, Masked, Blocked
  <2> QED BY <2>2, <2>3, <2>4
<1>4. ASSUME NEW s \in Loads(yml) PROVE kept \subseteq s
  <2>1. CASE yml = 0 BY <2>1, <1>1 DEF SecretsGood, FileHasKept
  <2>2. CASE yml # 0
    <3>1. inode[yml] \in SUBSET secLeft.sets /\ kept \subseteq inode[yml]
      BY <1>1, <2>2 DEF SecretsGood, FileHasKept
    <3>2. inode[yml] # NoBytes /\ inode[yml] # Torn BY <3>1, <1>2, SecretAssumption
    <3> QED BY <3>1, <3>2, <2>2, <1>4 DEF Loads
  <2> QED BY <2>1, <2>2
<1> QED BY <1>3, <1>4 DEF SecretsAreGuarded

\* For any patterns, topics and scopes, a subscriber gets what its filter means and its env
\* allows; for any entries, failing writes and deaths of base, as long as set() calls come one
\* after the other, no accepted secret passes the hub or is missing after a restart
\* (filter.rs, facaderpc.rs, secret.rs).
THEOREM EnvelopesStayVetted == FilterSpec /\ SecretsSpec => []EnvelopesAreVetted
<1>1. FilterInit => FilterInv BY DEF FilterInit, FilterInv
<1>2. FilterInv /\ [FilterNext]_filterVars => FilterInv' BY FilterStepKeeps
<1>3. SecretsInit => SecretInv BY SecretInitHolds
<1>4. SecretInv /\ [SecretsNext]_secretVars => SecretInv' BY SecretStepKeeps
<1>5. FilterInv /\ SecretInv => EnvelopesAreVetted
  BY FilterInvImplies, SecretInvImplies DEF EnvelopesAreVetted
<1> QED BY <1>1, <1>2, <1>3, <1>4, <1>5, PTL DEF FilterSpec, SecretsSpec
=============================================================================
