------------------------------ MODULE HubProofs ------------------------------
(***************************************************************************)
(* Proofs about the hub, for any envelopes, producers, subscriptions,      *)
(* ring sizes, batch sizes and crashes: an offset that was told is the row *)
(* of its envelope for good, and the rows of the log reach a subscription  *)
(* once each and in order.                                                 *)
(***************************************************************************)
EXTENDS Hub, FiniteSetTheorems, SequenceTheorems, WellFoundedInduction, TLAPS

---------------------------------------------------------------------------
(* Sequences.                                                              *)

\* A set of naturals that is not empty has a least member: what the loops over
\* a queue (Vec::retain, VecDeque::retain) are reasoned about with.
LEMMA LeastNatural ==
  ASSUME NEW T, T \subseteq Nat, T # {}
  PROVE  \E x \in T : \A y \in T : x <= y
<1>1. PICK R : R = {ss \in Nat \X Nat : ss[1] < ss[2]}
  OBVIOUS
<1>2. IsWellFoundedOn(R, Nat)
  BY <1>1, NatLessThanWellFounded DEF OpToRel
<1>3. PICK x \in T : \A y \in T : ~(<<y, x>> \in R)
  BY <1>2, WFMin
<1>4. \A y \in T : ~(y < x)
  BY <1>1, <1>3
<1> QED
  BY <1>3, <1>4

\* t is the entries of queue at the positions of P up to n: h says which is which.
PicksBy(queue, P, n, t, h) ==
  /\ h \in [DOMAIN t -> P \cap 1 .. n]
  /\ \A i \in DOMAIN t : t[i] = queue[h[i]]
  /\ \A i, j \in DOMAIN t : i < j => h[i] < h[j]
  /\ \A k \in P \cap 1 .. n : \E i \in DOMAIN t : h[i] = k

\* One round of the loop of Picked.
Rounds(queue, P, n, g) ==
  /\ DOMAIN g = 0 .. n /\ g[0] = <<>>
  /\ \A i \in 1 .. n : g[i] = IF i \in P THEN Append(g[i - 1], queue[i]) ELSE g[i - 1]

\* The loop can be run to the end.
LEMMA RoundsExist ==
  ASSUME NEW S, NEW queue \in Seq(S), NEW P, NEW n \in Nat
  PROVE  \E g : Rounds(queue, P, n, g)
<1> DEFINE Bad == {k \in Nat : ~\E g : Rounds(queue, P, k, g)}
<1>1. SUFFICES ASSUME Bad # {} PROVE FALSE
  OBVIOUS
<1>2. PICK k \in Bad : \A y \in Bad : k <= y
  BY <1>1, LeastNatural
<1>3. k # 0
  <2>1. Rounds(queue, P, 0, [i \in 0 .. 0 |-> <<>>])
    BY DEF Rounds
  <2> QED
    BY <2>1
<1>4. PICK g : Rounds(queue, P, k - 1, g)
  BY <1>2, <1>3
<1>5. PICK v : v = IF k \in P THEN Append(g[k - 1], queue[k]) ELSE g[k - 1]
  OBVIOUS
<1>6. PICK f : f = [i \in 0 .. k |-> IF i = k THEN v ELSE g[i]]
  OBVIOUS
<1>7. DOMAIN f = 0 .. k /\ f[0] = <<>>
  BY <1>2, <1>3, <1>4, <1>6 DEF Rounds
<1>8. ASSUME NEW i \in 1 .. k
      PROVE  f[i] = IF i \in P THEN Append(f[i - 1], queue[i]) ELSE f[i - 1]
  <2>1. f[i - 1] = g[i - 1]
    BY <1>2, <1>6
  <2>2. CASE i = k
    BY <1>2, <1>5, <1>6, <2>1, <2>2
  <2>3. CASE i # k
    <3>1. i \in 1 .. (k - 1) /\ f[i] = g[i]
      BY <1>2, <1>6, <2>3
    <3> QED
      BY <1>4, <2>1, <3>1 DEF Rounds
  <2> QED
    BY <2>2, <2>3
<1>9. Rounds(queue, P, k, f)
  BY <1>7, <1>8 DEF Rounds
<1> QED
  BY <1>2, <1>9

\* What Picked is.
LEMMA PickedRounds ==
  ASSUME NEW S, NEW queue \in Seq(S), NEW P
  PROVE  \E g : Rounds(queue, P, Len(queue), g) /\ Picked(queue, P) = g[Len(queue)]
<1> DEFINE Body(g) == [i \in 0 .. Len(queue) |->
                         IF i = 0 THEN <<>>
                         ELSE IF i \in P THEN Append(g[i - 1], queue[i]) ELSE g[i - 1]]
<1>0. PICK n \in Nat : n = Len(queue)
  OBVIOUS
<1>1. PICK g : Rounds(queue, P, n, g)
  BY RoundsExist
<1>2. PICK f : f = [i \in 0 .. n |-> g[i]]
  OBVIOUS
<1>3. f = Body(f)
  <2>1. f[0] = <<>> /\ \A i \in 1 .. n : i - 1 \in 0 .. n /\ f[i] = g[i] /\ f[i - 1] = g[i - 1]
    BY <1>1, <1>2 DEF Rounds
  <2>2. ASSUME NEW i \in 0 .. n PROVE f[i] = Body(f)[i]
    <3>1. CASE i = 0
      BY <1>0, <2>1, <3>1
    <3>2. CASE i # 0
      <4>1. i \in 1 .. n
        BY <3>2
      <4>2. g[i] = IF i \in P THEN Append(g[i - 1], queue[i]) ELSE g[i - 1]
        BY <1>1, <4>1 DEF Rounds
      <4> QED
        BY <1>0, <2>1, <3>2, <4>1, <4>2
    <3> QED
      BY <3>1, <3>2
  <2> QED
    BY <1>0, <1>2, <2>2
<1>4. PICK u : u = CHOOSE f1 : f1 = Body(f1)
  OBVIOUS
<1>5. u = Body(u)
  BY <1>3, <1>4
<1>6. Picked(queue, P) = u[Len(queue)]
  BY <1>4 DEF Picked
<1>7. Rounds(queue, P, n, u)
  <2>1. DOMAIN u = 0 .. n
    BY <1>0, <1>5
  <2>2. u[0] = <<>>
    BY <1>0, <1>5
  <2>3. ASSUME NEW i \in 1 .. n
        PROVE  u[i] = IF i \in P THEN Append(u[i - 1], queue[i]) ELSE u[i - 1]
    <3>1. i \in 0 .. Len(queue) /\ i # 0
      BY <1>0
    <3>2. u[i] = Body(u)[i]
      BY <1>5
    <3> QED
      BY <3>1, <3>2
  <2> QED
    BY <2>1, <2>2, <2>3 DEF Rounds
<1> QED
  BY <1>0, <1>6, <1>7

\* Each round of the loop leaves the entries picked so far.
LEMMA RoundPicks ==
  ASSUME NEW S, NEW queue \in Seq(S), NEW P, NEW n \in 1 .. Len(queue), NEW t \in Seq(S),
         NEW h, PicksBy(queue, P, n - 1, t, h),
         NEW v, v = IF n \in P THEN Append(t, queue[n]) ELSE t
  PROVE  v \in Seq(S) /\ \E k : PicksBy(queue, P, n, v, k)
<1>1. CASE n \notin P
  <2>1. P \cap 1 .. n = P \cap 1 .. (n - 1)
    BY <1>1
  <2>2. PicksBy(queue, P, n, v, h)
    BY <1>1, <2>1 DEF PicksBy
  <2> QED
    BY <1>1, <2>2
<1>2. CASE n \in P
  <2>1. PICK l \in Nat : l = Len(t)
    OBVIOUS
  <2>2. /\ v \in Seq(S) /\ DOMAIN t = 1 .. l /\ DOMAIN v = 1 .. (l + 1) /\ v[l + 1] = queue[n]
        /\ \A i \in 1 .. l : v[i] = t[i]
    BY <1>2, <2>1
  <2>3. PICK k : k = [i \in 1 .. (l + 1) |-> IF i = l + 1 THEN n ELSE h[i]]
    OBVIOUS
  <2>4. k[l + 1] = n /\ \A i \in 1 .. l : k[i] = h[i] /\ k[i] \in P \cap 1 .. (n - 1)
    BY <2>1, <2>2, <2>3 DEF PicksBy
  <2>5. k \in [DOMAIN v -> P \cap 1 .. n]
    <3>1. n \in P \cap 1 .. n /\ P \cap 1 .. (n - 1) \subseteq P \cap 1 .. n
      BY <1>2
    <3>2. \A i \in 1 .. (l + 1) : i = l + 1 \/ i \in 1 .. l
      BY <2>1
    <3>3. \A i \in 1 .. (l + 1) : k[i] \in P \cap 1 .. n
      BY <2>4, <3>1, <3>2
    <3> QED
      BY <2>2, <2>3, <3>3
  <2>6. \A i \in DOMAIN v : v[i] = queue[k[i]]
    BY <2>1, <2>2, <2>4 DEF PicksBy
  <2>7. ASSUME NEW i \in DOMAIN v, NEW j \in DOMAIN v, i < j PROVE k[i] < k[j]
    <3>1. i \in 1 .. l /\ k[i] = h[i] /\ h[i] \in 1 .. (n - 1)
      BY <2>1, <2>2, <2>4, <2>7
    <3>2. CASE j = l + 1
      BY <2>4, <3>1, <3>2
    <3>3. CASE j # l + 1
      <4>1. j \in 1 .. l /\ k[j] = h[j]
        BY <2>1, <2>2, <2>4, <3>3
      <4> QED
        BY <2>2, <2>7, <3>1, <4>1 DEF PicksBy
    <3> QED
      BY <3>2, <3>3
  <2>8. ASSUME NEW m \in P \cap 1 .. n PROVE \E i \in DOMAIN v : k[i] = m
    <3>1. CASE m = n
      BY <2>1, <2>2, <2>4, <3>1
    <3>2. CASE m # n
      <4>1. m \in P \cap 1 .. (n - 1)
        BY <3>2
      <4>2. PICK i \in 1 .. l : h[i] = m
        BY <2>2, <4>1 DEF PicksBy
      <4>3. i \in DOMAIN v /\ k[i] = m
        BY <2>1, <2>2, <2>4, <4>2
      <4> QED
        BY <4>3
    <3> QED
      BY <3>1, <3>2
  <2>9. PicksBy(queue, P, n, v, k)
    BY <2>5, <2>6, <2>7, <2>8, Zenon DEF PicksBy
  <2> QED
    BY <2>2, <2>9, Zenon
<1> QED
  BY <1>1, <1>2

\* Picked leaves out what is not at P, and nothing else (retain).
LEMMA PickedPicks ==
  ASSUME NEW S, NEW queue \in Seq(S), NEW P
  PROVE  /\ Picked(queue, P) \in Seq(S)
         /\ \E h : PicksBy(queue, P, Len(queue), Picked(queue, P), h)
<1>1. PICK g : Rounds(queue, P, Len(queue), g) /\ Picked(queue, P) = g[Len(queue)]
  BY PickedRounds
<1>2. PICK n \in Nat : n = Len(queue)
  OBVIOUS
<1> DEFINE Bad == {k \in 0 .. n : ~(g[k] \in Seq(S) /\ \E h : PicksBy(queue, P, k, g[k], h))}
<1>3. SUFFICES ASSUME Bad # {} PROVE FALSE
  BY <1>1, <1>2
<1>4. PICK k \in Bad : \A y \in Bad : k <= y
  <2>1. Bad \subseteq Nat
    BY <1>2
  <2> QED
    BY <1>3, <2>1, LeastNatural
<1>5. k # 0
  <2>1. g[0] = <<>> /\ <<>> \in Seq(S)
    BY <1>1 DEF Rounds
  <2>2. PicksBy(queue, P, 0, <<>>, <<>>)
    BY DEF PicksBy
  <2>3. 0 \notin Bad
    BY <2>1, <2>2
  <2> QED
    BY <1>4, <2>3
<1>6. k \in 1 .. Len(queue) /\ k - 1 \in 0 .. n /\ k - 1 \notin Bad
  BY <1>2, <1>4, <1>5
<1>7. PICK t \in Seq(S) : t = g[k - 1] /\ \E h : PicksBy(queue, P, k - 1, t, h)
  BY <1>6
<1>8. PICK h : PicksBy(queue, P, k - 1, t, h)
  BY <1>7
<1>9. g[k] = IF k \in P THEN Append(t, queue[k]) ELSE t
  BY <1>1, <1>6, <1>7 DEF Rounds
<1>10. g[k] \in Seq(S) /\ \E i : PicksBy(queue, P, k, g[k], i)
  BY <1>6, <1>8, <1>9, RoundPicks
<1> QED
  BY <1>4, <1>10

---------------------------------------------------------------------------
(* The invariant of the offsets.                                           *)

\* What can be told of a table: an envelope without an offset, or its row.
Told(t) == {c \in Published : c.off > 0 => c.off \in DOMAIN t /\ t[c.off] = c.e}

Prefix(t, u) == Len(t) <= Len(u) /\ \A i \in 1 .. Len(t) : u[i] = t[i]
Distinct(t) == \A i, j \in DOMAIN t : t[i] = t[j] => i = j

\* The writer is only given durable envelopes.
DurableJob == [e : Durable, who : Pub \cup {NoReply}]
WriterTask ==
  [pc : {"idle", "collect", "append", "bump", "deliver", "reply"}, jobs : Seq(DurableJob),
   tx : Seq(Durable), offs : Seq(Nat \ {0}), next : Nat \ {0}]

\* The table the offsets of a writer x are of.
TableOf(x, l) == IF x.pc = "append" THEN x.tx ELSE l

LogOK ==
  /\ log \in Seq(Durable) /\ max_offset \in Nat /\ max_offset <= Len(log)
  /\ ceiling \in [Sub -> Nat] /\ head \in [Sub -> Nat]
  /\ \A s \in Sub : ceiling[s] <= Len(log) /\ head[s] <= Len(log)

Phase == {"new", "ceiling", "since", "replay", "check", "empty", "wait", "gone"}
ListsOK ==
  /\ subs \in Seq(Sub) /\ sub \in [Sub -> Phase]
  /\ alive \in [Sub -> BOOLEAN] /\ permit \in [Sub -> BOOLEAN]
  /\ \A s \in Sub : sub[s] = "since" => Since[s] # NoSince

ProducersOK ==
  /\ chan \in Seq(DurableJob) /\ pub \in [Pub -> {"idle", "waiting"}]
  /\ expired \subseteq Mortal
  /\ sent \in [Event -> Nat] /\ \A e \in Event : sent[e] <= MaxPublish[e]
  /\ faults \in 0 .. MaxFault

\* The writer has a batch to work on, and the offset it has for a job is the
\* row of that job's envelope.
OffsetsOf(x, t) ==
  \A i \in DOMAIN x.offs : x.offs[i] \in DOMAIN t /\ t[x.offs[i]] = x.jobs[i].e
WriterIs(x, l) ==
  /\ x \in WriterTask /\ Len(x.offs) <= Len(x.jobs)
  /\ x.pc = "idle" => x = IdleWriter
  /\ x.pc # "idle" => x.next \in DOMAIN x.jobs
  /\ x.pc = "collect" => x.offs = <<>>
  /\ Prefix(l, TableOf(x, l)) /\ Distinct(TableOf(x, l)) /\ OffsetsOf(x, TableOf(x, l))
WriterOK == WriterIs(w, log)

\* Whatever is on its way to a subscriber or a producer, or was told.
RingsIn(S) == rows \in [Sub -> Seq(S)] /\ ring \in [Sub -> Seq(S)] /\ got \in [Sub -> Seq(S)]
FansIn(S) ==
  /\ fan \in [Pub \cup {Writer} -> FanOut \cup {NoFan}]
  /\ \A p \in Pub \cup {Writer} : fan[p] # NoFan => [e |-> fan[p].e, off |-> fan[p].off] \in S
AllTold == RingsIn(Told(log)) /\ FansIn(Told(log)) /\ resolved \subseteq Told(log)

HubInv == LogOK /\ ListsOK /\ ProducersOK /\ WriterOK /\ AllTold

\* The counters stay within the log.
LEMMA LogOKNext == HubInv /\ Next => LogOK'
<1> SUFFICES ASSUME HubInv, Next PROVE LogOK'
  OBVIOUS
<1>1. ASSUME UNCHANGED <<log, max_offset, ceiling, head>> PROVE LogOK'
  BY <1>1 DEF HubInv, LogOK
<1>2. ASSUME NEW p \in Pub, Produce(p) PROVE LogOK'
  BY <1>1, <1>2 DEF Produce, PublishBlocked, PublishMemory, PublishDurable, subVars
<1>3. ASSUME NEW p \in Pub \cup {Writer}, FanStep(p) \/ FanEnd(p) PROVE LogOK'
  BY <1>1, <1>3 DEF FanStep, FanEnd, subVars
<1>4. ASSUME Commit PROVE LogOK'
  <2>1. log' = w.tx /\ Prefix(log, w.tx) /\ w.tx \in Seq(Durable)
    BY <1>4 DEF Commit, HubInv, WriterOK, WriterIs, TableOf, WriterTask
  <2>2. Len(log) <= Len(log') /\ log' \in Seq(Durable) /\ Len(log') \in Nat
    BY <2>1 DEF Prefix
  <2> QED
    BY <1>4, <2>2 DEF HubInv, LogOK, Commit, writerFrame, subVars
<1>5. ASSUME Bump PROVE LogOK'
  <2>1. PICK M : M = RangeOf(w.offs) \cup {max_offset}
    OBVIOUS
  <2>2. \A k \in M : k \in Nat /\ k <= Len(log)
    BY <1>5, <2>1 DEF Bump, HubInv, LogOK, WriterOK, WriterIs, OffsetsOf, WriterTask, TableOf,
       RangeOf
  <2>3. \E m \in M : \A k \in M : k <= m
    <3>1. PICK T : T = {Len(log) - k : k \in M}
      OBVIOUS
    <3>2. T \subseteq Nat /\ T # {}
      BY <2>1, <2>2, <3>1 DEF HubInv, LogOK
    <3>3. PICK x \in T : \A y \in T : x <= y
      BY <3>2, LeastNatural
    <3>4. PICK m \in M : x = Len(log) - m
      BY <3>1, <3>3
    <3>5. ASSUME NEW k \in M PROVE k <= m
      <4>1. Len(log) - m <= Len(log) - k
        BY <3>1, <3>3, <3>4
      <4> QED
        BY <2>2, <4>1 DEF HubInv, LogOK
    <3> QED
      BY <3>5
  <2>4. max_offset' = CHOOSE m \in M : \A k \in M : k <= m
    BY <1>5, <2>1 DEF Bump
  <2>5. max_offset' \in M
    BY <2>3, <2>4
  <2> QED
    BY <1>5, <2>2, <2>5 DEF HubInv, LogOK, Bump, writerFrame, subVars
<1>6. ASSUME WriterStep, ~Commit, ~Bump PROVE LogOK'
  BY <1>1, <1>6 DEF WriterStep, Collect, Begin, InsertRow, Rollback, Deliver, Reply,
     writerFrame, subVars
<1>7. ASSUME NEW s \in Sub, ReadCeiling(s) PROVE LogOK'
  BY <1>7 DEF HubInv, LogOK, ReadCeiling, subFrame
<1>8. ASSUME NEW s \in Sub, Register(s) PROVE LogOK'
  BY <1>8 DEF HubInv, LogOK, Register, subFrame
<1>9. ASSUME NEW s \in Sub, ReadLog(s) \/ ReadLogFails(s) \/ ReplayRow(s) \/ ReplayEnd(s) \/ ReaderStep(s) \/ Drop(s)
      PROVE  LogOK'
  BY <1>1, <1>9 DEF ReadLog, ReadLogFails, ReplayRow, ReplayEnd, ReaderStep, Recv, Look, Wait, Wake, Drop,
     subFrame, subVars
<1>10. ASSUME NEW e \in Event, Expire(e) PROVE LogOK'
  BY <1>1, <1>10 DEF Expire, subVars
<1>11. ASSUME Crash PROVE LogOK'
  BY <1>11 DEF HubInv, LogOK, Crash
<1> QED
  BY <1>2, <1>3, <1>4, <1>5, <1>6, <1>7, <1>8, <1>9, <1>10, <1>11 DEF Next, Joining

\* The list of subscriptions is one, whoever prunes it.
LEMMA ListsOKNext == HubInv /\ Next => ListsOK'
<1> SUFFICES ASSUME HubInv, Next PROVE ListsOK'
  OBVIOUS
<1> USE DEF HubInv, ListsOK
<1>1. ASSUME UNCHANGED <<subs, sub, alive, permit>> PROVE ListsOK'
  BY <1>1
<1>2. Kept(subs) \in Seq(Sub)
  BY PickedPicks DEF Kept
<1>3. ASSUME NEW p \in Pub, Produce(p) PROVE ListsOK'
  BY <1>1, <1>3 DEF Produce, PublishBlocked, PublishMemory, PublishDurable, subVars, ringVars
<1>4. ASSUME NEW p \in Pub \cup {Writer}, FanStep(p) PROVE ListsOK'
  <2>1. permit' \in [Sub -> BOOLEAN]
    <3>1. permit' = permit \/ \E s : permit' = [permit EXCEPT ![s] = TRUE]
      BY <1>4 DEF FanStep, Push, ringVars
    <3> QED
      BY <3>1
  <2> QED
    BY <1>4, <2>1 DEF FanStep, subVars
<1>5. ASSUME NEW p \in Pub \cup {Writer}, FanEnd(p) PROVE ListsOK'
  BY <1>2, <1>5 DEF FanEnd, Pruned, subVars, ringVars
<1>6. ASSUME WriterStep PROVE ListsOK'
  BY <1>1, <1>6 DEF WriterStep, Collect, Begin, InsertRow, Commit, Rollback, Bump, Deliver, Reply,
     writerFrame, subVars, ringVars
<1>7. ASSUME NEW s \in Sub, ReadCeiling(s) PROVE ListsOK'
  BY <1>7 DEF ReadCeiling, Phase, ringVars
<1>8. ASSUME NEW s \in Sub, Register(s) PROVE ListsOK'
  BY <1>2, <1>8 DEF Register, Phase, ringVars
<1>9. ASSUME NEW s \in Sub, ReadLog(s) \/ ReadLogFails(s) \/ ReplayEnd(s) \/ Look(s) \/ Wait(s) PROVE ListsOK'
  BY <1>9 DEF ReadLog, ReadLogFails, ReplayEnd, Look, Wait, Phase, ringVars
<1>10. ASSUME NEW s \in Sub, ReplayRow(s) PROVE ListsOK'
  BY <1>10 DEF ReplayRow, Push, ringVars
<1>11. ASSUME NEW s \in Sub, Recv(s) PROVE ListsOK'
  BY <1>11 DEF Recv, subVars
<1>12. ASSUME NEW s \in Sub, Wake(s) \/ Drop(s) PROVE ListsOK'
  BY <1>12 DEF Wake, Drop, Phase
<1>13. ASSUME NEW e \in Event, Expire(e) PROVE ListsOK'
  BY <1>1, <1>13 DEF Expire, subVars, ringVars
<1>14. ASSUME Crash PROVE ListsOK'
  BY <1>14 DEF Crash, Phase
<1> QED
  BY <1>3, <1>4, <1>5, <1>6, <1>7, <1>8, <1>9, <1>10, <1>11, <1>12, <1>13, <1>14
  DEF Next, Joining, ReaderStep

\* A step of publish() and emit() counts one publish.
LEMMA PublishCounts ==
  ASSUME HubInv, NEW e \in Event, sent[e] < MaxPublish[e], sent' = [sent EXCEPT ![e] = @ + 1]
  PROVE  sent' \in [Event -> Nat] /\ \A d \in Event : sent'[d] <= MaxPublish[d]
<1>1. PICK k \in Nat : k = sent[e] + 1
  BY DEF HubInv, ProducersOK
<1>2. sent' = [sent EXCEPT ![e] = k]
  BY <1>1
<1>3. k <= MaxPublish[e]
  <2>1. sent[e] \in Nat /\ MaxPublish[e] \in Nat
    BY HubAssumption DEF HubInv, ProducersOK
  <2> QED
    BY <1>1, <2>1
<1> QED
  BY <1>1, <1>2, <1>3 DEF HubInv, ProducersOK

\* The producers' side keeps its types: only durable envelopes reach the writer.
LEMMA ProducersOKNext == HubInv /\ Next => ProducersOK'
<1> SUFFICES ASSUME HubInv, Next PROVE ProducersOK'
  OBVIOUS
<1>1. ASSUME UNCHANGED <<chan, pub, expired, sent, faults>> PROVE ProducersOK'
  BY <1>1 DEF HubInv, ProducersOK
<1>2. ASSUME NEW p \in Pub, NEW e \in Event, PublishBlocked(p, e) \/ PublishMemory(p, e)
      PROVE  ProducersOK'
  BY <1>2, PublishCounts DEF PublishBlocked, PublishMemory, HubInv, ProducersOK
<1>3. ASSUME NEW p \in Pub, NEW e \in Event, NEW who \in {p, NoReply}, PublishDurable(p, e, who)
      PROVE  ProducersOK'
  <2>1. [e |-> e, who |-> who] \in DurableJob
    BY <1>3 DEF PublishDurable, DurableJob
  <2>2. chan' \in Seq(DurableJob)
    BY <1>3, <2>1 DEF PublishDurable, HubInv, ProducersOK
  <2>3. sent' \in [Event -> Nat] /\ \A d \in Event : sent'[d] <= MaxPublish[d]
    BY <1>3, PublishCounts DEF PublishDurable
  <2> QED
    BY <1>3, <2>2, <2>3 DEF PublishDurable, HubInv, ProducersOK
<1>4. ASSUME NEW p \in Pub \cup {Writer}, FanStep(p) \/ FanEnd(p) PROVE ProducersOK'
  BY <1>1, <1>4 DEF FanStep, FanEnd
<1>5. ASSUME Collect PROVE ProducersOK'
  BY <1>5 DEF Collect, writerFrame, HubInv, ProducersOK
<1>6. ASSUME Rollback PROVE ProducersOK'
  BY <1>6, HubAssumption DEF Rollback, writerFrame, HubInv, ProducersOK
<1>7. ASSUME Reply PROVE ProducersOK'
  <2>1. pub' = pub \/ \E q : pub' = [pub EXCEPT ![q] = "idle"]
    BY <1>7 DEF Reply
  <2>2. pub' \in [Pub -> {"idle", "waiting"}]
    BY <2>1 DEF HubInv, ProducersOK
  <2> QED
    BY <1>7, <2>2 DEF Reply, writerFrame, HubInv, ProducersOK
<1>8. ASSUME Begin \/ InsertRow \/ Commit \/ Bump \/ Deliver PROVE ProducersOK'
  BY <1>1, <1>8 DEF Begin, InsertRow, Commit, Bump, Deliver, writerFrame
<1>9. ASSUME NEW s \in Sub, ReadCeiling(s) \/ Joining(s) \/ ReaderStep(s) \/ Drop(s)
      PROVE  ProducersOK'
  <2>1. CASE ReadLogFails(s)
    BY <2>1, HubAssumption DEF ReadLogFails, HubInv, ProducersOK
  <2>2. CASE ~ReadLogFails(s)
    BY <1>1, <1>9, <2>2 DEF ReadCeiling, Joining, Register, ReadLog, ReplayRow, ReplayEnd, ReaderStep,
       Recv, Look, Wait, Wake, Drop, subFrame
  <2> QED
    BY <2>1, <2>2
<1>10. ASSUME NEW e \in Event, Expire(e) PROVE ProducersOK'
  BY <1>10 DEF Expire, HubInv, ProducersOK
<1>11. ASSUME Crash PROVE ProducersOK'
  BY <1>11, HubAssumption DEF Crash, HubInv, ProducersOK
<1> QED
  BY <1>2, <1>3, <1>4, <1>5, <1>6, <1>7, <1>8, <1>9, <1>10, <1>11 DEF Next, Produce, WriterStep

\* A writer that has nothing to do is one for any table of distinct rows.
LEMMA IdleWriterIs == ASSUME NEW l \in Seq(Durable), Distinct(l) PROVE WriterIs(IdleWriter, l)
<1>1. IdleWriter \in WriterTask /\ IdleWriter.pc = "idle" /\ IdleWriter.offs = <<>>
      /\ IdleWriter.jobs = <<>>
  BY DEF IdleWriter, WriterTask
<1> QED
  BY <1>1 DEF WriterIs, Prefix, TableOf, OffsetsOf

\* A part of a table has no row twice if the table has none.
LEMMA PrefixIsDistinct ==
  ASSUME NEW l \in Seq(Durable), NEW t \in Seq(Durable), Prefix(l, t), Distinct(t)
  PROVE  Distinct(l)
<1>1. \A i \in DOMAIN l : i \in DOMAIN t /\ t[i] = l[i]
  BY DEF Prefix
<1> QED
  BY <1>1 DEF Distinct

\* A step of the writer that leaves its batch and its rows (Bump, Deliver, Reply).
LEMMA WriterGoesOn ==
  ASSUME NEW x, NEW l, WriterIs(x, l), x.pc \notin {"idle", "append"},
         NEW k \in DOMAIN x.jobs, NEW pc \in {"bump", "deliver", "reply"}
  PROVE  WriterIs([x EXCEPT !.pc = pc, !.next = k], l)
<1>1. PICK y : y = [x EXCEPT !.pc = pc, !.next = k]
  OBVIOUS
<1>2. k \in Nat \ {0} /\ x \in WriterTask
  BY DEF WriterIs, WriterTask
<1>3. /\ y \in WriterTask /\ y.pc = pc /\ y.next = k /\ y.jobs = x.jobs /\ y.tx = x.tx
      /\ y.offs = x.offs
  BY <1>1, <1>2 DEF WriterTask
<1>4. TableOf(y, l) = l /\ TableOf(x, l) = l
  BY <1>3 DEF TableOf
<1> QED
  BY <1>1, <1>3, <1>4 DEF WriterIs, OffsetsOf

\* insert or ignore: the row is the envelope's, whether it is new or was there.
LEMMA InsertRowKeeps == HubInv /\ InsertRow => WriterIs(w', log)
<1> SUFFICES ASSUME HubInv, InsertRow PROVE WriterIs(w', log)
  OBVIOUS
<1>1. /\ w \in WriterTask /\ w.pc = "append" /\ Len(w.offs) < Len(w.jobs) /\ Prefix(log, w.tx)
      /\ Distinct(w.tx) /\ OffsetsOf(w, w.tx) /\ w.next \in DOMAIN w.jobs /\ log \in Seq(Durable)
  BY DEF HubInv, WriterOK, WriterIs, TableOf, InsertRow, LogOK
<1>2. PICK n \in Nat : n = Len(w.offs)
  BY <1>1 DEF WriterTask
<1>3. n + 1 \in DOMAIN w.jobs /\ w.jobs \in Seq(DurableJob)
  BY <1>1, <1>2 DEF WriterTask
<1>4. PICK e \in Durable : e = w.jobs[n + 1].e
  <2>1. w.jobs[n + 1] \in DurableJob
    BY <1>3
  <2> QED
    BY <2>1 DEF DurableJob
<1>5. PICK tx : tx = IF e \in RangeOf(w.tx) THEN w.tx ELSE Append(w.tx, e)
  OBVIOUS
<1>6. PICK o : o = IF e \in RangeOf(w.tx) THEN OffsetOf(w.tx, e) ELSE Len(tx)
  OBVIOUS
<1>7. w' = [w EXCEPT !.tx = tx, !.offs = Append(w.offs, o)]
  BY <1>2, <1>4, <1>5, <1>6 DEF InsertRow
<1>8. /\ tx \in Seq(Durable) /\ Prefix(w.tx, tx) /\ Distinct(tx)
      /\ o \in DOMAIN tx /\ tx[o] = e /\ o \in Nat \ {0}
  <2>1. w.tx \in Seq(Durable)
    BY <1>1 DEF WriterTask
  <2>2. CASE e \in RangeOf(w.tx)
    <3>1. \E i \in DOMAIN w.tx : w.tx[i] = e
      BY <2>2 DEF RangeOf
    <3>2. o \in DOMAIN w.tx /\ w.tx[o] = e
      BY <1>6, <2>2, <3>1 DEF OffsetOf
    <3> QED
      BY <1>1, <1>5, <2>1, <2>2, <3>2 DEF Prefix
  <2>3. CASE e \notin RangeOf(w.tx)
    <3>1. PICK m \in Nat : m = Len(w.tx)
      BY <2>1
    <3>2. /\ tx \in Seq(Durable) /\ DOMAIN tx = 1 .. (m + 1) /\ Len(tx) = m + 1 /\ tx[m + 1] = e
          /\ DOMAIN w.tx = 1 .. m /\ \A i \in 1 .. m : tx[i] = w.tx[i] /\ w.tx[i] # e
      BY <1>5, <2>1, <2>3, <3>1 DEF RangeOf
    <3>3. o = m + 1
      BY <1>6, <2>3, <3>2
    <3>4. Distinct(tx)
      <4>1. ASSUME NEW i \in DOMAIN tx, NEW j \in DOMAIN tx, tx[i] = tx[j] PROVE i = j
        <5>1. (i = m + 1 \/ i \in 1 .. m) /\ (j = m + 1 \/ j \in 1 .. m)
          BY <3>1, <3>2
        <5>2. i = m + 1 <=> j = m + 1
          BY <3>1, <3>2, <4>1, <5>1
        <5> QED
          BY <1>1, <3>2, <4>1, <5>1, <5>2 DEF Distinct
      <4> QED
        BY <4>1 DEF Distinct
    <3> QED
      BY <3>1, <3>2, <3>3, <3>4 DEF Prefix
  <2> QED
    BY <2>2, <2>3
<1>9. PICK y : y = [w EXCEPT !.tx = tx, !.offs = Append(w.offs, o)]
  OBVIOUS
<1>10. w.offs \in Seq(Nat \ {0}) /\ Append(w.offs, o) \in Seq(Nat \ {0})
  BY <1>1, <1>8 DEF WriterTask
<1>11. /\ y \in WriterTask /\ y.pc = "append" /\ y.jobs = w.jobs /\ y.tx = tx /\ y.next = w.next
       /\ y.offs = Append(w.offs, o)
  BY <1>1, <1>8, <1>9, <1>10 DEF WriterTask
<1>12. OffsetsOf(y, tx)
  <2>1. ASSUME NEW i \in DOMAIN y.offs PROVE y.offs[i] \in DOMAIN tx /\ tx[y.offs[i]] = y.jobs[i].e
    <3>1. CASE i = n + 1
      BY <1>2, <1>4, <1>8, <1>10, <1>11, <3>1
    <3>2. CASE i # n + 1
      <4>1. i \in DOMAIN w.offs /\ y.offs[i] = w.offs[i]
        BY <1>2, <1>10, <1>11, <3>2
      <4>2. w.offs[i] \in DOMAIN w.tx /\ w.tx[w.offs[i]] = w.jobs[i].e
        BY <1>1, <4>1 DEF OffsetsOf
      <4>3. w.offs[i] \in DOMAIN tx /\ tx[w.offs[i]] = w.tx[w.offs[i]]
        <5>1. w.tx \in Seq(Durable)
          BY <1>1 DEF WriterTask
        <5> QED
          BY <1>8, <4>2, <5>1 DEF Prefix
      <4> QED
        BY <1>11, <4>1, <4>2, <4>3
    <3> QED
      BY <3>1, <3>2
  <2> QED
    BY <2>1 DEF OffsetsOf
<1>13. Prefix(log, tx)
  <2>1. w.tx \in Seq(Durable)
    BY <1>1 DEF WriterTask
  <2> QED
    BY <1>1, <1>8, <2>1 DEF Prefix
<1>14. Len(y.offs) <= Len(y.jobs)
  BY <1>1, <1>2, <1>3, <1>10, <1>11
<1> QED
  BY <1>1, <1>7, <1>8, <1>9, <1>11, <1>12, <1>13, <1>14 DEF WriterIs, TableOf

\* Every step of the writer keeps its rows those of its batch.
LEMMA WriterOKNext == HubInv /\ Next => WriterOK'
<1> SUFFICES ASSUME HubInv, Next PROVE WriterOK'
  OBVIOUS
<1>1. WriterIs(w, log) /\ w \in WriterTask /\ log \in Seq(Durable) /\ Distinct(log)
  <2>1. WriterIs(w, log) /\ w \in WriterTask /\ log \in Seq(Durable)
    BY DEF HubInv, WriterOK, WriterIs, LogOK
  <2>2. CASE w.pc = "append"
    <3>1. Prefix(log, w.tx) /\ Distinct(w.tx) /\ w.tx \in Seq(Durable)
      BY <2>1, <2>2 DEF WriterIs, TableOf, WriterTask
    <3> QED
      BY <2>1, <3>1, PrefixIsDistinct
  <2>3. CASE w.pc # "append"
    BY <2>1, <2>3 DEF WriterIs, TableOf
  <2> QED
    BY <2>1, <2>2, <2>3
<1>2. ASSUME WriterIs(w', log), log' = log PROVE WriterOK'
  BY <1>2 DEF WriterOK
<1>3. ASSUME UNCHANGED <<log, w>> PROVE WriterOK'
  BY <1>1, <1>2, <1>3
<1>4. ASSUME Collect PROVE WriterOK'
  <2>1. PICK y : y = [w EXCEPT !.pc = "collect", !.jobs = Append(w.jobs, Head(chan))]
    OBVIOUS
  <2>2. Head(chan) \in DurableJob /\ w.jobs \in Seq(DurableJob)
    BY <1>1, <1>4 DEF Collect, HubInv, ProducersOK, WriterTask
  <2>3. /\ y \in WriterTask /\ y.pc = "collect" /\ y.jobs = Append(w.jobs, Head(chan))
        /\ y.tx = w.tx /\ y.offs = w.offs /\ y.next = w.next
    <3>1. PICK js : js = Append(w.jobs, Head(chan))
      OBVIOUS
    <3>2. y = [w EXCEPT !.pc = "collect", !.jobs = js] /\ js \in Seq(DurableJob)
      BY <2>1, <2>2, <3>1
    <3> QED
      BY <1>1, <3>1, <3>2 DEF WriterTask
  <2>4. w.offs = <<>> /\ (w.next = 1 \/ w.next \in DOMAIN w.jobs)
    BY <1>1, <1>4 DEF Collect, WriterIs, IdleWriter
  <2>5. y.next \in DOMAIN y.jobs /\ Len(y.offs) <= Len(y.jobs)
    BY <2>2, <2>3, <2>4
  <2>6. Prefix(log, log)
    BY <1>1 DEF Prefix
  <2>7. WriterIs(y, log)
    BY <1>1, <2>3, <2>4, <2>5, <2>6 DEF WriterIs, TableOf, OffsetsOf
  <2> QED
    BY <1>2, <1>4, <2>1, <2>7 DEF Collect
<1>5. ASSUME Begin PROVE WriterOK'
  <2>1. PICK y : y = [w EXCEPT !.pc = "append", !.tx = log]
    OBVIOUS
  <2>2. /\ y \in WriterTask /\ y.pc = "append" /\ y.jobs = w.jobs
        /\ y.tx = log /\ y.offs = w.offs /\ y.next = w.next
    BY <1>1, <2>1 DEF WriterTask
  <2>3. WriterIs(y, log)
    BY <1>1, <1>5, <2>2 DEF Begin, WriterIs, TableOf, OffsetsOf
  <2> QED
    BY <1>2, <1>5, <2>1, <2>3 DEF Begin
<1>6. ASSUME InsertRow PROVE WriterOK'
  BY <1>2, <1>6, InsertRowKeeps DEF InsertRow
<1>7. ASSUME Commit PROVE WriterOK'
  <2>1. PICK y : y = [w EXCEPT !.pc = "bump", !.tx = <<>>]
    OBVIOUS
  <2>2. /\ y \in WriterTask /\ y.pc = "bump" /\ y.jobs = w.jobs /\ y.offs = w.offs
        /\ y.next = w.next
    <3>1. PICK none : none = <<>>
      OBVIOUS
    <3>2. y = [w EXCEPT !.pc = "bump", !.tx = none] /\ none \in Seq(Durable)
      BY <2>1, <3>1
    <3> QED
      BY <1>1, <3>2 DEF WriterTask
  <2>3. w.tx \in Seq(Durable) /\ Prefix(w.tx, w.tx)
    BY <1>1 DEF WriterTask, Prefix
  <2>4. WriterIs(y, w.tx)
    BY <1>1, <1>7, <2>2, <2>3 DEF Commit, WriterIs, TableOf, OffsetsOf
  <2> QED
    BY <1>7, <2>1, <2>4 DEF Commit, WriterOK
<1>8. ASSUME Rollback PROVE WriterOK'
  <2>1. PICK y : y = [w EXCEPT !.pc = "bump", !.tx = <<>>, !.offs = <<>>]
    OBVIOUS
  <2>2. /\ y \in WriterTask /\ y.pc = "bump" /\ y.jobs = w.jobs /\ y.offs = <<>>
        /\ y.next = w.next
    <3>1. PICK none : none = <<>>
      OBVIOUS
    <3>2. y = [w EXCEPT !.pc = "bump", !.tx = none, !.offs = none]
      BY <2>1, <3>1
    <3>3. none \in Seq(Durable) /\ none \in Seq(Nat \ {0})
      BY <3>1
    <3> QED
      BY <1>1, <3>1, <3>2, <3>3 DEF WriterTask
  <2>3. Prefix(log, log) /\ w.jobs \in Seq(DurableJob)
    BY <1>1 DEF WriterTask, Prefix
  <2>4. WriterIs(y, log)
    BY <1>1, <1>8, <2>2, <2>3 DEF Rollback, WriterIs, TableOf, OffsetsOf
  <2> QED
    BY <1>2, <1>8, <2>1, <2>4 DEF Rollback
<1>9. ASSUME Bump \/ Deliver PROVE WriterOK'
  <2>1. PICK pc \in {"deliver", "reply"} : w' = [w EXCEPT !.pc = pc]
    BY <1>9 DEF Bump, Deliver
  <2>2. w.pc \notin {"idle", "append"} /\ w.next \in DOMAIN w.jobs
    BY <1>1, <1>9 DEF Bump, Deliver, WriterIs
  <2>3. [w EXCEPT !.pc = pc, !.next = w.next] = [w EXCEPT !.pc = pc]
    BY <1>1 DEF WriterTask
  <2>4. WriterIs([w EXCEPT !.pc = pc, !.next = w.next], log)
    BY <1>1, <2>2, WriterGoesOn
  <2> QED
    BY <1>2, <1>9, <2>1, <2>3, <2>4 DEF Bump, Deliver
<1>10. ASSUME Reply PROVE WriterOK'
  <2>1. CASE w' = IdleWriter
    BY <1>1, <1>2, <1>10, <2>1, IdleWriterIs DEF Reply
  <2>2. CASE w' # IdleWriter
    <3>1. w.next # Len(w.jobs) /\ w' = [w EXCEPT !.pc = "deliver", !.next = w.next + 1]
      BY <1>10, <2>2 DEF Reply
    <3>2. w.next \in DOMAIN w.jobs /\ w.jobs \in Seq(DurableJob)
      BY <1>1, <1>10 DEF Reply, WriterIs, WriterTask
    <3>3. PICK k \in DOMAIN w.jobs : k = w.next + 1
      BY <3>1, <3>2
    <3>4. WriterIs([w EXCEPT !.pc = "deliver", !.next = k], log)
      BY <1>1, <1>10, WriterGoesOn DEF Reply
    <3> QED
      BY <1>2, <1>10, <3>1, <3>3, <3>4 DEF Reply
  <2> QED
    BY <2>1, <2>2
<1>11. ASSUME Crash PROVE WriterOK'
  BY <1>1, <1>2, <1>11, IdleWriterIs DEF Crash
<1>12. ASSUME NEW p \in Pub, Produce(p) PROVE WriterOK'
  BY <1>3, <1>12 DEF Produce, PublishBlocked, PublishMemory, PublishDurable
<1>13. ASSUME NEW p \in Pub \cup {Writer}, FanStep(p) \/ FanEnd(p) PROVE WriterOK'
  BY <1>3, <1>13 DEF FanStep, FanEnd
<1>14. ASSUME NEW s \in Sub, ReadCeiling(s) \/ Joining(s) \/ ReaderStep(s) \/ Drop(s)
       PROVE  WriterOK'
  BY <1>3, <1>14 DEF ReadCeiling, Joining, Register, ReadLog, ReadLogFails, ReplayRow, ReplayEnd, ReaderStep,
     Recv, Look, Wait, Wake, Drop, subFrame
<1>15. ASSUME NEW e \in Event, Expire(e) PROVE WriterOK'
  BY <1>3, <1>15 DEF Expire
<1> QED
  BY <1>4, <1>5, <1>6, <1>7, <1>8, <1>9, <1>10, <1>11, <1>12, <1>13, <1>14, <1>15
  DEF Next, WriterStep

\* What was told of a table stays true of a longer one.
LEMMA ToldGrows ==
  ASSUME NEW l \in Seq(Durable), NEW t \in Seq(Durable), Prefix(l, t)
  PROVE  Told(l) \subseteq Told(t)
<1>1. \A i \in DOMAIN l : i \in DOMAIN t /\ t[i] = l[i]
  BY DEF Prefix
<1> QED
  BY <1>1 DEF Told

\* A ring takes what it is given and keeps what it had, or less (Ring::push).
LEMMA PushedStays ==
  ASSUME NEW S, NEW q \in Seq(S), NEW m \in S, NEW s \in Sub
  PROVE  Pushed(s, q, m) \in Seq(S)
<1>1. ASSUME NEW r \in Seq(S) PROVE Append(r, m) \in Seq(S)
  OBVIOUS
<1>2. PICK others : others = {i \in DOMAIN q : CompactionKey(q[i].e) # CompactionKey(m.e)}
  OBVIOUS
<1>3. Picked(q, others) \in Seq(S)
  BY PickedPicks
<1>4. CASE s \in Latest
  BY <1>1, <1>2, <1>3, <1>4 DEF Pushed
<1>5. CASE s \notin Latest /\ Len(q) >= Cap[s] /\ m.e \notin Durable
  <2>1. q # <<>>
    BY <1>5, HubAssumption
  <2>2. Tail(q) \in Seq(S)
    BY <2>1
  <2> QED
    BY <1>1, <1>5, <2>2 DEF Pushed
<1>6. CASE s \notin Latest /\ ~(Len(q) >= Cap[s] /\ m.e \notin Durable)
  BY <1>1, <1>6 DEF Pushed
<1> QED
  BY <1>4, <1>5, <1>6

\* The rows durable.since() returns are rows.
LEMMA RowsSinceAreTold ==
  ASSUME LogOK, NEW a \in Nat
  PROVE  RowsSince(a) \in Seq(Told(log))
<1>1. PICK n : n = IF a >= Len(log) THEN 0
                   ELSE IF Len(log) - a < REPLAY_MAX THEN Len(log) - a ELSE REPLAY_MAX
  OBVIOUS
<1>4. n \in Nat /\ (a + n <= Len(log) \/ n = 0) /\ Len(log) \in Nat
  BY <1>1, HubAssumption DEF LogOK
<1>2. RowsSince(a) = [i \in 1 .. n |-> [e |-> log[a + i], off |-> a + i]]
  BY <1>1 DEF RowsSince
<1>3. ASSUME NEW i \in 1 .. n PROVE [e |-> log[a + i], off |-> a + i] \in Told(log)
  <2>1. a + i \in DOMAIN log /\ a + i \in Nat /\ log[a + i] \in Event
    BY <1>4, HubAssumption DEF LogOK
  <2> QED
    BY <2>1 DEF Told, Published
<1>5. RowsSince(a) \in [1 .. n -> Told(log)]
  BY <1>2, <1>3
<1> QED
  BY <1>4, <1>5, SeqDef

\* A push into the ring of one subscription, or none.
LEMMA RingsTake ==
  ASSUME NEW S, RingsIn(S), NEW s \in Sub, NEW m \in S,
         \/ ring' = [ring EXCEPT ![s] = Pushed(s, @, m)] \/ ring' = ring
  PROVE  ring' \in [Sub -> Seq(S)]
<1>1. ring[s] \in Seq(S)
  BY DEF RingsIn
<1>2. PICK q : q = Pushed(s, ring[s], m)
  OBVIOUS
<1>3. q \in Seq(S)
  BY <1>1, <1>2, PushedStays
<1>4. ring' = [ring EXCEPT ![s] = q] \/ ring' = ring
  BY <1>2
<1> QED
  BY <1>3, <1>4 DEF RingsIn

\* What is in the rings, in the rows to replay and with the readers is told.
LEMMA RingsNext == HubInv /\ Next /\ log' = log => RingsIn(Told(log))'
<1> SUFFICES ASSUME HubInv, Next, log' = log PROVE RingsIn(Told(log))'
  OBVIOUS
<1>1. PICK S : S = Told(log)
  OBVIOUS
<1>2. RingsIn(S) /\ FansIn(S)
  BY <1>1 DEF HubInv, AllTold
<1>3. SUFFICES RingsIn(S)'
  BY <1>1 DEF RingsIn
<1>4. ASSUME UNCHANGED <<rows, ring, got>> PROVE RingsIn(S)'
  BY <1>2, <1>4 DEF RingsIn
<1>5. ASSUME NEW p \in Pub, Produce(p) PROVE RingsIn(S)'
  BY <1>4, <1>5 DEF Produce, PublishBlocked, PublishMemory, PublishDurable, subVars, ringVars
<1>6. ASSUME NEW p \in Pub \cup {Writer}, FanStep(p) PROVE RingsIn(S)'
  <2>1. PICK f \in FanOut : f = fan[p]
    BY <1>2, <1>6 DEF FanStep, FansIn
  <2>2. PICK m \in S : m = [e |-> f.e, off |-> f.off]
    BY <1>2, <1>6, <2>1 DEF FanStep, FansIn
  <2>3. PICK s \in Sub : s = f.snap[f.at]
    BY <1>6, <2>1 DEF FanStep, FanOut
  <2>4. ring' = [ring EXCEPT ![s] = Pushed(s, @, m)] \/ ring' = ring
    BY <1>6, <2>1, <2>2, <2>3 DEF FanStep, Push, ringVars
  <2>5. ring' \in [Sub -> Seq(S)]
    BY <1>2, <2>4, RingsTake
  <2> QED
    BY <1>2, <1>6, <2>5 DEF FanStep, subVars, RingsIn
<1>7. ASSUME NEW p \in Pub \cup {Writer}, FanEnd(p) PROVE RingsIn(S)'
  BY <1>4, <1>7 DEF FanEnd, subVars, ringVars
<1>8. ASSUME WriterStep PROVE RingsIn(S)'
  BY <1>4, <1>8 DEF WriterStep, Collect, Begin, InsertRow, Commit, Rollback, Bump, Deliver, Reply,
     writerFrame, subVars, ringVars
<1>9. ASSUME NEW s \in Sub, ReadCeiling(s) \/ Register(s) \/ ReplayEnd(s) \/ ReadLogFails(s) \/ Look(s) \/ Wait(s)
                            \/ Wake(s) \/ Drop(s)
      PROVE  RingsIn(S)'
  BY <1>4, <1>9 DEF ReadCeiling, Register, ReplayEnd, ReadLogFails, Look, Wait, Wake, Drop, ringVars
<1>10. ASSUME NEW s \in Sub, ReadLog(s) PROVE RingsIn(S)'
  <2>1. Since[s] \in Nat
    BY <1>10, HubAssumption DEF ReadLog, ReadLogFails, HubInv, ListsOK
  <2>2. PICK new : new = RowsSince(Since[s])
    OBVIOUS
  <2>3. new \in Seq(S)
    BY <1>1, <2>1, <2>2, RowsSinceAreTold DEF HubInv
  <2> QED
    BY <1>2, <1>10, <2>2, <2>3 DEF ReadLog, ReadLogFails, ringVars, RingsIn
<1>11. ASSUME NEW s \in Sub, ReplayRow(s) PROVE RingsIn(S)'
  <2>1. PICK m : m = Head(rows[s])
    OBVIOUS
  <2>2. rows[s] \in Seq(S) /\ rows[s] # <<>>
    BY <1>2, <1>11 DEF ReplayRow, RingsIn
  <2>3. m \in S /\ Tail(rows[s]) \in Seq(S)
    BY <2>1, <2>2
  <2>4. ring' = [ring EXCEPT ![s] = Pushed(s, @, m)] \/ ring' = ring
    BY <1>11, <2>1 DEF ReplayRow, Push, ringVars
  <2>5. ring' \in [Sub -> Seq(S)]
    BY <1>2, <2>3, <2>4, RingsTake
  <2> QED
    BY <1>2, <1>11, <2>3, <2>5 DEF ReplayRow, RingsIn
<1>12. ASSUME NEW s \in Sub, Recv(s) PROVE RingsIn(S)'
  <2>1. got[s] \in Seq(S) /\ ring[s] \in Seq(S)
    BY <1>2 DEF RingsIn
  <2>2. got[s] \o ring[s] \in Seq(S) /\ <<>> \in Seq(S)
    BY <2>1
  <2> QED
    BY <1>2, <1>12, <2>2 DEF Recv, RingsIn, subVars
<1>13. ASSUME NEW e \in Event, Expire(e) PROVE RingsIn(S)'
  BY <1>4, <1>13 DEF Expire, subVars, ringVars
<1>14. ASSUME Crash PROVE RingsIn(S)'
  BY <1>2, <1>14 DEF Crash, RingsIn
<1> QED
  BY <1>5, <1>6, <1>7, <1>8, <1>9, <1>10, <1>11, <1>12, <1>13, <1>14
  DEF Next, Joining, ReaderStep

\* fan_out of a told envelope starts over the list, or nowhere.
LEMMA StartFanKeeps ==
  ASSUME HubInv, NEW S, FansIn(S), NEW p \in Pub \cup {Writer}, NEW e \in Event, NEW o \in Nat,
         [e |-> e, off |-> o] \in S, StartFan(p, e, o)
  PROVE  FansIn(S)'
<1>1. PICK f : f = IF e \in expired THEN NoFan
                   ELSE [e |-> e, off |-> o, snap |-> subs, at |-> 1, dead |-> FALSE]
  OBVIOUS
<1>2. fan' = [fan EXCEPT ![p] = f]
  BY <1>1 DEF StartFan
<1>3. f \in FanOut \cup {NoFan} /\ (f # NoFan => f.e = e /\ f.off = o)
  BY <1>1 DEF FanOut, HubInv, ListsOK
<1> QED
  BY <1>2, <1>3 DEF FansIn

\* Fan-outs, and answers to producers, carry the row of their envelope or none.
LEMMA FansNext == HubInv /\ Next /\ log' = log => (FansIn(Told(log)) /\ resolved \subseteq Told(log))'
<1> SUFFICES ASSUME HubInv, Next, log' = log PROVE (FansIn(Told(log)) /\ resolved \subseteq Told(log))'
  OBVIOUS
<1>1. PICK S : S = Told(log)
  OBVIOUS
<1>2. FansIn(S) /\ resolved \subseteq S
  BY <1>1 DEF HubInv, AllTold
<1>3. SUFFICES FansIn(S)' /\ resolved' \subseteq S
  BY <1>1 DEF FansIn
<1>4. ASSUME UNCHANGED <<fan, resolved>> PROVE FansIn(S)' /\ resolved' \subseteq S
  BY <1>2, <1>4 DEF FansIn
<1>5. \A e \in Event : [e |-> e, off |-> 0] \in S
  BY <1>1 DEF Told, Published
<1>6. ASSUME NEW p \in Pub, NEW e \in Event, PublishBlocked(p, e)
      PROVE  FansIn(S)' /\ resolved' \subseteq S
  BY <1>2, <1>5, <1>6, StartFanKeeps, HubAssumption DEF PublishBlocked
<1>7. ASSUME NEW p \in Pub, NEW e \in Event, PublishMemory(p, e)
      PROVE  FansIn(S)' /\ resolved' \subseteq S
  BY <1>2, <1>5, <1>7, StartFanKeeps DEF PublishMemory
<1>8. ASSUME NEW p \in Pub, NEW e, NEW who, PublishDurable(p, e, who)
      PROVE  FansIn(S)' /\ resolved' \subseteq S
  BY <1>4, <1>8 DEF PublishDurable
<1>9. ASSUME NEW p \in Pub \cup {Writer}, FanStep(p) PROVE FansIn(S)' /\ resolved' \subseteq S
  <2>1. PICK f \in FanOut : f = fan[p] /\ f # NoFan /\ [e |-> f.e, off |-> f.off] \in S
    BY <1>2, <1>9 DEF FanStep, FansIn
  <2>2. PICK at \in Nat \ {0} : at = f.at + 1
    BY DEF FanOut
  <2>3. PICK dead : dead = (f.dead \/ ~alive[f.snap[f.at]])
    OBVIOUS
  <2>4. dead \in BOOLEAN
    BY <2>3
  <2>5. PICK g : g = [f EXCEPT !.at = at, !.dead = dead]
    OBVIOUS
  <2>6. g \in FanOut /\ g.e = f.e /\ g.off = f.off
    BY <2>1, <2>2, <2>4, <2>5 DEF FanOut
  <2>7. fan' = [fan EXCEPT ![p] = g]
    BY <1>2, <1>9, <2>1, <2>2, <2>3, <2>5 DEF FanStep, FansIn
  <2>8. FansIn(S)'
    BY <1>2, <2>1, <2>6, <2>7 DEF FansIn
  <2> QED
    BY <1>2, <1>9, <2>8 DEF FanStep
<1>10. ASSUME NEW p \in Pub \cup {Writer}, FanEnd(p) PROVE FansIn(S)' /\ resolved' \subseteq S
  BY <1>2, <1>10 DEF FanEnd, FansIn
<1>11. ASSUME w.pc \in {"deliver", "reply"}
       PROVE  /\ CurrentJob \in DurableJob /\ CurrentJob.e \in Event /\ OffsetAt(w.next) \in Nat
              /\ [e |-> CurrentJob.e, off |-> OffsetAt(w.next)] \in S
  <2>1. WriterIs(w, log) /\ w \in WriterTask
    BY DEF HubInv, WriterOK, WriterIs
  <2>2. w.next \in DOMAIN w.jobs /\ w.jobs \in Seq(DurableJob)
    BY <1>11, <2>1 DEF WriterIs, WriterTask
  <2>3. PICK j \in DurableJob : j = CurrentJob
    BY <2>2 DEF CurrentJob
  <2>4. j.e \in Event
    BY <2>3, HubAssumption DEF DurableJob
  <2>5. CASE w.next \in DOMAIN w.offs
    <3>1. w.offs[w.next] \in DOMAIN log /\ log[w.offs[w.next]] = j.e
      BY <1>11, <2>1, <2>3, <2>5 DEF WriterIs, TableOf, OffsetsOf, CurrentJob
    <3>2. OffsetAt(w.next) = w.offs[w.next] /\ w.offs[w.next] \in Nat
      BY <2>1, <2>5 DEF OffsetAt, WriterTask
    <3> QED
      BY <1>1, <2>3, <2>4, <3>1, <3>2 DEF Told, Published
  <2>6. CASE w.next \notin DOMAIN w.offs
    BY <1>5, <2>3, <2>4, <2>6 DEF OffsetAt
  <2> QED
    BY <2>5, <2>6
<1>12. ASSUME Deliver PROVE FansIn(S)' /\ resolved' \subseteq S
  BY <1>2, <1>11, <1>12, StartFanKeeps DEF Deliver
<1>13. ASSUME Reply PROVE FansIn(S)' /\ resolved' \subseteq S
  BY <1>2, <1>11, <1>13 DEF Reply, FansIn
<1>14. ASSUME Collect \/ Begin \/ InsertRow \/ Commit \/ Rollback \/ Bump
       PROVE FansIn(S)' /\ resolved' \subseteq S
  BY <1>4, <1>14 DEF Collect, Begin, InsertRow, Commit, Rollback, Bump
<1>15. ASSUME NEW s \in Sub, ReadCeiling(s) \/ Joining(s) \/ ReaderStep(s) \/ Drop(s)
       PROVE  FansIn(S)' /\ resolved' \subseteq S
  BY <1>4, <1>15 DEF ReadCeiling, Joining, Register, ReadLog, ReadLogFails, ReplayRow, ReplayEnd, ReaderStep,
     Recv, Look, Wait, Wake, Drop, subFrame
<1>16. ASSUME NEW e \in Event, Expire(e) PROVE FansIn(S)' /\ resolved' \subseteq S
  BY <1>4, <1>16 DEF Expire
<1>17. ASSUME Crash PROVE FansIn(S)' /\ resolved' \subseteq S
  BY <1>2, <1>17 DEF Crash, FansIn
<1> QED
  BY <1>6, <1>7, <1>8, <1>9, <1>10, <1>12, <1>13, <1>14, <1>15, <1>16, <1>17
  DEF Next, Produce, WriterStep

\* A commit adds rows and takes none away: what was told stays.
LEMMA AllToldNext == HubInv /\ Next => AllTold'
<1> SUFFICES ASSUME HubInv, Next PROVE AllTold'
  OBVIOUS
<1>1. CASE log' = log
  BY <1>1, RingsNext, FansNext DEF AllTold
<1>2. CASE log' # log
  <2>1. Commit
    BY <1>2 DEF Next, Produce, PublishBlocked, PublishMemory, PublishDurable, FanStep, FanEnd,
       WriterStep, Collect, Begin, InsertRow, Rollback, Bump, Deliver, Reply, ReadCeiling,
       Joining, Register, ReadLog, ReadLogFails, ReplayRow, ReplayEnd, ReaderStep, Recv, Look, Wait, Wake,
       Drop, Expire, Crash, subFrame
  <2>2. log \in Seq(Durable) /\ log' \in Seq(Durable) /\ Prefix(log, log')
    BY <2>1 DEF Commit, HubInv, LogOK, WriterOK, WriterIs, WriterTask, TableOf
  <2>3. PICK S, T : S = Told(log) /\ T = Told(log')
    OBVIOUS
  <2>4. S \subseteq T
    BY <2>2, <2>3, ToldGrows
  <2>5. \A q \in Seq(S) : q \in Seq(T)
    BY <2>4
  <2>6. UNCHANGED <<rows, ring, got, fan, resolved>>
    BY <2>1 DEF Commit, writerFrame, subVars, ringVars
  <2>7. RingsIn(S) /\ FansIn(S) /\ resolved \subseteq S
    BY <2>3 DEF HubInv, AllTold
  <2>8. RingsIn(T)' /\ FansIn(T)' /\ resolved' \subseteq T
    BY <2>4, <2>5, <2>6, <2>7 DEF RingsIn, FansIn
  <2> QED
    BY <2>3, <2>8 DEF AllTold, RingsIn, FansIn
<1> QED
  BY <1>1, <1>2

\* The hub starts with an empty log and nobody to tell (Hub::new).
LEMMA HubInvInit == Init => HubInv
<1> SUFFICES ASSUME Init PROVE HubInv
  OBVIOUS
<1>1. LogOK /\ ListsOK
  BY DEF Init, LogOK, ListsOK, Phase
<1>2. ProducersOK
  BY HubAssumption DEF Init, ProducersOK
<1>3. WriterOK
  <2>1. log \in Seq(Durable) /\ Distinct(log)
    BY DEF Init, Distinct
  <2> QED
    BY <2>1, IdleWriterIs DEF Init, WriterOK
<1>4. AllTold
  BY DEF Init, AllTold, RingsIn, FansIn
<1> QED
  BY <1>1, <1>2, <1>3, <1>4 DEF HubInv

\* Every step of the hub keeps what was told true.
LEMMA HubInvNext == HubInv /\ [Next]_vars => HubInv'
<1> SUFFICES ASSUME HubInv, [Next]_vars PROVE HubInv'
  OBVIOUS
<1>1. CASE Next
  BY <1>1, LogOKNext, ListsOKNext, ProducersOKNext, WriterOKNext, AllToldNext DEF HubInv
<1>2. CASE UNCHANGED vars
  BY <1>2 DEF vars, HubInv, LogOK, ListsOK, ProducersOK, WriterOK, AllTold, RingsIn, FansIn
<1> QED
  BY <1>1, <1>2

\* A row that was told is the only one of its envelope.
LEMMA ToldIsTheRow ==
  ASSUME HubInv, NEW c \in Told(log), c.off > 0
  PROVE  {i \in DOMAIN log : log[i] = c.e} = {c.off}
<1>1. Distinct(log)
  <2>1. /\ WriterIs(w, log) /\ log \in Seq(Durable) /\ w.tx \in Seq(Durable)
    BY DEF HubInv, WriterOK, WriterIs, LogOK, WriterTask
  <2> QED
    BY <2>1, PrefixIsDistinct DEF WriterIs, TableOf
<1> QED
  BY <1>1 DEF Told, Distinct

\* Whatever is appended, rolled back, replayed or lost in a crash, an offset a
\* producer was answered with or a subscriber was shown is the one row of that
\* envelope (the writer task, Durable::append, Hub::fan_out, Hub::subscribe).
THEOREM OffsetsStayDurable == Spec => []OffsetIsDurable
<1>1. HubInv => OffsetIsDurable
  <2> SUFFICES ASSUME HubInv PROVE OffsetIsDurable
    OBVIOUS
  <2>1. resolved \subseteq Told(log)
    BY DEF HubInv, AllTold
  <2>2. ASSUME NEW s \in Sub PROVE RangeOf(Seen(s)) \subseteq Told(log)
    <3>1. PICK S : S = Told(log)
      OBVIOUS
    <3>2. got[s] \in Seq(S) /\ ring[s] \in Seq(S)
      BY <3>1 DEF HubInv, AllTold, RingsIn
    <3>3. Seen(s) \in Seq(S)
      BY <3>2 DEF Seen
    <3> QED
      BY <3>1, <3>3 DEF RangeOf
  <2>3. resolved \cup UNION {RangeOf(Seen(s)) : s \in Sub} \subseteq Told(log)
    BY <2>1, <2>2
  <2> QED
    BY <2>3, ToldIsTheRow DEF OffsetIsDurable
<1> QED
  BY <1>1, HubInvInit, HubInvNext, PTL DEF Spec

---------------------------------------------------------------------------
(* The invariant of the order.                                             *)

\* A subscription is in the list, and in the snapshot of a fan_out, at most
\* once, and not before it registered; before that it has nothing.
Unregistered == {"new", "ceiling"}
ListOK(list, ph) == Distinct(list) /\ \A i \in DOMAIN list : ph[list[i]] \notin Unregistered
JoinOK ==
  /\ ListOK(subs, sub)
  /\ \A p \in Pub \cup {Writer} : fan[p] # NoFan => ListOK(fan[p].snap, sub)
  /\ \A s \in Sub : sub[s] \in Unregistered => got[s] = <<>> /\ ring[s] = <<>>
  /\ \A s \in Sub : sub[s] \in Unregistered \cup {"since"} => rows[s] = <<>>

\* Only the writer fans out rows, and it is at its current job.
FansOK ==
  /\ \A p \in Pub : fan[p] # NoFan => fan[p].off = 0
  /\ fan[Writer] # NoFan =>
       w.pc = "reply" /\ fan[Writer].e = CurrentJob.e /\ fan[Writer].off = OffsetAt(w.next)

\* Entry i of a queue came from a replay up to c.
Replayed(q, c, i) == q[i].off > 0 /\ q[i].off <= c

\* What was replayed is in order and before the rows R still to come.
ReplayOrder(q, c, R) ==
  /\ \A i, j \in DOMAIN q : i < j /\ Replayed(q, c, i) /\ Replayed(q, c, j) => q[i].off < q[j].off
  /\ \A i \in DOMAIN q, k \in DOMAIN R : Replayed(q, c, i) => q[i].off < R[k].off
  /\ \A k, l \in DOMAIN R : k < l => R[k].off < R[l].off
ReplaysOK ==
  \A s \in Sub :
    /\ ReplayOrder(Seen(s), ceiling[s], rows[s])
    /\ sub[s] = "since" => \A i \in DOMAIN Seen(s) : ~Replayed(Seen(s), ceiling[s], i)

Single == {e \in Event : sent[e] = 1}

\* The first job of the batch that subscription s has still to see.
Ahead(s) ==
  fan[Writer] # NoFan /\ \E k \in DOMAIN fan[Writer].snap :
                           k >= fan[Writer].at /\ fan[Writer].snap[k] = s
NextFor(s) ==
  IF w.pc = "deliver" \/ (w.pc = "reply" /\ Ahead(s)) THEN w.next
  ELSE IF w.pc = "reply" THEN w.next + 1 ELSE 1

\* The live rows of envelopes published once (One) are in order, and
\* before those of N.
LiveOrder(q, c, One, N) ==
  /\ \A i, j \in DOMAIN q :
       i < j /\ q[i].off > c /\ q[j].off > c /\ q[i].e \in One /\ q[j].e \in One
       => q[i].off < q[j].off
  /\ \A i \in DOMAIN q, o \in N : q[i].off > c /\ q[i].e \in One => q[i].off < o
Coming(s) ==
  {w.offs[j] : j \in {k \in DOMAIN w.offs : /\ w.pc \in {"bump", "deliver", "reply"}
                                             /\ k >= NextFor(s) /\ w.jobs[k].e \in Single}}
LivesOK == \A s \in Sub : LiveOrder(Seen(s), ceiling[s], Single, Coming(s))

\* The offsets of a batch go up, and are new, for envelopes published once.
BatchOK ==
  /\ \A j, k \in DOMAIN w.offs :
       j < k /\ w.jobs[j].e \in Single /\ w.jobs[k].e \in Single => w.offs[j] < w.offs[k]
  /\ w.pc = "append" => \A j \in DOMAIN w.offs : w.jobs[j].e \in Single => w.offs[j] > Len(log)

\* The jobs of an envelope, those without a row, and those s has still to see.
JobsOf(q, e) == {i \in DOMAIN q : q[i].e = e}
Unrowed(e) == {j \in JobsOf(w.jobs, e) : w.pc \in {"idle", "collect", "append"} /\ j > Len(w.offs)}
Unseen(s, e) == {j \in JobsOf(w.jobs, e) : j >= NextFor(s)}
SeenAt(s, o) == {i \in DOMAIN Seen(s) : Seen(s)[i].off = o}

\* Publishes are at least the jobs under way ...
JobsCounted ==
  \A e \in Event : Cardinality(JobsOf(chan, e)) + Cardinality(JobsOf(w.jobs, e)) <= sent[e]
\* ... and one more, once there is a row ...
RowsCounted ==
  \A e \in RangeOf(TableOf(w, log)) :
    1 + Cardinality(JobsOf(chan, e)) + Cardinality(Unrowed(e)) <= sent[e]
\* ... and the live rows seen with the jobs that may still show the row.
SeenCounted ==
  \A s \in Sub : \A o \in DOMAIN log : o > ceiling[s] =>
    Cardinality(SeenAt(s, o)) + Cardinality(JobsOf(chan, log[o])) + Cardinality(Unseen(s, log[o]))
      <= sent[log[o]]

OrderInv ==
  /\ JoinOK /\ FansOK /\ ReplaysOK /\ LivesOK /\ BatchOK
  /\ JobsCounted /\ RowsCounted /\ SeenCounted

---------------------------------------------------------------------------
(* What a reader saw: queues that lose entries and grow at the end.        *)

\* r is q without some of its entries.
ThinBy(q, r, h) ==
  /\ h \in [DOMAIN r -> DOMAIN q]
  /\ \A i \in DOMAIN r : r[i] = q[h[i]]
  /\ \A i, j \in DOMAIN r : i < j => h[i] < h[j]
Thin(q, r) == \E h : ThinBy(q, r, h)
Grown(S, q, r, m) == \E t \in Seq(S) : Thin(q, t) /\ r = Append(t, m)

\* A queue that is left alone.
LEMMA ThinSame == ASSUME NEW S, NEW q \in Seq(S) PROVE Thin(q, q)
<1>1. ThinBy(q, q, [i \in DOMAIN q |-> i])
  BY DEF ThinBy
<1> QED
  BY <1>1 DEF Thin

\* retain() thins a queue.
LEMMA ThinPicked ==
  ASSUME NEW S, NEW q \in Seq(S), NEW P
  PROVE  Thin(q, Picked(q, P))
<1>1. PICK h : PicksBy(q, P, Len(q), Picked(q, P), h)
  BY PickedPicks
<1>2. ThinBy(q, Picked(q, P), h)
  BY <1>1 DEF PicksBy, ThinBy
<1> QED
  BY <1>2 DEF Thin

\* pop_front() thins a queue.
LEMMA ThinTail ==
  ASSUME NEW S, NEW q \in Seq(S), q # <<>>
  PROVE  Thin(q, Tail(q))
<1>1. ThinBy(q, Tail(q), [i \in DOMAIN Tail(q) |-> i + 1])
  BY DEF ThinBy
<1> QED
  BY <1>1 DEF Thin

\* So is all a reader saw, when its ring is.
LEMMA ThinConcat ==
  ASSUME NEW S, NEW g \in Seq(S), NEW q \in Seq(S), NEW r \in Seq(S), Thin(q, r)
  PROVE  Thin(g \o q, g \o r)
<1>1. PICK h : ThinBy(q, r, h)
  BY DEF Thin
<1>2. PICK n \in Nat : n = Len(g)
  OBVIOUS
<1>3. /\ DOMAIN (g \o q) = 1 .. (n + Len(q)) /\ DOMAIN (g \o r) = 1 .. (n + Len(r))
      /\ \A i \in 1 .. n : (g \o q)[i] = g[i] /\ (g \o r)[i] = g[i]
      /\ \A i \in 1 .. Len(q) : (g \o q)[n + i] = q[i]
      /\ \A i \in 1 .. Len(r) : (g \o r)[n + i] = r[i]
      /\ Len(q) \in Nat /\ Len(r) \in Nat /\ DOMAIN q = 1 .. Len(q) /\ DOMAIN r = 1 .. Len(r)
  BY <1>2
<1>4. PICK k : k = [i \in 1 .. (n + Len(r)) |-> IF i <= n THEN i ELSE n + h[i - n]]
  OBVIOUS
<1>5. ASSUME NEW i \in 1 .. (n + Len(r)), i > n
      PROVE  /\ i - n \in 1 .. Len(r) /\ h[i - n] \in 1 .. Len(q) /\ k[i] = n + h[i - n]
             /\ k[i] \in DOMAIN (g \o q) /\ (g \o q)[k[i]] = (g \o r)[i]
  <2>1. i - n \in 1 .. Len(r)
    BY <1>2, <1>3, <1>5
  <2>2. h[i - n] \in 1 .. Len(q) /\ r[i - n] = q[h[i - n]]
    BY <1>1, <1>3, <2>1 DEF ThinBy
  <2>3. k[i] = n + h[i - n]
    BY <1>2, <1>4, <1>5
  <2>4. (g \o r)[i] = r[i - n]
    <3>1. i = n + (i - n)
      BY <1>2
    <3> QED
      BY <1>3, <2>1, <3>1
  <2> QED
    BY <1>2, <1>3, <2>1, <2>2, <2>3, <2>4
<1>6. ASSUME NEW i \in 1 .. (n + Len(r)), i <= n
      PROVE  k[i] = i /\ k[i] \in DOMAIN (g \o q) /\ (g \o q)[k[i]] = (g \o r)[i]
  BY <1>2, <1>3, <1>4, <1>6
<1>7. \A i \in 1 .. (n + Len(r)) : k[i] \in DOMAIN (g \o q) /\ (g \o q)[k[i]] = (g \o r)[i]
  BY <1>2, <1>5, <1>6
<1>8. ASSUME NEW i \in 1 .. (n + Len(r)), NEW j \in 1 .. (n + Len(r)), i < j PROVE k[i] < k[j]
  <2>1. CASE j <= n
    BY <1>2, <1>6, <1>8, <2>1
  <2>2. CASE i <= n /\ j > n
    <3>1. k[i] = i
      BY <1>6, <2>2
    <3>2. h[j - n] \in 1 .. Len(q) /\ k[j] = n + h[j - n]
      BY <1>5, <2>2
    <3> QED
      BY <1>2, <1>3, <2>2, <3>1, <3>2
  <2>3. CASE i > n
    <3>1. i - n \in DOMAIN r /\ j - n \in DOMAIN r /\ i - n < j - n /\ j > n
      BY <1>2, <1>3, <1>8, <2>3
    <3>2. h[i - n] < h[j - n]
      BY <1>1, <3>1 DEF ThinBy
    <3> QED
      BY <1>2, <1>3, <1>5, <2>3, <3>1, <3>2
  <2> QED
    BY <1>2, <1>8, <2>1, <2>2, <2>3
<1>9. ThinBy(g \o q, g \o r, k)
  BY <1>3, <1>4, <1>7, <1>8 DEF ThinBy
<1> QED
  BY <1>9 DEF Thin

\* What a reader saw, after a push into its ring (Ring::push).
LEMMA PushedGrows ==
  ASSUME NEW S, NEW g \in Seq(S), NEW q \in Seq(S), NEW m \in S, NEW s \in Sub
  PROVE  Grown(S, g \o q, g \o Pushed(s, q, m), m)
<1>1. ASSUME NEW r \in Seq(S), Thin(q, r), Pushed(s, q, m) = Append(r, m)
      PROVE  Grown(S, g \o q, g \o Pushed(s, q, m), m)
  <2>1. g \o r \in Seq(S) /\ g \o Append(r, m) = Append(g \o r, m)
    OBVIOUS
  <2>2. Thin(g \o q, g \o r)
    BY <1>1, ThinConcat
  <2> QED
    BY <1>1, <2>1, <2>2 DEF Grown
<1>2. PICK others : others = {i \in DOMAIN q : CompactionKey(q[i].e) # CompactionKey(m.e)}
  OBVIOUS
<1>3. CASE s \in Latest
  <2>1. PICK r : r = Picked(q, others)
    OBVIOUS
  <2>2. r \in Seq(S) /\ Thin(q, r)
    BY <2>1, PickedPicks, ThinPicked
  <2>3. Pushed(s, q, m) = Append(r, m)
    BY <1>2, <1>3, <2>1 DEF Pushed
  <2> QED
    BY <1>1, <2>2, <2>3
<1>4. CASE s \notin Latest /\ Len(q) >= Cap[s] /\ m.e \notin Durable
  <2>1. q # <<>>
    BY <1>4, HubAssumption
  <2>2. Tail(q) \in Seq(S) /\ Thin(q, Tail(q))
    BY <2>1, ThinTail
  <2>3. Pushed(s, q, m) = Append(Tail(q), m)
    BY <1>4 DEF Pushed
  <2> QED
    BY <1>1, <2>2, <2>3
<1>5. CASE s \notin Latest /\ ~(Len(q) >= Cap[s] /\ m.e \notin Durable)
  <2>1. Pushed(s, q, m) = Append(q, m)
    BY <1>5 DEF Pushed
  <2> QED
    BY <1>1, <2>1, ThinSame
<1> QED
  BY <1>3, <1>4, <1>5

\* How often offset o is in a queue.
At(q, o) == {i \in DOMAIN q : q[i].off = o}

\* The positions of a queue are finitely many.
LEMMA PositionsAreFinite ==
  ASSUME NEW S, NEW q \in Seq(S), NEW T, T \subseteq DOMAIN q
  PROVE  IsFiniteSet(T) /\ Cardinality(T) \in Nat
<1>1. PICK n \in Nat : DOMAIN q = 1 .. n
  OBVIOUS
<1>2. IsFiniteSet(1 .. n)
  BY <1>1, FS_Interval
<1>3. IsFiniteSet(T)
  BY <1>1, <1>2, FS_Subset
<1> QED
  BY <1>3, FS_CardinalityType

\* A set with one member more.
LEMMA OneMore ==
  ASSUME NEW T, NEW x, IsFiniteSet(T)
  PROVE  /\ IsFiniteSet(T \cup {x}) /\ Cardinality(T) \in Nat /\ Cardinality(T \cup {x}) \in Nat
         /\ Cardinality(T \cup {x}) <= Cardinality(T) + 1
         /\ x \notin T => Cardinality(T \cup {x}) = Cardinality(T) + 1
<1>1. PICK U : U = T \cup {x}
  OBVIOUS
<1>2. /\ IsFiniteSet(U) /\ Cardinality(T) \in Nat
      /\ Cardinality(U) = IF x \in T THEN Cardinality(T) ELSE Cardinality(T) + 1
  BY <1>1, FS_AddElement, FS_CardinalityType
<1> QED
  BY <1>1, <1>2

\* A queue that loses entries does not show a row more often.
LEMMA AtThin ==
  ASSUME NEW S, NEW q \in Seq(S), NEW r \in Seq(S), Thin(q, r), NEW o
  PROVE  Cardinality(At(r, o)) <= Cardinality(At(q, o))
<1>1. PICK h : ThinBy(q, r, h)
  BY DEF Thin
<1>2. PICK f : f = [i \in At(r, o) |-> h[i]]
  OBVIOUS
<1>3. \A i \in At(r, o) : f[i] = h[i] /\ i \in DOMAIN r /\ h[i] \in At(q, o)
  BY <1>1, <1>2 DEF ThinBy, At
<1>4. ASSUME NEW i \in At(r, o), NEW j \in At(r, o), f[i] = f[j] PROVE i = j
  <2>1. i \in DOMAIN r /\ j \in DOMAIN r /\ h[i] = h[j]
    BY <1>3, <1>4
  <2>2. i \in Int /\ j \in Int /\ h[i] \in Int /\ h[j] \in Int
    BY <1>1, <2>1 DEF ThinBy
  <2>3. ~(i < j) /\ ~(j < i)
    BY <1>1, <2>1, <2>2 DEF ThinBy
  <2> QED
    BY <2>2, <2>3
<1>5. f \in Injection(At(r, o), At(q, o))
  BY <1>2, <1>3, <1>4 DEF Injection, IsInjective
<1>6. IsFiniteSet(At(q, o))
  BY PositionsAreFinite DEF At
<1> QED
  BY <1>5, <1>6, FS_Injection

\* An entry at the end of a queue is one more.
LEMMA AtAppend ==
  ASSUME NEW S, NEW t \in Seq(S), NEW m \in S, NEW o
  PROVE  /\ Cardinality(At(Append(t, m), o)) <= Cardinality(At(t, o)) + 1
         /\ m.off # o => At(Append(t, m), o) = At(t, o)
<1>1. PICK n \in Nat : n = Len(t)
  OBVIOUS
<1>2. /\ DOMAIN t = 1 .. n /\ DOMAIN Append(t, m) = 1 .. (n + 1)
      /\ Append(t, m)[n + 1] = m /\ \A i \in 1 .. n : Append(t, m)[i] = t[i]
  BY <1>1
<1>3. /\ At(Append(t, m), o) \subseteq At(t, o) \cup {n + 1}
      /\ m.off # o => At(Append(t, m), o) = At(t, o)
  BY <1>1, <1>2 DEF At
<1>4. IsFiniteSet(At(t, o)) /\ Cardinality(At(t, o)) \in Nat
  BY PositionsAreFinite DEF At
<1>5. /\ IsFiniteSet(At(t, o) \cup {n + 1})
      /\ Cardinality(At(t, o) \cup {n + 1}) <= Cardinality(At(t, o)) + 1
  BY <1>4, OneMore
<1>6. Cardinality(At(Append(t, m), o)) <= Cardinality(At(t, o) \cup {n + 1})
  BY <1>3, <1>5, FS_Subset
<1>7. /\ Cardinality(At(Append(t, m), o)) \in Nat
      /\ Cardinality(At(t, o) \cup {n + 1}) \in Nat
  BY <1>2, <1>5, PositionsAreFinite, FS_CardinalityType, FS_Subset, <1>3
<1> QED
  BY <1>3, <1>4, <1>5, <1>6, <1>7

\* A queue that is pushed to shows one row more, the one pushed.
LEMMA AtGrown ==
  ASSUME NEW S, NEW q \in Seq(S), NEW r, NEW m \in S, Grown(S, q, r, m), NEW o
  PROVE  /\ Cardinality(At(r, o)) <= Cardinality(At(q, o)) + 1
         /\ m.off # o => Cardinality(At(r, o)) <= Cardinality(At(q, o))
<1>1. PICK t \in Seq(S) : Thin(q, t) /\ r = Append(t, m)
  BY DEF Grown
<1>2. Cardinality(At(t, o)) <= Cardinality(At(q, o))
  BY <1>1, AtThin
<1>3. /\ Cardinality(At(r, o)) <= Cardinality(At(t, o)) + 1
      /\ m.off # o => At(r, o) = At(t, o)
  BY <1>1, AtAppend
<1>4. r \in Seq(S)
  BY <1>1
<1>5. /\ Cardinality(At(q, o)) \in Nat /\ Cardinality(At(t, o)) \in Nat
      /\ Cardinality(At(r, o)) \in Nat
  BY <1>4, PositionsAreFinite DEF At
<1> QED
  BY <1>2, <1>3, <1>5

\* What was replayed stays in order when entries go.
LEMMA ReplayThin ==
  ASSUME NEW q \in Seq(Published), NEW r \in Seq(Published), Thin(q, r), NEW c \in Nat, NEW R,
         ReplayOrder(q, c, R)
  PROVE  ReplayOrder(r, c, R)
<1>1. PICK h : ThinBy(q, r, h)
  BY DEF Thin
<1>2. \A i \in DOMAIN r : h[i] \in DOMAIN q /\ r[i] = q[h[i]]
  BY <1>1 DEF ThinBy
<1>3. \A i, j \in DOMAIN r : i < j => h[i] < h[j]
  BY <1>1 DEF ThinBy
<1>4. \A i, j \in DOMAIN r : i < j /\ Replayed(r, c, i) /\ Replayed(r, c, j) => r[i].off < r[j].off
  BY <1>2, <1>3 DEF ReplayOrder, Replayed
<1>5. \A i \in DOMAIN r, k \in DOMAIN R : Replayed(r, c, i) => r[i].off < R[k].off
  BY <1>2 DEF ReplayOrder, Replayed
<1> QED
  BY <1>4, <1>5 DEF ReplayOrder

\* A live row is not one of the replay.
LEMMA ReplayLive ==
  ASSUME NEW q \in Seq(Published), NEW r, NEW m \in Published, Grown(Published, q, r, m),
         NEW c \in Nat, ~(m.off > 0 /\ m.off <= c), NEW R, ReplayOrder(q, c, R)
  PROVE  ReplayOrder(r, c, R)
<1>1. PICK t \in Seq(Published) : Thin(q, t) /\ r = Append(t, m)
  BY DEF Grown
<1>2. ReplayOrder(t, c, R)
  BY <1>1, ReplayThin
<1>3. PICK n \in Nat : n = Len(t)
  OBVIOUS
<1>4. /\ DOMAIN t = 1 .. n /\ DOMAIN r = 1 .. (n + 1) /\ r[n + 1] = m
      /\ \A i \in 1 .. n : r[i] = t[i]
  BY <1>1, <1>3
<1>5. \A i \in DOMAIN r : Replayed(r, c, i) => i \in DOMAIN t /\ r[i] = t[i] /\ Replayed(t, c, i)
  BY <1>3, <1>4 DEF Replayed
<1> QED
  BY <1>2, <1>4, <1>5 DEF ReplayOrder

\* One row of the replay is taken (the loop of subscribe).
LEMMA ReplayTakes ==
  ASSUME NEW q \in Seq(Published), NEW c \in Nat, NEW R \in Seq(Published), R # <<>>,
         ReplayOrder(q, c, R)
  PROVE  /\ ReplayOrder(q, c, Tail(R))
         /\ \A r : Grown(Published, q, r, Head(R)) => ReplayOrder(r, c, Tail(R))
<1>1. \A k \in DOMAIN Tail(R) : k + 1 \in DOMAIN R /\ Tail(R)[k] = R[k + 1] /\ k \in Nat \ {0}
  OBVIOUS
<1>2. ReplayOrder(q, c, Tail(R))
  <2>1. \A k, l \in DOMAIN Tail(R) : k < l => k + 1 < l + 1
    BY <1>1
  <2> QED
    BY <1>1, <2>1 DEF ReplayOrder
<1>3. ASSUME NEW r, Grown(Published, q, r, Head(R)) PROVE ReplayOrder(r, c, Tail(R))
  <2>1. PICK m \in Published : m = Head(R) /\ m = R[1] /\ 1 \in DOMAIN R
    OBVIOUS
  <2>2. PICK t \in Seq(Published) : Thin(q, t) /\ r = Append(t, m)
    BY <1>3, <2>1 DEF Grown
  <2>3. ReplayOrder(t, c, R) /\ ReplayOrder(t, c, Tail(R))
    BY <1>2, <2>2, ReplayThin
  <2>4. PICK n \in Nat : n = Len(t)
    OBVIOUS
  <2>5. /\ DOMAIN t = 1 .. n /\ DOMAIN r = 1 .. (n + 1) /\ r[n + 1] = m
        /\ \A i \in 1 .. n : r[i] = t[i]
    BY <2>2, <2>4
  <2>6. \A i \in DOMAIN r : i = n + 1 \/ (i \in DOMAIN t /\ r[i] = t[i])
    BY <2>4, <2>5
  <2>7. ASSUME NEW i \in DOMAIN r, NEW j \in DOMAIN r, i < j, Replayed(r, c, i), Replayed(r, c, j)
        PROVE  r[i].off < r[j].off
    <3>1. i \in DOMAIN t /\ r[i] = t[i] /\ Replayed(t, c, i)
      BY <2>4, <2>5, <2>6, <2>7 DEF Replayed
    <3>2. CASE j = n + 1
      BY <2>1, <2>3, <2>5, <3>1, <3>2 DEF ReplayOrder
    <3>3. CASE j # n + 1
      <4>1. j \in DOMAIN t /\ r[j] = t[j] /\ Replayed(t, c, j)
        BY <2>6, <2>7, <3>3 DEF Replayed
      <4> QED
        BY <2>3, <2>7, <3>1, <4>1 DEF ReplayOrder
    <3> QED
      BY <3>2, <3>3
  <2>8. ASSUME NEW i \in DOMAIN r, NEW k \in DOMAIN Tail(R), Replayed(r, c, i)
        PROVE  r[i].off < Tail(R)[k].off
    <3>1. CASE i = n + 1
      <4>1. 1 < k + 1 /\ k + 1 \in DOMAIN R
        BY <1>1
      <4> QED
        BY <1>1, <2>1, <2>3, <2>5, <3>1, <4>1 DEF ReplayOrder
    <3>2. CASE i # n + 1
      <4>1. i \in DOMAIN t /\ r[i] = t[i] /\ Replayed(t, c, i)
        BY <2>6, <2>8, <3>2 DEF Replayed
      <4> QED
        BY <2>3, <4>1 DEF ReplayOrder
    <3> QED
      BY <3>1, <3>2
  <2> QED
    BY <2>3, <2>7, <2>8 DEF ReplayOrder
<1> QED
  BY <1>2, <1>3

\* Live rows stay in order when entries go, jobs are done and envelopes are
\* published again.
LEMMA LiveThin ==
  ASSUME NEW q \in Seq(Published), NEW r \in Seq(Published), Thin(q, r), NEW c \in Nat,
         NEW One, NEW Two, \A i \in DOMAIN q : q[i].off > c /\ q[i].e \in Two => q[i].e \in One,
         NEW N, NEW M, M \subseteq N, LiveOrder(q, c, One, N)
  PROVE  LiveOrder(r, c, Two, M)
<1>1. PICK h : ThinBy(q, r, h)
  BY DEF Thin
<1>2. \A i \in DOMAIN r : h[i] \in DOMAIN q /\ r[i] = q[h[i]]
  BY <1>1 DEF ThinBy
<1>3. \A i, j \in DOMAIN r : i < j => h[i] < h[j]
  BY <1>1 DEF ThinBy
<1>4. ASSUME NEW i \in DOMAIN r, NEW j \in DOMAIN r, i < j, r[i].off > c, r[j].off > c,
             r[i].e \in Two, r[j].e \in Two
      PROVE  r[i].off < r[j].off
  BY <1>2, <1>3, <1>4 DEF LiveOrder
<1>5. \A i \in DOMAIN r, o \in M : r[i].off > c /\ r[i].e \in Two => r[i].off < o
  BY <1>2 DEF LiveOrder
<1> QED
  BY <1>4, <1>5 DEF LiveOrder

\* A live row that is pushed was to come, and comes before those still to come.
LEMMA LiveGrown ==
  ASSUME NEW q \in Seq(Published), NEW r, NEW m \in Published, Grown(Published, q, r, m),
         NEW c \in Nat, NEW One, NEW N, NEW M, M \subseteq N, LiveOrder(q, c, One, N),
         m.off > c /\ m.e \in One => m.off \in N /\ \A o \in M : m.off < o
  PROVE  LiveOrder(r, c, One, M)
<1>1. PICK t \in Seq(Published) : Thin(q, t) /\ r = Append(t, m)
  BY DEF Grown
<1>2. LiveOrder(t, c, One, N)
  BY <1>1, LiveThin
<1>3. PICK n \in Nat : n = Len(t)
  OBVIOUS
<1>4. /\ DOMAIN t = 1 .. n /\ DOMAIN r = 1 .. (n + 1) /\ r[n + 1] = m
      /\ \A i \in 1 .. n : r[i] = t[i]
  BY <1>1, <1>3
<1>5. \A i \in DOMAIN r : i = n + 1 \/ (i \in DOMAIN t /\ r[i] = t[i])
  BY <1>3, <1>4
<1>6. ASSUME NEW i \in DOMAIN r, NEW j \in DOMAIN r, i < j, r[i].off > c, r[j].off > c,
             r[i].e \in One, r[j].e \in One
      PROVE  r[i].off < r[j].off
  <2>1. i \in DOMAIN t /\ r[i] = t[i]
    BY <1>3, <1>4, <1>5, <1>6
  <2>2. CASE j = n + 1
    BY <1>2, <1>4, <1>6, <2>1, <2>2 DEF LiveOrder
  <2>3. CASE j # n + 1
    BY <1>2, <1>5, <1>6, <2>1, <2>3 DEF LiveOrder
  <2> QED
    BY <2>2, <2>3
<1>7. ASSUME NEW i \in DOMAIN r, NEW o \in M, r[i].off > c, r[i].e \in One PROVE r[i].off < o
  BY <1>2, <1>4, <1>5, <1>7 DEF LiveOrder
<1> QED
  BY <1>6, <1>7 DEF LiveOrder

---------------------------------------------------------------------------
(* The list of subscriptions.                                              *)

\* retain() leaves a list without doubles.
LEMMA KeptIsOK ==
  ASSUME NEW list \in Seq(Sub), NEW ph, ListOK(list, ph)
  PROVE  Kept(list) \in Seq(Sub) /\ ListOK(Kept(list), ph)
<1>1. PICK t : t = Kept(list)
  OBVIOUS
<1>2. t \in Seq(Sub) /\ Thin(list, t)
  BY <1>1, PickedPicks, ThinPicked DEF Kept
<1>3. PICK h : ThinBy(list, t, h)
  BY <1>2 DEF Thin
<1>4. \A i \in DOMAIN t : h[i] \in DOMAIN list /\ t[i] = list[h[i]] /\ i \in Int /\ h[i] \in Int
  BY <1>2, <1>3 DEF ThinBy
<1>5. ASSUME NEW i \in DOMAIN t, NEW j \in DOMAIN t, t[i] = t[j] PROVE i = j
  <2>1. h[i] = h[j]
    BY <1>4, <1>5 DEF ListOK, Distinct
  <2>2. ~(i < j) /\ ~(j < i)
    BY <1>3, <1>4, <2>1 DEF ThinBy
  <2> QED
    BY <1>4, <2>2
<1>6. \A i \in DOMAIN t : ph[t[i]] \notin Unregistered
  BY <1>4 DEF ListOK
<1> QED
  BY <1>1, <1>2, <1>5, <1>6 DEF ListOK, Distinct

\* A subscription that registered stays so, or goes.
LEMMA SubsMoveOn ==
  HubInv /\ Next => \A s \in Sub : sub[s] \notin Unregistered => sub'[s] \notin Unregistered
<1> SUFFICES ASSUME HubInv, Next, NEW s \in Sub, sub[s] \notin Unregistered
             PROVE  sub'[s] \notin Unregistered
  OBVIOUS
<1> USE DEF HubInv, ListsOK, Unregistered
<1>1. ASSUME UNCHANGED sub PROVE sub'[s] \notin Unregistered
  BY <1>1
<1>2. ASSUME NEW p \in Pub, Produce(p) PROVE sub'[s] \notin Unregistered
  BY <1>1, <1>2 DEF Produce, PublishBlocked, PublishMemory, PublishDurable, subVars
<1>3. ASSUME NEW p \in Pub \cup {Writer}, FanStep(p) \/ FanEnd(p) PROVE sub'[s] \notin Unregistered
  BY <1>1, <1>3 DEF FanStep, FanEnd, subVars
<1>4. ASSUME WriterStep PROVE sub'[s] \notin Unregistered
  BY <1>1, <1>4 DEF WriterStep, Collect, Begin, InsertRow, Commit, Rollback, Bump, Deliver, Reply,
     writerFrame, subVars
<1>5. ASSUME NEW z \in Sub, ReadCeiling(z) \/ Joining(z) \/ ReaderStep(z) \/ Drop(z)
      PROVE  sub'[s] \notin Unregistered
  BY <1>5 DEF ReadCeiling, Joining, Register, ReadLog, ReadLogFails, ReplayRow, ReplayEnd, ReaderStep,
     Recv, Look, Wait, Wake, Drop, subVars
<1>6. ASSUME NEW e \in Event, Expire(e) PROVE sub'[s] \notin Unregistered
  BY <1>1, <1>6 DEF Expire, subVars
<1>7. ASSUME Crash PROVE sub'[s] \notin Unregistered
  BY <1>7 DEF Crash
<1> QED
  BY <1>2, <1>3, <1>4, <1>5, <1>6, <1>7 DEF Next

\* A list stays one of registered subscriptions.
LEMMA ListStays ==
  ASSUME HubInv, Next, NEW list \in Seq(Sub), ListOK(list, sub)
  PROVE  ListOK(list, sub')
BY SubsMoveOn DEF ListOK

\* subscribe() and prune() keep the list without doubles.
LEMMA ListNext == HubInv /\ JoinOK /\ Next => ListOK(subs', sub')
<1> SUFFICES ASSUME HubInv, JoinOK, Next PROVE ListOK(subs', sub')
  OBVIOUS
<1>1. subs \in Seq(Sub) /\ ListOK(subs, sub)
  BY DEF HubInv, ListsOK, JoinOK
<1>2. ASSUME subs' = subs PROVE ListOK(subs', sub')
  BY <1>1, <1>2, ListStays
<1>3. Kept(subs) \in Seq(Sub) /\ ListOK(Kept(subs), sub) /\ ListOK(Kept(subs), sub')
  BY <1>1, KeptIsOK, ListStays
<1>4. ASSUME NEW p \in Pub \cup {Writer}, FanEnd(p) PROVE ListOK(subs', sub')
  BY <1>2, <1>3, <1>4 DEF FanEnd, Pruned
<1>5. ASSUME NEW s \in Sub, Register(s) PROVE ListOK(subs', sub')
  <2>1. PICK t : t = Kept(subs)
    OBVIOUS
  <2>2. PICK n \in Nat : n = Len(t)
    BY <1>3, <2>1
  <2>3. /\ subs' = Append(t, s) /\ DOMAIN t = 1 .. n /\ DOMAIN subs' = 1 .. (n + 1)
        /\ subs'[n + 1] = s /\ \A i \in 1 .. n : subs'[i] = t[i]
    BY <1>3, <1>5, <2>1, <2>2 DEF Register
  <2>4. sub[s] = "ceiling" /\ sub'[s] \notin Unregistered
    BY <1>5 DEF Register, HubInv, ListsOK, Unregistered
  <2>5. \A i \in 1 .. n : t[i] # s
    BY <1>3, <2>1, <2>3, <2>4 DEF ListOK, Unregistered
  <2>6. \A i \in DOMAIN subs' : i = n + 1 \/ i \in 1 .. n
    BY <2>2, <2>3
  <2>7. Distinct(subs')
    <3>1. ASSUME NEW i \in DOMAIN subs', NEW j \in DOMAIN subs', subs'[i] = subs'[j] PROVE i = j
      <4>1. i = n + 1 <=> j = n + 1
        BY <2>3, <2>5, <2>6, <3>1
      <4> QED
        BY <1>3, <2>1, <2>3, <2>6, <3>1, <4>1 DEF ListOK, Distinct
    <3> QED
      BY <3>1 DEF Distinct
  <2>8. \A i \in DOMAIN subs' : sub'[subs'[i]] \notin Unregistered
    BY <1>3, <2>1, <2>3, <2>4, <2>6 DEF ListOK
  <2> QED
    BY <2>7, <2>8 DEF ListOK
<1>6. ASSUME Crash PROVE ListOK(subs', sub')
  BY <1>6 DEF Crash, ListOK, Distinct
<1>7. ASSUME NEW s \in Sub, ReadCeiling(s) \/ ReadLog(s) \/ ReadLogFails(s) \/ ReplayRow(s) \/ ReplayEnd(s)
                            \/ ReaderStep(s) \/ Drop(s)
      PROVE  subs' = subs
  BY <1>7 DEF ReadCeiling, ReadLog, ReadLogFails, ReplayRow, ReplayEnd, ReaderStep, Recv, Look, Wait, Wake, Drop
<1>8. ASSUME WriterStep PROVE subs' = subs
  BY <1>8 DEF WriterStep, Collect, Begin, InsertRow, Commit, Rollback, Bump, Deliver, Reply,
     writerFrame
<1>9. ASSUME NEW p \in Pub \cup {Writer}, FanStep(p) PROVE subs' = subs
  BY <1>9 DEF FanStep
<1>10. ASSUME NEW p \in Pub, Produce(p) PROVE subs' = subs
  BY <1>10 DEF Produce, PublishBlocked, PublishMemory, PublishDurable
<1>11. ASSUME NEW e \in Event, Expire(e) PROVE subs' = subs
  BY <1>11 DEF Expire
<1> QED
  BY <1>2, <1>4, <1>5, <1>6, <1>7, <1>8, <1>9, <1>10, <1>11 DEF Next, Joining

\* One round of the loop of fan_out, in one piece: f and g are the fan-out
\* before and after, s the subscription it comes to and m what it carries.
FanStepIs(p, f, s, m, g) ==
  /\ f = fan[p] /\ f # NoFan /\ f.at \in DOMAIN f.snap /\ s = f.snap[f.at]
  /\ m.e = f.e /\ m.off = f.off
  /\ g.e = f.e /\ g.off = f.off /\ g.snap = f.snap /\ g.at = f.at + 1 /\ g # NoFan
  /\ fan' = [fan EXCEPT ![p] = g]
  /\ \/ ring' = ring /\ (~alive[s] \/ Skips(s, m) \/ m.e \notin Wants[s])
     \/ /\ ring' = [ring EXCEPT ![s] = Pushed(s, ring[s], m)]
        /\ ~Skips(s, m) /\ m.e \in Wants[s]

\* A round of fan_out is of this form (the loop of fan_out).
LEMMA FanStepDoes ==
  ASSUME HubInv, NEW p \in Pub \cup {Writer}, FanStep(p)
  PROVE  \E f \in FanOut, s \in Sub, m \in Told(log), g \in FanOut : FanStepIs(p, f, s, m, g)
<1>1. PICK f \in FanOut : f = fan[p] /\ f # NoFan /\ [e |-> f.e, off |-> f.off] \in Told(log)
  BY DEF FanStep, HubInv, AllTold, FansIn
<1>2. f.at \in DOMAIN f.snap /\ f.snap \in Seq(Sub) /\ f.at \in Nat \ {0}
  BY <1>1 DEF FanStep, FanOut
<1>3. PICK s \in Sub : s = f.snap[f.at]
  BY <1>2
<1>4. PICK m \in Told(log) : m = [e |-> f.e, off |-> f.off]
  BY <1>1
<1>5. PICK at : at = f.at + 1
  OBVIOUS
<1>6. at \in Nat \ {0}
  BY <1>2, <1>5
<1>7. PICK dead : dead = (f.dead \/ ~alive[s])
  OBVIOUS
<1>8. dead \in BOOLEAN
  BY <1>7
<1>9. PICK g : g = [f EXCEPT !.at = at, !.dead = dead]
  OBVIOUS
<1>10. g \in FanOut /\ g.e = f.e /\ g.off = f.off /\ g.snap = f.snap /\ g.at = at
  BY <1>6, <1>8, <1>9 DEF FanOut
<1>11. g # NoFan
  <2>1. DOMAIN g = {"e", "off", "snap", "at", "dead"} /\ DOMAIN NoFan = {"snap"}
    BY <1>10 DEF FanOut, NoFan
  <2> QED
    BY <2>1
<1>12. fan' = [fan EXCEPT ![p] = g]
  BY <1>1, <1>3, <1>5, <1>7, <1>9 DEF FanStep, HubInv, AllTold, FansIn
<1>13. \/ ring' = ring /\ (~alive[s] \/ Skips(s, m) \/ m.e \notin Wants[s])
       \/ /\ ring' = [ring EXCEPT ![s] = Pushed(s, ring[s], m)]
          /\ ~Skips(s, m) /\ m.e \in Wants[s]
  BY <1>1, <1>3, <1>4 DEF FanStep, Push, ringVars
<1>14. m.e = f.e /\ m.off = f.off
  BY <1>4
<1>15. FanStepIs(p, f, s, m, g)
  BY <1>1, <1>2, <1>3, <1>5, <1>10, <1>11, <1>12, <1>13, <1>14 DEF FanStepIs
<1> QED
  BY <1>10, <1>15

\* A fan_out keeps its snapshot; a new one has the list.
LEMMA SnapNext ==
  ASSUME HubInv, Next, NEW p \in Pub \cup {Writer}, fan'[p] # NoFan
  PROVE  \/ fan'[p].snap = subs
         \/ fan[p] # NoFan /\ fan'[p].snap = fan[p].snap
<1> DEFINE Goal == fan'[p].snap = subs \/ (fan[p] # NoFan /\ fan'[p].snap = fan[p].snap)
<1>1. fan \in [Pub \cup {Writer} -> FanOut \cup {NoFan}]
  BY DEF HubInv, AllTold, FansIn
<1>2. ASSUME UNCHANGED fan PROVE Goal
  BY <1>2
<1>3. ASSUME NEW z \in Pub \cup {Writer}, NEW e, NEW o, StartFan(z, e, o) PROVE Goal
  <2>1. CASE z = p
    <3>1. fan'[p] = [e |-> e, off |-> o, snap |-> subs, at |-> 1, dead |-> FALSE]
      BY <1>1, <1>3, <2>1 DEF StartFan
    <3> QED
      BY <3>1
  <2>2. CASE z # p
    <3>1. fan'[p] = fan[p]
      BY <1>1, <1>3, <2>2 DEF StartFan
    <3> QED
      BY <3>1
  <2> QED
    BY <2>1, <2>2
<1>4. ASSUME NEW z \in Pub \cup {Writer}, FanStep(z) PROVE Goal
  <2>1. PICK f \in FanOut, s \in Sub, m \in Told(log), g \in FanOut : FanStepIs(z, f, s, m, g)
    BY <1>4, FanStepDoes
  <2>2. fan' = [fan EXCEPT ![z] = g] /\ g.snap = f.snap /\ f = fan[z] /\ f # NoFan
    BY <2>1 DEF FanStepIs
  <2> QED
    BY <1>1, <2>2
<1>5. ASSUME NEW z \in Pub \cup {Writer}, FanEnd(z) PROVE Goal
  <2>1. fan' = [fan EXCEPT ![z] = NoFan]
    BY <1>5 DEF FanEnd
  <2> QED
    BY <1>1, <2>1
<1>6. ASSUME Crash PROVE Goal
  BY <1>6 DEF Crash
<1>7. ASSUME NEW z \in Pub, Produce(z) PROVE Goal
  BY <1>2, <1>3, <1>7 DEF Produce, PublishBlocked, PublishMemory, PublishDurable
<1>8. ASSUME WriterStep PROVE Goal
  BY <1>2, <1>3, <1>8 DEF WriterStep, Collect, Begin, InsertRow, Commit, Rollback, Bump, Deliver, Reply
<1>9. ASSUME NEW s \in Sub, ReadCeiling(s) \/ Joining(s) \/ ReaderStep(s) \/ Drop(s) PROVE Goal
  BY <1>2, <1>9 DEF ReadCeiling, Joining, Register, ReadLog, ReadLogFails, ReplayRow, ReplayEnd, ReaderStep,
     Recv, Look, Wait, Wake, Drop, subFrame
<1>10. ASSUME NEW e \in Event, Expire(e) PROVE Goal
  BY <1>2, <1>10 DEF Expire
<1> QED
  BY <1>4, <1>5, <1>6, <1>7, <1>8, <1>9, <1>10 DEF Next

\* A subscription that has not registered has nothing (subscribe).
LEMMA EmptyNext ==
  ASSUME HubInv, JoinOK, Next, NEW s \in Sub, sub'[s] \in Unregistered
  PROVE  got'[s] = <<>> /\ ring'[s] = <<>> /\ rows'[s] = <<>>
<1> DEFINE Goal == got'[s] = <<>> /\ ring'[s] = <<>> /\ rows'[s] = <<>>
<1>1. sub[s] \in Unregistered
  BY SubsMoveOn
<1>2. got[s] = <<>> /\ ring[s] = <<>> /\ rows[s] = <<>>
  BY <1>1 DEF JoinOK
<1>3. /\ rows \in [Sub -> Seq(Told(log))] /\ ring \in [Sub -> Seq(Told(log))]
      /\ got \in [Sub -> Seq(Told(log))] /\ sub \in [Sub -> Phase]
  BY DEF HubInv, AllTold, RingsIn, ListsOK
<1>4. ASSUME UNCHANGED <<got, ring, rows>> PROVE Goal
  BY <1>2, <1>4
<1>5. ASSUME NEW p \in Pub, Produce(p) PROVE Goal
  BY <1>4, <1>5 DEF Produce, PublishBlocked, PublishMemory, PublishDurable, subVars, ringVars
<1>6. ASSUME NEW p \in Pub \cup {Writer}, FanStep(p) PROVE Goal
  <2>1. PICK f \in FanOut, z \in Sub, m \in Told(log), g \in FanOut : FanStepIs(p, f, z, m, g)
    BY <1>6, FanStepDoes
  <2>2. z # s
    BY <1>1, <2>1 DEF FanStepIs, JoinOK, ListOK
  <2>3. ring'[s] = ring[s]
    BY <1>3, <2>1, <2>2 DEF FanStepIs
  <2> QED
    BY <1>2, <1>6, <2>3 DEF FanStep, subVars
<1>7. ASSUME NEW p \in Pub \cup {Writer}, FanEnd(p) PROVE Goal
  BY <1>4, <1>7 DEF FanEnd, subVars, ringVars
<1>8. ASSUME WriterStep PROVE Goal
  BY <1>4, <1>8 DEF WriterStep, Collect, Begin, InsertRow, Commit, Rollback, Bump, Deliver, Reply,
     writerFrame, subVars, ringVars
<1>9. ASSUME NEW z \in Sub, ReadCeiling(z) \/ Register(z) \/ ReplayEnd(z) \/ ReadLogFails(z) \/ Look(z) \/ Wait(z)
                            \/ Wake(z) \/ Drop(z)
      PROVE  Goal
  BY <1>4, <1>9 DEF ReadCeiling, Register, ReplayEnd, ReadLogFails, Look, Wait, Wake, Drop, ringVars
<1>10. ASSUME NEW z \in Sub, ReadLog(z) PROVE Goal
  <2>1. z # s
    BY <1>1, <1>10 DEF ReadLog, ReadLogFails, Unregistered
  <2> QED
    BY <1>2, <1>3, <1>10, <2>1 DEF ReadLog, ReadLogFails, ringVars
<1>11. ASSUME NEW z \in Sub, ReplayRow(z) PROVE Goal
  <2>1. z # s
    BY <1>1, <1>11 DEF ReplayRow, Unregistered
  <2>2. ring'[s] = ring[s] /\ rows'[s] = rows[s]
    BY <1>3, <1>11, <2>1 DEF ReplayRow, Push, ringVars
  <2> QED
    BY <1>2, <1>11, <2>2 DEF ReplayRow
<1>12. ASSUME NEW z \in Sub, Recv(z) PROVE Goal
  <2>1. z # s
    BY <1>1, <1>12 DEF Recv, Unregistered
  <2> QED
    BY <1>2, <1>3, <1>12, <2>1 DEF Recv, subVars
<1>13. ASSUME NEW e \in Event, Expire(e) PROVE Goal
  BY <1>4, <1>13 DEF Expire, subVars, ringVars
<1>14. ASSUME Crash PROVE Goal
  BY <1>2, <1>14 DEF Crash
<1> QED
  BY <1>5, <1>6, <1>7, <1>8, <1>9, <1>10, <1>11, <1>12, <1>13, <1>14
  DEF Next, Joining, ReaderStep

\* Before durable.since() there is no row to replay.
LEMMA SinceNext ==
  ASSUME HubInv, JoinOK, Next, NEW s \in Sub, sub'[s] = "since"
  PROVE  rows'[s] = <<>> /\ (sub[s] = "since" \/ Register(s))
<1> DEFINE Goal == rows'[s] = <<>> /\ (sub[s] = "since" \/ Register(s))
<1>1. rows \in [Sub -> Seq(Told(log))] /\ sub \in [Sub -> Phase]
  BY DEF HubInv, AllTold, RingsIn, ListsOK
<1>2. ASSUME UNCHANGED <<sub, rows>> PROVE Goal
  BY <1>2 DEF JoinOK
<1>3. ASSUME NEW p \in Pub, Produce(p) PROVE Goal
  BY <1>2, <1>3 DEF Produce, PublishBlocked, PublishMemory, PublishDurable, subVars
<1>4. ASSUME NEW p \in Pub \cup {Writer}, FanStep(p) \/ FanEnd(p) PROVE Goal
  BY <1>2, <1>4 DEF FanStep, FanEnd, subVars
<1>5. ASSUME WriterStep PROVE Goal
  BY <1>2, <1>5 DEF WriterStep, Collect, Begin, InsertRow, Commit, Rollback, Bump, Deliver, Reply,
     writerFrame, subVars
<1>6. ASSUME NEW z \in Sub, ReadCeiling(z) \/ ReplayEnd(z) \/ ReadLogFails(z) \/ Look(z) \/ Wait(z)
                            \/ Wake(z) \/ Drop(z) \/ Recv(z)
      PROVE  Goal
  BY <1>1, <1>6 DEF ReadCeiling, ReplayEnd, ReadLogFails, Look, Wait, Wake, Drop, Recv, subVars, JoinOK
<1>7. ASSUME NEW z \in Sub, Register(z) PROVE Goal
  BY <1>1, <1>7 DEF Register, JoinOK, Unregistered
<1>8. ASSUME NEW z \in Sub, ReadLog(z) PROVE Goal
  BY <1>1, <1>8 DEF ReadLog, ReadLogFails, JoinOK
<1>9. ASSUME NEW z \in Sub, ReplayRow(z) PROVE Goal
  BY <1>1, <1>9 DEF ReplayRow, JoinOK
<1>10. ASSUME NEW e \in Event, Expire(e) PROVE Goal
  BY <1>2, <1>10 DEF Expire, subVars
<1>11. ASSUME Crash PROVE Goal
  BY <1>11 DEF Crash
<1> QED
  BY <1>3, <1>4, <1>5, <1>6, <1>7, <1>8, <1>9, <1>10, <1>11 DEF Next, Joining, ReaderStep

\* Subscriptions join once, and have nothing before.
LEMMA JoinOKNext == HubInv /\ JoinOK /\ Next => JoinOK'
<1> SUFFICES ASSUME HubInv, JoinOK, Next PROVE JoinOK'
  OBVIOUS
<1>1. ListOK(subs', sub')
  BY ListNext
<1>2. ASSUME NEW p \in Pub \cup {Writer}, fan'[p] # NoFan PROVE ListOK(fan'[p].snap, sub')
  <2>1. CASE fan'[p].snap = subs
    BY <2>1, ListStays DEF HubInv, ListsOK, JoinOK
  <2>2. CASE fan[p] # NoFan /\ fan'[p].snap = fan[p].snap
    <3>1. fan[p].snap \in Seq(Sub) /\ ListOK(fan[p].snap, sub)
      BY <2>2 DEF HubInv, AllTold, FansIn, FanOut, JoinOK
    <3> QED
      BY <2>2, <3>1, ListStays
  <2> QED
    BY <1>2, <2>1, <2>2, SnapNext
<1> QED
  BY <1>1, <1>2, EmptyNext, SinceNext DEF JoinOK

\* The fan-outs of producers carry no offset, and the writer's is of its job.
LEMMA FansOKNext == HubInv /\ FansOK /\ Next => FansOK'
<1> SUFFICES ASSUME HubInv, FansOK, Next PROVE FansOK'
  OBVIOUS
<1>1. fan \in [Pub \cup {Writer} -> FanOut \cup {NoFan}] /\ Writer \notin Pub
  BY HubAssumption DEF HubInv, AllTold, FansIn
<1>2. ASSUME UNCHANGED <<fan, w>> PROVE FansOK'
  BY <1>2 DEF FansOK, CurrentJob, OffsetAt
<1>3. ASSUME NEW p \in Pub, NEW e, StartFan(p, e, 0), w' = w PROVE FansOK'
  <2>1. fan'[Writer] = fan[Writer] /\ \A z \in Pub : z # p => fan'[z] = fan[z]
    BY <1>1, <1>3 DEF StartFan
  <2>2. fan'[p] # NoFan => fan'[p] = [e |-> e, off |-> 0, snap |-> subs, at |-> 1, dead |-> FALSE]
    BY <1>1, <1>3 DEF StartFan
  <2>3. fan'[p] # NoFan => fan'[p].off = 0
    BY <2>2
  <2> QED
    BY <1>3, <2>1, <2>3 DEF FansOK, CurrentJob, OffsetAt
<1>4. ASSUME NEW p \in Pub, Produce(p) PROVE FansOK'
  BY <1>2, <1>3, <1>4 DEF Produce, PublishBlocked, PublishMemory, PublishDurable
<1>5. ASSUME NEW p \in Pub \cup {Writer}, FanStep(p) PROVE FansOK'
  <2>1. PICK f \in FanOut, s \in Sub, m \in Told(log), g \in FanOut : FanStepIs(p, f, s, m, g)
    BY <1>5, FanStepDoes
  <2>2. /\ fan' = [fan EXCEPT ![p] = g] /\ fan[p] # NoFan /\ w' = w
        /\ g.e = fan[p].e /\ g.off = fan[p].off
    BY <1>5, <2>1 DEF FanStepIs, FanStep
  <2> QED
    BY <1>1, <2>2 DEF FansOK, CurrentJob, OffsetAt
<1>6. ASSUME NEW p \in Pub \cup {Writer}, FanEnd(p) PROVE FansOK'
  <2>1. fan' = [fan EXCEPT ![p] = NoFan] /\ w' = w
    BY <1>6 DEF FanEnd
  <2> QED
    BY <1>1, <2>1 DEF FansOK, CurrentJob, OffsetAt
<1>7. w \in WriterTask
  BY DEF HubInv, WriterOK, WriterIs
<1>8. ASSUME Deliver PROVE FansOK'
  <2>1. /\ w'.pc = "reply" /\ w'.next = w.next /\ w'.jobs = w.jobs /\ w'.offs = w.offs
    BY <1>7, <1>8 DEF Deliver, WriterTask
  <2>2. \A p \in Pub : fan'[p] = fan[p]
    BY <1>1, <1>8 DEF Deliver, StartFan
  <2>3. fan'[Writer] # NoFan =>
          fan'[Writer] = [e |-> CurrentJob.e, off |-> OffsetAt(w.next), snap |-> subs, at |-> 1,
                          dead |-> FALSE]
    BY <1>1, <1>8 DEF Deliver, StartFan
  <2>4. fan'[Writer] # NoFan => fan'[Writer].e = CurrentJob.e /\ fan'[Writer].off = OffsetAt(w.next)
    BY <2>3
  <2> QED
    BY <2>1, <2>2, <2>4 DEF FansOK, CurrentJob, OffsetAt
<1>9. ASSUME WriterStep, ~Deliver PROVE FansOK'
  <2>1. fan' = fan /\ fan[Writer] = NoFan
    BY <1>9 DEF WriterStep, Collect, Begin, InsertRow, Commit, Rollback, Bump, Reply, FansOK
  <2> QED
    BY <2>1 DEF FansOK
<1>10. ASSUME Crash PROVE FansOK'
  BY <1>10 DEF Crash, FansOK
<1>11. ASSUME NEW s \in Sub, ReadCeiling(s) \/ Joining(s) \/ ReaderStep(s) \/ Drop(s) PROVE FansOK'
  BY <1>2, <1>11 DEF ReadCeiling, Joining, Register, ReadLog, ReadLogFails, ReplayRow, ReplayEnd, ReaderStep,
     Recv, Look, Wait, Wake, Drop, subFrame
<1>12. ASSUME NEW e \in Event, Expire(e) PROVE FansOK'
  BY <1>2, <1>12 DEF Expire
<1> QED
  BY <1>4, <1>5, <1>6, <1>8, <1>9, <1>10, <1>11, <1>12 DEF Next

---------------------------------------------------------------------------
(* Replays.                                                                *)

\* What a reader saw is a queue of what publish() hands out.
LEMMA SeenIsQueue ==
  ASSUME HubInv, NEW s \in Sub
  PROVE  /\ got[s] \in Seq(Published) /\ ring[s] \in Seq(Published) /\ rows[s] \in Seq(Published)
         /\ Seen(s) \in Seq(Published) /\ Seen(s) \in Seq(Told(log))
<1>1. PICK S : S = Told(log)
  OBVIOUS
<1>2. S \subseteq Published
  BY <1>1 DEF Told
<1>3. got[s] \in Seq(S) /\ ring[s] \in Seq(S) /\ rows[s] \in Seq(S)
  BY <1>1 DEF HubInv, AllTold, RingsIn
<1>4. Seen(s) \in Seq(S)
  BY <1>3 DEF Seen
<1>5. \A q \in Seq(S) : q \in Seq(Published)
  BY <1>2
<1> QED
  BY <1>1, <1>3, <1>4, <1>5

\* fan_out pushes into one ring, and skips what the replay covers.
LEMMA FanGrows ==
  ASSUME HubInv, NEW p \in Pub \cup {Writer}, FanStep(p), NEW f, NEW z \in Sub,
         NEW m \in Told(log), NEW g, FanStepIs(p, f, z, m, g)
  PROVE  /\ \A s \in Sub : s # z => Seen(s)' = Seen(s)
         /\ \/ Seen(z)' = Seen(z)
            \/ Grown(Published, Seen(z), Seen(z)', m) /\ ~Skips(z, m)
<1>1. got' = got /\ ring \in [Sub -> Seq(Told(log))]
  BY DEF FanStep, HubInv, AllTold, RingsIn
<1>2. CASE ring' = ring
  BY <1>1, <1>2 DEF Seen
<1>3. CASE ring' = [ring EXCEPT ![z] = Pushed(z, ring[z], m)] /\ ~Skips(z, m)
  <2>1. \A s \in Sub : s # z => Seen(s)' = Seen(s)
    BY <1>1, <1>3 DEF Seen
  <2>2. Seen(z)' = got[z] \o Pushed(z, ring[z], m)
    BY <1>1, <1>3 DEF Seen
  <2>3. m \in Published
    BY DEF Told
  <2>4. Grown(Published, got[z] \o ring[z], got[z] \o Pushed(z, ring[z], m), m)
    BY <2>3, SeenIsQueue, PushedGrows
  <2> QED
    BY <1>3, <2>1, <2>2, <2>4 DEF Seen
<1> QED
  BY <1>2, <1>3 DEF FanStepIs

\* A replay pushes into its own ring, up to the ceiling.
LEMMA ReplayGrows ==
  ASSUME HubInv, NEW z \in Sub, ReplayRow(z)
  PROVE  /\ \A s \in Sub : s # z => Seen(s)' = Seen(s) /\ rows'[s] = rows[s]
         /\ rows[z] # <<>> /\ Head(rows[z]) \in Published /\ rows'[z] = Tail(rows[z])
         /\ \/ Seen(z)' = Seen(z)
            \/ /\ Grown(Published, Seen(z), Seen(z)', Head(rows[z]))
               /\ Head(rows[z]).off <= ceiling[z]
<1>1. /\ got' = got /\ ring \in [Sub -> Seq(Told(log))] /\ rows \in [Sub -> Seq(Told(log))]
      /\ rows[z] # <<>> /\ rows' = [rows EXCEPT ![z] = Tail(@)]
  BY DEF ReplayRow, HubInv, AllTold, RingsIn
<1>2. PICK m \in Published : m = Head(rows[z])
  BY <1>1, SeenIsQueue
<1>3. /\ rows'[z] = Tail(rows[z]) /\ \A s \in Sub : s # z => rows'[s] = rows[s]
  BY <1>1
<1>4. CASE ring' = ring
  BY <1>1, <1>2, <1>3, <1>4 DEF Seen
<1>5. CASE ring' = [ring EXCEPT ![z] = Pushed(z, ring[z], m)] /\ m.off <= ceiling[z]
  <2>1. \A s \in Sub : s # z => Seen(s)' = Seen(s)
    BY <1>1, <1>5 DEF Seen
  <2>2. Seen(z)' = got[z] \o Pushed(z, ring[z], m)
    BY <1>1, <1>5 DEF Seen
  <2>3. Grown(Published, got[z] \o ring[z], got[z] \o Pushed(z, ring[z], m), m)
    BY SeenIsQueue, PushedGrows
  <2> QED
    BY <1>1, <1>2, <1>3, <1>5, <2>1, <2>2, <2>3 DEF Seen
<1>6. ring' = ring \/ (ring' = [ring EXCEPT ![z] = Pushed(z, ring[z], m)] /\ m.off <= ceiling[z])
  BY <1>2 DEF ReplayRow, Push, ringVars
<1> QED
  BY <1>4, <1>5, <1>6

\* No other step shows a reader more: a drained ring is what it got, and a
\* crash loses the rings.
LEMMA SeenStays ==
  ASSUME HubInv, Next, \A p \in Pub \cup {Writer} : ~FanStep(p), \A z \in Sub : ~ReplayRow(z),
         NEW s \in Sub
  PROVE  Thin(Seen(s), Seen(s)') /\ (~Crash => Seen(s)' = Seen(s))
<1>1. Seen(s) \in Seq(Published) /\ got[s] \in Seq(Published) /\ ring[s] \in Seq(Published)
  BY SeenIsQueue
<1>2. ASSUME Seen(s)' = Seen(s) PROVE Thin(Seen(s), Seen(s)')
  BY <1>1, <1>2, ThinSame
<1>3. CASE Crash
  <2>1. got' = got /\ ring'[s] = <<>>
    BY <1>3 DEF Crash
  <2>2. Thin(ring[s], <<>>)
    <3>1. ThinBy(ring[s], <<>>, <<>>)
      BY DEF ThinBy
    <3> QED
      BY <3>1 DEF Thin
  <2>3. <<>> \in Seq(Published)
    OBVIOUS
  <2>4. Thin(got[s] \o ring[s], got[s] \o <<>>)
    BY <1>1, <2>2, <2>3, ThinConcat
  <2> QED
    BY <1>3, <2>1, <2>4 DEF Seen
<1>4. ASSUME NEW z \in Sub, Recv(z) PROVE Seen(s)' = Seen(s)
  <2>1. got \in [Sub -> Seq(Told(log))] /\ ring \in [Sub -> Seq(Told(log))]
    BY DEF HubInv, AllTold, RingsIn
  <2>2. CASE z # s
    BY <1>4, <2>1, <2>2 DEF Recv, Seen
  <2>3. CASE z = s
    <3>1. got'[s] = got[s] \o ring[s] /\ ring'[s] = <<>>
      BY <1>4, <2>1, <2>3 DEF Recv
    <3>2. (got[s] \o ring[s]) \o <<>> = got[s] \o ring[s]
      BY <1>1
    <3> QED
      BY <3>1, <3>2 DEF Seen
  <2> QED
    BY <2>2, <2>3
<1>5. ASSUME UNCHANGED <<got, ring>> PROVE Seen(s)' = Seen(s)
  BY <1>5 DEF Seen
<1>6. ASSUME NEW p \in Pub, Produce(p) PROVE Seen(s)' = Seen(s)
  BY <1>5, <1>6 DEF Produce, PublishBlocked, PublishMemory, PublishDurable, ringVars
<1>7. ASSUME NEW p \in Pub \cup {Writer}, FanEnd(p) PROVE Seen(s)' = Seen(s)
  BY <1>5, <1>7 DEF FanEnd, ringVars
<1>8. ASSUME WriterStep PROVE Seen(s)' = Seen(s)
  BY <1>5, <1>8 DEF WriterStep, Collect, Begin, InsertRow, Commit, Rollback, Bump, Deliver, Reply,
     writerFrame, ringVars
<1>9. ASSUME NEW z \in Sub, ReadCeiling(z) \/ Register(z) \/ ReadLog(z) \/ ReadLogFails(z) \/ ReplayEnd(z) \/ Look(z)
                            \/ Wait(z) \/ Wake(z) \/ Drop(z)
      PROVE  Seen(s)' = Seen(s)
  BY <1>5, <1>9 DEF ReadCeiling, Register, ReadLog, ReadLogFails, ReplayEnd, Look, Wait, Wake, Drop, ringVars
<1>10. ASSUME NEW e \in Event, Expire(e) PROVE Seen(s)' = Seen(s)
  BY <1>5, <1>10 DEF Expire, ringVars
<1> QED
  BY <1>2, <1>3, <1>4, <1>6, <1>7, <1>8, <1>9, <1>10 DEF Next, Joining, ReaderStep

\* Rows come from the log in order (Durable::since).
LEMMA RowsSinceAreOrdered ==
  ASSUME LogOK, NEW a \in Nat, NEW k \in DOMAIN RowsSince(a), NEW l \in DOMAIN RowsSince(a), k < l
  PROVE  RowsSince(a)[k].off < RowsSince(a)[l].off
<1>1. PICK n : n = IF a >= Len(log) THEN 0
                   ELSE IF Len(log) - a < REPLAY_MAX THEN Len(log) - a ELSE REPLAY_MAX
  OBVIOUS
<1>2. RowsSince(a) = [i \in 1 .. n |-> [e |-> log[a + i], off |-> a + i]]
  BY <1>1 DEF RowsSince
<1>3. k \in 1 .. n /\ l \in 1 .. n
  BY <1>2
<1>4. RowsSince(a)[k].off = a + k /\ RowsSince(a)[l].off = a + l
  BY <1>2, <1>3
<1>5. n \in Int
  BY <1>1, HubAssumption DEF LogOK
<1> QED
  BY <1>3, <1>4, <1>5

\* Only subscribe() sets a ceiling.
LEMMA CeilingNext ==
  ASSUME HubInv, Next, NEW s \in Sub
  PROVE  ceiling'[s] = ceiling[s] \/ ReadCeiling(s)
<1>1. ceiling \in [Sub -> Nat]
  BY DEF HubInv, LogOK
<1>2. ASSUME NEW z \in Sub, ReadCeiling(z) PROVE ceiling'[s] = ceiling[s] \/ ReadCeiling(s)
  BY <1>1, <1>2 DEF ReadCeiling
<1>3. ASSUME NEW p \in Pub, Produce(p) PROVE ceiling' = ceiling
  BY <1>3 DEF Produce, PublishBlocked, PublishMemory, PublishDurable, subVars
<1>4. ASSUME NEW p \in Pub \cup {Writer}, FanStep(p) \/ FanEnd(p) PROVE ceiling' = ceiling
  BY <1>4 DEF FanStep, FanEnd, subVars
<1>5. ASSUME WriterStep PROVE ceiling' = ceiling
  BY <1>5 DEF WriterStep, Collect, Begin, InsertRow, Commit, Rollback, Bump, Deliver, Reply,
     writerFrame, subVars
<1>6. ASSUME NEW z \in Sub, Joining(z) \/ ReaderStep(z) \/ Drop(z) PROVE ceiling' = ceiling
  BY <1>6 DEF Joining, Register, ReadLog, ReadLogFails, ReplayRow, ReplayEnd, ReaderStep, Recv, Look, Wait, Wake,
     Drop, subVars
<1>7. ASSUME (\E e \in Event : Expire(e)) \/ Crash PROVE ceiling' = ceiling
  BY <1>7 DEF Expire, Crash, subVars
<1> QED
  BY <1>2, <1>3, <1>4, <1>5, <1>6, <1>7 DEF Next

\* The rows to replay are read once and taken one by one, or lost in a crash.
LEMMA RowsNext ==
  ASSUME HubInv, Next, NEW s \in Sub
  PROVE  rows'[s] = rows[s] \/ (Crash /\ rows'[s] = <<>>) \/ ReadLog(s) \/ ReplayRow(s)
<1> DEFINE Goal == rows'[s] = rows[s] \/ (Crash /\ rows'[s] = <<>>) \/ ReadLog(s) \/ ReplayRow(s)
<1>1. rows \in [Sub -> Seq(Told(log))]
  BY DEF HubInv, AllTold, RingsIn
<1>2. ASSUME NEW z \in Sub, ReadLog(z) \/ ReplayRow(z) PROVE Goal
  BY <1>1, <1>2 DEF ReadLog, ReadLogFails, ReplayRow
<1>3. ASSUME NEW p \in Pub, Produce(p) PROVE rows' = rows
  BY <1>3 DEF Produce, PublishBlocked, PublishMemory, PublishDurable, subVars
<1>4. ASSUME NEW p \in Pub \cup {Writer}, FanStep(p) \/ FanEnd(p) PROVE rows' = rows
  BY <1>4 DEF FanStep, FanEnd, subVars
<1>5. ASSUME WriterStep PROVE rows' = rows
  BY <1>5 DEF WriterStep, Collect, Begin, InsertRow, Commit, Rollback, Bump, Deliver, Reply,
     writerFrame, subVars
<1>6. ASSUME NEW z \in Sub, ReadCeiling(z) \/ Register(z) \/ ReplayEnd(z) \/ ReadLogFails(z) \/ ReaderStep(z) \/ Drop(z)
      PROVE  rows' = rows
  BY <1>6 DEF ReadCeiling, Register, ReplayEnd, ReadLogFails, ReaderStep, Recv, Look, Wait, Wake, Drop, subVars
<1>7. ASSUME NEW e \in Event, Expire(e) PROVE rows' = rows
  BY <1>7 DEF Expire, subVars
<1>8. ASSUME Crash PROVE rows'[s] = <<>>
  BY <1>8 DEF Crash
<1> QED
  BY <1>2, <1>3, <1>4, <1>5, <1>6, <1>7, <1>8 DEF Next, Joining

\* Rows are replayed in order, whatever comes live in between.
LEMMA ReplaysOKNext == HubInv /\ JoinOK /\ ReplaysOK /\ Next => ReplaysOK'
<1> SUFFICES ASSUME HubInv, JoinOK, ReplaysOK, Next, NEW s \in Sub
             PROVE  /\ ReplayOrder(Seen(s)', ceiling'[s], rows'[s])
                    /\ sub'[s] = "since" =>
                         \A i \in DOMAIN Seen(s)' : ~Replayed(Seen(s)', ceiling'[s], i)
  BY DEF ReplaysOK
<1>1. /\ Seen(s) \in Seq(Published) /\ rows[s] \in Seq(Published) /\ ceiling[s] \in Nat
      /\ Seen(s)' \in Seq(Published)
  <2>1. HubInv'
    BY HubInvNext
  <2>2. got'[s] \in Seq(Told(log')) /\ ring'[s] \in Seq(Told(log'))
    BY <2>1 DEF HubInv, AllTold, RingsIn
  <2>3. Told(log') \subseteq Published
    BY DEF Told
  <2>4. got'[s] \in Seq(Published) /\ ring'[s] \in Seq(Published)
    BY <2>2, <2>3
  <2> QED
    BY <2>4, SeenIsQueue DEF HubInv, LogOK, Seen
<1>2. /\ ReplayOrder(Seen(s), ceiling[s], rows[s])
      /\ sub[s] = "since" => \A i \in DOMAIN Seen(s) : ~Replayed(Seen(s), ceiling[s], i)
  BY DEF ReplaysOK
<1>3. sub[s] \in Unregistered => Seen(s) = <<>> /\ rows[s] = <<>>
  BY DEF JoinOK, Seen
<1>4. \A q, c, R : ReplayOrder(q, c, R) => ReplayOrder(q, c, <<>>)
  BY DEF ReplayOrder
<1>5. CASE \E p \in Pub \cup {Writer} : FanStep(p)
  <2>1. PICK p \in Pub \cup {Writer} : FanStep(p)
    BY <1>5
  <2>2. PICK f \in FanOut, z \in Sub, m \in Told(log), g \in FanOut : FanStepIs(p, f, z, m, g)
    BY <2>1, FanStepDoes
  <2>3. rows' = rows /\ sub' = sub /\ ceiling' = ceiling
    BY <2>1 DEF FanStep, subVars
  <2>4. CASE Seen(s)' = Seen(s)
    BY <1>2, <2>3, <2>4
  <2>5. CASE Seen(s)' # Seen(s)
    <3>1. s = z /\ Grown(Published, Seen(s), Seen(s)', m) /\ ~Skips(s, m)
      BY <2>1, <2>2, <2>5, FanGrows
    <3>2. m \in Published /\ ~(m.off > 0 /\ m.off <= ceiling[s])
      BY <3>1 DEF Skips, Told
    <3>3. ReplayOrder(Seen(s)', ceiling[s], rows[s])
      BY <1>1, <1>2, <3>1, <3>2, ReplayLive
    <3>4. ASSUME sub[s] = "since", NEW i \in DOMAIN Seen(s)' PROVE ~Replayed(Seen(s)', ceiling[s], i)
      <4>1. PICK t \in Seq(Published) : Thin(Seen(s), t) /\ Seen(s)' = Append(t, m)
        BY <3>1 DEF Grown
      <4>2. PICK h : ThinBy(Seen(s), t, h)
        BY <4>1 DEF Thin
      <4>3. CASE i = Len(t) + 1
        BY <3>2, <4>1, <4>3 DEF Replayed
      <4>4. CASE i # Len(t) + 1
        <5>1. i \in DOMAIN t /\ Seen(s)'[i] = t[i]
          BY <1>1, <4>1, <4>4
        <5>2. h[i] \in DOMAIN Seen(s) /\ t[i] = Seen(s)[h[i]]
          BY <4>2, <5>1 DEF ThinBy
        <5> QED
          BY <1>2, <3>4, <5>1, <5>2 DEF Replayed
      <4> QED
        BY <4>3, <4>4
    <3> QED
      BY <2>3, <3>3, <3>4
  <2> QED
    BY <2>4, <2>5
<1>6. CASE \E z \in Sub : ReplayRow(z)
  <2>1. PICK z \in Sub : ReplayRow(z)
    BY <1>6
  <2>2. sub' = sub /\ ceiling' = ceiling /\ sub[z] = "replay"
    BY <2>1 DEF ReplayRow
  <2>3. CASE s # z
    BY <1>2, <2>1, <2>2, <2>3, ReplayGrows
  <2>4. CASE s = z
    <3>1. /\ rows[s] # <<>> /\ rows'[s] = Tail(rows[s])
          /\ \/ Seen(s)' = Seen(s)
             \/ Grown(Published, Seen(s), Seen(s)', Head(rows[s]))
      BY <2>1, <2>4, ReplayGrows
    <3>2. ReplayOrder(Seen(s)', ceiling[s], rows'[s])
      BY <1>1, <1>2, <3>1, ReplayTakes
    <3> QED
      BY <2>2, <2>4, <3>2
  <2> QED
    BY <2>3, <2>4
<1>7. CASE (\A p \in Pub \cup {Writer} : ~FanStep(p)) /\ (\A z \in Sub : ~ReplayRow(z))
  <2>1. Thin(Seen(s), Seen(s)') /\ (~Crash => Seen(s)' = Seen(s))
    BY <1>7, SeenStays
  <2>2. CASE ReadCeiling(s)
    <3>1. Seen(s)' = <<>> /\ rows'[s] = <<>> /\ sub'[s] # "since"
      <4>1. sub[s] = "new" /\ sub'[s] = "ceiling" /\ rows' = rows /\ got' = got /\ ring' = ring
        BY <2>2 DEF ReadCeiling, HubInv, ListsOK, ringVars
      <4> QED
        BY <1>3, <4>1 DEF Unregistered, Seen
    <3> QED
      BY <3>1 DEF ReplayOrder
  <2>3. CASE ReadLog(s)
    <3>1. /\ sub[s] = "since" /\ sub'[s] = "replay" /\ Since[s] \in Nat /\ ceiling' = ceiling
          /\ rows'[s] = RowsSince(Since[s]) /\ got' = got /\ ring' = ring
      BY <2>3, HubAssumption DEF ReadLog, ReadLogFails, HubInv, ListsOK, ringVars, AllTold, RingsIn
    <3>2. Seen(s)' = Seen(s)
      BY <3>1 DEF Seen
    <3>3. \A k, l \in DOMAIN rows'[s] : k < l => rows'[s][k].off < rows'[s][l].off
      BY <3>1, RowsSinceAreOrdered DEF HubInv
    <3> QED
      BY <1>2, <3>1, <3>2, <3>3 DEF ReplayOrder
  <2>4. CASE ~ReadCeiling(s) /\ ~ReadLog(s)
    <3>1. ceiling'[s] = ceiling[s] /\ (rows'[s] = rows[s] \/ rows'[s] = <<>>)
      BY <1>7, <2>4, CeilingNext, RowsNext
    <3>2. ReplayOrder(Seen(s)', ceiling[s], rows[s])
      BY <1>1, <1>2, <2>1, ReplayThin
    <3>3. ReplayOrder(Seen(s)', ceiling'[s], rows'[s])
      BY <1>4, <3>1, <3>2
    <3>4. ASSUME sub'[s] = "since", NEW i \in DOMAIN Seen(s)' PROVE ~Replayed(Seen(s)', ceiling'[s], i)
      <4>1. sub[s] = "since" \/ Register(s)
        BY <3>4, SinceNext
      <4>2. ~Crash
        BY <3>4 DEF Crash
      <4>3. Seen(s)' = Seen(s)
        BY <2>1, <4>2
      <4>4. CASE sub[s] = "since"
        BY <1>2, <3>1, <3>4, <4>3, <4>4
      <4>5. CASE Register(s)
        <5>1. Seen(s) = <<>>
          BY <1>3, <4>5 DEF Register, Unregistered
        <5> QED
          BY <3>4, <4>3, <5>1
      <4> QED
        BY <4>1, <4>4, <4>5
    <3> QED
      BY <3>3, <3>4
  <2> QED
    BY <2>2, <2>3, <2>4
<1> QED
  BY <1>5, <1>6, <1>7

---------------------------------------------------------------------------
(* Counting the jobs of an envelope.                                       *)

\* A job at the end of a queue is one more of its envelope.
LEMMA JobsAppend ==
  ASSUME NEW S, NEW q \in Seq(S), NEW j \in S, NEW e
  PROVE  /\ Cardinality(JobsOf(q, e)) \in Nat /\ Cardinality(JobsOf(Append(q, j), e)) \in Nat
         /\ Cardinality(JobsOf(Append(q, j), e)) <= Cardinality(JobsOf(q, e)) + 1
         /\ j.e # e => Cardinality(JobsOf(Append(q, j), e)) = Cardinality(JobsOf(q, e))
<1>1. PICK n \in Nat : n = Len(q)
  OBVIOUS
<1>2. /\ DOMAIN q = 1 .. n /\ DOMAIN Append(q, j) = 1 .. (n + 1)
      /\ Append(q, j)[n + 1] = j /\ \A i \in 1 .. n : Append(q, j)[i] = q[i]
  BY <1>1
<1>3. IsFiniteSet(JobsOf(q, e)) /\ Cardinality(JobsOf(q, e)) \in Nat
  BY PositionsAreFinite DEF JobsOf
<1>4. CASE j.e = e
  <2>1. JobsOf(Append(q, j), e) = JobsOf(q, e) \cup {n + 1}
    BY <1>1, <1>2, <1>4 DEF JobsOf
  <2> QED
    BY <1>3, <1>4, <2>1, OneMore
<1>5. CASE j.e # e
  <2>1. JobsOf(Append(q, j), e) = JobsOf(q, e)
    BY <1>1, <1>2, <1>5 DEF JobsOf
  <2> QED
    BY <1>3, <1>5, <2>1
<1> QED
  BY <1>4, <1>5

\* The job at the front of a queue is one of its envelope.
LEMMA JobsTail ==
  ASSUME NEW S, NEW q \in Seq(S), q # <<>>, NEW e
  PROVE  /\ Cardinality(JobsOf(q, e)) \in Nat /\ Cardinality(JobsOf(Tail(q), e)) \in Nat
         /\ Cardinality(JobsOf(Tail(q), e)) <= Cardinality(JobsOf(q, e))
         /\ Head(q).e = e => Cardinality(JobsOf(Tail(q), e)) + 1 <= Cardinality(JobsOf(q, e))
<1>1. PICK T : T = JobsOf(Tail(q), e)
  OBVIOUS
<1>2. PICK U : U = JobsOf(q, e) \ {1}
  OBVIOUS
<1>3. Tail(q) \in Seq(S) /\ \A i \in DOMAIN Tail(q) : i + 1 \in DOMAIN q /\ Tail(q)[i] = q[i + 1]
                                                      /\ i \in Nat \ {0}
  OBVIOUS
<1>4. /\ IsFiniteSet(T) /\ Cardinality(T) \in Nat /\ IsFiniteSet(U) /\ Cardinality(U) \in Nat
      /\ IsFiniteSet(JobsOf(q, e)) /\ Cardinality(JobsOf(q, e)) \in Nat
  BY <1>1, <1>2, <1>3, PositionsAreFinite DEF JobsOf
<1>5. Cardinality(T) <= Cardinality(U)
  <2>1. PICK f : f = [i \in T |-> i + 1]
    OBVIOUS
  <2>2. \A i \in T : i \in Nat /\ f[i] = i + 1 /\ f[i] \in U
    BY <1>1, <1>2, <1>3, <2>1 DEF JobsOf
  <2>3. \A i, j \in T : f[i] = f[j] => i = j
    BY <2>2
  <2>4. f \in Injection(T, U)
    BY <2>1, <2>2, <2>3 DEF Injection, IsInjective
  <2> QED
    BY <1>4, <2>4, FS_Injection
<1>6. Cardinality(U) <= Cardinality(JobsOf(q, e))
  BY <1>2, <1>4, FS_Subset
<1>7. ASSUME Head(q).e = e PROVE Cardinality(U) + 1 = Cardinality(JobsOf(q, e))
  <2>1. 1 \in JobsOf(q, e)
    BY <1>7 DEF JobsOf
  <2>2. JobsOf(q, e) = U \cup {1} /\ 1 \notin U
    BY <1>2, <2>1
  <2> QED
    BY <1>4, <2>2, OneMore
<1> QED
  BY <1>1, <1>4, <1>5, <1>6, <1>7

\* A part of the positions of a queue.
LEMMA FewerPositions ==
  ASSUME NEW S, NEW q \in Seq(S), NEW T, T \subseteq DOMAIN q, NEW U, U \subseteq T
  PROVE  /\ Cardinality(T) \in Nat /\ Cardinality(U) \in Nat /\ Cardinality(U) <= Cardinality(T)
         /\ \A x \in T : x \notin U => Cardinality(U) + 1 <= Cardinality(T)
<1>1. /\ IsFiniteSet(T) /\ Cardinality(T) \in Nat /\ IsFiniteSet(U) /\ Cardinality(U) \in Nat
  BY PositionsAreFinite
<1>2. Cardinality(U) <= Cardinality(T)
  BY <1>1, FS_Subset
<1>3. ASSUME NEW x \in T, x \notin U PROVE Cardinality(U) + 1 <= Cardinality(T)
  <2>1. PICK V : V = U \cup {x}
    OBVIOUS
  <2>2. IsFiniteSet(V) /\ Cardinality(V) = Cardinality(U) + 1
    BY <1>1, <1>3, <2>1, OneMore
  <2>3. V \subseteq T
    BY <2>1
  <2>4. Cardinality(V) <= Cardinality(T)
    BY <1>1, <2>3, FS_Subset
  <2> QED
    BY <2>2, <2>4
<1> QED
  BY <1>1, <1>2, <1>3

\* What a step does to the channel and the publishes: publish() and emit() add
\* one job, the writer takes one, a crash takes all.
LEMMA ChannelNext ==
  ASSUME HubInv, Next, NEW e \in Event
  PROVE  /\ sent'[e] \in Nat /\ sent[e] \in Nat /\ sent[e] <= sent'[e]
         /\ Cardinality(JobsOf(chan, e)) \in Nat /\ Cardinality(JobsOf(chan', e)) \in Nat
         /\ Cardinality(JobsOf(chan', e)) + sent[e] <= Cardinality(JobsOf(chan, e)) + sent'[e]
<1> DEFINE Goal == /\ sent'[e] \in Nat /\ sent[e] \in Nat /\ sent[e] <= sent'[e]
                   /\ Cardinality(JobsOf(chan, e)) \in Nat /\ Cardinality(JobsOf(chan', e)) \in Nat
                   /\ Cardinality(JobsOf(chan', e)) + sent[e]
                        <= Cardinality(JobsOf(chan, e)) + sent'[e]
<1>1. /\ chan \in Seq(DurableJob) /\ sent \in [Event -> Nat] /\ sent[e] \in Nat
      /\ Cardinality(JobsOf(chan, e)) \in Nat
  BY PositionsAreFinite DEF HubInv, ProducersOK, JobsOf
<1>2. ASSUME UNCHANGED <<sent, chan>> PROVE Goal
  BY <1>1, <1>2
<1>3. ASSUME NEW d \in Event, sent' = [sent EXCEPT ![d] = @ + 1], chan' = chan PROVE Goal
  <2>1. sent'[e] \in Nat /\ sent[e] <= sent'[e]
    BY <1>1, <1>3
  <2> QED
    BY <1>1, <1>3, <2>1
<1>4. ASSUME NEW p \in Pub, NEW d \in Event, NEW who \in {p, NoReply}, PublishDurable(p, d, who)
      PROVE  Goal
  <2>1. PICK j : j = [e |-> d, who |-> who]
    OBVIOUS
  <2>2. j \in DurableJob /\ j.e = d /\ chan' = Append(chan, j)
    BY <1>4, <2>1 DEF PublishDurable, DurableJob
  <2>3. sent' = [sent EXCEPT ![d] = @ + 1]
    BY <1>4 DEF PublishDurable
  <2>4. /\ Cardinality(JobsOf(chan', e)) \in Nat
        /\ Cardinality(JobsOf(chan', e)) <= Cardinality(JobsOf(chan, e)) + 1
        /\ d # e => Cardinality(JobsOf(chan', e)) = Cardinality(JobsOf(chan, e))
    BY <1>1, <2>2, JobsAppend
  <2>5. CASE d = e
    <3>1. sent'[e] = sent[e] + 1
      BY <1>1, <2>3, <2>5
    <3> QED
      BY <1>1, <2>4, <3>1
  <2>6. CASE d # e
    <3>1. sent'[e] = sent[e]
      BY <1>1, <2>3, <2>6
    <3> QED
      BY <1>1, <2>4, <2>6, <3>1
  <2> QED
    BY <2>5, <2>6
<1>5. ASSUME Collect PROVE Goal
  <2>1. sent' = sent /\ chan' = Tail(chan) /\ chan # <<>>
    BY <1>5 DEF Collect, writerFrame
  <2>2. /\ Cardinality(JobsOf(chan', e)) \in Nat
        /\ Cardinality(JobsOf(chan', e)) <= Cardinality(JobsOf(chan, e))
    BY <1>1, <2>1, JobsTail
  <2> QED
    BY <1>1, <2>1, <2>2
<1>6. ASSUME Crash PROVE Goal
  <2>1. sent' = sent /\ chan' = <<>>
    BY <1>6 DEF Crash
  <2>2. JobsOf(chan', e) = {}
    BY <2>1 DEF JobsOf
  <2>3. Cardinality(JobsOf(chan', e)) = 0
    BY <2>2, FS_EmptySet
  <2>4. sent'[e] = sent[e]
    BY <2>1
  <2> QED
    BY <1>1, <2>3, <2>4
<1>7. ASSUME NEW p \in Pub, Produce(p) PROVE Goal
  BY <1>3, <1>4, <1>7 DEF Produce, PublishBlocked, PublishMemory
<1>8. ASSUME NEW p \in Pub \cup {Writer}, FanStep(p) \/ FanEnd(p) PROVE Goal
  BY <1>2, <1>8 DEF FanStep, FanEnd
<1>9. ASSUME WriterStep, ~Collect PROVE Goal
  BY <1>2, <1>9 DEF WriterStep, Begin, InsertRow, Commit, Rollback, Bump, Deliver, Reply,
     writerFrame
<1>10. ASSUME NEW s \in Sub, ReadCeiling(s) \/ Joining(s) \/ ReaderStep(s) \/ Drop(s) PROVE Goal
  BY <1>2, <1>10 DEF ReadCeiling, Joining, Register, ReadLog, ReadLogFails, ReplayRow, ReplayEnd, ReaderStep,
     Recv, Look, Wait, Wake, Drop, subFrame
<1>11. ASSUME NEW d \in Event, Expire(d) PROVE Goal
  BY <1>2, <1>11 DEF Expire
<1> QED
  BY <1>5, <1>6, <1>7, <1>8, <1>9, <1>10, <1>11 DEF Next

\* The batch of the writer stays until it is done, but for what it collects.
LEMMA JobsStay ==
  ASSUME HubInv, Next, ~Collect
  PROVE  w' = IdleWriter \/ w'.jobs = w.jobs
<1>1. w \in WriterTask
  BY DEF HubInv, WriterOK, WriterIs
<1>2. ASSUME UNCHANGED w PROVE w'.jobs = w.jobs
  BY <1>2
<1>3. ASSUME WriterStep PROVE w' = IdleWriter \/ w'.jobs = w.jobs
  BY <1>1, <1>3 DEF WriterStep, Begin, InsertRow, Commit, Rollback, Bump, Deliver, Reply, WriterTask
<1>4. ASSUME NEW p \in Pub, Produce(p) PROVE w'.jobs = w.jobs
  BY <1>2, <1>4 DEF Produce, PublishBlocked, PublishMemory, PublishDurable
<1>5. ASSUME NEW p \in Pub \cup {Writer}, FanStep(p) \/ FanEnd(p) PROVE w'.jobs = w.jobs
  BY <1>2, <1>5 DEF FanStep, FanEnd
<1>6. ASSUME NEW s \in Sub, ReadCeiling(s) \/ Joining(s) \/ ReaderStep(s) \/ Drop(s)
      PROVE  w'.jobs = w.jobs
  BY <1>2, <1>6 DEF ReadCeiling, Joining, Register, ReadLog, ReadLogFails, ReplayRow, ReplayEnd, ReaderStep,
     Recv, Look, Wait, Wake, Drop, subFrame
<1>7. ASSUME NEW d \in Event, Expire(d) PROVE w'.jobs = w.jobs
  BY <1>2, <1>7 DEF Expire
<1>8. ASSUME Crash PROVE w' = IdleWriter
  BY <1>8 DEF Crash
<1> QED
  BY <1>3, <1>4, <1>5, <1>6, <1>7, <1>8 DEF Next

\* A batch is collected before it has rows (the loop on the channel).
LEMMA CollectDoes ==
  ASSUME HubInv, Collect
  PROVE  /\ chan \in Seq(DurableJob) /\ chan # <<>> /\ chan' = Tail(chan)
         /\ w.jobs \in Seq(DurableJob) /\ Head(chan) \in DurableJob
         /\ w'.jobs = Append(w.jobs, Head(chan))
         /\ w'.pc = "collect" /\ w.offs = <<>> /\ w'.offs = <<>> /\ w.pc \in {"idle", "collect"}
         /\ log' = log /\ sent' = sent /\ got' = got /\ ring' = ring /\ ceiling' = ceiling
<1>1. w \in WriterTask /\ chan \in Seq(DurableJob) /\ chan # <<>> /\ w.pc \in {"idle", "collect"}
  BY DEF HubInv, WriterOK, WriterIs, ProducersOK, Collect
<1>2. w.offs = <<>>
  BY <1>1 DEF HubInv, WriterOK, WriterIs, IdleWriter
<1>3. PICK js : js = Append(w.jobs, Head(chan))
  OBVIOUS
<1>4. w' = [w EXCEPT !.pc = "collect", !.jobs = js]
  BY <1>3 DEF Collect
<1>5. w'.jobs = js /\ w'.pc = "collect" /\ w'.offs = w.offs
  BY <1>1, <1>4 DEF WriterTask
<1> QED
  BY <1>1, <1>2, <1>3, <1>5 DEF Collect, WriterTask, writerFrame, subVars, ringVars

\* Publishes, the channel and the batch stay in balance.
LEMMA JobsCountedNext == HubInv /\ JobsCounted /\ Next => JobsCounted'
<1> SUFFICES ASSUME HubInv, JobsCounted, Next, NEW e \in Event
             PROVE  Cardinality(JobsOf(chan', e)) + Cardinality(JobsOf(w'.jobs, e)) <= sent'[e]
  BY DEF JobsCounted
<1>1. /\ sent'[e] \in Nat /\ sent[e] \in Nat /\ sent[e] <= sent'[e]
      /\ Cardinality(JobsOf(chan, e)) \in Nat /\ Cardinality(JobsOf(chan', e)) \in Nat
      /\ Cardinality(JobsOf(chan', e)) + sent[e] <= Cardinality(JobsOf(chan, e)) + sent'[e]
  BY ChannelNext
<1>2. w.jobs \in Seq(DurableJob) /\ Cardinality(JobsOf(w.jobs, e)) \in Nat
  <2>1. w.jobs \in Seq(DurableJob)
    BY DEF HubInv, WriterOK, WriterIs, WriterTask
  <2> QED
    BY <2>1, PositionsAreFinite DEF JobsOf
<1>3. Cardinality(JobsOf(chan, e)) + Cardinality(JobsOf(w.jobs, e)) <= sent[e]
  BY DEF JobsCounted
<1>4. CASE Collect
  <2>1. /\ chan \in Seq(DurableJob) /\ chan # <<>> /\ chan' = Tail(chan)
        /\ Head(chan) \in DurableJob /\ w'.jobs = Append(w.jobs, Head(chan)) /\ sent' = sent
    BY <1>4, CollectDoes
  <2>2. /\ Cardinality(JobsOf(chan', e)) <= Cardinality(JobsOf(chan, e))
        /\ Head(chan).e = e => Cardinality(JobsOf(chan', e)) + 1 <= Cardinality(JobsOf(chan, e))
    BY <2>1, JobsTail
  <2>3. /\ Cardinality(JobsOf(w'.jobs, e)) \in Nat
        /\ Cardinality(JobsOf(w'.jobs, e)) <= Cardinality(JobsOf(w.jobs, e)) + 1
        /\ Head(chan).e # e => Cardinality(JobsOf(w'.jobs, e)) = Cardinality(JobsOf(w.jobs, e))
    BY <1>2, <2>1, JobsAppend
  <2>4. sent'[e] = sent[e]
    BY <2>1
  <2> QED
    BY <1>1, <1>2, <1>3, <2>2, <2>3, <2>4
<1>5. CASE ~Collect
  <2>1. CASE w'.jobs = w.jobs
    BY <1>1, <1>2, <1>3, <2>1
  <2>2. CASE w' = IdleWriter
    <3>1. JobsOf(w'.jobs, e) = {}
      BY <2>2 DEF JobsOf, IdleWriter
    <3>2. Cardinality(JobsOf(w'.jobs, e)) = 0
      BY <3>1, FS_EmptySet
    <3> QED
      BY <1>1, <1>2, <1>3, <3>2
  <2> QED
    BY <1>5, <2>1, <2>2, JobsStay
<1> QED
  BY <1>4, <1>5

\* Every step but a collected job and an inserted row leaves the table as it
\* is, or less of it, and no job more without a row.
LEMMA RowsStay ==
  ASSUME HubInv, Next, ~Collect, ~InsertRow
  PROVE  /\ RangeOf(TableOf(w', log')) \subseteq RangeOf(TableOf(w, log))
         /\ \A e \in Event : Unrowed(e)' \subseteq Unrowed(e)
<1> DEFINE Goal == /\ RangeOf(TableOf(w', log')) \subseteq RangeOf(TableOf(w, log))
                   /\ \A e \in Event : Unrowed(e)' \subseteq Unrowed(e)
<1>1. /\ w \in WriterTask /\ log \in Seq(Durable) /\ w.tx \in Seq(Durable)
      /\ Prefix(log, TableOf(w, log))
  BY DEF HubInv, WriterOK, WriterIs, LogOK, WriterTask
<1>2. RangeOf(log) \subseteq RangeOf(TableOf(w, log))
  <2>1. \A i \in DOMAIN log : i \in DOMAIN TableOf(w, log) /\ TableOf(w, log)[i] = log[i]
    BY <1>1 DEF Prefix, TableOf
  <2> QED
    BY <2>1 DEF RangeOf
<1>3. ASSUME UNCHANGED <<w, log>> PROVE Goal
  BY <1>3 DEF TableOf, Unrowed
<1>4. ASSUME w' = IdleWriter, log' = log PROVE Goal
  <2>1. w'.pc = "idle" /\ w'.jobs = <<>>
    BY <1>4 DEF IdleWriter
  <2>2. \A e \in Event : Unrowed(e)' = {}
    BY <2>1 DEF Unrowed, JobsOf
  <2> QED
    BY <1>2, <1>4, <2>1, <2>2 DEF TableOf
<1>5. ASSUME Begin PROVE Goal
  <2>1. w'.pc = "append" /\ w'.tx = log /\ w'.jobs = w.jobs /\ w'.offs = w.offs /\ w.pc = "collect"
    BY <1>1, <1>5 DEF Begin, WriterTask
  <2> QED
    BY <1>2, <2>1 DEF TableOf, Unrowed
<1>6. ASSUME w'.pc \in {"bump", "deliver", "reply"}, log' = log PROVE Goal
  <2>1. \A e \in Event : Unrowed(e)' = {}
    BY <1>6 DEF Unrowed
  <2> QED
    BY <1>2, <1>6, <2>1 DEF TableOf
<1>7. ASSUME Commit PROVE Goal
  <2>1. w'.pc = "bump" /\ log' = w.tx /\ w.pc = "append"
    BY <1>1, <1>7 DEF Commit, WriterTask
  <2>2. \A e \in Event : Unrowed(e)' = {}
    BY <2>1 DEF Unrowed
  <2> QED
    BY <2>1, <2>2 DEF TableOf
<1>8. ASSUME Rollback \/ Bump \/ Deliver PROVE Goal
  <2>1. w'.pc \in {"bump", "deliver", "reply"} /\ log' = log
    BY <1>1, <1>8 DEF Rollback, Bump, Deliver, WriterTask
  <2> QED
    BY <1>6, <2>1
<1>9. ASSUME Reply PROVE Goal
  <2>1. log' = log /\ (w' = IdleWriter \/ w'.pc = "deliver")
    BY <1>1, <1>9 DEF Reply, WriterTask
  <2> QED
    BY <1>4, <1>6, <2>1
<1>10. ASSUME Crash PROVE Goal
  BY <1>4, <1>10 DEF Crash
<1>11. ASSUME NEW p \in Pub, Produce(p) PROVE Goal
  BY <1>3, <1>11 DEF Produce, PublishBlocked, PublishMemory, PublishDurable
<1>12. ASSUME NEW p \in Pub \cup {Writer}, FanStep(p) \/ FanEnd(p) PROVE Goal
  BY <1>3, <1>12 DEF FanStep, FanEnd
<1>13. ASSUME NEW s \in Sub, ReadCeiling(s) \/ Joining(s) \/ ReaderStep(s) \/ Drop(s) PROVE Goal
  BY <1>3, <1>13 DEF ReadCeiling, Joining, Register, ReadLog, ReadLogFails, ReplayRow, ReplayEnd, ReaderStep,
     Recv, Look, Wait, Wake, Drop, subFrame
<1>14. ASSUME NEW d \in Event, Expire(d) PROVE Goal
  BY <1>3, <1>14 DEF Expire
<1> QED
  BY <1>5, <1>7, <1>8, <1>9, <1>10, <1>11, <1>12, <1>13, <1>14 DEF Next, WriterStep

\* insert or ignore, in one piece: job n + 1 gets offset o of table tx.
InsertIs(n, d, tx, o) ==
  /\ n = Len(w.offs) /\ n + 1 \in DOMAIN w.jobs /\ d = w.jobs[n + 1].e
  /\ tx = IF d \in RangeOf(w.tx) THEN w.tx ELSE Append(w.tx, d)
  /\ d \notin RangeOf(w.tx) => o = Len(tx)
  /\ w'.tx = tx /\ w'.offs = Append(w.offs, o) /\ w'.jobs = w.jobs
  /\ w.pc = "append" /\ w'.pc = "append" /\ w'.next = w.next

\* A row is inserted like that (Durable::append).
LEMMA InsertDoes ==
  ASSUME HubInv, InsertRow
  PROVE  \E n \in Nat, d \in Durable, tx \in Seq(Durable), o \in Nat \ {0} : InsertIs(n, d, tx, o)
<1>1. /\ w \in WriterTask /\ w.pc = "append" /\ Len(w.offs) < Len(w.jobs) /\ w.tx \in Seq(Durable)
      /\ w.jobs \in Seq(DurableJob) /\ w.offs \in Seq(Nat \ {0})
  BY DEF HubInv, WriterOK, WriterIs, InsertRow, WriterTask
<1>2. PICK n \in Nat : n = Len(w.offs)
  BY <1>1
<1>3. n + 1 \in DOMAIN w.jobs
  BY <1>1, <1>2
<1>4. PICK d \in Durable : d = w.jobs[n + 1].e
  <2>1. w.jobs[n + 1] \in DurableJob
    BY <1>1, <1>3
  <2> QED
    BY <2>1 DEF DurableJob
<1>5. PICK tx : tx = IF d \in RangeOf(w.tx) THEN w.tx ELSE Append(w.tx, d)
  OBVIOUS
<1>6. tx \in Seq(Durable)
  BY <1>1, <1>5
<1>7. PICK o : o = IF d \in RangeOf(w.tx) THEN OffsetOf(w.tx, d) ELSE Len(tx)
  OBVIOUS
<1>8. o \in Nat \ {0}
  <2>1. CASE d \in RangeOf(w.tx)
    <3>1. \E i \in DOMAIN w.tx : w.tx[i] = d
      BY <2>1 DEF RangeOf
    <3>2. o \in DOMAIN w.tx
      BY <1>7, <2>1, <3>1 DEF OffsetOf
    <3> QED
      BY <1>1, <3>2
  <2>2. CASE d \notin RangeOf(w.tx)
    BY <1>1, <1>5, <1>7, <2>2
  <2> QED
    BY <2>1, <2>2
<1>9. PICK os : os = Append(w.offs, o)
  OBVIOUS
<1>10. w' = [w EXCEPT !.tx = tx, !.offs = os]
  BY <1>2, <1>4, <1>5, <1>7, <1>9 DEF InsertRow
<1>11. w'.tx = tx /\ w'.offs = os /\ w'.jobs = w.jobs /\ w'.pc = "append" /\ w'.next = w.next
  BY <1>1, <1>10 DEF WriterTask
<1>12. InsertIs(n, d, tx, o)
  BY <1>1, <1>2, <1>3, <1>4, <1>5, <1>7, <1>9, <1>11 DEF InsertIs
<1> QED
  BY <1>6, <1>8, <1>12

\* An envelope with a row was published once for the row, and once more for
\* each job of it still without one: insert or ignore uses up the job.
LEMMA RowsCountedNext == HubInv /\ JobsCounted /\ RowsCounted /\ Next => RowsCounted'
<1> SUFFICES ASSUME HubInv, JobsCounted, RowsCounted, Next, NEW e \in RangeOf(TableOf(w', log'))
             PROVE  1 + Cardinality(JobsOf(chan', e)) + Cardinality(Unrowed(e)') <= sent'[e]
  BY DEF RowsCounted
<1>1. e \in Event
  <2>1. HubInv'
    BY HubInvNext
  <2>2. TableOf(w', log') \in Seq(Durable)
    BY <2>1 DEF HubInv, LogOK, WriterOK, WriterIs, WriterTask, TableOf
  <2> QED
    BY <2>2, HubAssumption DEF RangeOf
<1>2. /\ sent'[e] \in Nat /\ sent[e] \in Nat /\ sent[e] <= sent'[e]
      /\ Cardinality(JobsOf(chan, e)) \in Nat /\ Cardinality(JobsOf(chan', e)) \in Nat
      /\ Cardinality(JobsOf(chan', e)) + sent[e] <= Cardinality(JobsOf(chan, e)) + sent'[e]
  BY <1>1, ChannelNext
<1>3. w.jobs \in Seq(DurableJob) /\ Unrowed(e) \subseteq DOMAIN w.jobs
  BY DEF HubInv, WriterOK, WriterIs, WriterTask, Unrowed, JobsOf
<1>4. e \in RangeOf(TableOf(w, log)) =>
        1 + Cardinality(JobsOf(chan, e)) + Cardinality(Unrowed(e)) <= sent[e]
  BY DEF RowsCounted
<1>5. ASSUME NEW U, U = Unrowed(e)', e \in RangeOf(TableOf(w, log)), U \subseteq Unrowed(e)
      PROVE  1 + Cardinality(JobsOf(chan', e)) + Cardinality(Unrowed(e)') <= sent'[e]
  <2>1. /\ Cardinality(Unrowed(e)) \in Nat /\ Cardinality(U) \in Nat
        /\ Cardinality(U) <= Cardinality(Unrowed(e))
    BY <1>3, <1>5, FewerPositions
  <2> QED
    BY <1>2, <1>4, <1>5, <2>1
<1>6. CASE Collect
  <2>1. /\ chan \in Seq(DurableJob) /\ chan # <<>> /\ chan' = Tail(chan) /\ sent' = sent
        /\ Head(chan) \in DurableJob /\ w'.jobs = Append(w.jobs, Head(chan)) /\ w'.pc = "collect"
        /\ w.offs = <<>> /\ w'.offs = <<>> /\ w.pc \in {"idle", "collect"} /\ log' = log
    BY <1>6, CollectDoes
  <2>2. Unrowed(e)' = JobsOf(w'.jobs, e) /\ Unrowed(e) = JobsOf(w.jobs, e)
    <3>1. w'.jobs \in Seq(DurableJob)
      BY <1>3, <2>1
    <3>2. \A i \in DOMAIN w.jobs : i > 0
      BY <1>3
    <3>3. \A i \in DOMAIN w'.jobs : i > 0
      BY <3>1
    <3> QED
      BY <2>1, <3>2, <3>3 DEF Unrowed, JobsOf
  <2>3. /\ Cardinality(JobsOf(chan', e)) <= Cardinality(JobsOf(chan, e))
        /\ Head(chan).e = e => Cardinality(JobsOf(chan', e)) + 1 <= Cardinality(JobsOf(chan, e))
    BY <2>1, JobsTail
  <2>4. /\ Cardinality(JobsOf(w'.jobs, e)) \in Nat /\ Cardinality(JobsOf(w.jobs, e)) \in Nat
        /\ Cardinality(JobsOf(w'.jobs, e)) <= Cardinality(JobsOf(w.jobs, e)) + 1
        /\ Head(chan).e # e => Cardinality(JobsOf(w'.jobs, e)) = Cardinality(JobsOf(w.jobs, e))
    BY <1>3, <2>1, JobsAppend
  <2>5. e \in RangeOf(TableOf(w, log))
    BY <2>1 DEF TableOf
  <2>6. sent'[e] = sent[e]
    BY <2>1
  <2> QED
    BY <1>2, <1>4, <2>2, <2>3, <2>4, <2>5, <2>6
<1>7. CASE InsertRow
  <2>1. PICK n \in Nat, d \in Durable, tx \in Seq(Durable), o \in Nat \ {0} : InsertIs(n, d, tx, o)
    BY <1>7, InsertDoes
  <2>2. /\ n = Len(w.offs) /\ n + 1 \in DOMAIN w.jobs /\ d = w.jobs[n + 1].e
        /\ tx = IF d \in RangeOf(w.tx) THEN w.tx ELSE Append(w.tx, d)
        /\ w'.tx = tx /\ w'.offs = Append(w.offs, o) /\ w'.jobs = w.jobs
        /\ w.pc = "append" /\ w'.pc = "append" /\ w.tx \in Seq(Durable)
        /\ w.offs \in Seq(Nat \ {0})
    BY <2>1 DEF InsertIs, HubInv, WriterOK, WriterIs, WriterTask
  <2>3. Len(w'.offs) = n + 1
    BY <2>2
  <2>4. PICK U : U = Unrowed(e)'
    OBVIOUS
  <2>5. U = {j \in JobsOf(w.jobs, e) : j > n + 1} /\ Unrowed(e) = {j \in JobsOf(w.jobs, e) : j > n}
    BY <2>2, <2>3, <2>4 DEF Unrowed
  <2>6. U \subseteq Unrowed(e)
    BY <1>3, <2>5 DEF JobsOf
  <2>7. CASE e \in RangeOf(w.tx)
    BY <1>5, <2>2, <2>4, <2>6, <2>7 DEF TableOf
  <2>8. CASE e \notin RangeOf(w.tx)
    <3>1. e \in RangeOf(tx)
      BY <2>2 DEF TableOf
    <3>2. e = d
      BY <2>2, <2>8, <3>1 DEF RangeOf
    <3>3. n + 1 \in JobsOf(w.jobs, e) /\ n + 1 \notin U
      BY <2>2, <2>5, <3>2 DEF JobsOf
    <3>4. U \subseteq JobsOf(w.jobs, e) /\ JobsOf(w.jobs, e) \subseteq DOMAIN w.jobs
      BY <2>5 DEF JobsOf
    <3>5. /\ Cardinality(JobsOf(w.jobs, e)) \in Nat /\ Cardinality(U) \in Nat
          /\ Cardinality(U) + 1 <= Cardinality(JobsOf(w.jobs, e))
      BY <1>3, <3>3, <3>4, FewerPositions
    <3>6. Cardinality(JobsOf(chan, e)) + Cardinality(JobsOf(w.jobs, e)) <= sent[e]
      BY <1>1 DEF JobsCounted
    <3> QED
      BY <1>2, <2>4, <3>5, <3>6
  <2> QED
    BY <2>7, <2>8
<1>8. CASE ~Collect /\ ~InsertRow
  <2>1. PICK U : U = Unrowed(e)'
    OBVIOUS
  <2>2. e \in RangeOf(TableOf(w, log)) /\ U \subseteq Unrowed(e)
    BY <1>1, <1>8, <2>1, RowsStay
  <2> QED
    BY <1>5, <2>1, <2>2
<1> QED
  BY <1>6, <1>7, <1>8

---------------------------------------------------------------------------
(* What a subscription has still to see of the batch.                      *)

\* A position in the batch, or one after.
LEMMA NextForIs ==
  ASSUME HubInv, NEW s \in Sub
  PROVE  NextFor(s) \in Nat \ {0}
<1>1. w.next \in Nat \ {0}
  BY DEF HubInv, WriterOK, WriterIs, WriterTask
<1> QED
  BY <1>1 DEF NextFor

\* A fan_out passes each subscription of its snapshot once.
LEMMA AheadNext ==
  ASSUME HubInv, Next, w' = w, NEW s \in Sub, Ahead(s)'
  PROVE  Ahead(s)
<1>1. fan \in [Pub \cup {Writer} -> FanOut \cup {NoFan}] /\ Writer \notin Pub
  BY HubAssumption DEF HubInv, AllTold, FansIn
<1>2. ASSUME fan'[Writer] = fan[Writer] PROVE Ahead(s)
  BY <1>2 DEF Ahead
<1>3. ASSUME NEW p \in Pub, Produce(p) PROVE fan'[Writer] = fan[Writer]
  BY <1>1, <1>3 DEF Produce, PublishBlocked, PublishMemory, PublishDurable, StartFan
<1>4. ASSUME NEW p \in Pub \cup {Writer}, FanStep(p) PROVE Ahead(s)
  <2>1. PICK f \in FanOut, z \in Sub, m \in Told(log), g \in FanOut : FanStepIs(p, f, z, m, g)
    BY <1>4, FanStepDoes
  <2>2. /\ fan' = [fan EXCEPT ![p] = g] /\ fan[p] = f /\ f # NoFan /\ g.snap = f.snap
        /\ g.at = f.at + 1
    BY <2>1 DEF FanStepIs
  <2>3. CASE p # Writer
    BY <1>1, <1>2, <2>2, <2>3
  <2>4. CASE p = Writer
    <3>1. fan'[Writer] = g
      BY <1>1, <2>2, <2>4
    <3>2. PICK k \in DOMAIN f.snap : k >= f.at + 1 /\ f.snap[k] = s
      BY <2>2, <3>1 DEF Ahead
    <3>3. k >= f.at
      BY <3>2 DEF FanOut
    <3> QED
      BY <2>2, <2>4, <3>2, <3>3 DEF Ahead
  <2> QED
    BY <2>3, <2>4
<1>5. ASSUME NEW p \in Pub \cup {Writer}, FanEnd(p) PROVE Ahead(s)
  <2>1. fan' = [fan EXCEPT ![p] = NoFan]
    BY <1>5 DEF FanEnd
  <2> QED
    BY <1>1, <1>2, <2>1 DEF Ahead
<1>6. ASSUME WriterStep PROVE Ahead(s)
  <2>1. CASE Deliver
    <3>1. w.pc = "deliver" /\ w'.pc = "reply"
      BY <2>1 DEF Deliver, HubInv, WriterOK, WriterIs, WriterTask
    <3> QED
      BY <3>1
  <2>2. CASE ~Deliver
    BY <1>2, <1>6, <2>2 DEF WriterStep, Collect, Begin, InsertRow, Commit, Rollback, Bump, Reply
  <2> QED
    BY <2>1, <2>2
<1>7. ASSUME NEW z \in Sub, ReadCeiling(z) \/ Joining(z) \/ ReaderStep(z) \/ Drop(z)
      PROVE  fan'[Writer] = fan[Writer]
  BY <1>7 DEF ReadCeiling, Joining, Register, ReadLog, ReadLogFails, ReplayRow, ReplayEnd, ReaderStep,
     Recv, Look, Wait, Wake, Drop, subFrame
<1>8. ASSUME NEW d \in Event, Expire(d) PROVE fan'[Writer] = fan[Writer]
  BY <1>8 DEF Expire
<1>9. ASSUME Crash PROVE FALSE
  BY <1>9 DEF Crash, Ahead
<1> QED
  BY <1>2, <1>3, <1>4, <1>5, <1>6, <1>7, <1>8, <1>9 DEF Next

\* A subscription goes through the batch from the front to the end.
LEMMA NextForGrows ==
  ASSUME HubInv, FansOK, Next, NEW s \in Sub
  PROVE  w' = IdleWriter \/ NextFor(s) <= NextFor(s)'
<1>1. w \in WriterTask /\ w.next \in Nat \ {0}
  BY DEF HubInv, WriterOK, WriterIs, WriterTask
<1>2. NextFor(s)' \in Nat \ {0}
  <2>1. HubInv'
    BY HubInvNext
  <2>2. w'.next \in Nat \ {0}
    BY <2>1 DEF HubInv, WriterOK, WriterIs, WriterTask
  <2> QED
    BY <2>2 DEF NextFor
<1>3. CASE w.pc \notin {"deliver", "reply"}
  <2>1. NextFor(s) = 1
    BY <1>3 DEF NextFor
  <2> QED
    BY <1>2, <2>1
<1>4. CASE w.pc \in {"deliver", "reply"} /\ w' = w
  <2>1. Ahead(s)' => Ahead(s)
    BY <1>4, AheadNext
  <2> QED
    BY <1>1, <1>4, <2>1 DEF NextFor
<1>5. CASE Deliver
  <2>1. w.pc = "deliver" /\ w'.pc = "reply" /\ w'.next = w.next
    BY <1>1, <1>5 DEF Deliver, WriterTask
  <2> QED
    BY <1>1, <2>1 DEF NextFor
<1>6. CASE Reply
  <2>1. w.pc = "reply" /\ (w' = IdleWriter \/ (w'.pc = "deliver" /\ w'.next = w.next + 1))
    BY <1>1, <1>6 DEF Reply, WriterTask
  <2> QED
    BY <1>1, <2>1 DEF NextFor
<1>7. CASE w.pc \in {"deliver", "reply"} /\ w' # w /\ ~Deliver /\ ~Reply
  <2>1. ~WriterStep
    BY <1>7 DEF WriterStep, Collect, Begin, InsertRow, Commit, Rollback, Bump
  <2>2. ASSUME NEW p \in Pub, Produce(p) PROVE FALSE
    BY <1>7, <2>2 DEF Produce, PublishBlocked, PublishMemory, PublishDurable
  <2>3. ASSUME NEW p \in Pub \cup {Writer}, FanStep(p) \/ FanEnd(p) PROVE FALSE
    BY <1>7, <2>3 DEF FanStep, FanEnd
  <2>4. ASSUME NEW z \in Sub, ReadCeiling(z) \/ Joining(z) \/ ReaderStep(z) \/ Drop(z) PROVE FALSE
    BY <1>7, <2>4 DEF ReadCeiling, Joining, Register, ReadLog, ReadLogFails, ReplayRow, ReplayEnd, ReaderStep,
       Recv, Look, Wait, Wake, Drop, subFrame
  <2>5. ASSUME NEW d \in Event, Expire(d) PROVE FALSE
    BY <1>7, <2>5 DEF Expire
  <2>6. Crash
    BY <2>1, <2>2, <2>3, <2>4, <2>5 DEF Next
  <2> QED
    BY <2>6 DEF Crash
<1> QED
  BY <1>3, <1>4, <1>5, <1>6, <1>7

\* The round of the writer's fan_out that comes to a subscription takes its
\* current job off what the subscription has still to see.
LEMMA FanPasses ==
  ASSUME HubInv, JoinOK, FansOK, FanStep(Writer), NEW f \in FanOut, NEW z \in Sub,
         NEW m \in Told(log), NEW g \in FanOut, FanStepIs(Writer, f, z, m, g)
  PROVE  /\ w' = w /\ w.pc = "reply" /\ w.next \in DOMAIN w.jobs /\ w.next \in Nat
         /\ m.e = w.jobs[w.next].e /\ m.off = OffsetAt(w.next)
         /\ NextFor(z) = w.next /\ NextFor(z)' = w.next + 1
<1>1. fan \in [Pub \cup {Writer} -> FanOut \cup {NoFan}]
  BY DEF HubInv, AllTold, FansIn
<1>2. /\ f = fan[Writer] /\ f # NoFan /\ f.at \in DOMAIN f.snap /\ z = f.snap[f.at]
      /\ g.snap = f.snap /\ g.at = f.at + 1 /\ m.e = f.e /\ m.off = f.off /\ fan'[Writer] = g
  BY <1>1 DEF FanStepIs
<1>3. w' = w /\ w.pc = "reply" /\ m.e = w.jobs[w.next].e /\ m.off = OffsetAt(w.next)
  BY <1>2 DEF FansOK, CurrentJob, FanStep
<1>4. w.next \in DOMAIN w.jobs /\ w.next \in Nat
  BY <1>3 DEF HubInv, WriterOK, WriterIs, WriterTask
<1>5. Distinct(f.snap) /\ f.at \in Nat
  BY <1>2 DEF JoinOK, ListOK, FanOut
<1>6. Ahead(z)
  BY <1>2, <1>5 DEF Ahead
<1>7. ~Ahead(z)'
  <2>1. SUFFICES ASSUME Ahead(z)' PROVE FALSE
    OBVIOUS
  <2>2. PICK k \in DOMAIN f.snap : k >= f.at + 1 /\ f.snap[k] = z
    BY <1>2, <2>1 DEF Ahead
  <2>3. k = f.at
    BY <1>2, <1>5, <2>2 DEF Distinct
  <2> QED
    BY <1>5, <2>2, <2>3
<1> QED
  BY <1>3, <1>4, <1>6, <1>7 DEF NextFor

\* Only a commit changes the log, and it adds rows at the end.
LEMMA LogNext ==
  ASSUME HubInv, Next
  PROVE  log' = log \/ (Commit /\ log' = w.tx /\ log' \in Seq(Durable) /\ Prefix(log, log'))
<1>1. CASE Commit
  <2>1. w.pc = "append" /\ log' = w.tx
    BY <1>1 DEF Commit
  <2>2. w.tx \in Seq(Durable) /\ Prefix(log, w.tx)
    BY <2>1 DEF HubInv, WriterOK, WriterIs, WriterTask, TableOf
  <2> QED
    BY <1>1, <2>1, <2>2
<1>2. CASE ~Commit
  BY <1>2 DEF Next, Produce, PublishBlocked, PublishMemory, PublishDurable, FanStep, FanEnd,
     WriterStep, Collect, Begin, InsertRow, Rollback, Bump, Deliver, Reply, ReadCeiling,
     Joining, Register, ReadLog, ReadLogFails, ReplayRow, ReplayEnd, ReaderStep, Recv, Look, Wait, Wake,
     Drop, Expire, Crash, subFrame
<1> QED
  BY <1>1, <1>2

\* What a subscription has still to see only gets less, once it is collected.
LEMMA UnseenShrinks ==
  ASSUME HubInv, FansOK, Next, ~Collect, NEW s \in Sub, NEW e
  PROVE  Unseen(s, e)' \subseteq Unseen(s, e)
<1>1. CASE w' = IdleWriter
  <2>1. w'.jobs = <<>>
    BY <1>1 DEF IdleWriter
  <2>2. Unseen(s, e)' = {}
    BY <2>1 DEF Unseen, JobsOf
  <2> QED
    BY <2>2
<1>2. CASE w' # IdleWriter
  <2>1. w'.jobs = w.jobs /\ NextFor(s) <= NextFor(s)'
    BY <1>2, JobsStay, NextForGrows
  <2>2. NextFor(s) \in Nat
    BY NextForIs
  <2>3. NextFor(s)' \in Nat
    <3>1. HubInv'
      BY HubInvNext
    <3>2. w'.next \in Nat
      BY <3>1 DEF HubInv, WriterOK, WriterIs, WriterTask
    <3> QED
      BY <3>2 DEF NextFor
  <2>4. w.jobs \in Seq(DurableJob)
    BY DEF HubInv, WriterOK, WriterIs, WriterTask
  <2>5. ASSUME NEW j \in Unseen(s, e)' PROVE j \in Unseen(s, e)
    <3>1. j \in DOMAIN w.jobs /\ w.jobs[j].e = e /\ j >= NextFor(s)'
      BY <2>1, <2>5 DEF Unseen, JobsOf
    <3>2. j >= NextFor(s)
      BY <2>1, <2>2, <2>3, <2>4, <3>1
    <3> QED
      BY <3>1, <3>2 DEF Unseen, JobsOf
  <2> QED
    BY <2>5
<1> QED
  BY <1>1, <1>2

\* A row is shown once more only by the writer's fan_out at its job, or by a
\* replay, which stops at the ceiling.
LEMMA SeenAtNext ==
  ASSUME HubInv, FansOK, Next, NEW s \in Sub, NEW o \in Nat \ {0}, o > ceiling[s]
  PROVE  /\ Cardinality(SeenAt(s, o)) \in Nat /\ Cardinality(SeenAt(s, o)') \in Nat
         /\ \/ Cardinality(SeenAt(s, o)') <= Cardinality(SeenAt(s, o))
            \/ /\ FanStep(Writer) /\ Cardinality(SeenAt(s, o)') <= Cardinality(SeenAt(s, o)) + 1
               /\ \E f \in FanOut, m \in Told(log), g \in FanOut :
                    FanStepIs(Writer, f, s, m, g) /\ m.off = o
<1>1. Seen(s) \in Seq(Published) /\ Seen(s)' \in Seq(Published) /\ ceiling[s] \in Nat
  <2>1. HubInv'
    BY HubInvNext
  <2>2. got'[s] \in Seq(Told(log')) /\ ring'[s] \in Seq(Told(log'))
    BY <2>1 DEF HubInv, AllTold, RingsIn
  <2>3. Told(log') \subseteq Published
    BY DEF Told
  <2>4. got'[s] \in Seq(Published) /\ ring'[s] \in Seq(Published)
    BY <2>2, <2>3
  <2> QED
    BY <2>4, SeenIsQueue DEF HubInv, LogOK, Seen
<1>2. PICK q, r : q = Seen(s) /\ r = Seen(s)'
  OBVIOUS
<1>3. SeenAt(s, o) = At(q, o) /\ SeenAt(s, o)' = At(r, o) /\ q \in Seq(Published) /\ r \in Seq(Published)
  BY <1>1, <1>2 DEF SeenAt, At
<1>4. Cardinality(At(q, o)) \in Nat /\ Cardinality(At(r, o)) \in Nat
  BY <1>3, PositionsAreFinite DEF At
<1>5. CASE r = q
  BY <1>3, <1>4, <1>5
<1>6. CASE \E p \in Pub \cup {Writer} : FanStep(p)
  <2>1. PICK p \in Pub \cup {Writer} : FanStep(p)
    BY <1>6
  <2>2. PICK f \in FanOut, z \in Sub, m \in Told(log), g \in FanOut : FanStepIs(p, f, z, m, g)
    BY <2>1, FanStepDoes
  <2>3. CASE r # q
    <3>1. s = z /\ Grown(Published, q, r, m) /\ m \in Published
      BY <1>2, <2>1, <2>2, <2>3, FanGrows DEF Told
    <3>2. /\ Cardinality(At(r, o)) <= Cardinality(At(q, o)) + 1
          /\ m.off # o => Cardinality(At(r, o)) <= Cardinality(At(q, o))
      BY <1>3, <3>1, AtGrown
    <3>3. CASE m.off # o
      BY <1>3, <1>4, <3>2, <3>3
    <3>4. CASE m.off = o
      <4>1. p = Writer
        BY <2>2, <3>4 DEF FansOK, FanStepIs
      <4> QED
        BY <1>3, <1>4, <2>1, <2>2, <3>1, <3>2, <3>4, <4>1
    <3> QED
      BY <3>3, <3>4
  <2> QED
    BY <1>5, <2>3
<1>7. CASE \E z \in Sub : ReplayRow(z)
  <2>1. PICK z \in Sub : ReplayRow(z)
    BY <1>7
  <2>2. CASE r # q
    <3>1. PICK m \in Published : m = Head(rows[z])
      BY <2>1, ReplayGrows
    <3>2. s = z /\ Grown(Published, q, r, m) /\ m.off <= ceiling[s]
      BY <1>2, <2>1, <2>2, <3>1, ReplayGrows
    <3>3. m.off # o
      BY <1>1, <3>2 DEF Published
    <3>4. Cardinality(At(r, o)) <= Cardinality(At(q, o))
      BY <1>3, <3>2, <3>3, AtGrown
    <3> QED
      BY <1>3, <1>4, <3>4
  <2> QED
    BY <1>5, <2>2
<1>8. CASE (\A p \in Pub \cup {Writer} : ~FanStep(p)) /\ (\A z \in Sub : ~ReplayRow(z))
  <2>1. Thin(q, r)
    BY <1>2, <1>8, SeenStays
  <2>2. Cardinality(At(r, o)) <= Cardinality(At(q, o))
    BY <1>3, <2>1, AtThin
  <2> QED
    BY <1>3, <1>4, <2>2
<1> QED
  BY <1>6, <1>7, <1>8

\* A live row is seen once for each publish of its envelope: the ceiling keeps
\* the replay off it, and a fan_out uses up its job.
LEMMA SeenCountedNext ==
  HubInv /\ JoinOK /\ FansOK /\ JobsCounted /\ SeenCounted /\ Next => SeenCounted'
<1> SUFFICES ASSUME HubInv, JoinOK, FansOK, JobsCounted, SeenCounted, Next, NEW s \in Sub,
                    NEW o \in DOMAIN log', o > ceiling'[s], NEW d, d = log'[o]
             PROVE  Cardinality(SeenAt(s, o)') + Cardinality(JobsOf(chan', d))
                      + Cardinality(Unseen(s, d)') <= sent'[d]
  BY DEF SeenCounted, Unseen
<1>1. HubInv'
  BY HubInvNext
<1>2. PICK e \in Event : e = log'[o] /\ e = d
  BY <1>1, HubAssumption DEF HubInv, LogOK
<1>3. o \in Nat \ {0} /\ ceiling[s] \in Nat /\ log \in Seq(Durable)
  BY <1>1 DEF HubInv, LogOK
<1>4. /\ sent'[e] \in Nat /\ sent[e] \in Nat /\ sent[e] <= sent'[e]
      /\ Cardinality(JobsOf(chan, e)) \in Nat /\ Cardinality(JobsOf(chan', e)) \in Nat
      /\ Cardinality(JobsOf(chan', e)) + sent[e] <= Cardinality(JobsOf(chan, e)) + sent'[e]
  BY ChannelNext
<1>5. PICK U, V, W, A, B : /\ U = Unseen(s, e) /\ V = Unseen(s, e)' /\ W = JobsOf(w.jobs, e)
                           /\ A = SeenAt(s, o) /\ B = SeenAt(s, o)'
  OBVIOUS
<1>6. SUFFICES Cardinality(B) + Cardinality(JobsOf(chan', e)) + Cardinality(V) <= sent'[e]
  BY <1>2, <1>5
<1>7. w.jobs \in Seq(DurableJob) /\ W \subseteq DOMAIN w.jobs /\ U \subseteq W
  BY <1>5 DEF HubInv, WriterOK, WriterIs, WriterTask, Unseen, JobsOf
<1>8. Cardinality(U) \in Nat /\ Cardinality(W) \in Nat /\ Cardinality(U) <= Cardinality(W)
  BY <1>7, FewerPositions
<1>9. Cardinality(JobsOf(chan, e)) + Cardinality(W) <= sent[e]
  BY <1>5 DEF JobsCounted
<1>10. CASE ReadCeiling(s) \/ o \notin DOMAIN log
  <2>1. ~Collect
    BY <1>10 DEF Collect, ReadCeiling, subFrame, writerFrame, subVars, HubInv, ListsOK
  <2>2. V \subseteq U
    BY <1>5, <2>1, UnseenShrinks
  <2>3. Cardinality(V) \in Nat /\ Cardinality(V) <= Cardinality(W)
    <3>1. V \subseteq W
      BY <1>7, <2>2
    <3> QED
      BY <1>7, <3>1, FewerPositions
  <2>4. B = {}
    <3>1. CASE ReadCeiling(s)
      <4>1. sub[s] = "new" /\ got' = got /\ ring' = ring
        BY <3>1 DEF ReadCeiling, ringVars
      <4>2. Seen(s)' = <<>>
        BY <4>1 DEF JoinOK, Unregistered, Seen
      <4> QED
        BY <1>5, <4>2 DEF SeenAt
    <3>2. CASE o \notin DOMAIN log
      <4>1. Commit
        BY <3>2, LogNext
      <4>2. got' = got /\ ring' = ring
        BY <4>1 DEF Commit, writerFrame, ringVars
      <4>3. Seen(s)' = Seen(s)
        BY <4>2 DEF Seen
      <4>4. Seen(s) \in Seq(Told(log))
        BY SeenIsQueue
      <4>5. \A i \in DOMAIN Seen(s) : Seen(s)[i].off # o
        BY <1>3, <3>2, <4>4 DEF Told
      <4> QED
        BY <1>5, <4>3, <4>5 DEF SeenAt
    <3> QED
      BY <1>10, <3>1, <3>2
  <2>5. Cardinality(B) = 0
    BY <2>4, FS_EmptySet
  <2> QED
    BY <1>4, <1>8, <1>9, <2>3, <2>5
<1>11. CASE ~ReadCeiling(s) /\ o \in DOMAIN log
  <2>1. log[o] = e /\ o > ceiling[s]
    <3>1. ceiling'[s] = ceiling[s]
      BY <1>11, CeilingNext
    <3>2. log'[o] = log[o]
      BY <1>3, <1>11, LogNext DEF Prefix
    <3> QED
      BY <1>2, <3>1, <3>2
  <2>2. Cardinality(A) + Cardinality(JobsOf(chan, e)) + Cardinality(U) <= sent[e]
    BY <1>5, <1>11, <2>1 DEF SeenCounted
  <2>3. /\ Cardinality(A) \in Nat /\ Cardinality(B) \in Nat
        /\ \/ Cardinality(B) <= Cardinality(A)
           \/ /\ FanStep(Writer) /\ Cardinality(B) <= Cardinality(A) + 1
              /\ \E f \in FanOut, m \in Told(log), g \in FanOut :
                   FanStepIs(Writer, f, s, m, g) /\ m.off = o
    BY <1>3, <1>5, <2>1, SeenAtNext
  <2>4. CASE Collect
    <3>1. /\ chan \in Seq(DurableJob) /\ chan # <<>> /\ chan' = Tail(chan) /\ sent' = sent
          /\ Head(chan) \in DurableJob /\ w'.jobs = Append(w.jobs, Head(chan)) /\ w'.pc = "collect"
          /\ w.pc \in {"idle", "collect"} /\ got' = got /\ ring' = ring
      BY <2>4, CollectDoes
    <3>2. U = W /\ V = JobsOf(w'.jobs, e)
      <4>1. NextFor(s) = 1 /\ NextFor(s)' = 1 /\ w'.jobs \in Seq(DurableJob)
        BY <1>7, <3>1 DEF NextFor
      <4>2. (\A i \in DOMAIN w.jobs : i >= 1) /\ (\A i \in DOMAIN w'.jobs : i >= 1)
        BY <1>7, <4>1
      <4> QED
        BY <1>5, <4>1, <4>2 DEF Unseen, JobsOf
    <3>3. A = B
      BY <1>5, <3>1 DEF SeenAt, Seen
    <3>4. /\ Cardinality(JobsOf(chan', e)) <= Cardinality(JobsOf(chan, e))
          /\ Head(chan).e = e => Cardinality(JobsOf(chan', e)) + 1 <= Cardinality(JobsOf(chan, e))
      BY <3>1, JobsTail
    <3>5. /\ Cardinality(V) \in Nat /\ Cardinality(V) <= Cardinality(U) + 1
          /\ Head(chan).e # e => Cardinality(V) = Cardinality(U)
      BY <1>5, <1>7, <3>1, <3>2, JobsAppend
    <3>6. sent'[e] = sent[e]
      BY <3>1
    <3> QED
      BY <1>4, <1>8, <2>2, <2>3, <3>3, <3>4, <3>5, <3>6
  <2>5. CASE ~Collect /\ Cardinality(B) <= Cardinality(A)
    <3>1. V \subseteq U /\ U \subseteq DOMAIN w.jobs
      BY <1>5, <1>7, <2>5, UnseenShrinks
    <3>2. Cardinality(V) \in Nat /\ Cardinality(V) <= Cardinality(U)
      BY <1>7, <3>1, FewerPositions
    <3> QED
      BY <1>4, <1>8, <2>2, <2>3, <2>5, <3>2
  <2>6. CASE ~Collect /\ ~(Cardinality(B) <= Cardinality(A))
    <3>1. FanStep(Writer) /\ Cardinality(B) <= Cardinality(A) + 1
      BY <2>3, <2>6
    <3>2. PICK f \in FanOut, m \in Told(log), g \in FanOut :
            FanStepIs(Writer, f, s, m, g) /\ m.off = o
      BY <2>3, <2>6
    <3>3. /\ w' = w /\ w.next \in DOMAIN w.jobs /\ w.next \in Nat /\ m.e = w.jobs[w.next].e
          /\ NextFor(s) = w.next /\ NextFor(s)' = w.next + 1
      BY <3>1, <3>2, FanPasses
    <3>4. m.e = e
      BY <1>3, <2>1, <3>2 DEF Told
    <3>5. w.next \in U /\ w.next \notin V
      <4>1. V \subseteq {j \in DOMAIN w.jobs : j >= w.next + 1}
        BY <1>5, <3>3 DEF Unseen, JobsOf
      <4>2. w.next \in JobsOf(w.jobs, e)
        BY <3>3, <3>4 DEF JobsOf
      <4>3. w.next >= NextFor(s)
        BY <3>3
      <4>4. w.next \in U
        BY <1>5, <4>2, <4>3 DEF Unseen
      <4> QED
        BY <3>3, <4>1, <4>4
    <3>6. V \subseteq U /\ U \subseteq DOMAIN w.jobs
      BY <1>5, <1>7, <2>6, UnseenShrinks
    <3>7. Cardinality(V) \in Nat /\ Cardinality(V) + 1 <= Cardinality(U)
      BY <1>7, <3>5, <3>6, FewerPositions
    <3> QED
      BY <1>4, <1>8, <2>2, <2>3, <3>1, <3>7
  <2> QED
    BY <2>4, <2>5, <2>6
<1> QED
  BY <1>10, <1>11

---------------------------------------------------------------------------
(* Live rows.                                                              *)

\* An envelope on its way or in the log was published: to be published again
\* makes it no longer single.
LEMMA SinglesStay ==
  ASSUME HubInv, JobsCounted, RowsCounted, Next, NEW e \in Single',
         e \in RangeOf(log) \/ \E j \in DOMAIN w.jobs : w.jobs[j].e = e
  PROVE  e \in Single
<1>1. e \in Event /\ sent'[e] = 1
  BY DEF Single
<1>2. sent[e] \in Nat /\ sent[e] <= sent'[e] /\ Cardinality(JobsOf(chan, e)) \in Nat
  BY <1>1, ChannelNext
<1>3. w.jobs \in Seq(DurableJob)
  BY DEF HubInv, WriterOK, WriterIs, WriterTask
<1>4. ASSUME NEW j \in DOMAIN w.jobs, w.jobs[j].e = e PROVE sent[e] >= 1
  <2>1. PICK T : T = JobsOf(w.jobs, e)
    OBVIOUS
  <2>2. T \subseteq DOMAIN w.jobs /\ {} \subseteq T /\ j \in T /\ j \notin {}
    BY <1>4, <2>1 DEF JobsOf
  <2>3. Cardinality(T) \in Nat /\ Cardinality({}) + 1 <= Cardinality(T) /\ Cardinality({}) \in Nat
    BY <1>3, <2>2, FewerPositions
  <2>4. Cardinality(JobsOf(chan, e)) + Cardinality(T) <= sent[e]
    BY <1>1, <2>1 DEF JobsCounted
  <2> QED
    BY <1>2, <2>3, <2>4
<1>5. ASSUME e \in RangeOf(log) PROVE sent[e] >= 1
  <2>1. e \in RangeOf(TableOf(w, log))
    <3>1. /\ log \in Seq(Durable) /\ w.tx \in Seq(Durable) /\ Prefix(log, TableOf(w, log))
      BY DEF HubInv, WriterOK, WriterIs, LogOK, WriterTask
    <3>2. \A i \in DOMAIN log : i \in DOMAIN TableOf(w, log) /\ TableOf(w, log)[i] = log[i]
      BY <3>1 DEF Prefix, TableOf
    <3> QED
      BY <1>5, <3>2 DEF RangeOf
  <2>2. 1 + Cardinality(JobsOf(chan, e)) + Cardinality(Unrowed(e)) <= sent[e]
    BY <2>1 DEF RowsCounted
  <2>3. Cardinality(Unrowed(e)) \in Nat
    BY <1>3, PositionsAreFinite DEF Unrowed, JobsOf
  <2> QED
    BY <1>2, <2>2, <2>3
<1> QED
  BY <1>1, <1>2, <1>4, <1>5 DEF Single

\* The offsets of a batch are those of its transaction until it is done.
LEMMA OffsNext ==
  ASSUME HubInv, Next, ~InsertRow
  PROVE  \/ w'.offs = <<>>
         \/ /\ w'.offs = w.offs /\ w'.jobs = w.jobs
            /\ w'.pc = "append" => w.pc = "append" /\ log' = log
            /\ w'.pc \in {"bump", "deliver", "reply"} => w.pc \in {"bump", "deliver", "reply"} \/ Commit
<1> DEFINE Goal == \/ w'.offs = <<>>
                   \/ /\ w'.offs = w.offs /\ w'.jobs = w.jobs
                      /\ w'.pc = "append" => w.pc = "append" /\ log' = log
                      /\ w'.pc \in {"bump", "deliver", "reply"} =>
                           w.pc \in {"bump", "deliver", "reply"} \/ Commit
<1>1. w \in WriterTask
  BY DEF HubInv, WriterOK, WriterIs
<1>2. ASSUME UNCHANGED <<w, log>> PROVE Goal
  BY <1>2
<1>3. ASSUME Collect PROVE Goal
  BY <1>3, CollectDoes
<1>4. ASSUME Begin PROVE Goal
  <2>1. w.offs = <<>> /\ w'.offs = w.offs
    BY <1>1, <1>4 DEF Begin, HubInv, WriterOK, WriterIs, WriterTask
  <2> QED
    BY <2>1
<1>5. ASSUME Commit PROVE Goal
  BY <1>1, <1>5 DEF Commit, WriterTask
<1>6. ASSUME Rollback PROVE Goal
  BY <1>1, <1>6 DEF Rollback, WriterTask
<1>7. ASSUME Bump \/ Deliver PROVE Goal
  BY <1>1, <1>7 DEF Bump, Deliver, WriterTask
<1>8. ASSUME Reply PROVE Goal
  BY <1>1, <1>8 DEF Reply, WriterTask, IdleWriter
<1>9. ASSUME Crash PROVE Goal
  BY <1>9 DEF Crash, IdleWriter
<1>10. ASSUME NEW p \in Pub, Produce(p) PROVE Goal
  BY <1>2, <1>10 DEF Produce, PublishBlocked, PublishMemory, PublishDurable
<1>11. ASSUME NEW p \in Pub \cup {Writer}, FanStep(p) \/ FanEnd(p) PROVE Goal
  BY <1>2, <1>11 DEF FanStep, FanEnd
<1>12. ASSUME NEW s \in Sub, ReadCeiling(s) \/ Joining(s) \/ ReaderStep(s) \/ Drop(s) PROVE Goal
  BY <1>2, <1>12 DEF ReadCeiling, Joining, Register, ReadLog, ReadLogFails, ReplayRow, ReplayEnd, ReaderStep,
     Recv, Look, Wait, Wake, Drop, subFrame
<1>13. ASSUME NEW d \in Event, Expire(d) PROVE Goal
  BY <1>2, <1>13 DEF Expire
<1> QED
  BY <1>3, <1>4, <1>5, <1>6, <1>7, <1>8, <1>9, <1>10, <1>11, <1>12, <1>13 DEF Next, WriterStep

\* The rows of a batch go up: an envelope published once is not in the table
\* before its only job is inserted (Durable::append).
LEMMA BatchOKNext == HubInv /\ JobsCounted /\ RowsCounted /\ BatchOK /\ Next => BatchOK'
<1> SUFFICES ASSUME HubInv, JobsCounted, RowsCounted, BatchOK, Next PROVE BatchOK'
  OBVIOUS
<1>1. /\ w \in WriterTask /\ w.jobs \in Seq(DurableJob) /\ w.offs \in Seq(Nat \ {0})
      /\ Len(w.offs) <= Len(w.jobs)
  BY DEF HubInv, WriterOK, WriterIs, WriterTask
<1>2. \A j \in DOMAIN w.offs : j \in DOMAIN w.jobs
  BY <1>1
<1>3. ASSUME NEW j \in DOMAIN w.offs, w.jobs[j].e \in Single' PROVE w.jobs[j].e \in Single
  BY <1>2, <1>3, SinglesStay
<1>4. CASE InsertRow
  <2>1. PICK n \in Nat, d \in Durable, tx \in Seq(Durable), o \in Nat \ {0} : InsertIs(n, d, tx, o)
    BY <1>4, InsertDoes
  <2>2. /\ n = Len(w.offs) /\ n + 1 \in DOMAIN w.jobs /\ d = w.jobs[n + 1].e
        /\ tx = IF d \in RangeOf(w.tx) THEN w.tx ELSE Append(w.tx, d)
        /\ d \notin RangeOf(w.tx) => o = Len(tx)
        /\ w'.offs = Append(w.offs, o) /\ w'.jobs = w.jobs /\ w.pc = "append"
    BY <2>1 DEF InsertIs
  <2>3. sent' = sent /\ log' = log /\ Single' = Single
    BY <1>4 DEF InsertRow, writerFrame, Single
  <2>4. /\ log \in Seq(Durable) /\ w.tx \in Seq(Durable) /\ Len(log) <= Len(w.tx)
        /\ \A j \in DOMAIN w.offs : w.offs[j] \in DOMAIN w.tx
    BY <2>2 DEF HubInv, LogOK, WriterOK, WriterIs, WriterTask, TableOf, Prefix, OffsetsOf
  <2>5. ASSUME d \in Single PROVE o = Len(w.tx) + 1
    <3>1. ASSUME d \in RangeOf(w.tx) PROVE FALSE
      <4>1. 1 + Cardinality(JobsOf(chan, d)) + Cardinality(Unrowed(d)) <= sent[d]
        BY <2>2, <3>1 DEF RowsCounted, TableOf
      <4>2. PICK T : T = Unrowed(d)
        OBVIOUS
      <4>3. T \subseteq DOMAIN w.jobs /\ {} \subseteq T /\ n + 1 \in T /\ n + 1 \notin {}
        BY <2>2, <4>2 DEF Unrowed, JobsOf
      <4>4. Cardinality(T) \in Nat /\ Cardinality({}) \in Nat /\ Cardinality({}) + 1 <= Cardinality(T)
        BY <1>1, <4>3, FewerPositions
      <4>5. Cardinality(JobsOf(chan, d)) \in Nat
        BY PositionsAreFinite DEF HubInv, ProducersOK, JobsOf
      <4>6. sent[d] = 1
        BY <2>5 DEF Single
      <4> QED
        BY <4>1, <4>2, <4>4, <4>5, <4>6
    <3> QED
      BY <2>2, <2>4, <3>1
  <2>6. DOMAIN w'.offs = 1 .. (n + 1) /\ w'.offs[n + 1] = o /\ DOMAIN w.offs = 1 .. n
        /\ \A j \in 1 .. n : w'.offs[j] = w.offs[j]
    BY <1>1, <2>2
  <2>7. ASSUME NEW j \in DOMAIN w'.offs, NEW k \in DOMAIN w'.offs, j < k,
               w.jobs[j].e \in Single, w.jobs[k].e \in Single
        PROVE  w'.offs[j] < w'.offs[k]
    <3>1. j \in 1 .. n /\ w'.offs[j] = w.offs[j]
      BY <2>6, <2>7
    <3>2. CASE k = n + 1
      <4>1. w'.offs[k] = Len(w.tx) + 1
        BY <2>2, <2>5, <2>6, <2>7, <3>2
      <4>2. w.offs[j] \in 1 .. Len(w.tx)
        BY <2>4, <2>6, <3>1
      <4> QED
        BY <2>4, <3>1, <4>1, <4>2
    <3>3. CASE k # n + 1
      <4>1. k \in 1 .. n /\ w'.offs[k] = w.offs[k]
        BY <2>6, <3>3
      <4> QED
        BY <2>6, <2>7, <3>1, <4>1 DEF BatchOK
    <3> QED
      BY <3>2, <3>3
  <2>8. ASSUME NEW j \in DOMAIN w'.offs, w.jobs[j].e \in Single PROVE w'.offs[j] > Len(log)
    <3>1. CASE j = n + 1
      BY <2>2, <2>4, <2>5, <2>6, <2>8, <3>1
    <3>2. CASE j # n + 1
      <4>1. j \in 1 .. n /\ w'.offs[j] = w.offs[j]
        BY <2>6, <3>2
      <4> QED
        BY <2>2, <2>6, <2>8, <4>1 DEF BatchOK
    <3> QED
      BY <3>1, <3>2
  <2> QED
    BY <2>2, <2>3, <2>7, <2>8 DEF BatchOK
<1>5. CASE w'.offs = <<>>
  BY <1>5 DEF BatchOK
<1>6. CASE ~InsertRow /\ w'.offs # <<>>
  <2>1. /\ w'.offs = w.offs /\ w'.jobs = w.jobs
        /\ w'.pc = "append" => w.pc = "append" /\ log' = log
    BY <1>6, OffsNext
  <2> QED
    BY <1>3, <2>1 DEF BatchOK
<1> QED
  BY <1>4, <1>5, <1>6

\* No row is still to come that was not, but for a commit.
LEMMA ComingShrinks ==
  ASSUME HubInv, FansOK, JobsCounted, RowsCounted, Next, ~Commit, NEW s \in Sub
  PROVE  Coming(s)' \subseteq Coming(s)
<1>1. SUFFICES ASSUME NEW o \in Coming(s)' PROVE o \in Coming(s)
  OBVIOUS
<1>2. PICK j \in DOMAIN w'.offs : /\ w'.pc \in {"bump", "deliver", "reply"} /\ j >= NextFor(s)'
                                  /\ w'.jobs[j].e \in Single' /\ o = w'.offs[j]
  BY <1>1 DEF Coming
<1>3. ~InsertRow /\ w' # IdleWriter /\ w'.offs # <<>>
  <2>1. ASSUME InsertRow PROVE FALSE
    <3>1. w'.pc = "append"
      BY <2>1, InsertDoes DEF InsertIs
    <3> QED
      BY <1>2, <3>1
  <2> QED
    BY <1>2, <2>1 DEF IdleWriter
<1>4. w'.offs = w.offs /\ w'.jobs = w.jobs /\ w.pc \in {"bump", "deliver", "reply"}
  BY <1>2, <1>3, OffsNext
<1>5. w.jobs \in Seq(DurableJob) /\ w.offs \in Seq(Nat \ {0}) /\ Len(w.offs) <= Len(w.jobs)
  BY DEF HubInv, WriterOK, WriterIs, WriterTask
<1>6. j \in DOMAIN w.jobs /\ j \in Nat
  BY <1>4, <1>5
<1>7. w.jobs[j].e \in Single
  BY <1>2, <1>4, <1>6, SinglesStay
<1>8. j >= NextFor(s)
  <2>1. NextFor(s) <= NextFor(s)' /\ NextFor(s) \in Nat
    BY <1>3, NextForGrows, NextForIs
  <2>2. NextFor(s)' \in Nat
    <3>1. HubInv'
      BY HubInvNext
    <3>2. w'.next \in Nat
      BY <3>1 DEF HubInv, WriterOK, WriterIs, WriterTask
    <3> QED
      BY <3>2 DEF NextFor
  <2> QED
    BY <1>2, <1>6, <2>1, <2>2
<1> QED
  BY <1>2, <1>4, <1>7, <1>8 DEF Coming

\* The row a fan_out of the writer carries was to come, and is before those
\* still to come.
LEMMA FanComes ==
  ASSUME HubInv, JoinOK, FansOK, BatchOK, FanStep(Writer), NEW f \in FanOut, NEW z \in Sub,
         NEW m \in Told(log), NEW g \in FanOut, FanStepIs(Writer, f, z, m, g),
         m.off > 0, m.e \in Single
  PROVE  m.off \in Coming(z) /\ \A o \in Coming(z)' : m.off < o
<1>1. /\ w' = w /\ w.pc = "reply" /\ w.next \in DOMAIN w.jobs /\ w.next \in Nat
      /\ m.e = w.jobs[w.next].e /\ m.off = OffsetAt(w.next)
      /\ NextFor(z) = w.next /\ NextFor(z)' = w.next + 1
  BY FanPasses
<1>2. w.next \in DOMAIN w.offs /\ m.off = w.offs[w.next]
  BY <1>1 DEF OffsetAt
<1>3. w.next >= NextFor(z)
  BY <1>1
<1>4. m.off \in Coming(z)
  BY <1>1, <1>2, <1>3 DEF Coming
<1>5. Single' = Single
  BY DEF FanStep, Single
<1>6. ASSUME NEW o \in Coming(z)' PROVE m.off < o
  <2>1. PICK j \in DOMAIN w.offs : j >= w.next + 1 /\ w.jobs[j].e \in Single /\ o = w.offs[j]
    BY <1>1, <1>5, <1>6 DEF Coming
  <2>2. w.next < j
    <3>1. j \in Nat
      BY DEF HubInv, WriterOK, WriterIs, WriterTask
    <3> QED
      BY <1>1, <2>1, <3>1
  <2> QED
    BY <1>1, <1>2, <2>1, <2>2 DEF BatchOK
<1> QED
  BY <1>4, <1>6

\* Live rows come in the order of the log, whoever joins, drops or publishes.
LEMMA LivesOKNext ==
  /\ HubInv /\ JoinOK /\ FansOK /\ BatchOK /\ JobsCounted /\ RowsCounted /\ LivesOK /\ Next
  => LivesOK'
<1> SUFFICES ASSUME HubInv, JoinOK, FansOK, BatchOK, JobsCounted, RowsCounted, LivesOK, Next,
                    NEW s \in Sub
             PROVE  LiveOrder(Seen(s)', ceiling'[s], Single', Coming(s)')
  BY DEF LivesOK
<1>1. Seen(s) \in Seq(Published) /\ Seen(s)' \in Seq(Published) /\ ceiling[s] \in Nat
  <2>1. HubInv'
    BY HubInvNext
  <2>2. got'[s] \in Seq(Told(log')) /\ ring'[s] \in Seq(Told(log'))
    BY <2>1 DEF HubInv, AllTold, RingsIn
  <2>3. Told(log') \subseteq Published
    BY DEF Told
  <2>4. got'[s] \in Seq(Published) /\ ring'[s] \in Seq(Published)
    BY <2>2, <2>3
  <2> QED
    BY <2>4, SeenIsQueue DEF HubInv, LogOK, Seen
<1>2. PICK q, r, c, N, M, One, Two :
        /\ q = Seen(s) /\ r = Seen(s)' /\ c = ceiling[s] /\ N = Coming(s) /\ M = Coming(s)'
        /\ One = Single /\ Two = Single'
  OBVIOUS
<1>3. q \in Seq(Published) /\ r \in Seq(Published) /\ c \in Nat /\ LiveOrder(q, c, One, N)
  BY <1>1, <1>2 DEF LivesOK
<1>4. q \in Seq(Told(log)) /\ log \in Seq(Durable)
  BY <1>2, SeenIsQueue DEF HubInv, LogOK
<1>5. \A i \in DOMAIN q : q[i].off > c /\ q[i].e \in Two => q[i].e \in One
  <2>1. ASSUME NEW i \in DOMAIN q, q[i].off > c, q[i].e \in Two PROVE q[i].e \in One
    <3>1. q[i].off \in DOMAIN log /\ log[q[i].off] = q[i].e
      <4>1. q[i] \in Told(log)
        BY <1>4
      <4>2. q[i].off > 0
        BY <1>3, <2>1, <4>1 DEF Told, Published
      <4> QED
        BY <4>1, <4>2 DEF Told
    <3>2. q[i].e \in RangeOf(log)
      BY <3>1 DEF RangeOf
    <3> QED
      BY <1>2, <2>1, <3>2, SinglesStay
  <2> QED
    BY <2>1
<1>6. CASE ReadCeiling(s)
  <2>1. sub[s] = "new" /\ got' = got /\ ring' = ring
    BY <1>6 DEF ReadCeiling, ringVars
  <2>2. Seen(s)' = <<>>
    BY <2>1 DEF JoinOK, Unregistered, Seen
  <2> QED
    BY <2>2 DEF LiveOrder
<1>7. CASE ~ReadCeiling(s)
  <2>1. ceiling'[s] = c
    BY <1>2, <1>7, CeilingNext
  <2>2. SUFFICES LiveOrder(r, c, Two, M)
    BY <1>2, <2>1
  <2>3. CASE Commit
    <3>1. r = q /\ Two = One
      BY <1>2, <2>3 DEF Commit, writerFrame, ringVars, Seen, Single
    <3>2. ASSUME NEW i \in DOMAIN q, NEW o \in M PROVE q[i].off < o
      <4>1. /\ w.pc = "append" /\ w'.offs = w.offs /\ w'.jobs = w.jobs
            /\ w.offs \in Seq(Nat \ {0})
        BY <2>3 DEF Commit, HubInv, WriterOK, WriterIs, WriterTask
      <4>2. PICK j \in DOMAIN w.offs : w.jobs[j].e \in Single /\ o = w.offs[j]
        BY <1>2, <3>1, <3>2, <4>1 DEF Coming
      <4>3. o > Len(log) /\ o \in Nat
        BY <4>1, <4>2 DEF BatchOK
      <4>4. q[i].off \in Nat /\ q[i].off <= Len(log)
        <5>1. q[i] \in Told(log)
          BY <1>4
        <5> QED
          BY <1>4, <5>1 DEF Told, Published
      <4> QED
        BY <1>4, <4>3, <4>4
    <3> QED
      BY <1>3, <3>1, <3>2 DEF LiveOrder
  <2>4. CASE ~Commit
    <3>1. M \subseteq N
      BY <1>2, <2>4, ComingShrinks
    <3>2. CASE r = q
      BY <1>3, <1>5, <3>1, <3>2, ThinSame, LiveThin
    <3>3. CASE (\E p \in Pub \cup {Writer} : FanStep(p)) /\ r # q
      <4>1. PICK p \in Pub \cup {Writer} : FanStep(p)
        BY <3>3
      <4>2. PICK f \in FanOut, z \in Sub, m \in Told(log), g \in FanOut : FanStepIs(p, f, z, m, g)
        BY <4>1, FanStepDoes
      <4>3. s = z /\ Grown(Published, q, r, m) /\ m \in Published
        BY <1>2, <3>3, <4>1, <4>2, FanGrows DEF Told
      <4>4. Two = One
        BY <1>2, <4>1 DEF FanStep, Single
      <4>5. ASSUME m.off > c, m.e \in One PROVE m.off \in N /\ \A o \in M : m.off < o
        <5>1. m.off > 0
          BY <1>3, <4>3, <4>5 DEF Published
        <5>2. p = Writer
          BY <4>2, <5>1 DEF FansOK, FanStepIs
        <5> QED
          BY <1>2, <4>1, <4>2, <4>3, <4>5, <5>1, <5>2, FanComes
      <4> QED
        BY <1>3, <3>1, <4>3, <4>4, <4>5, LiveGrown
    <3>4. CASE (\E z \in Sub : ReplayRow(z)) /\ r # q
      <4>1. PICK z \in Sub : ReplayRow(z)
        BY <3>4
      <4>2. PICK m \in Published : m = Head(rows[z])
        BY <4>1, ReplayGrows
      <4>3. s = z /\ Grown(Published, q, r, m) /\ m.off <= c
        BY <1>2, <3>4, <4>1, <4>2, ReplayGrows
      <4>4. Two = One
        BY <1>2, <4>1 DEF ReplayRow, subFrame, Single
      <4>5. ~(m.off > c)
        BY <1>3, <4>2, <4>3 DEF Published
      <4> QED
        BY <1>3, <3>1, <4>3, <4>4, <4>5, LiveGrown
    <3>5. CASE (\A p \in Pub \cup {Writer} : ~FanStep(p)) /\ (\A z \in Sub : ~ReplayRow(z))
      <4>1. Thin(q, r)
        BY <1>2, <3>5, SeenStays
      <4> QED
        BY <1>3, <1>5, <3>1, <4>1, LiveThin
    <3> QED
      BY <3>2, <3>3, <3>4, <3>5
  <2> QED
    BY <2>3, <2>4
<1> QED
  BY <1>6, <1>7

---------------------------------------------------------------------------
(* Once each and in order.                                                 *)

\* Nothing is under way when the hub starts (Hub::new).
LEMMA OrderInvInit == Init => OrderInv
<1> SUFFICES ASSUME Init PROVE OrderInv
  OBVIOUS
<1>1. w.jobs = <<>> /\ w.offs = <<>> /\ w.pc = "idle" /\ chan = <<>> /\ log = <<>> /\ subs = <<>>
  BY DEF Init, IdleWriter
<1>2. JoinOK
  BY DEF Init, JoinOK, ListOK, Distinct
<1>3. FansOK
  BY DEF Init, FansOK
<1>4. \A s \in Sub : Seen(s) = <<>> /\ rows[s] = <<>>
  BY DEF Init, Seen
<1>5. ReplaysOK /\ LivesOK
  BY <1>4 DEF ReplaysOK, LivesOK, ReplayOrder, LiveOrder
<1>6. BatchOK
  BY <1>1 DEF BatchOK
<1>7. JobsCounted
  <2>1. ASSUME NEW e \in Event
        PROVE  Cardinality(JobsOf(chan, e)) + Cardinality(JobsOf(w.jobs, e)) <= sent[e]
    <3>1. JobsOf(chan, e) = {} /\ JobsOf(w.jobs, e) = {}
      BY <1>1 DEF JobsOf
    <3>2. Cardinality(JobsOf(chan, e)) = 0 /\ Cardinality(JobsOf(w.jobs, e)) = 0
      BY <3>1, FS_EmptySet
    <3>3. sent[e] = 0
      BY DEF Init
    <3> QED
      BY <3>2, <3>3
  <2> QED
    BY <2>1 DEF JobsCounted
<1>8. RowsCounted /\ SeenCounted
  BY <1>1 DEF RowsCounted, SeenCounted, TableOf, RangeOf
<1> QED
  BY <1>2, <1>3, <1>5, <1>6, <1>7, <1>8 DEF OrderInv

\* Every step of the hub keeps the order and the balance.
LEMMA OrderInvNext == HubInv /\ OrderInv /\ [Next]_vars => OrderInv'
<1> SUFFICES ASSUME HubInv, OrderInv, [Next]_vars PROVE OrderInv'
  OBVIOUS
<1>1. CASE Next
  BY <1>1, JoinOKNext, FansOKNext, ReplaysOKNext, LivesOKNext, BatchOKNext, JobsCountedNext,
     RowsCountedNext, SeenCountedNext DEF OrderInv
<1>2. CASE UNCHANGED vars
  <2> USE <1>2 DEF vars, OrderInv
  <2>1. JoinOK' /\ FansOK' /\ BatchOK' /\ JobsCounted'
    BY DEF JoinOK, FansOK, BatchOK, JobsCounted, CurrentJob, OffsetAt, Single
  <2>2. ReplaysOK'
    BY DEF ReplaysOK, Seen
  <2>3. RowsCounted'
    BY DEF RowsCounted, Unrowed
  <2>4. ASSUME NEW s \in Sub
        PROVE  NextFor(s)' = NextFor(s) /\ Seen(s)' = Seen(s) /\ Coming(s)' = Coming(s)
    <3>1. NextFor(s)' = NextFor(s) /\ Seen(s)' = Seen(s) /\ Single' = Single
      BY DEF NextFor, Ahead, Seen, Single
    <3> QED
      BY <3>1 DEF Coming
  <2>5. LivesOK'
    BY <2>4 DEF LivesOK, Single
  <2>6. SeenCounted'
    BY <2>4 DEF SeenCounted, Unseen, SeenAt
  <2> QED
    BY <2>1, <2>2, <2>3, <2>5, <2>6
<1> QED
  BY <1>1, <1>2

\* Rows above the ceiling are counted, and of those below each is replayed once.
LEMMA RowsSeenOnce == HubInv /\ OrderInv => NoDoubleDelivery
<1> SUFFICES ASSUME HubInv, OrderInv, NEW s \in Sub, NEW o \in DOMAIN log
             PROVE  Cardinality(SeenAt(s, o)) <= sent[log[o]]
  BY DEF NoDoubleDelivery, SeenAt
<1>1. PICK e \in Event : e = log[o]
  BY HubAssumption DEF HubInv, LogOK
<1>2. /\ log \in Seq(Durable) /\ o \in Nat \ {0} /\ ceiling[s] \in Nat /\ sent[e] \in Nat
      /\ chan \in Seq(DurableJob) /\ w.jobs \in Seq(DurableJob)
  BY DEF HubInv, LogOK, ProducersOK, WriterOK, WriterIs, WriterTask
<1>3. Seen(s) \in Seq(Published) /\ Cardinality(SeenAt(s, o)) \in Nat /\ IsFiniteSet(SeenAt(s, o))
  BY SeenIsQueue, PositionsAreFinite DEF SeenAt
<1>4. /\ Cardinality(JobsOf(chan, e)) \in Nat /\ Cardinality(Unseen(s, e)) \in Nat
      /\ Cardinality(Unrowed(e)) \in Nat
  BY <1>2, PositionsAreFinite DEF JobsOf, Unseen, Unrowed
<1>5. CASE o > ceiling[s]
  <2>1. Cardinality(SeenAt(s, o)) + Cardinality(JobsOf(chan, e)) + Cardinality(Unseen(s, e)) <= sent[e]
    BY <1>1, <1>5 DEF OrderInv, SeenCounted
  <2> QED
    BY <1>1, <1>2, <1>3, <1>4, <2>1
<1>6. CASE ~(o > ceiling[s])
  <2>1. ASSUME NEW i \in SeenAt(s, o), NEW j \in SeenAt(s, o) PROVE i = j
    <3>1. i \in DOMAIN Seen(s) /\ j \in DOMAIN Seen(s) /\ Seen(s)[i].off = o /\ Seen(s)[j].off = o
      BY DEF SeenAt
    <3>2. Replayed(Seen(s), ceiling[s], i) /\ Replayed(Seen(s), ceiling[s], j)
      BY <1>2, <1>6, <3>1 DEF Replayed
    <3>3. ReplayOrder(Seen(s), ceiling[s], rows[s])
      BY DEF OrderInv, ReplaysOK
    <3>4. ~(i < j) /\ ~(j < i)
      BY <1>2, <3>1, <3>2, <3>3 DEF ReplayOrder
    <3> QED
      BY <1>3, <3>1, <3>4
  <2>2. Cardinality(SeenAt(s, o)) <= 1
    <3>1. CASE SeenAt(s, o) = {}
      <4>1. Cardinality(SeenAt(s, o)) = 0
        BY <3>1, FS_EmptySet
      <4> QED
        BY <4>1
    <3>2. CASE SeenAt(s, o) # {}
      <4>1. PICK i : SeenAt(s, o) = {i}
        BY <2>1, <3>2
      <4>2. Cardinality(SeenAt(s, o)) = 1
        BY <4>1, FS_Singleton
      <4> QED
        BY <4>2
    <3> QED
      BY <3>1, <3>2
  <2>3. 1 <= sent[e]
    <3>1. e \in RangeOf(TableOf(w, log))
      <4>1. w.tx \in Seq(Durable) /\ Prefix(log, TableOf(w, log))
        BY DEF HubInv, WriterOK, WriterIs, WriterTask
      <4>2. o \in DOMAIN TableOf(w, log) /\ TableOf(w, log)[o] = log[o]
        BY <1>2, <4>1 DEF Prefix, TableOf
      <4> QED
        BY <1>1, <4>2 DEF RangeOf
    <3>2. 1 + Cardinality(JobsOf(chan, e)) + Cardinality(Unrowed(e)) <= sent[e]
      BY <3>1 DEF OrderInv, RowsCounted
    <3> QED
      BY <1>2, <1>4, <3>2
  <2> QED
    BY <1>1, <1>2, <1>3, <2>2, <2>3
<1> QED
  BY <1>5, <1>6

\* The rows of the log reach a subscription once each and in order, whatever is
\* published, rolled back, replayed, pruned or lost in a crash meanwhile
\* (Hub::subscribe's ceiling against the writer's fan_out, Ring::push).
THEOREM RowsComeOnceInOrder == Spec => []OnceInOrder
<1>1. HubInv /\ OrderInv => InOrder
  <2> SUFFICES ASSUME HubInv, OrderInv, NEW s \in Sub,
                      NEW i \in DOMAIN Seen(s), NEW j \in DOMAIN Seen(s), i < j,
                      NEW a, NEW b, a = Seen(s)[i], b = Seen(s)[j], a.off > 0, b.off > 0,
                      sent[a.e] = 1, sent[b.e] = 1,
                      (a.off <= ceiling[s]) = (b.off <= ceiling[s])
               PROVE  a.off < b.off
    BY DEF InOrder
  <2>1. Seen(s) \in Seq(Published) /\ ceiling[s] \in Nat
    BY SeenIsQueue DEF HubInv, LogOK
  <2>2. a \in Published /\ b \in Published
    BY <2>1
  <2>3. a.off \in Nat /\ b.off \in Nat /\ a.e \in Single /\ b.e \in Single
    BY <2>2 DEF Published, Single
  <2>4. CASE a.off <= ceiling[s]
    <3>1. ReplayOrder(Seen(s), ceiling[s], rows[s])
      BY DEF OrderInv, ReplaysOK
    <3>2. Replayed(Seen(s), ceiling[s], i) /\ Replayed(Seen(s), ceiling[s], j)
      BY <2>4 DEF Replayed
    <3> QED
      BY <3>1, <3>2 DEF ReplayOrder
  <2>5. CASE ~(a.off <= ceiling[s])
    <3>1. LiveOrder(Seen(s), ceiling[s], Single, Coming(s))
      BY DEF OrderInv, LivesOK
    <3>2. a.off > ceiling[s] /\ b.off > ceiling[s]
      BY <2>1, <2>3, <2>5
    <3> QED
      BY <2>3, <3>1, <3>2 DEF LiveOrder
  <2> QED
    BY <2>4, <2>5
<1>2. HubInv /\ OrderInv => OnceInOrder
  BY <1>1, RowsSeenOnce DEF OnceInOrder
<1> QED
  BY <1>2, HubInvInit, HubInvNext, OrderInvInit, OrderInvNext, PTL DEF Spec

---------------------------------------------------------------------------
(* The invariant of the losses.                                            *)

\* A subscription that asked for durable envelopes alone (a ring drops its
\* oldest entry for any other, Ring::push).
DurableReaders == \A s \in Sub \ Latest : Wants[s] \subseteq Durable

\* A ring is open from subscribe() until the subscription is dropped, and its
\* rows are replayed before subscribe() returns.
Open == {"since", "replay"} \cup Reading
OpenOK ==
  /\ \A s \in Sub : alive[s] <=> sub[s] \in Open
  /\ \A s \in Sub : sub[s] \in Reading => rows[s] = <<>>

\* The rows a transaction adds are those of its batch, and a batch is
\* delivered from its first job.
FreshOK ==
  /\ w.pc = "append" => \A o \in DOMAIN w.tx : o > Len(log) => o \in RangeOf(w.offs)
  /\ w.pc \in {"collect", "append", "bump"} => w.next = 1

\* The live rows s asked for, and those the writer has still to show it.
LiveRows(s) == {o \in DOMAIN log : o > ceiling[s] /\ o > head[s] /\ log[o] \in Wants[s] \ expired}
Pending(s) ==
  {w.offs[k] : k \in {j \in DOMAIN w.offs : /\ w.pc \in {"bump", "deliver", "reply"}
                                             /\ j >= NextFor(s)}}
LivesKept ==
  \A s \in Sub \ Latest : sub[s] \in Open => LiveRows(s) \subseteq Offsets(s) \cup Pending(s)

\* The rows of the past s asked for, and those it has still to replay, unless the log
\* could not be read.
PastRows(s) ==
  {o \in DOMAIN log : /\ Since[s] # NoSince /\ o > Since[s] /\ o <= Since[s] + REPLAY_MAX
                      /\ o <= ceiling[s] /\ log[o] \in Wants[s] \ expired}
PastsKept ==
  \A s \in Sub \ (Latest \cup unread) : sub[s] \in Reading \cup {"replay"} =>
    PastRows(s) \subseteq Offsets(s) \cup {rows[s][k].off : k \in DOMAIN rows[s]}

KeepInv == RegisteredStays /\ OpenOK /\ FreshOK /\ LivesKept /\ PastsKept

\* retain() keeps every subscription whose ring is open.
LEMMA KeptHolds ==
  ASSUME NEW list \in Seq(Sub), NEW s \in RangeOf(list), alive[s]
  PROVE  s \in RangeOf(Kept(list))
<1>1. PICK k \in DOMAIN list : list[k] = s
  BY DEF RangeOf
<1>2. PICK P : P = {i \in DOMAIN list : alive[list[i]]}
  OBVIOUS
<1>3. PICK t : t = Picked(list, P)
  OBVIOUS
<1>4. PICK h : PicksBy(list, P, Len(list), t, h)
  BY <1>3, PickedPicks
<1>5. k \in P \cap 1 .. Len(list)
  BY <1>1, <1>2
<1>6. PICK i \in DOMAIN t : h[i] = k
  BY <1>4, <1>5 DEF PicksBy
<1>7. t[i] = s
  BY <1>1, <1>4, <1>6 DEF PicksBy
<1> QED
  BY <1>2, <1>3, <1>7 DEF RangeOf, Kept

\* Neither prune() nor subscribe() loses a subscription whose ring is open.
LEMMA RegisteredNext == HubInv /\ RegisteredStays /\ Next => RegisteredStays'
<1> SUFFICES ASSUME HubInv, RegisteredStays, Next, NEW s \in Sub, alive'[s]
             PROVE  s \in RangeOf(subs')
  BY DEF RegisteredStays
<1>1. subs \in Seq(Sub) /\ alive \in [Sub -> BOOLEAN] /\ Kept(subs) \in Seq(Sub)
  BY PickedPicks DEF HubInv, ListsOK, Kept
<1>2. ASSUME alive[s] PROVE s \in RangeOf(subs) /\ s \in RangeOf(Kept(subs))
  BY <1>1, <1>2, KeptHolds DEF RegisteredStays
<1>3. ASSUME UNCHANGED <<subs, alive>> PROVE s \in RangeOf(subs')
  BY <1>2, <1>3
<1>4. ASSUME NEW p \in Pub \cup {Writer}, FanEnd(p) PROVE s \in RangeOf(subs')
  BY <1>2, <1>4 DEF FanEnd, Pruned, subVars
<1>5. ASSUME NEW z \in Sub, Register(z) PROVE s \in RangeOf(subs')
  <2>1. PICK t \in Seq(Sub) : t = Kept(subs)
    BY <1>1
  <2>2. subs' = Append(t, z) /\ alive' = [alive EXCEPT ![z] = TRUE]
    BY <1>5, <2>1 DEF Register
  <2>3. CASE s = z
    <3>1. Len(t) + 1 \in DOMAIN subs' /\ subs'[Len(t) + 1] = z
      BY <2>2
    <3> QED
      BY <2>3, <3>1 DEF RangeOf
  <2>4. CASE s # z
    <3>1. alive[s]
      BY <1>1, <2>2, <2>4
    <3>2. PICK i \in DOMAIN t : t[i] = s
      BY <1>2, <2>1, <3>1 DEF RangeOf
    <3>3. i \in DOMAIN subs' /\ subs'[i] = s
      BY <2>2, <3>2
    <3> QED
      BY <3>3 DEF RangeOf
  <2> QED
    BY <2>3, <2>4
<1>6. ASSUME NEW z \in Sub, Drop(z) PROVE s \in RangeOf(subs')
  <2>1. alive' = [alive EXCEPT ![z] = FALSE] /\ subs' = subs
    BY <1>6 DEF Drop
  <2>2. alive[s]
    BY <1>1, <2>1
  <2> QED
    BY <1>2, <2>1, <2>2
<1>7. ASSUME Crash PROVE FALSE
  BY <1>7 DEF Crash
<1>8. ASSUME NEW z \in Sub, ReadCeiling(z) \/ ReadLog(z) \/ ReadLogFails(z) \/ ReplayRow(z) \/ ReplayEnd(z)
                            \/ ReaderStep(z)
      PROVE  s \in RangeOf(subs')
  BY <1>3, <1>8 DEF ReadCeiling, ReadLog, ReadLogFails, ReplayRow, ReplayEnd, ReaderStep, Recv, Look, Wait, Wake,
     subVars
<1>9. ASSUME WriterStep PROVE s \in RangeOf(subs')
  BY <1>3, <1>9 DEF WriterStep, Collect, Begin, InsertRow, Commit, Rollback, Bump, Deliver, Reply,
     writerFrame, subVars
<1>10. ASSUME NEW p \in Pub \cup {Writer}, FanStep(p) PROVE s \in RangeOf(subs')
  BY <1>3, <1>10 DEF FanStep, subVars
<1>11. ASSUME NEW p \in Pub, Produce(p) PROVE s \in RangeOf(subs')
  BY <1>3, <1>11 DEF Produce, PublishBlocked, PublishMemory, PublishDurable, subVars
<1>12. ASSUME NEW e \in Event, Expire(e) PROVE s \in RangeOf(subs')
  BY <1>3, <1>12 DEF Expire, subVars
<1> QED
  BY <1>4, <1>5, <1>6, <1>7, <1>8, <1>9, <1>10, <1>11, <1>12 DEF Next, Joining

\* A subscription whose ring is open stays in the list, whatever prunes the list
\* or joins it meanwhile (Hub::prune, Hub::subscribe).
THEOREM OpenRingsStayListed == Spec => []RegisteredStays
<1>1. Init => RegisteredStays
  BY DEF Init, RegisteredStays
<1>2. HubInv /\ RegisteredStays /\ [Next]_vars => RegisteredStays'
  <2>1. UNCHANGED vars /\ RegisteredStays => RegisteredStays'
    BY DEF vars, RegisteredStays
  <2> QED
    BY <2>1, RegisteredNext
<1> QED
  BY <1>1, <1>2, HubInvInit, HubInvNext, PTL DEF Spec

\* Rings open and close with their subscriptions.
LEMMA OpenOKNext == HubInv /\ JoinOK /\ OpenOK /\ Next => OpenOK'
<1> SUFFICES ASSUME HubInv, JoinOK, OpenOK, Next PROVE OpenOK'
  OBVIOUS
<1>1. alive \in [Sub -> BOOLEAN] /\ sub \in [Sub -> Phase] /\ rows \in [Sub -> Seq(Told(log))]
  BY DEF HubInv, ListsOK, AllTold, RingsIn
<1> USE DEF Open, Reading
<1>2. ASSUME UNCHANGED <<alive, sub, rows>> PROVE OpenOK'
  BY <1>2 DEF OpenOK
<1>3. ASSUME NEW z \in Sub, ReadCeiling(z) PROVE OpenOK'
  BY <1>1, <1>3 DEF ReadCeiling, OpenOK
<1>4. ASSUME NEW z \in Sub, Register(z) PROVE OpenOK'
  <2>1. rows' = rows /\ rows[z] = <<>> /\ alive' = [alive EXCEPT ![z] = TRUE]
    BY <1>4 DEF Register, JoinOK, Unregistered
  <2>2. sub' = [sub EXCEPT ![z] = "check"] \/ sub' = [sub EXCEPT ![z] = "since"]
    BY <1>4 DEF Register
  <2> QED
    BY <1>1, <2>1, <2>2 DEF OpenOK
<1>5. ASSUME NEW z \in Sub, ReadLog(z) PROVE OpenOK'
  BY <1>1, <1>5 DEF ReadLog, ReadLogFails, OpenOK
<1>6. ASSUME NEW z \in Sub, ReplayRow(z) PROVE OpenOK'
  BY <1>1, <1>6 DEF ReplayRow, OpenOK
<1>7. ASSUME NEW z \in Sub, ReplayEnd(z) \/ ReadLogFails(z) \/ Look(z) \/ Wait(z) \/ Wake(z) PROVE OpenOK'
  BY <1>1, <1>7 DEF ReplayEnd, ReadLogFails, Look, Wait, Wake, OpenOK, JoinOK
<1>8. ASSUME NEW z \in Sub, Recv(z) PROVE OpenOK'
  BY <1>2, <1>8 DEF Recv, subVars
<1>9. ASSUME NEW z \in Sub, Drop(z) PROVE OpenOK'
  BY <1>1, <1>9 DEF Drop, OpenOK
<1>10. ASSUME Crash PROVE OpenOK'
  BY <1>1, <1>10 DEF Crash, OpenOK
<1>11. ASSUME WriterStep PROVE OpenOK'
  BY <1>2, <1>11 DEF WriterStep, Collect, Begin, InsertRow, Commit, Rollback, Bump, Deliver, Reply,
     writerFrame, subVars
<1>12. ASSUME NEW p \in Pub \cup {Writer}, FanStep(p) \/ FanEnd(p) PROVE OpenOK'
  BY <1>2, <1>12 DEF FanStep, FanEnd, subVars
<1>13. ASSUME NEW p \in Pub, Produce(p) PROVE OpenOK'
  BY <1>2, <1>13 DEF Produce, PublishBlocked, PublishMemory, PublishDurable, subVars
<1>14. ASSUME NEW e \in Event, Expire(e) PROVE OpenOK'
  BY <1>2, <1>14 DEF Expire, subVars
<1> QED
  BY <1>3, <1>4, <1>5, <1>6, <1>7, <1>8, <1>9, <1>10, <1>11, <1>12, <1>13, <1>14
  DEF Next, Joining, ReaderStep

\* A transaction adds a row for a job of its batch, and for nothing else.
LEMMA FreshOKNext == HubInv /\ FreshOK /\ Next => FreshOK'
<1> SUFFICES ASSUME HubInv, FreshOK, Next PROVE FreshOK'
  OBVIOUS
<1>1. w \in WriterTask /\ log \in Seq(Durable) /\ w.tx \in Seq(Durable) /\ w.offs \in Seq(Nat \ {0})
  BY DEF HubInv, WriterOK, WriterIs, LogOK, WriterTask
<1>2. ASSUME UNCHANGED <<w, log>> PROVE FreshOK'
  BY <1>2 DEF FreshOK
<1>3. ASSUME Collect PROVE FreshOK'
  <2>1. w'.pc = "collect" /\ w'.next = w.next /\ w.pc \in {"idle", "collect"}
    BY <1>1, <1>3 DEF Collect, WriterTask
  <2>2. w.next = 1
    BY <2>1 DEF FreshOK, HubInv, WriterOK, WriterIs, IdleWriter
  <2> QED
    BY <2>1, <2>2 DEF FreshOK
<1>4. ASSUME Begin PROVE FreshOK'
  <2>1. w'.pc = "append" /\ w'.tx = log /\ log' = log /\ w'.next = w.next /\ w.pc = "collect"
    BY <1>1, <1>4 DEF Begin, WriterTask
  <2>2. \A o \in DOMAIN log : ~(o > Len(log))
    BY <1>1
  <2> QED
    BY <2>1, <2>2 DEF FreshOK
<1>5. ASSUME InsertRow PROVE FreshOK'
  <2>1. PICK n \in Nat, d \in Durable, tx \in Seq(Durable), o \in Nat \ {0} : InsertIs(n, d, tx, o)
    BY <1>5, InsertDoes
  <2>2. /\ tx = IF d \in RangeOf(w.tx) THEN w.tx ELSE Append(w.tx, d)
        /\ d \notin RangeOf(w.tx) => o = Len(tx)
        /\ w'.tx = tx /\ w'.offs = Append(w.offs, o) /\ w.pc = "append" /\ w'.next = w.next
    BY <2>1 DEF InsertIs
  <2>3. RangeOf(w'.offs) = RangeOf(w.offs) \cup {o}
    <3>1. PICK l \in Nat : l = Len(w.offs)
      BY <1>1
    <3>2. /\ DOMAIN w.offs = 1 .. l /\ DOMAIN w'.offs = 1 .. (l + 1) /\ w'.offs[l + 1] = o
          /\ \A i \in 1 .. l : w'.offs[i] = w.offs[i]
      BY <1>1, <2>2, <3>1
    <3>3. 1 .. (l + 1) = 1 .. l \cup {l + 1}
      BY <3>1
    <3> QED
      BY <3>2, <3>3 DEF RangeOf
  <2>4. ASSUME NEW k \in DOMAIN tx, k > Len(log) PROVE k \in RangeOf(w'.offs)
    <3>1. CASE k \in DOMAIN w.tx
      BY <2>2, <2>3, <2>4, <3>1 DEF FreshOK
    <3>2. CASE k \notin DOMAIN w.tx
      BY <1>1, <2>2, <2>3, <3>2
    <3> QED
      BY <3>1, <3>2
  <2>5. log' = log
    BY <1>5 DEF InsertRow
  <2> QED
    BY <2>2, <2>4, <2>5 DEF FreshOK
<1>6. ASSUME Commit \/ Rollback PROVE FreshOK'
  <2>1. w'.pc = "bump" /\ w'.next = w.next /\ w.pc = "append"
    BY <1>1, <1>6 DEF Commit, Rollback, WriterTask
  <2> QED
    BY <2>1 DEF FreshOK
<1>7. ASSUME Bump \/ Deliver \/ Reply PROVE FreshOK'
  <2>1. ASSUME Bump \/ Deliver PROVE w'.pc \in {"deliver", "reply"}
    BY <1>1, <2>1 DEF Bump, Deliver, WriterTask
  <2>2. ASSUME Reply PROVE w'.pc \in {"deliver", "idle"}
    BY <1>1, <2>2 DEF Reply, WriterTask, IdleWriter
  <2> QED
    BY <1>7, <2>1, <2>2 DEF FreshOK
<1>8. ASSUME Crash PROVE FreshOK'
  <2>1. w'.pc = "idle"
    BY <1>8 DEF Crash, IdleWriter
  <2> QED
    BY <2>1 DEF FreshOK
<1>9. ASSUME NEW p \in Pub, Produce(p) PROVE FreshOK'
  BY <1>2, <1>9 DEF Produce, PublishBlocked, PublishMemory, PublishDurable
<1>10. ASSUME NEW p \in Pub \cup {Writer}, FanStep(p) \/ FanEnd(p) PROVE FreshOK'
  BY <1>2, <1>10 DEF FanStep, FanEnd
<1>11. ASSUME NEW s \in Sub, ReadCeiling(s) \/ Joining(s) \/ ReaderStep(s) \/ Drop(s) PROVE FreshOK'
  BY <1>2, <1>11 DEF ReadCeiling, Joining, Register, ReadLog, ReadLogFails, ReplayRow, ReplayEnd, ReaderStep,
     Recv, Look, Wait, Wake, Drop, subFrame
<1>12. ASSUME NEW e \in Event, Expire(e) PROVE FreshOK'
  BY <1>2, <1>12 DEF Expire
<1> QED
  BY <1>3, <1>4, <1>5, <1>6, <1>7, <1>8, <1>9, <1>10, <1>11, <1>12 DEF Next, WriterStep

\* A ring never drops an entry for a durable one (Ring::push).
LEMMA DurableAppends ==
  ASSUME NEW s \in Sub \ Latest, NEW q, NEW m, m.e \in Durable
  PROVE  Pushed(s, q, m) = Append(q, m)
BY DEF Pushed

\* The offsets of a queue, when an entry is added.
LEMMA OffsAppend ==
  ASSUME NEW q \in Seq(Published), NEW m \in Published, NEW r, r = Append(q, m)
  PROVE  {r[i].off : i \in DOMAIN r} = {q[i].off : i \in DOMAIN q} \cup {m.off}
<1>1. PICK l \in Nat : l = Len(q)
  OBVIOUS
<1>2. /\ DOMAIN q = 1 .. l /\ DOMAIN r = 1 .. (l + 1) /\ r[l + 1] = m
      /\ \A i \in 1 .. l : r[i] = q[i]
  BY <1>1
<1>3. 1 .. (l + 1) = 1 .. l \cup {l + 1}
  BY <1>1
<1> QED
  BY <1>2, <1>3

\* What a reader saw grows with its ring.
LEMMA QueueAppend ==
  ASSUME NEW S, NEW g \in Seq(S), NEW q \in Seq(S), NEW m \in S
  PROVE  g \o q \in Seq(S) /\ g \o Append(q, m) = Append(g \o q, m)
OBVIOUS

\* fan_out shows an open subscription what it asked for, unless the replay does.
LEMMA FanShows ==
  ASSUME HubInv, DurableReaders, NEW p \in Pub \cup {Writer}, FanStep(p), NEW f, NEW z \in Sub,
         NEW m \in Told(log), NEW g, FanStepIs(p, f, z, m, g), NEW s \in Sub \ Latest
  PROVE  /\ Offsets(s) \subseteq Offsets(s)'
         /\ s = z /\ alive[s] /\ ~Skips(s, m) /\ m.e \in Wants[s] => m.off \in Offsets(s)'
<1>1. got' = got /\ ring \in [Sub -> Seq(Told(log))]
  BY DEF FanStep, HubInv, AllTold, RingsIn
<1>2. m \in Published
  BY DEF Told
<1>3. CASE ring' = ring /\ (~alive[z] \/ Skips(z, m) \/ m.e \notin Wants[z])
  <2>1. Offsets(s)' = Offsets(s)
    BY <1>1, <1>3 DEF Offsets, Seen
  <2> QED
    BY <1>3, <2>1
<1>4. CASE ring' = [ring EXCEPT ![z] = Pushed(z, ring[z], m)] /\ m.e \in Wants[z]
  <2>1. CASE s # z
    <3>1. Offsets(s)' = Offsets(s)
      BY <1>1, <1>4, <2>1 DEF Offsets, Seen
    <3> QED
      BY <2>1, <3>1
  <2>2. CASE s = z
    <3>1. ring'[s] = Append(ring[s], m)
      <4>1. m.e \in Durable
        BY <1>4, <2>2 DEF DurableReaders
      <4> QED
        BY <1>1, <1>4, <2>2, <4>1, DurableAppends
    <3>2. PICK q : q = got[s] \o ring[s]
      OBVIOUS
    <3>3. q \in Seq(Published) /\ got[s] \o Append(ring[s], m) = Append(q, m)
      <4>1. PICK a \in Seq(Published), b \in Seq(Published) : a = got[s] /\ b = ring[s]
        BY SeenIsQueue
      <4>2. a \o b \in Seq(Published) /\ a \o Append(b, m) = Append(a \o b, m)
        BY <1>2, QueueAppend
      <4> QED
        BY <3>2, <4>1, <4>2
    <3>4. PICK r : r = Append(q, m)
      OBVIOUS
    <3>5. Seen(s) = q /\ Seen(s)' = r
      BY <1>1, <3>1, <3>2, <3>3, <3>4 DEF Seen
    <3>6. {r[i].off : i \in DOMAIN r} = {q[i].off : i \in DOMAIN q} \cup {m.off}
      BY <1>2, <3>3, <3>4, OffsAppend
    <3>7. Offsets(s)' = Offsets(s) \cup {m.off}
      BY <3>5, <3>6 DEF Offsets
    <3> QED
      BY <3>7
  <2> QED
    BY <2>1, <2>2
<1> QED
  BY <1>3, <1>4 DEF FanStepIs

\* A replay shows every row up to the ceiling that was asked for and lives.
LEMMA ReplayShows ==
  ASSUME HubInv, DurableReaders, NEW z \in Sub, ReplayRow(z), NEW s \in Sub \ Latest
  PROVE  /\ Offsets(s) \subseteq Offsets(s)'
         /\ rows[z] # <<>>
         /\ LET m == Head(rows[z]) IN
              s = z /\ m.off <= ceiling[s] /\ m.e \in Wants[s] \ expired => m.off \in Offsets(s)'
<1>1. got' = got /\ ring \in [Sub -> Seq(Told(log))] /\ rows[z] # <<>>
  BY DEF ReplayRow, HubInv, AllTold, RingsIn
<1>2. PICK m \in Published : m = Head(rows[z])
  BY <1>1, SeenIsQueue
<1>3. got[s] \in Seq(Published) /\ ring[s] \in Seq(Published)
  BY SeenIsQueue
<1>4. CASE ring' = ring /\ ~(m.off <= ceiling[z] /\ m.e \in Wants[z] \ expired)
  <2>1. Offsets(s)' = Offsets(s)
    BY <1>1, <1>4 DEF Offsets, Seen
  <2> QED
    BY <1>1, <1>2, <1>4, <2>1
<1>5. CASE ring' = [ring EXCEPT ![z] = Pushed(z, ring[z], m)] /\ m.e \in Wants[z]
  <2>1. CASE s # z
    <3>1. Offsets(s)' = Offsets(s)
      BY <1>1, <1>5, <2>1 DEF Offsets, Seen
    <3> QED
      BY <1>1, <2>1, <3>1
  <2>2. CASE s = z
    <3>1. ring'[s] = Append(ring[s], m)
      <4>1. m.e \in Durable
        BY <1>5, <2>2 DEF DurableReaders
      <4> QED
        BY <1>1, <1>5, <2>2, <4>1, DurableAppends
    <3>2. PICK q : q = got[s] \o ring[s]
      OBVIOUS
    <3>3. q \in Seq(Published) /\ got[s] \o Append(ring[s], m) = Append(q, m)
      <4>1. PICK a \in Seq(Published), b \in Seq(Published) : a = got[s] /\ b = ring[s]
        BY SeenIsQueue
      <4>2. a \o b \in Seq(Published) /\ a \o Append(b, m) = Append(a \o b, m)
        BY <1>2, QueueAppend
      <4> QED
        BY <3>2, <4>1, <4>2
    <3>4. PICK r : r = Append(q, m)
      OBVIOUS
    <3>5. Seen(s) = q /\ Seen(s)' = r
      BY <1>1, <3>1, <3>2, <3>3, <3>4 DEF Seen
    <3>6. {r[i].off : i \in DOMAIN r} = {q[i].off : i \in DOMAIN q} \cup {m.off}
      BY <1>2, <3>3, <3>4, OffsAppend
    <3>7. Offsets(s)' = Offsets(s) \cup {m.off}
      BY <3>5, <3>6 DEF Offsets
    <3> QED
      BY <1>1, <1>2, <3>7
  <2> QED
    BY <2>1, <2>2
<1>6. \/ ring' = ring /\ ~(m.off <= ceiling[z] /\ m.e \in Wants[z] \ expired)
      \/ ring' = [ring EXCEPT ![z] = Pushed(z, ring[z], m)] /\ m.e \in Wants[z]
  BY <1>2 DEF ReplayRow, Push, ringVars
<1> QED
  BY <1>4, <1>5, <1>6

\* What a reader saw it keeps, until base dies.
LEMMA OffsetsStay ==
  ASSUME HubInv, DurableReaders, Next, ~Crash, NEW s \in Sub \ Latest
  PROVE  Offsets(s) \subseteq Offsets(s)'
<1>1. CASE \E p \in Pub \cup {Writer} : FanStep(p)
  <2>1. PICK p \in Pub \cup {Writer} : FanStep(p)
    BY <1>1
  <2>2. PICK f \in FanOut, z \in Sub, m \in Told(log), g \in FanOut : FanStepIs(p, f, z, m, g)
    BY <2>1, FanStepDoes
  <2> QED
    BY <2>1, <2>2, FanShows
<1>2. CASE \E z \in Sub : ReplayRow(z)
  BY <1>2, ReplayShows
<1>3. CASE (\A p \in Pub \cup {Writer} : ~FanStep(p)) /\ (\A z \in Sub : ~ReplayRow(z))
  <2>1. Seen(s)' = Seen(s)
    BY <1>3, SeenStays
  <2> QED
    BY <2>1 DEF Offsets
<1> QED
  BY <1>1, <1>2, <1>3

\* What opens a ring, and what an open one keeps: the head and the ceiling of
\* its subscription.
LEMMA OpenNext ==
  ASSUME HubInv, Next, NEW s \in Sub, sub'[s] \in Open
  PROVE  /\ ~Crash
         /\ \/ Register(s)
            \/ sub[s] \in Open /\ head'[s] = head[s] /\ ceiling'[s] = ceiling[s]
<1>1. sub \in [Sub -> Phase] /\ head \in [Sub -> Nat]
  BY DEF HubInv, ListsOK, LogOK
<1> USE DEF Open, Reading
<1> DEFINE Goal == Register(s) \/ (sub[s] \in Open /\ head'[s] = head[s])
<1>2. ~Crash
  BY <1>1 DEF Crash
<1>3. ASSUME UNCHANGED <<sub, head>> PROVE Goal
  BY <1>3
<1>4. ASSUME NEW z \in Sub, ReadCeiling(z) \/ Register(z) PROVE Goal
  BY <1>1, <1>4 DEF ReadCeiling, Register
<1>5. ASSUME NEW z \in Sub, ReadLog(z) \/ ReadLogFails(z) \/ ReplayRow(z) \/ ReplayEnd(z) \/ ReaderStep(z) \/ Drop(z)
      PROVE  Goal
  BY <1>1, <1>5 DEF ReadLog, ReadLogFails, ReplayRow, ReplayEnd, ReaderStep, Recv, Look, Wait, Wake, Drop, subVars
<1>6. ASSUME WriterStep PROVE Goal
  BY <1>3, <1>6 DEF WriterStep, Collect, Begin, InsertRow, Commit, Rollback, Bump, Deliver, Reply,
     writerFrame, subVars
<1>7. ASSUME NEW p \in Pub \cup {Writer}, FanStep(p) \/ FanEnd(p) PROVE Goal
  BY <1>3, <1>7 DEF FanStep, FanEnd, subVars
<1>8. ASSUME NEW p \in Pub, Produce(p) PROVE Goal
  BY <1>3, <1>8 DEF Produce, PublishBlocked, PublishMemory, PublishDurable, subVars
<1>9. ASSUME NEW e \in Event, Expire(e) PROVE Goal
  BY <1>3, <1>9 DEF Expire, subVars
<1>10. Goal
  BY <1>2, <1>4, <1>5, <1>6, <1>7, <1>8, <1>9 DEF Next, Joining
<1>11. ASSUME ReadCeiling(s) PROVE FALSE
  BY <1>1, <1>11 DEF ReadCeiling
<1> QED
  BY <1>2, <1>10, <1>11, CeilingNext

\* An envelope that expired stays so.
LEMMA ExpiredNext == ASSUME Next PROVE expired \subseteq expired'
BY DEF Next, Produce, PublishBlocked, PublishMemory, PublishDurable, FanStep, FanEnd,
   WriterStep, Collect, Begin, InsertRow, Commit, Rollback, Bump, Deliver, Reply, writerFrame,
   ReadCeiling, Joining, Register, ReadLog, ReadLogFails, ReplayRow, ReplayEnd, ReaderStep, Recv, Look, Wait,
   Wake, Drop, Expire, Crash, subFrame

\* fan_out does not pass over a subscription of its snapshot.
LEMMA AheadStays ==
  ASSUME HubInv, Next, ~WriterStep, ~Crash, NEW s \in Sub, Ahead(s)
  PROVE  \/ Ahead(s)'
         \/ FanStep(Writer) /\ \E f \in FanOut, m \in Told(log), g \in FanOut :
                                 FanStepIs(Writer, f, s, m, g)
<1> DEFINE Shown == FanStep(Writer) /\ \E f \in FanOut, m \in Told(log), g \in FanOut :
                                         FanStepIs(Writer, f, s, m, g)
<1>1. fan \in [Pub \cup {Writer} -> FanOut \cup {NoFan}] /\ Writer \notin Pub
  BY HubAssumption DEF HubInv, AllTold, FansIn
<1>2. ASSUME fan'[Writer] = fan[Writer] PROVE Ahead(s)'
  BY <1>2 DEF Ahead
<1>3. ASSUME NEW p \in Pub, Produce(p) PROVE fan'[Writer] = fan[Writer]
  BY <1>1, <1>3 DEF Produce, PublishBlocked, PublishMemory, PublishDurable, StartFan
<1>4. ASSUME NEW p \in Pub \cup {Writer}, FanStep(p) PROVE Ahead(s)' \/ Shown
  <2>1. PICK f \in FanOut, z \in Sub, m \in Told(log), g \in FanOut : FanStepIs(p, f, z, m, g)
    BY <1>4, FanStepDoes
  <2>2. /\ fan' = [fan EXCEPT ![p] = g] /\ fan[p] = f /\ f # NoFan /\ g.snap = f.snap
        /\ g.at = f.at + 1 /\ g # NoFan /\ z = f.snap[f.at]
    BY <2>1 DEF FanStepIs
  <2>3. CASE p # Writer
    BY <1>1, <1>2, <2>2, <2>3
  <2>4. CASE p = Writer /\ z = s
    BY <1>4, <2>1, <2>4
  <2>5. CASE p = Writer /\ z # s
    <3>1. fan'[Writer] = g
      BY <1>1, <2>2, <2>5
    <3>2. PICK k \in DOMAIN f.snap : k >= f.at /\ f.snap[k] = s
      BY <2>2, <2>5 DEF Ahead
    <3>3. k # f.at
      BY <2>2, <2>5, <3>2
    <3>4. k >= f.at + 1
      BY <3>2, <3>3 DEF FanOut
    <3> QED
      BY <2>2, <3>1, <3>2, <3>4 DEF Ahead
  <2> QED
    BY <2>3, <2>4, <2>5
<1>5. ASSUME NEW p \in Pub \cup {Writer}, FanEnd(p) PROVE Ahead(s)'
  <2>1. fan' = [fan EXCEPT ![p] = NoFan] /\ fan[p] # NoFan /\ fan[p].at > Len(fan[p].snap)
    BY <1>5 DEF FanEnd
  <2>2. p # Writer
    <3>1. SUFFICES ASSUME p = Writer PROVE FALSE
      OBVIOUS
    <3>2. PICK f \in FanOut : f = fan[Writer]
      BY <1>1, <2>1, <3>1
    <3>3. PICK k \in DOMAIN f.snap : k >= f.at
      BY <3>2 DEF Ahead
    <3> QED
      BY <2>1, <3>1, <3>2, <3>3 DEF FanOut
  <2> QED
    BY <1>1, <1>2, <2>1, <2>2
<1>6. ASSUME NEW z \in Sub, ReadCeiling(z) \/ Joining(z) \/ ReaderStep(z) \/ Drop(z)
      PROVE  fan'[Writer] = fan[Writer]
  BY <1>6 DEF ReadCeiling, Joining, Register, ReadLog, ReadLogFails, ReplayRow, ReplayEnd, ReaderStep,
     Recv, Look, Wait, Wake, Drop, subFrame
<1>7. ASSUME NEW d \in Event, Expire(d) PROVE fan'[Writer] = fan[Writer]
  BY <1>7 DEF Expire
<1> QED
  BY <1>2, <1>3, <1>4, <1>5, <1>6, <1>7 DEF Next

\* A job of the batch stays ahead of an open subscription until its fan_out
\* shows the row (the delivery loop of the writer).
LEMMA PendingNext ==
  ASSUME HubInv, JoinOK, FansOK, RegisteredStays, FreshOK, DurableReaders, Next, ~Crash,
         NEW s \in Sub \ Latest, alive[s],
         NEW j \in DOMAIN w.offs, w.pc \in {"bump", "deliver", "reply"}, j >= NextFor(s),
         NEW o, o = w.offs[j], log[o] \in Wants[s] \ expired, o > ceiling[s]
  PROVE  \/ o \in Offsets(s)'
         \/ /\ w'.offs = w.offs /\ w'.pc \in {"bump", "deliver", "reply"} /\ j >= NextFor(s)'
<1> DEFINE Goal == \/ o \in Offsets(s)'
                   \/ /\ w'.offs = w.offs /\ w'.pc \in {"bump", "deliver", "reply"}
                      /\ j >= NextFor(s)'
<1>1. /\ w \in WriterTask /\ w.next \in Nat \ {0} /\ j \in Nat \ {0} /\ j <= Len(w.jobs)
      /\ w.offs[j] \in DOMAIN log /\ log[w.offs[j]] = w.jobs[j].e /\ w.next \in DOMAIN w.jobs
      /\ w.jobs \in Seq(DurableJob)
  <2>1. /\ w \in WriterTask /\ w.offs \in Seq(Nat \ {0}) /\ w.jobs \in Seq(DurableJob)
        /\ Len(w.offs) <= Len(w.jobs) /\ OffsetsOf(w, log) /\ w.next \in DOMAIN w.jobs
        /\ w.next \in Nat \ {0}
    BY DEF HubInv, WriterOK, WriterIs, WriterTask, TableOf
  <2> QED
    BY <2>1 DEF OffsetsOf
<1>2. CASE Bump
  <2>1. w.pc = "bump" /\ w'.pc = "deliver" /\ w'.next = w.next /\ w'.offs = w.offs
    BY <1>1, <1>2 DEF Bump, WriterTask
  <2>2. w.next = 1
    BY <2>1 DEF FreshOK
  <2> QED
    BY <1>1, <2>1, <2>2 DEF NextFor
<1>3. CASE Deliver
  <2>1. w.pc = "deliver" /\ w'.pc = "reply" /\ w'.next = w.next /\ w'.offs = w.offs
    BY <1>1, <1>3 DEF Deliver, WriterTask
  <2>2. j >= w.next
    BY <2>1 DEF NextFor
  <2>3. CASE j > w.next
    BY <1>1, <2>1, <2>3 DEF NextFor
  <2>4. CASE j = w.next
    <3>1. CurrentJob.e \notin expired
      BY <1>1, <2>4 DEF CurrentJob
    <3>2. fan'[Writer] = [e |-> CurrentJob.e, off |-> OffsetAt(w.next), snap |-> subs,
                          at |-> 1, dead |-> FALSE]
      BY <1>3, <3>1 DEF Deliver, StartFan, HubInv, AllTold, FansIn
    <3>3. PICK g : g = fan'[Writer]
      OBVIOUS
    <3>4. g.snap = subs /\ g.at = 1
      BY <3>2, <3>3
    <3>5. g # NoFan
      <4>1. DOMAIN g = {"e", "off", "snap", "at", "dead"} /\ DOMAIN NoFan = {"snap"}
        BY <3>2, <3>3 DEF NoFan
      <4> QED
        BY <4>1
    <3>6. PICK k \in DOMAIN subs : subs[k] = s
      BY DEF RegisteredStays, RangeOf
    <3>7. k >= 1
      BY <3>6 DEF HubInv, ListsOK
    <3>8. Ahead(s)'
      BY <3>3, <3>4, <3>5, <3>6, <3>7 DEF Ahead
    <3>9. NextFor(s)' = w.next
      BY <2>1, <3>8 DEF NextFor
    <3> QED
      BY <2>1, <2>2, <3>9
  <2> QED
    BY <1>1, <2>2, <2>3, <2>4
<1>4. CASE Reply
  <2>1. w.pc = "reply" /\ ~Ahead(s)
    BY <1>4 DEF Reply, Ahead
  <2>2. j >= w.next + 1
    BY <2>1 DEF NextFor
  <2>3. w.next # Len(w.jobs)
    BY <1>1, <2>2
  <2>4. w'.pc = "deliver" /\ w'.next = w.next + 1 /\ w'.offs = w.offs
    BY <1>1, <1>4, <2>3 DEF Reply, WriterTask
  <2> QED
    BY <2>2, <2>4 DEF NextFor
<1>5. CASE ~WriterStep
  <2>1. w' = w
    BY <1>5 DEF Next, Produce, PublishBlocked, PublishMemory, PublishDurable, FanStep, FanEnd,
       ReadCeiling, Joining, Register, ReadLog, ReadLogFails, ReplayRow, ReplayEnd, ReaderStep, Recv, Look, Wait,
       Wake, Drop, Expire, subFrame
  <2>2. CASE w.pc # "reply" \/ ~Ahead(s) \/ Ahead(s)'
    <3>1. j >= NextFor(s)'
      BY <1>1, <2>1, <2>2 DEF NextFor
    <3> QED
      BY <2>1, <3>1
  <2>3. CASE w.pc = "reply" /\ Ahead(s) /\ ~Ahead(s)'
    <3>1. FanStep(Writer)
      BY <1>5, <2>3, AheadStays
    <3>2. PICK f \in FanOut, m \in Told(log), g \in FanOut : FanStepIs(Writer, f, s, m, g)
      BY <1>5, <2>3, AheadStays
    <3>3. /\ m.e = w.jobs[w.next].e /\ m.off = OffsetAt(w.next)
          /\ NextFor(s) = w.next /\ NextFor(s)' = w.next + 1
      BY <3>1, <3>2, FanPasses
    <3>4. CASE j = w.next
      <4>1. m.off = o /\ m.e \in Wants[s]
        BY <1>1, <3>3, <3>4 DEF OffsetAt
      <4>2. ~Skips(s, m)
        BY <1>1, <4>1 DEF Skips, HubInv, LogOK
      <4>3. o \in Offsets(s)'
        BY <3>1, <3>2, <4>1, <4>2, FanShows
      <4> QED
        BY <4>3
    <3>5. CASE j # w.next
      BY <1>1, <2>1, <3>3, <3>5
    <3> QED
      BY <3>4, <3>5
  <2> QED
    BY <2>2, <2>3
<1>6. CASE WriterStep /\ ~Bump /\ ~Deliver /\ ~Reply
  BY <1>6 DEF WriterStep, Collect, Begin, InsertRow, Commit, Rollback
<1> QED
  BY <1>2, <1>3, <1>4, <1>5, <1>6

\* Live rows are shown or still to come, whatever is committed, registered or
\* pruned meanwhile.
LEMMA LivesKeptNext ==
  HubInv /\ JoinOK /\ FansOK /\ KeepInv /\ DurableReaders /\ Next => LivesKept'
<1> SUFFICES ASSUME HubInv, JoinOK, FansOK, KeepInv, DurableReaders, Next,
                    NEW s \in Sub \ Latest, sub'[s] \in Open, NEW o \in LiveRows(s)'
             PROVE  o \in Offsets(s)' \cup Pending(s)'
  BY DEF LivesKept
<1> USE DEF KeepInv
<1>1. /\ o \in DOMAIN log' /\ o > ceiling'[s] /\ o > head'[s] /\ log'[o] \in Wants[s]
      /\ log'[o] \notin expired'
  BY DEF LiveRows
<1>2. ~Crash
  BY OpenNext
<1>3. log \in Seq(Durable) /\ head \in [Sub -> Nat]
  BY DEF HubInv, LogOK
<1>4. CASE Register(s)
  <2>1. head'[s] = Len(log) /\ log' = log
    BY <1>3, <1>4 DEF Register, subFrame
  <2> QED
    BY <1>1, <1>3, <2>1
<1>5. CASE sub[s] \in Open /\ head'[s] = head[s] /\ ceiling'[s] = ceiling[s]
  <2>1. expired \subseteq expired' /\ Offsets(s) \subseteq Offsets(s)'
    BY <1>2, ExpiredNext, OffsetsStay
  <2>2. LiveRows(s) \subseteq Offsets(s) \cup Pending(s)
    BY <1>5 DEF LivesKept
  <2>3. CASE log' = log
    <3>1. o \in LiveRows(s)
      BY <1>1, <1>5, <2>1, <2>3 DEF LiveRows
    <3>2. CASE o \in Offsets(s)
      BY <2>1, <3>2
    <3>3. CASE o \in Pending(s)
      <4>1. w.pc \in {"bump", "deliver", "reply"}
        BY <3>3 DEF Pending
      <4>2. PICK j \in DOMAIN w.offs : o = w.offs[j] /\ j >= NextFor(s)
        BY <3>3 DEF Pending
      <4>3. alive[s]
        BY <1>5 DEF OpenOK
      <4>4. log[o] \in Wants[s] \ expired /\ o > ceiling[s]
        BY <3>1 DEF LiveRows
      <4>5. \/ o \in Offsets(s)'
            \/ w'.offs = w.offs /\ w'.pc \in {"bump", "deliver", "reply"} /\ j >= NextFor(s)'
        BY <1>2, <4>1, <4>2, <4>3, <4>4, PendingNext
      <4> QED
        BY <4>2, <4>5 DEF Pending
    <3> QED
      BY <2>2, <3>1, <3>2, <3>3
  <2>4. CASE Commit /\ log' = w.tx /\ log' \in Seq(Durable) /\ Prefix(log, log')
    <3>1. w.pc = "append" /\ w'.pc = "bump" /\ w'.offs = w.offs
      BY <2>4 DEF Commit, HubInv, WriterOK, WriterIs, WriterTask
    <3>2. CASE o \in DOMAIN log
      <4>1. log'[o] = log[o]
        BY <1>3, <2>4, <3>2 DEF Prefix
      <4>2. o \in LiveRows(s)
        BY <1>1, <1>5, <2>1, <3>2, <4>1 DEF LiveRows
      <4>3. Pending(s) = {}
        BY <3>1 DEF Pending
      <4> QED
        BY <2>1, <2>2, <4>2, <4>3
    <3>3. CASE o \notin DOMAIN log
      <4>1. o \in DOMAIN w.tx /\ o > Len(log)
        BY <1>1, <1>3, <2>4, <3>3
      <4>2. PICK j \in DOMAIN w.offs : w.offs[j] = o
        BY <3>1, <4>1 DEF FreshOK, RangeOf
      <4>3. NextFor(s)' = 1 /\ j >= 1
        BY <3>1 DEF NextFor, HubInv, WriterOK, WriterIs, WriterTask
      <4> QED
        BY <3>1, <4>2, <4>3 DEF Pending
    <3> QED
      BY <3>2, <3>3
  <2> QED
    BY <2>3, <2>4, LogNext
<1> QED
  BY <1>4, <1>5, OpenNext

\* durable.since() reads every row after the offset, up to the limit.
LEMMA RowsSinceAreAll ==
  ASSUME LogOK, NEW a \in Nat, NEW o \in DOMAIN log, o > a, o <= a + REPLAY_MAX
  PROVE  \E k \in DOMAIN RowsSince(a) : RowsSince(a)[k].off = o
<1>1. PICK n : n = IF a >= Len(log) THEN 0
                   ELSE IF Len(log) - a < REPLAY_MAX THEN Len(log) - a ELSE REPLAY_MAX
  OBVIOUS
<1>2. RowsSince(a) = [i \in 1 .. n |-> [e |-> log[a + i], off |-> a + i]]
  BY <1>1 DEF RowsSince
<1>3. PICK k : k = o - a
  OBVIOUS
<1>4. o \in Nat /\ o <= Len(log) /\ Len(log) \in Nat
  BY DEF LogOK
<1>5. k \in 1 .. n /\ a + k = o
  BY <1>1, <1>3, <1>4, HubAssumption
<1>6. RowsSince(a)[k].off = o /\ k \in DOMAIN RowsSince(a)
  BY <1>2, <1>5
<1> QED
  BY <1>6

\* When a subscription comes to its replay, and what it has read since.
LEMMA PastNext ==
  ASSUME HubInv, Next, NEW s \in Sub, sub'[s] \in Reading \cup {"replay"}
  PROVE  \/ Since[s] = NoSince \/ ReadLog(s) \/ ReadLogFails(s)
         \/ sub[s] \in Reading \cup {"replay"}
<1> DEFINE Goal == \/ Since[s] = NoSince \/ ReadLog(s) \/ ReadLogFails(s)
                   \/ sub[s] \in Reading \cup {"replay"}
<1>1. sub \in [Sub -> Phase]
  BY DEF HubInv, ListsOK
<1> USE DEF Reading
<1>2. ASSUME UNCHANGED sub PROVE Goal
  BY <1>2
<1>3. ASSUME NEW z \in Sub, ReadCeiling(z) \/ Register(z) \/ ReadLog(z) PROVE Goal
  BY <1>1, <1>3 DEF ReadCeiling, Register, ReadLog
<1>4. ASSUME NEW z \in Sub, ReplayRow(z) \/ ReplayEnd(z) \/ ReadLogFails(z) \/ ReaderStep(z) \/ Drop(z)
      PROVE  Goal
  BY <1>1, <1>4 DEF ReplayRow, ReplayEnd, ReadLogFails, ReaderStep, Recv, Look, Wait, Wake, Drop, subVars
<1>5. ASSUME WriterStep PROVE Goal
  BY <1>2, <1>5 DEF WriterStep, Collect, Begin, InsertRow, Commit, Rollback, Bump, Deliver, Reply,
     writerFrame, subVars
<1>6. ASSUME NEW p \in Pub \cup {Writer}, FanStep(p) \/ FanEnd(p) PROVE Goal
  BY <1>2, <1>6 DEF FanStep, FanEnd, subVars
<1>7. ASSUME NEW p \in Pub, Produce(p) PROVE Goal
  BY <1>2, <1>7 DEF Produce, PublishBlocked, PublishMemory, PublishDurable, subVars
<1>8. ASSUME NEW e \in Event, Expire(e) PROVE Goal
  BY <1>2, <1>8 DEF Expire, subVars
<1>9. ~Crash
  BY <1>1 DEF Crash
<1> QED
  BY <1>3, <1>4, <1>5, <1>6, <1>7, <1>8, <1>9 DEF Next, Joining

\* A failed read of the log is remembered (Hub::subscribe).
LEMMA UnreadNext ==
  ASSUME Next
  PROVE  unread \subseteq unread' /\ \A s \in Sub : ReadLogFails(s) => s \in unread'
<1>1. ASSUME NEW z \in Sub, ReadLogFails(z) PROVE z \in unread' /\ unread \subseteq unread'
  BY <1>1 DEF ReadLogFails
<1>2. CASE \E z \in Sub : ReadLogFails(z)
  BY <1>1, <1>2
<1>3. ASSUME NEW z \in Sub, ReadCeiling(z) \/ Register(z) \/ ReadLog(z) \/ ReplayRow(z)
                             \/ ReplayEnd(z) \/ ReaderStep(z) \/ Drop(z)
      PROVE  unread' = unread
  BY <1>3 DEF ReadCeiling, Register, ReadLog, ReplayRow, ReplayEnd, ReaderStep, Recv, Look, Wait,
     Wake, Drop, subVars
<1>4. ASSUME WriterStep PROVE unread' = unread
  BY <1>4 DEF WriterStep, Collect, Begin, InsertRow, Commit, Rollback, Bump, Deliver, Reply,
     writerFrame, subVars
<1>5. ASSUME NEW p \in Pub \cup {Writer}, FanStep(p) \/ FanEnd(p) PROVE unread' = unread
  BY <1>5 DEF FanStep, FanEnd, subVars
<1>6. ASSUME NEW p \in Pub, Produce(p) PROVE unread' = unread
  BY <1>6 DEF Produce, PublishBlocked, PublishMemory, PublishDurable, subVars
<1>7. ASSUME NEW e \in Event, Expire(e) PROVE unread' = unread
  BY <1>7 DEF Expire, subVars
<1>8. Crash => unread' = unread
  BY DEF Crash
<1>9. CASE ~(\E z \in Sub : ReadLogFails(z))
  <2>1. unread' = unread
    BY <1>3, <1>4, <1>5, <1>6, <1>7, <1>8, <1>9 DEF Next, Joining
  <2> QED
    BY <1>9, <2>1
<1> QED
  BY <1>2, <1>9

\* The rows of the past are shown or still to be replayed.
LEMMA PastsKeptNext == HubInv /\ KeepInv /\ DurableReaders /\ Next => PastsKept'
<1> SUFFICES ASSUME HubInv, KeepInv, DurableReaders, Next, NEW s \in Sub \ Latest, s \notin unread',
                    sub'[s] \in Reading \cup {"replay"}, NEW o \in PastRows(s)'
             PROVE  o \in Offsets(s)' \/ \E k \in DOMAIN rows'[s] : rows'[s][k].off = o
  BY DEF PastsKept
<1> USE DEF KeepInv
<1>1. /\ o \in DOMAIN log' /\ Since[s] # NoSince /\ o > Since[s] /\ o <= Since[s] + REPLAY_MAX
      /\ o <= ceiling'[s] /\ log'[o] \in Wants[s] /\ log'[o] \notin expired'
  BY DEF PastRows
<1>2. sub'[s] \in Open /\ Since[s] \in Nat
  BY <1>1, HubAssumption DEF Open
<1>3. ~Crash /\ expired \subseteq expired'
  BY <1>2, OpenNext, ExpiredNext
<1>4. rows \in [Sub -> Seq(Told(log))] /\ sub \in [Sub -> Phase]
  BY DEF HubInv, AllTold, RingsIn, ListsOK
<1>5. CASE ReadLog(s)
  <2>1. rows'[s] = RowsSince(Since[s]) /\ log' = log
    BY <1>4, <1>5 DEF ReadLog, ReadLogFails, subFrame
  <2>2. \E k \in DOMAIN RowsSince(Since[s]) : RowsSince(Since[s])[k].off = o
    BY <1>1, <1>2, <2>1, RowsSinceAreAll DEF HubInv
  <2> QED
    BY <2>1, <2>2
<1>6. CASE ~ReadLog(s)
  <2>1. sub[s] \in Reading \cup {"replay"}
    BY <1>1, <1>6, PastNext, UnreadNext
  <2>2. ceiling'[s] = ceiling[s]
    <3>1. ~Register(s)
      BY <2>1 DEF Register, Reading
    <3> QED
      BY <1>2, <3>1, OpenNext
  <2>3. o \in DOMAIN log /\ log'[o] = log[o] /\ o \in Nat \ {0}
    <3>1. ceiling[s] <= Len(log) /\ ceiling[s] \in Nat /\ log \in Seq(Durable)
      BY DEF HubInv, LogOK
    <3>2. log' \in Seq(Durable) /\ (log' = log \/ Prefix(log, log'))
      BY <3>1, LogNext
    <3>3. o \in 1 .. Len(log)
      BY <1>1, <2>2, <3>1, <3>2
    <3> QED
      BY <3>1, <3>2, <3>3 DEF Prefix
  <2>4. o \in PastRows(s)
    BY <1>1, <1>3, <2>2, <2>3 DEF PastRows
  <2>5. o \in Offsets(s) \/ \E k \in DOMAIN rows[s] : rows[s][k].off = o
    BY <2>1, <2>4, UnreadNext DEF PastsKept
  <2>6. CASE o \in Offsets(s)
    BY <1>3, <2>6, OffsetsStay
  <2>7. CASE \E k \in DOMAIN rows[s] : rows[s][k].off = o
    <3>1. PICK k \in DOMAIN rows[s] : rows[s][k].off = o
      BY <2>7
    <3>2. CASE rows'[s] = rows[s]
      BY <3>1, <3>2
    <3>3. CASE ReplayRow(s)
      <4>1. PICK q \in Seq(Told(log)) : q = rows[s]
        BY <1>4
      <4>2. q # <<>> /\ rows'[s] = Tail(q)
        BY <1>4, <3>3, <4>1 DEF ReplayRow
      <4>3. CASE k = 1
        <5>1. Head(q) = q[1] /\ q[1] \in Told(log)
          BY <4>1, <4>2
        <5>2. q[1].off = o /\ q[1].e = log[o]
          BY <2>3, <3>1, <4>1, <4>3, <5>1 DEF Told
        <5>3. o <= ceiling[s] /\ log[o] \in Wants[s] \ expired
          BY <2>4 DEF PastRows
        <5>4. o \in Offsets(s)'
          BY <3>3, <4>1, <5>1, <5>2, <5>3, ReplayShows
        <5> QED
          BY <5>4
      <4>4. CASE k # 1
        <5>1. k - 1 \in DOMAIN Tail(q) /\ Tail(q)[k - 1] = q[k]
          BY <3>1, <4>1, <4>2, <4>4
        <5> QED
          BY <3>1, <4>1, <4>2, <5>1
      <4> QED
        BY <4>3, <4>4
    <3> QED
      BY <1>3, <1>6, <3>2, <3>3, RowsNext
  <2> QED
    BY <2>5, <2>6, <2>7
<1> QED
  BY <1>5, <1>6

\* At first there is no ring and no row.
LEMMA KeepInvInit == Init => KeepInv
<1> SUFFICES ASSUME Init PROVE KeepInv
  OBVIOUS
<1>1. RegisteredStays
  BY DEF Init, RegisteredStays
<1>2. OpenOK
  BY DEF Init, OpenOK, Open, Reading
<1>3. FreshOK
  BY DEF Init, FreshOK, IdleWriter
<1>4. LivesKept
  BY DEF Init, LivesKept, Open, Reading
<1>5. PastsKept
  BY DEF Init, PastsKept, Reading
<1> QED
  BY <1>1, <1>2, <1>3, <1>4, <1>5 DEF KeepInv

\* Every step of the hub keeps what was shown and what is still to come.
LEMMA KeepInvNext ==
  HubInv /\ OrderInv /\ KeepInv /\ DurableReaders /\ [Next]_vars => KeepInv'
<1> SUFFICES ASSUME HubInv, OrderInv, KeepInv, DurableReaders, [Next]_vars PROVE KeepInv'
  OBVIOUS
<1>1. CASE Next
  BY <1>1, RegisteredNext, OpenOKNext, FreshOKNext, LivesKeptNext, PastsKeptNext
  DEF KeepInv, OrderInv
<1>2. CASE UNCHANGED vars
  <2> USE <1>2 DEF vars
  <2>1. RegisteredStays' /\ OpenOK' /\ FreshOK'
    BY DEF KeepInv, RegisteredStays, OpenOK, FreshOK
  <2>2. ASSUME NEW s \in Sub PROVE Offsets(s)' = Offsets(s) /\ Pending(s)' = Pending(s)
    BY DEF Offsets, Seen, Pending, NextFor, Ahead
  <2>3. LivesKept'
    BY <2>2 DEF KeepInv, LivesKept, LiveRows
  <2>4. PastsKept'
    BY <2>2 DEF KeepInv, PastsKept, PastRows
  <2> QED
    BY <2>1, <2>3, <2>4 DEF KeepInv
<1> QED
  BY <1>1, <1>2

\* Subscribers of durable envelopes alone lose no row they asked for, but those
\* persisted between the ceiling and the registration and, of the rows to replay, those
\* beyond the limit or all when the log could not be read (Hub::subscribe, fan_out and
\* prune, writer_loop).
THEOREM DurableReadersLoseNothing ==
  ASSUME DurableReaders
  PROVE  Spec => []NothingLostButRaced
<1>1. ASSUME HubInv, KeepInv PROVE NothingLostButRaced
  <2> SUFFICES ASSUME NEW s \in Sub \ Latest, Quiet, sub[s] \in Reading, NEW o \in Due(s)
               PROVE  \/ o \in Offsets(s)
                      \/ ceiling[s] < o /\ o <= head[s]
                      \/ o <= ceiling[s] /\ (o > Since[s] + REPLAY_MAX \/ s \in unread)
    BY DEF NothingLostButRaced
  <2>1. /\ log \in Seq(Durable) /\ ceiling[s] \in Nat /\ head[s] \in Nat /\ o \in DOMAIN log
        /\ log[o] \in Wants[s] \ expired
    BY <1>1 DEF HubInv, LogOK, Due
  <2>2. CASE o > ceiling[s]
    <3>1. CASE o <= head[s]
      BY <2>1, <2>2, <3>1
    <3>2. CASE ~(o <= head[s])
      <4>1. o > head[s]
        BY <2>1, <3>2
      <4>2. o \in LiveRows(s)
        BY <2>1, <2>2, <4>1 DEF LiveRows
      <4>3. o \in Offsets(s) \cup Pending(s)
        BY <1>1, <4>2 DEF KeepInv, LivesKept, Open
      <4>4. Pending(s) = {}
        BY DEF Quiet, Pending
      <4> QED
        BY <4>3, <4>4
    <3> QED
      BY <3>1, <3>2
  <2>3. CASE ~(o > ceiling[s])
    <3>1. o <= ceiling[s] /\ Since[s] # NoSince /\ o > Since[s]
      BY <2>1, <2>3 DEF Due
    <3>2. Since[s] \in Nat /\ REPLAY_MAX \in Nat /\ o \in Nat
      BY <2>1, <3>1, HubAssumption
    <3>3. CASE o > Since[s] + REPLAY_MAX
      BY <3>1, <3>3
    <3>5. CASE s \in unread
      BY <3>1, <3>5
    <3>4. CASE ~(o > Since[s] + REPLAY_MAX) /\ s \notin unread
      <4>1. o <= Since[s] + REPLAY_MAX
        BY <3>2, <3>4
      <4>2. o \in PastRows(s)
        BY <2>1, <3>1, <4>1 DEF PastRows
      <4>3. rows[s] = <<>>
        BY <1>1 DEF KeepInv, OpenOK
      <4>4. o \in Offsets(s) \/ \E k \in DOMAIN rows[s] : rows[s][k].off = o
        BY <1>1, <3>4, <4>2 DEF KeepInv, PastsKept
      <4> QED
        BY <4>3, <4>4
    <3> QED
      BY <3>3, <3>4, <3>5
  <2> QED
    BY <2>2, <2>3
<1>2. HubInv /\ OrderInv /\ KeepInv /\ [Next]_vars => KeepInv'
  BY KeepInvNext
<1> QED
  BY <1>1, <1>2, HubInvInit, HubInvNext, OrderInvInit, OrderInvNext, KeepInvInit, PTL DEF Spec
=============================================================================
