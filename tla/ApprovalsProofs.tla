-------------------------- MODULE ApprovalsProofs --------------------------
(***************************************************************************)
(* Proofs about Approvals, for any number of requests and crashes, every   *)
(* mode, every limit of the sweep and every set of writes that may fail.   *)
(***************************************************************************)
EXTENDS Approvals, TLAPS

(***************************************************************************)
(* The inductive invariant.  The properties do not carry themselves: that  *)
(* a request takes a fresh row (Fresh), that a verdict a human or a mode   *)
(* gave is on file unless the row was never written (OnFile), that only a  *)
(* gate that heard "approved" ran (RanHeard) and, when expiries can be     *)
(* written, that an expired caller's row is expired (ExpiredOnFile).       *)
(***************************************************************************)
Fresh ==
  \A i \in Id : i > asked => /\ row[i] = "none" /\ waiter[i] = "none"
                         /\ i \notin pending /\ i \notin timer /\ i \notin ran

OnFile ==
  \A i \in Id : waiter[i] \in {"approved", "denied"} =>
    \/ row[i] = waiter[i]
    \/ row[i] = "none" /\ (waiter[i] = "approved" /\ kind[i] = "gate" => gate_mode = "auto")

RanHeard == \A i \in ran : waiter[i] = "approved" /\ kind[i] = "gate"

ExpiredOnFile ==
  "expire" \notin Failures => \A i \in Id : waiter[i] = "expired" => row[i] = "expired"

Inv == TypeOK /\ HeldIsOpen /\ Fresh /\ OnFile /\ RanHeard /\ ExpiredOnFile

\* The next request takes the row after the last one.
LEMMA NextId == ASSUME TypeOK, asked < MaxRequest PROVE asked + 1 \in Id
PROOF BY ApprovalsAssumption DEF TypeOK, Id

\* A write leaves the new value, or the old one.
LEMMA WriteValue ==
  ASSUME NEW what, NEW new, NEW was, NEW v \in Write(what, new, was)
  PROVE  v = new \/ (v = was /\ what \in Failures)
PROOF BY DEF Write

\* A sweep takes pending rows nobody is held for.
LEMMA SweepOpen ==
  ASSUME NEW S \in Sweep
  PROVE  S \subseteq Id /\ \A i \in S : row[i] = "pending" /\ i \notin pending
PROOF BY DEF Sweep, Sweeps, Newest

\* Sweeping S and giving row i the status s, row by row.
LEMMA RowsValue ==
  ASSUME NEW S, NEW i, NEW s, NEW j \in Id
  PROVE  Rows(S, i, s)[j] = IF j = i THEN s ELSE IF j \in S THEN "expired" ELSE row[j]
PROOF BY DEF Rows

\* The initial state.
LEMMA InitInv == Init => Inv
PROOF
<1> SUFFICES ASSUME Init PROVE Inv
  OBVIOUS
<1>1. TypeOK
  BY ApprovalsAssumption DEF Init, TypeOK, Status, Decided
<1>2. HeldIsOpen /\ Fresh /\ OnFile /\ RanHeard /\ ExpiredOnFile
  BY DEF Init, HeldIsOpen, Fresh, OnFile, RanHeard, ExpiredOnFile
<1> QED BY <1>1, <1>2 DEF Inv

\* A request answered at once.
LEMMA ImmediateInv ==
  ASSUME Inv, NEW k \in {"request", "gate"}, NEW m \in {"auto", "deny"}, asked < MaxRequest,
         k = "gate" => m = gate_mode,
         Immediate(IF m = "auto" THEN "approved" ELSE "denied"),
         asked' = asked + 1, kind' = [kind EXCEPT ![asked + 1] = k], UNCHANGED <<aged, ran, crashes>>
  PROVE  Inv'
PROOF
<1> DEFINE v == IF m = "auto" THEN "approved" ELSE "denied"
<1>0. asked + 1 \in Id /\ asked \in Nat
  BY NextId, ApprovalsAssumption DEF Inv, TypeOK
<1>1. PICK S \in Sweep, s \in Write("record", v, "none"), h \in Write("env", v, "none") :
        /\ row' = Rows(S, asked + 1, s)
        /\ hist' = [hist EXCEPT ![asked + 1] = h]
        /\ waiter' = [waiter EXCEPT ![asked + 1] = v]
        /\ UNCHANGED <<pending, timer>>
  BY DEF Immediate
<1>2. v \in {"approved", "denied"} /\ s \in {v, "none"} /\ h \in {v, "none"}
  BY WriteValue
<1>3. \A j \in Id : row'[j] = IF j = asked + 1 THEN s ELSE IF j \in S THEN "expired" ELSE row[j]
  BY <1>1, RowsValue
<1>4. S \subseteq Id /\ \A i \in S : row[i] = "pending" /\ i \notin pending
  BY SweepOpen
<1> HIDE DEF v
<1>5. TypeOK'
  <2>1. row' \in [Id -> Status \cup {"none"}]
    BY <1>1, <1>2 DEF Rows, Status, Decided, Inv, TypeOK
  <2>2. asked' \in 0 .. MaxRequest /\ crashes' \in 0 .. MaxCrash
    BY <1>0, ApprovalsAssumption DEF Inv, TypeOK
  <2>3. hist' \in [Id -> Status \cup {"none"}]
    BY <1>0, <1>1, <1>2 DEF Status, Decided, Inv, TypeOK
  <2>4. waiter' \in [Id -> Decided \cup {"none", "held", "failed", "gone"}]
    BY <1>0, <1>1, <1>2 DEF Decided, Inv, TypeOK
  <2>5. kind' \in [Id -> {"none", "request", "gate"}]
    BY <1>0 DEF Inv, TypeOK
  <2> QED BY <1>1, <2>1, <2>2, <2>3, <2>4, <2>5 DEF Inv, TypeOK
<1>6. HeldIsOpen'
  BY <1>0, <1>1, <1>2, <1>3, <1>4 DEF Inv, TypeOK, HeldIsOpen, Fresh, Id
<1>7. Fresh'
  BY <1>0, <1>1, <1>3, <1>4 DEF Inv, TypeOK, Fresh, Id
<1>8. OnFile'
  BY <1>0, <1>1, <1>2, <1>3, <1>4 DEF Inv, TypeOK, OnFile, Id, v
<1>9. RanHeard'
  BY <1>0, <1>1 DEF Inv, TypeOK, RanHeard, Fresh, Id
<1>10. ExpiredOnFile'
  BY <1>0, <1>1, <1>2, <1>3, <1>4 DEF Inv, TypeOK, ExpiredOnFile, Id
<1> QED BY <1>5, <1>6, <1>7, <1>8, <1>9, <1>10 DEF Inv

\* A request that waits for a human.
LEMMA EnqueueInv ==
  ASSUME Inv, NEW k \in {"request", "gate"}, asked < MaxRequest, Enqueue,
         asked' = asked + 1, kind' = [kind EXCEPT ![asked + 1] = k], UNCHANGED <<aged, ran, crashes>>
  PROVE  Inv'
PROOF
<1>0. asked + 1 \in Id /\ asked \in Nat
  BY NextId, ApprovalsAssumption DEF Inv, TypeOK
<1>1. PICK S \in Sweep, s \in Write("record", "pending", "none") :
        /\ row' = Rows(S, asked + 1, s)
        /\ IF s = "none"
             THEN /\ waiter' = [waiter EXCEPT ![asked + 1] = "failed"]
                  /\ UNCHANGED <<hist, pending, timer>>
             ELSE /\ waiter' = [waiter EXCEPT ![asked + 1] = "held"]
                  /\ \E h \in Write("env", "pending", "none") :
                       hist' = [hist EXCEPT ![asked + 1] = h]
                  /\ pending' = pending \cup {asked + 1}
                  /\ timer' = timer \cup {asked + 1}
  BY DEF Enqueue
<1>2. s \in {"pending", "none"}
  BY WriteValue
<1>3. \A j \in Id : row'[j] = IF j = asked + 1 THEN s ELSE IF j \in S THEN "expired" ELSE row[j]
  BY <1>1, RowsValue
<1>4. S \subseteq Id /\ \A i \in S : row[i] = "pending" /\ i \notin pending
  BY SweepOpen
<1>5. TypeOK'
  <2>1. row' \in [Id -> Status \cup {"none"}]
    BY <1>1, <1>2 DEF Rows, Status, Decided, Inv, TypeOK
  <2>2. asked' \in 0 .. MaxRequest /\ crashes' \in 0 .. MaxCrash
    BY <1>0, ApprovalsAssumption DEF Inv, TypeOK
  <2>3. hist' \in [Id -> Status \cup {"none"}]
    BY <1>0, <1>1, WriteValue DEF Status, Decided, Inv, TypeOK
  <2>4. waiter' \in [Id -> Decided \cup {"none", "held", "failed", "gone"}]
    BY <1>0, <1>1 DEF Decided, Inv, TypeOK
  <2>5. kind' \in [Id -> {"none", "request", "gate"}]
    BY <1>0 DEF Inv, TypeOK
  <2>6. pending' \subseteq Id /\ timer' \subseteq Id
    BY <1>0, <1>1 DEF Inv, TypeOK
  <2> QED BY <2>1, <2>2, <2>3, <2>4, <2>5, <2>6 DEF Inv, TypeOK
<1>6. \A j \in Id : waiter'[j] = IF j = asked + 1 THEN IF s = "none" THEN "failed" ELSE "held"
                                    ELSE waiter[j]
  BY <1>0, <1>1 DEF Inv, TypeOK
<1>7. /\ pending' = IF s = "none" THEN pending ELSE pending \cup {asked + 1}
      /\ timer' = IF s = "none" THEN timer ELSE timer \cup {asked + 1}
  BY <1>1
<1>8. \A j \in Id : j # asked + 1 => kind'[j] = kind[j]
  BY <1>0 DEF Inv, TypeOK
<1>9. row[asked + 1] = "none" /\ asked + 1 \notin pending /\ asked + 1 \notin ran
  BY <1>0 DEF Inv, Fresh
<1>10. HeldIsOpen'
  BY <1>0, <1>2, <1>3, <1>4, <1>6, <1>7, <1>9 DEF Inv, HeldIsOpen
<1>11. Fresh'
  BY <1>0, <1>3, <1>4, <1>6, <1>7 DEF Inv, Fresh, Id
<1>12. OnFile'
  BY <1>0, <1>3, <1>4, <1>6, <1>8 DEF Inv, OnFile
<1>13. RanHeard'
  BY <1>6, <1>8, <1>9 DEF Inv, TypeOK, RanHeard
<1>14. ExpiredOnFile'
  BY <1>3, <1>4, <1>6 DEF Inv, ExpiredOnFile
<1> QED BY <1>5, <1>10, <1>11, <1>12, <1>13, <1>14 DEF Inv

\* A list expires what a sweep expires.
LEMMA ListInv == ASSUME Inv, List PROVE Inv'
PROOF
<1>1. PICK S \in Sweep : row' = Rows(S, 0, "none")
  BY DEF List
<1>2. S \subseteq Id /\ \A i \in S : row[i] = "pending" /\ i \notin pending
  BY SweepOpen
<1>3. \A j \in Id : row'[j] = IF j \in S THEN "expired" ELSE row[j]
  BY <1>1, RowsValue DEF Id
<1>4. TypeOK'
  <2>1. row' \in [Id -> Status \cup {"none"}]
    BY <1>1 DEF Rows, Status, Decided, Inv, TypeOK, Id
  <2> QED BY <2>1 DEF List, Inv, TypeOK
<1>5. HeldIsOpen' /\ Fresh' /\ ExpiredOnFile'
  BY <1>2, <1>3 DEF List, Inv, HeldIsOpen, Fresh, ExpiredOnFile
<1>6. OnFile' /\ RanHeard'
  BY <1>2, <1>3 DEF List, Inv, OnFile, RanHeard
<1> QED BY <1>4, <1>5, <1>6 DEF Inv

\* A human's verdict.
LEMMA AnswerInv ==
  ASSUME Inv, NEW i \in Id, NEW v \in {"approved", "denied"}, Answer(i, v)
  PROVE  Inv'
PROOF
<1>1. \A j \in Id : row'[j] = IF j = i THEN v ELSE row[j]
  BY DEF Answer, Inv, TypeOK
<1>2. \A j \in Id : waiter'[j] = IF j = i /\ i \in pending THEN v ELSE waiter[j]
  BY DEF Answer, Inv, TypeOK
<1>3. TypeOK'
  <2>1. row' \in [Id -> Status \cup {"none"}]
    BY DEF Answer, Status, Decided, Inv, TypeOK
  <2>2. waiter' \in [Id -> Decided \cup {"none", "held", "failed", "gone"}]
    BY DEF Answer, Decided, Inv, TypeOK
  <2>3. hist' \in [Id -> Status \cup {"none"}]
    <3>1. CASE i \in pending
      <4>1. PICK h \in Write("env", v, hist[i]) :
              hist' = [hist EXCEPT ![i] = IF @ = "pending" THEN h ELSE @]
        BY <3>1 DEF Answer
      <4>2. h \in Status \cup {"none"}
        BY WriteValue DEF Inv, TypeOK, Status, Decided
      <4> QED BY <4>1, <4>2 DEF Inv, TypeOK
    <3>2. CASE i \notin pending
      BY <3>2 DEF Answer, Inv, TypeOK
    <3> QED BY <3>1, <3>2
  <2> QED BY <2>1, <2>2, <2>3 DEF Answer, Inv, TypeOK
<1>4. HeldIsOpen' /\ Fresh'
  BY <1>1, <1>2 DEF Answer, Inv, HeldIsOpen, Fresh
<1>5. OnFile'
  BY <1>1, <1>2 DEF Answer, Inv, HeldIsOpen, OnFile
<1>6. RanHeard'
  BY <1>2 DEF Answer, Inv, TypeOK, HeldIsOpen, RanHeard
<1>7. ExpiredOnFile'
  BY <1>1, <1>2 DEF Answer, Inv, ExpiredOnFile
<1> QED BY <1>3, <1>4, <1>5, <1>6, <1>7 DEF Inv

\* The end of a timer.
LEMMA ExpireInv == ASSUME Inv, NEW i \in Id, Expire(i) PROVE Inv'
PROOF
<1>1. CASE i \in pending
  <2>1. PICK s \in Write("expire", "expired", row[i]) :
          row' = [row EXCEPT ![i] = IF @ = "pending" THEN s ELSE @]
    BY <1>1 DEF Expire
  <2>2. row[i] = "pending" /\ waiter[i] = "held"
    BY <1>1 DEF Inv, HeldIsOpen
  <2>3. s = "expired" \/ (s = "pending" /\ "expire" \in Failures)
    BY <2>2, WriteValue
  <2>4. \A j \in Id : row'[j] = IF j = i THEN s ELSE row[j]
    BY <2>1, <2>2 DEF Inv, TypeOK
  <2>5. \A j \in Id : waiter'[j] = IF j = i THEN "expired" ELSE waiter[j]
    BY <1>1 DEF Expire, Inv, TypeOK
  <2>6. TypeOK'
    <3>1. row' \in [Id -> Status \cup {"none"}]
      BY <2>1, <2>3 DEF Status, Decided, Inv, TypeOK
    <3>2. waiter' \in [Id -> Decided \cup {"none", "held", "failed", "gone"}]
      BY <1>1 DEF Expire, Decided, Inv, TypeOK
    <3>3. hist' \in [Id -> Status \cup {"none"}]
      <4>1. PICK h \in Write("env", "expired", hist[i]) :
              hist' = [hist EXCEPT ![i] = IF @ = "pending" THEN h ELSE @]
        BY <1>1 DEF Expire
      <4>2. h \in Status \cup {"none"}
        BY WriteValue DEF Inv, TypeOK, Status, Decided
      <4> QED BY <4>1, <4>2 DEF Inv, TypeOK
    <3> QED BY <3>1, <3>2, <3>3 DEF Expire, Inv, TypeOK
  <2>7. HeldIsOpen' /\ Fresh'
    BY <2>2, <2>4, <2>5 DEF Expire, Inv, HeldIsOpen, Fresh
  <2>8. OnFile'
    BY <2>4, <2>5 DEF Expire, Inv, OnFile
  <2>9. RanHeard'
    BY <2>2, <2>5 DEF Expire, Inv, TypeOK, RanHeard
  <2>10. ExpiredOnFile'
    BY <2>3, <2>4, <2>5 DEF Expire, Inv, ExpiredOnFile
  <2> QED BY <2>6, <2>7, <2>8, <2>9, <2>10 DEF Inv
<1>2. CASE i \notin pending
  <2>1. UNCHANGED <<asked, row, hist, kind, waiter, aged, ran, crashes>> /\ pending' = pending
    BY <1>2 DEF Expire, Inv, TypeOK
  <2>2. TypeOK' /\ HeldIsOpen' /\ Fresh'
    BY <1>2, <2>1 DEF Expire, Inv, TypeOK, HeldIsOpen, Fresh
  <2>3. OnFile' /\ RanHeard' /\ ExpiredOnFile'
    BY <2>1 DEF Inv, OnFile, RanHeard, ExpiredOnFile
  <2> QED BY <2>2, <2>3 DEF Inv
<1> QED BY <1>1, <1>2

\* A gate that goes on, a row that gets older.
LEMMA ResumeAgeInv == ASSUME Inv, NEW i \in Id, Resume(i) \/ Age(i) PROVE Inv'
PROOF
<1>1. TypeOK'
  BY DEF Resume, Age, Inv, TypeOK
<1>2. HeldIsOpen' /\ OnFile' /\ ExpiredOnFile'
  BY DEF Resume, Age, Inv, HeldIsOpen, OnFile, ExpiredOnFile
<1>3. Fresh'
  BY DEF Resume, Age, Inv, Fresh
<1>4. RanHeard'
  BY DEF Resume, Age, Inv, RanHeard
<1> QED BY <1>1, <1>2, <1>3, <1>4 DEF Inv

\* base dies.
LEMMA CrashInv == ASSUME Inv, Crash PROVE Inv'
PROOF
<1>1. TypeOK'
  <2>1. waiter' \in [Id -> Decided \cup {"none", "held", "failed", "gone"}]
    BY DEF Crash, Inv, TypeOK
  <2>2. crashes' \in 0 .. MaxCrash
    BY ApprovalsAssumption DEF Crash, Inv, TypeOK
  <2> QED BY <2>1, <2>2 DEF Crash, Inv, TypeOK
<1>2. \A i \in Id : waiter'[i] = waiter[i] \/ waiter'[i] = "gone"
  BY DEF Crash
<1>3. \A i \in Id : waiter'[i] # "held"
  BY DEF Crash
<1>4. HeldIsOpen'
  BY <1>3 DEF Crash, HeldIsOpen
<1>5. Fresh'
  BY DEF Crash, Inv, Fresh
<1>6. OnFile' /\ ExpiredOnFile'
  BY <1>2 DEF Crash, Inv, OnFile, ExpiredOnFile
<1>7. RanHeard'
  BY DEF Crash, Inv, TypeOK, RanHeard
<1> QED BY <1>1, <1>4, <1>5, <1>6, <1>7 DEF Inv

\* Every step keeps the invariant.
LEMMA NextInv == Inv /\ [Next]_vars => Inv'
PROOF
<1> SUFFICES ASSUME Inv, [Next]_vars PROVE Inv'
  OBVIOUS
<1>1. ASSUME NEW k \in {"request", "gate"}, NEW m \in Modes \cup {gate_mode}, Request(k, m)
      PROVE  Inv'
  <2>1. CASE m = "auto"
    BY <1>1, <2>1, ImmediateInv DEF Request
  <2>2. CASE m = "deny"
    BY <1>1, <2>2, ImmediateInv DEF Request
  <2>3. CASE m = "ask"
    BY <1>1, <2>3, EnqueueInv DEF Request
  <2> QED BY <1>1, <2>1, <2>2, <2>3 DEF Request
<1>2. CASE List
  BY <1>2, ListInv
<1>3. ASSUME NEW i \in Id, NEW v \in {"approved", "denied"}, Answer(i, v) PROVE Inv'
  BY <1>3, AnswerInv
<1>4. ASSUME NEW i \in Id, Expire(i) \/ Resume(i) \/ Age(i) PROVE Inv'
  BY <1>4, ExpireInv, ResumeAgeInv
<1>5. CASE Crash
  BY <1>5, CrashInv
<1>6. CASE UNCHANGED vars
  <2>1. TypeOK' /\ HeldIsOpen' /\ Fresh'
    BY <1>6 DEF vars, Inv, TypeOK, HeldIsOpen, Fresh
  <2>2. OnFile' /\ RanHeard' /\ ExpiredOnFile'
    BY <1>6 DEF vars, Inv, OnFile, RanHeard, ExpiredOnFile
  <2> QED BY <2>1, <2>2 DEF Inv
<1> QED BY <1>1, <1>2, <1>3, <1>4, <1>5, <1>6 DEF Next

\* The inductive invariant holds in every behaviour of the queue.
LEMMA InvHolds == Spec => []Inv
PROOF BY InitInv, NextInv, PTL DEF Spec

\* Nobody waits on a settled row: a call base holds has its row pending in the
\* file and a timer, and every waiting call is one base holds.
THEOREM CallersAreHeldOpen == Spec => []HeldIsOpen
PROOF
<1>1. Inv => HeldIsOpen
  BY DEF Inv
<1> QED BY <1>1, InvHolds, PTL

\* A gated command runs only with an approval on file, whatever writes fail
\* and whenever base dies, unless base's mode is auto.
THEOREM GatesNeedVerdicts == Spec => []GateNeedsVerdict
PROOF
<1>1. Inv => GateNeedsVerdict
  BY DEF Inv, TypeOK, OnFile, RanHeard, GateNeedsVerdict
<1> QED BY <1>1, InvHolds, PTL

\* When expiries can be written, a caller is told what the file says.
THEOREM VerdictsAreOnFile ==
  ASSUME "expire" \notin Failures
  PROVE  Spec => []VerdictIsRow
PROOF
<1>1. Inv => VerdictIsRow
  BY DEF Inv, OnFile, ExpiredOnFile, VerdictIsRow, Decided
<1> QED BY <1>1, InvHolds, PTL

\* A settled row never changes, whether a human, a timer or a sweep comes late.
THEOREM SettledRowsStay == Spec => DecidedIsFinal
PROOF
<1>1. ASSUME Inv, [Next]_vars
      PROVE  [\A i \in Id : row[i] \in Decided => row'[i] = row[i]]_vars
  <2> SUFFICES ASSUME NEW i \in Id, row[i] \in Decided, Next
               PROVE  row'[i] = row[i]
    BY <1>1
  <2>0. row[i] # "pending" /\ row[i] # "none"
    BY DEF Decided
  <2>1. ASSUME NEW k \in {"request", "gate"}, NEW m \in Modes \cup {gate_mode}, Request(k, m)
        PROVE  row'[i] = row[i]
    <3>1. PICK S \in Sweep, s \in Status \cup {"none"} : row' = Rows(S, asked + 1, s)
      <4>1. Immediate("approved") \/ Immediate("denied")
              => \E S \in Sweep, s \in Status \cup {"none"} : row' = Rows(S, asked + 1, s)
        BY WriteValue DEF Immediate, Status, Decided
      <4>2. Enqueue => \E S \in Sweep, s \in Status \cup {"none"} : row' = Rows(S, asked + 1, s)
        BY WriteValue DEF Enqueue, Status, Decided
      <4> QED BY <2>1, <4>1, <4>2 DEF Request
    <3>2. i # asked + 1
      BY <1>1, <2>0 DEF Inv, TypeOK, Fresh, Id
    <3> QED BY <2>0, <3>1, <3>2, RowsValue, SweepOpen
  <2>2. CASE List
    <3>1. PICK S \in Sweep : row' = Rows(S, 0, "none")
      BY <2>2 DEF List
    <3> QED BY <2>0, <3>1, RowsValue, SweepOpen DEF Id
  <2>3. ASSUME NEW j \in Id, NEW v \in {"approved", "denied"}, Answer(j, v)
        PROVE  row'[i] = row[i]
    BY <1>1, <2>0, <2>3 DEF Answer, Inv, TypeOK
  <2>4. ASSUME NEW j \in Id, Expire(j) PROVE row'[i] = row[i]
    BY <1>1, <2>0, <2>4 DEF Expire, Inv, TypeOK
  <2>5. ASSUME NEW j \in Id, Resume(j) \/ Age(j) PROVE row'[i] = row[i]
    BY <2>5 DEF Resume, Age
  <2>6. CASE Crash
    BY <2>6 DEF Crash
  <2> QED BY <2>1, <2>2, <2>3, <2>4, <2>5, <2>6 DEF Next
<1> QED BY <1>1, InvHolds, PTL DEF Spec, DecidedIsFinal

\* When the environment's file can be written, whatever settles a request that
\* base holds, an answer or its timer, settles it in both files.
THEOREM VerdictsMoveBoth == Spec => BothFilesMove
PROOF
<1> DEFINE Both(i) == row'[i] \in Decided /\ hist[i] = "pending" /\ "env" \notin Failures
                        => hist'[i] = row'[i]
<1>1. ASSUME Inv, [Next]_vars
      PROVE  [\A i \in pending : Both(i)]_vars
  <2> SUFFICES ASSUME NEW i \in pending, Next,
                      row'[i] \in Decided, hist[i] = "pending", "env" \notin Failures
               PROVE  hist'[i] = row'[i]
    BY <1>1
  <2>0. i \in Id /\ row[i] = "pending" /\ i # asked + 1 /\ "pending" \notin Decided
    BY <1>1 DEF Inv, TypeOK, HeldIsOpen, Fresh, Id, Decided
  <2>1. ASSUME NEW k \in {"request", "gate"}, NEW m \in Modes \cup {gate_mode}, Request(k, m)
        PROVE  row'[i] = row[i]
    <3>1. PICK S \in Sweep, s \in Status \cup {"none"} : row' = Rows(S, asked + 1, s)
      <4>1. Immediate("approved") \/ Immediate("denied")
              => \E S \in Sweep, s \in Status \cup {"none"} : row' = Rows(S, asked + 1, s)
        BY WriteValue DEF Immediate, Status, Decided
      <4>2. Enqueue => \E S \in Sweep, s \in Status \cup {"none"} : row' = Rows(S, asked + 1, s)
        BY WriteValue DEF Enqueue, Status, Decided
      <4> QED BY <2>1, <4>1, <4>2 DEF Request
    <3> QED BY <2>0, <3>1, RowsValue, SweepOpen
  <2>2. ASSUME List PROVE row'[i] = row[i]
    <3>1. PICK S \in Sweep : row' = Rows(S, 0, "none")
      BY <2>2 DEF List
    <3> QED BY <2>0, <3>1, RowsValue, SweepOpen DEF Id
  <2>3. ASSUME NEW j \in Id, NEW v \in {"approved", "denied"}, Answer(j, v)
        PROVE  hist'[i] = row'[i]
    <3>1. CASE i = j
      <4>1. PICK h \in Write("env", v, hist[j]) :
              hist' = [hist EXCEPT ![j] = IF @ = "pending" THEN h ELSE @]
        BY <2>3, <3>1 DEF Answer
      <4>2. h = v
        BY <4>1, WriteValue
      <4>3. row'[i] = v
        BY <1>1, <2>0, <2>3, <3>1 DEF Answer, Inv, TypeOK
      <4> QED BY <1>1, <2>0, <3>1, <4>1, <4>2, <4>3 DEF Inv, TypeOK
    <3>2. CASE i # j
      <4>1. row'[i] = row[i]
        BY <1>1, <2>0, <2>3, <3>2 DEF Answer, Inv, TypeOK
      <4> QED BY <2>0, <4>1
    <3> QED BY <3>1, <3>2
  <2>4. ASSUME NEW j \in Id, Expire(j) PROVE hist'[i] = row'[i]
    <3>1. CASE i = j
      <4>1. PICK h \in Write("env", "expired", hist[j]) :
              hist' = [hist EXCEPT ![j] = IF @ = "pending" THEN h ELSE @]
        BY <2>4, <3>1 DEF Expire
      <4>2. h = "expired"
        BY <4>1, WriteValue
      <4>3. PICK s \in Write("expire", "expired", row[j]) :
              row' = [row EXCEPT ![j] = IF @ = "pending" THEN s ELSE @]
        BY <2>4, <3>1 DEF Expire
      <4>4. row'[i] = s
        BY <1>1, <2>0, <3>1, <4>3 DEF Inv, TypeOK
      <4>5. s = "expired"
        BY <2>0, <3>1, <4>3, <4>4, WriteValue
      <4> QED BY <1>1, <2>0, <3>1, <4>1, <4>2, <4>4, <4>5 DEF Inv, TypeOK
    <3>2. CASE i # j
      <4>1. row'[i] = row[i]
        BY <1>1, <2>0, <2>4, <3>2 DEF Expire, Inv, TypeOK
      <4> QED BY <2>0, <4>1
    <3> QED BY <3>1, <3>2
  <2>5. ASSUME NEW j \in Id, Resume(j) \/ Age(j) PROVE row'[i] = row[i]
    BY <2>5 DEF Resume, Age
  <2>6. ASSUME Crash PROVE row'[i] = row[i]
    BY <2>6 DEF Crash
  <2> QED BY <2>0, <2>1, <2>2, <2>3, <2>4, <2>5, <2>6 DEF Next
<1> QED BY <1>1, InvHolds, PTL DEF Spec, BothFilesMove
=============================================================================
