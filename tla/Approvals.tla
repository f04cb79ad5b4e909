----------------------------- MODULE Approvals -----------------------------
(***************************************************************************)
(* The approval queue of base (rs/base/src/approvals.rs).  A request gets  *)
(* a row in base's state file and one in its environment's; while a human  *)
(* decides, base holds the waiting call and a timer runs.  An answer and   *)
(* the timer race for the row; a gate resumes its command once approved.   *)
(* base may die and come back: rows stay, the held calls, the timers and   *)
(* the gates under way do not.  Handlers of the actor are atomic.  A task  *)
(* (timer, gate) sends its one command to the actor when it wakes, so the  *)
(* sending and the handling of that command are one step here.             *)
(***************************************************************************)
EXTENDS Integers, FiniteSets

CONSTANTS
  gate_mode,     \* config.approval.mode
  Modes,         \* what an environment's overlay may say
  Failures,      \* writes of a state file that may fail
  LIST_LIMIT,    \* rows a sweep looks at
  MaxRequest,    \* bound: requests
  MaxCrash       \* bound: crashes of base

\* The modes the code knows ("ask" stands for every other word), and the
\* writes that can fail: of a new row, of the environment's file, of an
\* expiry, of a sweep.
ASSUME ApprovalsAssumption ==
  /\ gate_mode \in {"ask", "auto", "deny"} /\ Modes \subseteq {"ask", "auto", "deny"}
  /\ Failures \subseteq {"record", "env", "expire", "sweep"}
  /\ LIST_LIMIT \in Nat \ {0} /\ MaxRequest \in Nat /\ MaxCrash \in Nat

Id == 1 .. MaxRequest
Decided == {"approved", "denied", "expired"}
Status == Decided \cup {"pending"}

VARIABLES
  asked,    \* requests made so far; the last one's id
  row,      \* approvals of base's state file
  hist,     \* approvals of the environment's state file
  kind,     \* what asks: the agent ("request") or a gate of the host
  pending,  \* Base.pending: the rows whose caller base holds
  waiter,   \* what the caller of each request got
  timer,    \* rows with a timer task
  aged,     \* rows older than config.approval.timeout_s
  ran,      \* gates that resumed their command
  crashes   \* crashes of base so far

vars == <<asked, row, hist, kind, pending, waiter, timer, aged, ran, crashes>>

---------------------------------------------------------------------------
Init ==
  /\ asked = 0 /\ crashes = 0
  /\ row = [i \in Id |-> "none"] /\ hist = [i \in Id |-> "none"]
  /\ kind = [i \in Id |-> "none"] /\ waiter = [i \in Id |-> "none"]
  /\ pending = {} /\ timer = {} /\ aged = {} /\ ran = {}

\* Store::approvals(pending, LIST_LIMIT): the newest pending rows.
Newest == {i \in Id : /\ row[i] = "pending"
                      /\ Cardinality({j \in Id : j >= i /\ row[j] = "pending"}) <= LIST_LIMIT}

\* Mutant: the sweep takes every pending row that is old.
SweepsHeld == Newest \cap aged

\* sweep_approvals(): old rows nobody waits on.
Sweeps == (Newest \cap aged) \ pending

\* The rows a sweep may expire: all it means to, or none when the store fails.
Sweep == {Sweeps} \cup IF "sweep" \in Failures THEN {{}} ELSE {}

\* A write, or a failed one that leaves what was there.
Write(what, new, was) == {new} \cup IF what \in Failures THEN {was} ELSE {}

\* Rows S expired, on top of which request i gets status s.
Rows(S, i, s) ==
  [j \in Id |-> IF j = i THEN s ELSE IF j \in S THEN "expired" ELSE row[j]]

\* decide() in mode auto or deny: the verdict is recorded and answered.
Immediate(v) ==
  \E S \in Sweep, s \in Write("record", v, "none"), h \in Write("env", v, "none") :
    /\ row' = Rows(S, asked + 1, s)
    /\ hist' = [hist EXCEPT ![asked + 1] = h]
    /\ waiter' = [waiter EXCEPT ![asked + 1] = v]
    /\ UNCHANGED <<pending, timer>>

\* enqueue(): a pending row, a held caller and a timer, or an error.
Enqueue ==
  \E S \in Sweep, s \in Write("record", "pending", "none") :
    /\ row' = Rows(S, asked + 1, s)
    /\ IF s = "none"
         THEN /\ waiter' = [waiter EXCEPT ![asked + 1] = "failed"]
              /\ UNCHANGED <<hist, pending, timer>>
         ELSE /\ waiter' = [waiter EXCEPT ![asked + 1] = "held"]
              /\ \E h \in Write("env", "pending", "none") :
                   hist' = [hist EXCEPT ![asked + 1] = h]
              /\ pending' = pending \cup {asked + 1}
              /\ timer' = timer \cup {asked + 1}

\* approval_request() and gate(): a gate goes by base's mode alone.
Request(k, mode) ==
  /\ asked < MaxRequest
  /\ k = "gate" => mode = gate_mode
  /\ \/ mode = "auto" /\ Immediate("approved")
     \/ mode = "deny" /\ Immediate("denied")
     \/ mode = "ask" /\ Enqueue
  /\ asked' = asked + 1
  /\ kind' = [kind EXCEPT ![asked + 1] = k]
  /\ UNCHANGED <<aged, ran, crashes>>

\* approval_list(): the sweep is all it changes.
List ==
  /\ \E S \in Sweep : S # {} /\ row' = Rows(S, 0, "none")
  /\ UNCHANGED <<asked, hist, kind, pending, waiter, timer, aged, ran, crashes>>

\* Mutant: the update does not ask for a pending row.
AnswerAny(i, v) ==
  /\ row[i] # "none"
  /\ row' = [row EXCEPT ![i] = v]
  /\ pending' = pending \ {i}
  /\ waiter' = IF i \in pending THEN [waiter EXCEPT ![i] = v] ELSE waiter
  /\ UNCHANGED <<asked, hist, kind, timer, aged, ran, crashes>>

\* Mutant: the verdict moves base's row alone.
AnswerOneFile(i, v) ==
  /\ row[i] = "pending"
  /\ row' = [row EXCEPT ![i] = v]
  /\ pending' = pending \ {i}
  /\ waiter' = IF i \in pending THEN [waiter EXCEPT ![i] = v] ELSE waiter
  /\ UNCHANGED <<asked, hist, kind, timer, aged, ran, crashes>>

\* approval_answer(): the first verdict on a pending row moves it and releases
\* the caller; the environment's row moves with it only while base holds the
\* request.  An answer to any other row is an error and changes nothing.
Answer(i, v) ==
  /\ row[i] = "pending"
  /\ row' = [row EXCEPT ![i] = v]
  /\ pending' = pending \ {i}
  /\ IF i \in pending
       THEN /\ waiter' = [waiter EXCEPT ![i] = v]
            /\ \E h \in Write("env", v, hist[i]) :
                 hist' = [hist EXCEPT ![i] = IF @ = "pending" THEN h ELSE @]
       ELSE UNCHANGED <<waiter, hist>>
  /\ UNCHANGED <<asked, kind, timer, aged, ran, crashes>>

\* Mutant: the expiry does not ask whether the request is still held.
ExpireAnyway(i) ==
  /\ i \in timer
  /\ row' = [row EXCEPT ![i] = "expired"]
  /\ waiter' = [waiter EXCEPT ![i] = "expired"]
  /\ timer' = timer \ {i}
  /\ pending' = pending \ {i}
  /\ UNCHANGED <<asked, hist, kind, aged, ran, crashes>>

\* The timer of a row ends: approval_expire().
Expire(i) ==
  /\ i \in timer
  /\ timer' = timer \ {i}
  /\ pending' = pending \ {i}
  /\ IF i \in pending
       THEN /\ \E s \in Write("expire", "expired", row[i]) :
                 row' = [row EXCEPT ![i] = IF @ = "pending" THEN s ELSE @]
            /\ \E h \in Write("env", "expired", hist[i]) :
                 hist' = [hist EXCEPT ![i] = IF @ = "pending" THEN h ELSE @]
            /\ waiter' = [waiter EXCEPT ![i] = "expired"]
       ELSE UNCHANGED <<row, hist, waiter>>
  /\ UNCHANGED <<asked, kind, aged, ran, crashes>>

\* Mutant: a gate resumes on any verdict.
ResumeAnswered(i) ==
  /\ kind[i] = "gate" /\ waiter[i] \in Decided /\ i \notin ran
  /\ ran' = ran \cup {i}
  /\ UNCHANGED <<asked, row, hist, kind, pending, waiter, timer, aged, crashes>>

\* The task of gate() hears "approved" and sends the command again, its gate
\* passed; any other verdict it turns into the caller's error.
Resume(i) ==
  /\ kind[i] = "gate" /\ waiter[i] = "approved" /\ i \notin ran
  /\ ran' = ran \cup {i}
  /\ UNCHANGED <<asked, row, hist, kind, pending, waiter, timer, aged, crashes>>

\* A row gets older than base's timeout.
Age(i) ==
  /\ row[i] = "pending" /\ i \notin aged
  /\ aged' = aged \cup {i}
  /\ UNCHANGED <<asked, row, hist, kind, pending, waiter, timer, ran, crashes>>

\* base dies and starts again over its files.
Crash ==
  /\ crashes < MaxCrash
  /\ crashes' = crashes + 1
  /\ pending' = {} /\ timer' = {}
  /\ waiter' = [i \in Id |->
                  IF \/ waiter[i] = "held"
                     \/ kind[i] = "gate" /\ waiter[i] = "approved" /\ i \notin ran
                    THEN "gone" ELSE waiter[i]]
  /\ UNCHANGED <<asked, row, hist, kind, aged, ran>>

Next ==
  \/ \E k \in {"request", "gate"}, m \in Modes \cup {gate_mode} : Request(k, m)
  \/ List
  \/ \E i \in Id : \/ \E v \in {"approved", "denied"} : Answer(i, v)
                   \/ Expire(i) \/ Resume(i) \/ Age(i)
  \/ Crash

Spec == Init /\ [][Next]_vars

\* A timer's sleep ends and the actor takes what it sends.
Fairness == \A i \in Id : WF_vars(Expire(i))
LiveSpec == Spec /\ Fairness

---------------------------------------------------------------------------
(* Properties.                                                             *)

\* The state files, the held calls and the tasks have their types.
TypeOK ==
  /\ asked \in 0 .. MaxRequest /\ crashes \in 0 .. MaxCrash
  /\ row \in [Id -> Status \cup {"none"}] /\ hist \in [Id -> Status \cup {"none"}]
  /\ kind \in [Id -> {"none", "request", "gate"}]
  /\ waiter \in [Id -> Decided \cup {"none", "held", "failed", "gone"}]
  /\ pending \subseteq Id /\ timer \subseteq Id /\ aged \subseteq Id /\ ran \subseteq Id

\* A caller waits exactly for the rows base holds for it, each of them still
\* pending in the file and with a timer that ends the wait: neither an answer,
\* a sweep, an expiry nor a restart leaves somebody waiting on a settled row.
HeldIsOpen ==
  \A i \in Id : /\ waiter[i] = "held" <=> i \in pending
                /\ i \in pending => row[i] = "pending" /\ i \in timer

\* What a caller was told is what the file says, then and later.
VerdictIsRow ==
  \A i \in Id : waiter[i] \in Decided => row[i] = waiter[i] \/ row[i] = "none"

\* A gated command runs only after an approval that is on file, unless base's
\* own mode approves by itself.
GateNeedsVerdict == \A i \in ran : row[i] = "approved" \/ gate_mode = "auto"

\* A settled row never changes again, whoever comes late.
DecidedIsFinal == [][\A i \in Id : row[i] \in Decided => row'[i] = row[i]]_vars

\* Nobody waits for ever: the call is answered, or base dies under it.
Answered == \A i \in Id : []<>(waiter[i] # "held")

\* A verdict on a request base holds moves its row in both files, when the
\* environment's can be written: the two histories do not part.
BothFilesMove ==
  [][\A i \in pending :
       row'[i] \in Decided /\ hist[i] = "pending" /\ "env" \notin Failures
         => hist'[i] = row'[i]]_vars
=============================================================================
