------------------------------ MODULE NodeLink ------------------------------
(***************************************************************************)
(* The link of a node to base and the guardian that works through it.  The *)
(* link is one process with a mailbox (link/server.ex): it sends the       *)
(* node's requests to base and finds the caller of each reply, answers     *)
(* what base asks, a service or plugin request in a process of its own and *)
(* everything else, a reload of the config tree too, itself.  A plugin     *)
(* that is loaded by such a reload may in turn call the link.  The         *)
(* guardian (guardian/server.ex, probes.ex) runs a pass of probes, counts  *)
(* passes that fail one after the other, and asks base for a reset.        *)
(*                                                                         *)
(* A request's number is only compared while somebody holds it, so the     *)
(* model takes a small number nobody holds.                                *)
(***************************************************************************)
EXTENDS Integers, Sequences, FiniteSets, Focus

CONSTANTS
    LinkWorlds,   \* [asks: what base may ask, core: the probes of a pass,
                  \*  loads: a plugin calls the link when it is loaded,
                  \*  broken: the reload exits, drops, dies, faults, lates: how
                  \*  often the socket closes, the env dies, its log gets a
                  \*  violation, base answers after the timeout; passes: how
                  \*  many the guardian makes, -1 for no end]
    failures,     \* state.limit: failing passes before a reset
    MaxQueued     \* bound: calls the guardian leaves in the link's mailbox

\* The probes of the catalog, and those base approved.
Probe == {"base", "env", "tree", "worker", "harness", "budgets", "violations", "extra"}

\* What the env's row of base's status says: its worker and its harness are not started,
\* they are ready, one has failed, a budget halted the env, which stops the harness.
RowStates == {"off", "up", "failed", "halted"}

ASSUME FailuresAssumption == failures \in Nat \ {0} /\ MaxQueued \in Nat \ {0}

\* A world; the guardian's pass is made of probes.
ASSUME LinkAssumption ==
    \A w \in LinkWorlds :
        w \in [asks : SUBSET STRING, core : Seq(Probe), loads : BOOLEAN, broken : BOOLEAN,
              drops : Nat, dies : Nat, faults : Nat, lates : Nat, passes : Int]

VARIABLES
    linked,    \* the world, with what is left of its budgets
    mail,      \* the mailbox of the link's process
    link,      \* "up", "reload" (in Loader.reload), "halted" or "crashed"
    pending,   \* state.pending: number -> <<caller, its call>>
    calls,     \* caller -> the call it waits in, or what the last one got
    atBase,    \* requests base has not answered: number -> method
    asked,     \* base's own requests that have no reply: number -> method
    tasks,     \* the detached processes, by the number they answer
    loading,   \* the plugin that is loaded: "no", "loads", "calls"
    envUp,     \* base's view of the target env: its health
    trouble,   \* violations in its log
    pass,      \* the probes of this pass still to run; << >> between passes
    failed,    \* the probes of this pass that failed
    status,    \* state.status: "none" or what the env's row says
    seen,      \* state.after
    strikes,   \* state.strikes
    blamed,    \* passes that failed for a violation
    resets     \* 1 when base was asked for a reset

linkVars == <<linked, mail, link, pending, calls, atBase, asked, tasks, loading,
              envUp, trouble, pass, failed, status, seen, strikes, blamed, resets>>

guardianVars == <<pass, failed, status, seen, strikes, blamed>>

Caller == {"guardian", "plugin"}
Idle == [is |-> "idle", nr |-> 0, method |-> "none", ok |-> FALSE, of |-> "none", value |-> 0]

\* Numbers somebody holds.
Held == DOMAIN pending \cup DOMAIN atBase \cup DOMAIN asked \cup tasks
        \cup {calls[c].nr : c \in Caller} \cup {mail[i].nr : i \in DOMAIN mail}
Fresh == CHOOSE n \in 1 .. Cardinality(Held) + 1 : n \notin Held

Without(f, k) == [i \in DOMAIN f \ {k} |-> f[i]]
With(f, k, v) == [i \in DOMAIN f \cup {k} |-> IF i = k THEN v ELSE f[i]]
Mail(kind, method, nr, value) == [kind |-> kind, method |-> method, nr |-> nr, value |-> value]

LinkInit ==
    /\ linked \in LinkWorlds
    /\ mail = << >> /\ link = "up" /\ pending = << >>
    /\ calls = [c \in Caller |-> Idle]
    /\ atBase = << >> /\ asked = << >> /\ tasks = {}
    /\ loading = "no"
    /\ envUp = TRUE /\ trouble = 0
    /\ pass = << >> /\ failed = {} /\ status = "none" /\ seen = 0
    /\ strikes = 0 /\ blamed = 0 /\ resets = 0

-----------------------------------------------------------------------------
(***************************************************************************)
(* Base, external to the node: it answers from what it knows at that time. *)
(***************************************************************************)
Knows(method) ==
    CASE method = "log.query" -> trouble
      [] method \in {"health", "tree", "status"} -> IF envUp THEN 1 ELSE 0
      [] OTHER -> 1

BaseAnswers ==
    /\ link \in {"up", "reload"}
    /\ \E n \in DOMAIN atBase :
        /\ mail' = Append(mail, Mail("rep", atBase[n], n, Knows(atBase[n])))
        /\ atBase' = Without(atBase, n)
    /\ UNCHANGED <<linked, link, pending, calls, asked, tasks, loading, envUp, trouble,
                   guardianVars, resets>>

BaseAsks ==
    /\ link \in {"up", "reload"}
    /\ \E m \in linked.asks :
        /\ linked' = [linked EXCEPT !.asks = @ \ {m}]
        /\ asked' = With(asked, Fresh, m)
        /\ mail' = Append(mail, Mail("ask", m, Fresh, 0))
    /\ UNCHANGED <<link, pending, calls, atBase, tasks, loading, envUp, trouble,
                   guardianVars, resets>>

\* Base goes, or drops the connection.
BaseCloses ==
    /\ linked.drops > 0
    /\ link \in {"up", "reload"}
    /\ linked' = [linked EXCEPT !.drops = @ - 1]
    /\ mail' = Append(mail, Mail("closed", "none", 0, 0))
    /\ atBase' = << >>
    /\ asked' = << >>
    /\ UNCHANGED <<link, pending, calls, tasks, loading, envUp, trouble, guardianVars, resets>>

EnvTurns ==
    /\ \/ /\ linked.dies > 0 /\ envUp
          /\ linked' = [linked EXCEPT !.dies = @ - 1]
          /\ envUp' = FALSE
          /\ trouble' = trouble
       \/ /\ linked.faults > 0
          /\ linked' = [linked EXCEPT !.faults = @ - 1]
          /\ trouble' = trouble + 1
          /\ envUp' = envUp
    /\ UNCHANGED <<mail, link, pending, calls, atBase, asked, tasks, loading,
                   guardianVars, resets>>

-----------------------------------------------------------------------------
(***************************************************************************)
(* service: a call of the link, in the caller's process.                   *)
(***************************************************************************)
\* request of a caller that is not in one: the message is in the mailbox, and
\* the caller waits a second longer than the link will.
Calls(c, method) ==
    /\ calls[c].is = "idle"
    /\ c = "guardian" => Cardinality({i \in DOMAIN mail : mail[i].kind = "call"}) < MaxQueued
    /\ calls' = [calls EXCEPT ![c] = [Idle EXCEPT !.is = "waits", !.nr = Fresh,
                                                    !.method = method]]
    /\ mail' = IF link \in {"up", "reload"}
               THEN Append(mail, Mail("call", method, Fresh, c)) ELSE mail

\* The call ends with an exit, which service turns into an error: the link is
\* in a reload and does not come to it in time, or is gone.
CallExits ==
    /\ \E c \in Caller :
        /\ calls[c].is = "waits"
        /\ link # "up"
        /\ calls' = [calls EXCEPT ![c].is = "got"]
    /\ UNCHANGED <<linked, mail, link, pending, atBase, asked, tasks, loading, envUp, trouble,
                   guardianVars, resets>>

\* GenServer.reply: only the call it belongs to takes the answer.
Replied(c, nr, ok, of, value) ==
    IF calls[c].is = "waits" /\ calls[c].nr = nr
    THEN [calls EXCEPT ![c] = [@ EXCEPT !.is = "got", !.ok = ok, !.of = of, !.value = value]]
    ELSE calls

-----------------------------------------------------------------------------
(***************************************************************************)
(* The link's process, one message after the other.                        *)
(***************************************************************************)
\* handle_call of a request: the frame goes to base under a number of its own,
\* and a timer is started.
Requests(msg) ==
    /\ pending' = With(pending, msg.nr, msg.value)
    /\ atBase' = With(atBase, msg.nr, msg.method)
    /\ resets' = IF msg.method = "reset" THEN 1 ELSE resets
    /\ UNCHANGED <<calls, asked, tasks, loading, link>>

\* Mutant: the newest request gets the reply, whatever its number is.
AnswerAny(nr, ok, of, value) ==
    /\ IF DOMAIN pending = {} THEN UNCHANGED <<pending, calls>>
       ELSE LET n == CHOOSE n \in DOMAIN pending : \A k \in DOMAIN pending : k <= n
            IN  /\ calls' = Replied(pending[n], n, ok, of, value)
                /\ pending' = Without(pending, n)
    /\ UNCHANGED <<atBase, asked, tasks, loading, link, resets>>

\* answer: nobody waits for a number that is not pending any more.
Answer(nr, ok, of, value) ==
    /\ IF nr \notin DOMAIN pending THEN UNCHANGED <<pending, calls>>
       ELSE /\ calls' = Replied(pending[nr], nr, ok, of, value)
            /\ pending' = Without(pending, nr)
    /\ UNCHANGED <<atBase, asked, tasks, loading, link, resets>>

\* incoming of a request of base: a service or plugin request is detached, a
\* reload is run here and now, everything else is answered.
Incoming(msg) ==
    /\ asked' = IF msg.method \in {"svc", "plugin", "reload"} THEN asked
                ELSE Without(asked, msg.nr)
    /\ tasks' = IF msg.method \in {"svc", "plugin"} THEN tasks \cup {msg.nr} ELSE tasks
    /\ link' = IF msg.method = "reload" THEN "reload" ELSE link
    /\ loading' = IF msg.method = "reload" THEN "loads" ELSE loading
    /\ UNCHANGED <<pending, calls, atBase, resets>>

Serve ==
    /\ link = "up"
    /\ mail # << >>
    /\ mail' = Tail(mail)
    /\ LET msg == Head(mail)
       IN  CASE msg.kind = "call" -> Requests(msg)
             [] msg.kind = "rep" -> Answer(msg.nr, TRUE, msg.method, msg.value)
             [] msg.kind = "ask" -> Incoming(msg)
             [] msg.kind = "closed" -> /\ link' = "halted"
                                       /\ UNCHANGED <<pending, calls, atBase, asked, tasks,
                                                      loading, resets>>
    /\ UNCHANGED <<linked, envUp, trouble, guardianVars>>

\* The timer of a request.  Base may still answer it later, or never will.
Expire ==
    /\ link = "up"
    /\ \E n \in DOMAIN pending, late \in BOOLEAN :
        /\ late => n \in DOMAIN atBase /\ linked.lates > 0
        /\ linked' = IF late THEN [linked EXCEPT !.lates = @ - 1] ELSE linked
        /\ atBase' = IF late THEN atBase ELSE Without(atBase, n)
        /\ calls' = Replied(pending[n], n, FALSE, "none", 0)
        /\ pending' = Without(pending, n)
    /\ UNCHANGED <<mail, asked, tasks, loading, link, resets, envUp, trouble, guardianVars>>

\* The body of a detached request ends, with a result or with an error, and its
\* process sends the reply.
Detached ==
    /\ \E n \in tasks : /\ tasks' = tasks \ {n}
                        /\ asked' = Without(asked, n)
    /\ UNCHANGED <<linked, mail, link, pending, calls, atBase, loading, envUp, trouble,
                   guardianVars, resets>>

\* The plugin that the reload loads calls the link that waits for the reload.
PluginCalls ==
    /\ loading = "loads" /\ linked.loads
    /\ loading' = "calls"
    /\ Calls("plugin", "status")
    /\ UNCHANGED <<linked, link, pending, atBase, asked, tasks, envUp, trouble,
                   guardianVars, resets>>

PluginGoesOn ==
    /\ loading = "calls" /\ calls["plugin"].is = "got"
    /\ loading' = "called"
    /\ calls' = [calls EXCEPT !["plugin"] = Idle]
    /\ UNCHANGED <<linked, mail, link, pending, atBase, asked, tasks, envUp, trouble,
                   guardianVars, resets>>

\* The reload ends: the link sends the reply and goes on with its mailbox.  An
\* exit of the loader is the link's too.
ReloadEnds ==
    /\ link = "reload"
    /\ loading = "called" \/ (loading = "loads" /\ ~linked.loads)
    /\ loading' = "no"
    /\ link' = IF linked.broken THEN "crashed" ELSE "up"
    /\ asked' = IF linked.broken THEN asked
                ELSE [n \in {k \in DOMAIN asked : asked[k] # "reload"} |-> asked[n]]
    /\ UNCHANGED <<linked, mail, pending, calls, atBase, tasks, envUp, trouble,
                   guardianVars, resets>>

-----------------------------------------------------------------------------
(***************************************************************************)
(* The guardian.                                                           *)
(***************************************************************************)
PassBegins ==
    /\ pass = << >> /\ calls["guardian"].is = "idle" /\ link \in {"up", "reload"}
    /\ linked.passes # 0
    /\ linked' = IF linked.passes > 0 THEN [linked EXCEPT !.passes = @ - 1] ELSE linked
    /\ pass' = linked.core
    /\ failed' = {}
    /\ UNCHANGED <<mail, link, pending, calls, atBase, asked, tasks, loading, envUp,
                   trouble, status, seen, strikes, blamed, resets>>

\* The probe's frame.
Method(probe) ==
    CASE probe = "base" -> "status" [] probe = "env" -> "health" [] probe = "tree" -> "tree"
      [] probe = "violations" -> "log.query" [] OTHER -> "svc"

\* responsive: a ping is only owed when the row says the worker, or the harness, is
\* ready; budgets asks nobody.
Owed(probe) ==
    /\ probe = "worker" => status \in {"up", "halted"}
    /\ probe = "harness" => status = "up"
    /\ probe \notin {"budgets", "extra", "reset"}

\* What the cached row fails by itself.
RowFails(probe) ==
    \/ probe \in {"worker", "harness"} /\ status = "failed"
    \/ probe = "budgets" /\ status = "halted"

ProbeAsks ==
    /\ pass # << >> /\ Owed(Head(pass))
    /\ Calls("guardian", Method(Head(pass)))
    /\ UNCHANGED <<linked, link, pending, atBase, asked, tasks, loading, envUp, trouble,
                   guardianVars, resets>>

Failing(probe, got) ==
    CASE probe = "base" -> ~got.ok
      [] probe = "violations" -> ~got.ok \/ got.value > seen
      [] OTHER -> ~got.ok \/ got.value # 1

\* violations: the newest row seen, whether or not it is one of a violation.
Advanced(probe, got) ==
    IF probe = "violations" /\ got.ok /\ got.value > seen THEN got.value ELSE seen

\* score: a pass without a failure starts the count again, and so does a reset.
Scored(fails) == IF fails = {} \/ strikes + 1 >= failures THEN 0 ELSE strikes + 1

Resets(fails) == fails # {} /\ strikes + 1 >= failures

\* A probe is over; after the last one the pass is scored, and a reset is the
\* guardian's next call.
Over(probe, fails, cached, place) ==
    LET last == Tail(pass) = << >>
    IN  /\ failed' = fails
        /\ status' = cached
        /\ seen' = place
        /\ pass' = IF last THEN IF Resets(fails) THEN <<"reset">> ELSE << >> ELSE Tail(pass)
        /\ strikes' = IF last THEN Scored(fails) ELSE strikes
        /\ blamed' = IF last /\ fails = {"violations"}
                     THEN blamed + 1 ELSE blamed

ProbeEnds ==
    /\ pass # << >> /\ Head(pass) # "reset" /\ calls["guardian"].is = "got"
    /\ LET probe == Head(pass)
           got == calls["guardian"]
           bad == Failing(probe, got)
       IN  \E row \in IF probe # "base" THEN {status} ELSE IF got.ok THEN RowStates ELSE {"none"} :
               Over(probe, IF ~bad THEN failed ELSE failed \cup {IF got.ok THEN probe ELSE "call"},
                    row, Advanced(probe, got))
    /\ calls' = [calls EXCEPT !["guardian"] = Idle]
    /\ UNCHANGED <<linked, mail, link, pending, atBase, asked, tasks, loading, envUp, trouble,
                   resets>>

\* A probe that makes no call: the row decides, or an executable that base
\* approved, which fails, passes or is killed.
ProbeAlone ==
    /\ pass # << >> /\ Head(pass) # "reset" /\ ~Owed(Head(pass))
    /\ \E bad \in IF Head(pass) = "extra" THEN BOOLEAN ELSE {RowFails(Head(pass))} :
         Over(Head(pass), IF bad THEN failed \cup {Head(pass)} ELSE failed, status, seen)
    /\ UNCHANGED <<linked, mail, link, pending, calls, atBase, asked, tasks, loading, envUp,
                   trouble, resets>>

\* reset: one more call; whatever comes of it the count starts again.
ResetAsks ==
    /\ pass = <<"reset">>
    /\ Calls("guardian", "reset")
    /\ UNCHANGED <<linked, link, pending, atBase, asked, tasks, loading, envUp, trouble,
                   guardianVars, resets>>

ResetEnds ==
    /\ pass = <<"reset">> /\ calls["guardian"].is = "got"
    /\ pass' = << >>
    /\ calls' = [calls EXCEPT !["guardian"] = Idle]
    /\ UNCHANGED <<linked, mail, link, pending, atBase, asked, tasks, loading, envUp, trouble,
                   failed, status, seen, strikes, blamed, resets>>

Guardian ==
    PassBegins \/ ProbeAsks \/ ProbeEnds \/ ProbeAlone \/ ResetAsks \/ ResetEnds

LinkNext ==
    \/ BaseAnswers \/ BaseAsks \/ BaseCloses \/ EnvTurns \/ CallExits
    \/ Serve \/ Expire \/ Detached \/ PluginCalls \/ PluginGoesOn \/ ReloadEnds
    \/ Guardian

LinkSpec == LinkInit /\ [][LinkNext]_linkVars

LinkFairness ==
    /\ WF_linkVars(focus = "link" /\ Serve)
    /\ WF_linkVars(focus = "link" /\ Expire)
    /\ WF_linkVars(focus = "link" /\ CallExits)
    /\ WF_linkVars(focus = "link" /\ Detached) /\ WF_linkVars(focus = "link" /\ Guardian)
    /\ WF_linkVars(focus = "link" /\ (PluginCalls \/ PluginGoesOn \/ ReloadEnds))

-----------------------------------------------------------------------------
(***************************************************************************)
(* A caller that gets a result gets that of the request it waits for, not  *)
(* of an earlier one that it gave up and that base answers late, nor of    *)
(* the other caller's.                                                     *)
(***************************************************************************)
CallersGetTheirs ==
    \A c \in Caller : (calls[c].is = "got" /\ calls[c].ok) => calls[c].of = calls[c].method

(***************************************************************************)
(* A violation in the log fails one pass, the one that comes upon it: an   *)
(* env is not reset for one violation seen again and again.                *)
(***************************************************************************)
ViolationFailsOnce == blamed <= trouble

(***************************************************************************)
(* Both: no result and no failure is taken for another's.                  *)
(***************************************************************************)
LinkIsSound == CallersGetTheirs /\ ViolationFailsOnce

(***************************************************************************)
(* Every call of the link ends, also the one of a plugin that is loaded by *)
(* a reload the link itself is waiting for.                                *)
(***************************************************************************)
LinkCallsEnd == \A c \in Caller : []<>(calls[c].is # "waits")

(***************************************************************************)
(* What base asks a node is answered while the link lives, a request       *)
(* behind a reload too.                                                    *)
(***************************************************************************)
BaseIsAnswered ==
    <>[](asked = << >> \/ link \in {"halted", "crashed"})

(***************************************************************************)
(* An env that is down for good is reset: base is asked, whether it        *)
(* answers the probes or leaves them to time out.                          *)
(***************************************************************************)
SickIsReset ==
    <>[](~envUp /\ linked.passes = -1 => resets > 0 \/ link \in {"halted", "crashed"})
=============================================================================
