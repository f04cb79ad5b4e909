----------------------------- MODULE KernelWire -----------------------------
(***************************************************************************)
(* The fiber of an external plugin (kernel/src/tenon.erl) and the plugin   *)
(* at the other end of its port (sdk/rs/src/lib.rs).  The fiber handles    *)
(* one message of its mailbox at a time and never waits for the plugin:    *)
(* a request is parked under its number with a timer.  The plugin serves   *)
(* one frame at a time too, but while a handler waits for an answer it     *)
(* goes on reading, so handlers nest.                                      *)
(*                                                                         *)
(* The operators named after the functions of tenon.erl take and return    *)
(* the fiber's state.  A request is named after the caller it is for.      *)
(* The unload frame, the grace period and the kill are one step: nothing   *)
(* but the exit is received meanwhile.                                     *)
(***************************************************************************)
EXTENDS Naturals, Sequences, SequencesExt, Functions, Focus

CONSTANTS
  WireCaller,     \* processes that call the plugin's hook
  Worker,         \* the process a `call` of the plugin itself is run in
  WireWorlds      \* how often: [calls, nested, restart, flips, deaths, status, unmount, offs], and
                  \* is the plugin slow, how many frames does its pipe hold, and may frames
                  \* be over the cap and the plugin not start (bad)?

Callers == WireCaller \cup {Worker}
Req == Callers \cup {"hello", "load"}
WireBound ==
  {"calls", "nested", "restart", "flips", "deaths", "status", "unmount", "offs", "slow", "bad", "pipe"}

ASSUME WireAssumption ==
  {"hello", "load", "none"} \cap Callers = {} /\ WireWorlds \subseteq [WireBound -> Nat]

VARIABLES
  fib,      \* the fiber: [status, phase, epoch, port, spawned, pending, armed, rows, waiters, out, ans]
  mail,     \* its mailbox
  live,     \* the plugin processes that run, by number
  plug,     \* the plugin behind fib.port: [hello, hooks, stack, replies]
  caller,   \* what each caller is doing
  dep,      \* the provider of the injected service, 0 if there is none
  wleft     \* how often each thing may still happen

wireVars == <<fib, mail, live, plug, caller, dep, wleft>>

FreshPlug == [hello |-> FALSE, hooks |-> TRUE, stack |-> <<>>, replies |-> << >>]
Nothing == [t |-> "none"]
Unparked == [r \in Req |-> "none"]

\* A message of the mailbox about a request, one that is about none, a frame of the plugin
\* and a frame for it; what a frame carries is named after the request too.
Letter(m, r) == [m |-> m, r |-> r, p |-> 0, t |-> "none", ok |-> TRUE, v |-> r]
Plain(m) == Letter(m, "none")
From(port, t, r, ok, v) == [m |-> "frame", r |-> r, p |-> port, t |-> t, ok |-> ok, v |-> v]
Frame(t, r) == [t |-> t, r |-> r, v |-> r]

Mail(m) == mail' = Append(mail, m)
Uses(what) == wleft[what] > 0 /\ wleft' = [wleft EXCEPT ![what] = @ - 1]
Without(fn, r) == Restrict(fn, DOMAIN fn \ {r})
Put(fn, r, x) == [k \in DOMAIN fn \cup {r} |-> IF k = r THEN x ELSE fn[k]]

---------------------------------------------------------------------------
(* The fiber's state, function by function.                                *)

compute_epoch == dep
inactive == 0

arm(S, r, entry) ==
  [S EXCEPT !.pending[r] = entry, !.armed = @ \cup {r}]

\* The frame goes out, unless it is over the cap.
send_frame(S, frame) == [S EXCEPT !.out = Append(@, frame)]

\* notify_waiters(): who waits in status() is told once the fiber has settled.
settle(S) ==
  IF S.phase = "ready" /\ S.waiters = "waiting" THEN [S EXCEPT !.waiters = "told"] ELSE S
fail(S) == [S EXCEPT !.status = "failed"]
fail_external(S) == fail([S EXCEPT !.epoch = compute_epoch])

\* open_plugin(): the process, unless it cannot be spawned.
open_plugin(S, bad) ==
  IF bad THEN settle(fail_external([S EXCEPT !.phase = "ready"]))
  ELSE arm([S EXCEPT !.port = S.spawned + 1, !.spawned = @ + 1, !.out = <<>>], "hello", "load")

wire_load(S, bad) ==
  IF bad THEN settle(fail([S EXCEPT !.phase = "ready"]))
  ELSE arm(send_frame([S EXCEPT !.phase = "loading"], Frame("load", "load")), "load", "load")

do_load(S, bad) ==
  LET loading == [S EXCEPT !.status = "loading"]
  IN IF S.port # 0 THEN wire_load(loading, bad)
     ELSE open_plugin([loading EXCEPT !.phase = "hello"], bad)

cancel_all(S) ==
  [S EXCEPT !.pending = Unparked, !.armed = {},
            !.ans = [c \in Callers |->
                       IF S.pending[c] # "none" THEN [t |-> "plugin_gone"] ELSE S.ans[c]]]

close_port(S) == IF S.port = 0 THEN S ELSE cancel_all([S EXCEPT !.port = 0, !.out = <<>>])

do_unload(S) == close_port([S EXCEPT !.rows = FALSE, !.status = "unloading"])

refresh(S, bad) ==
  CASE S.phase # "ready" \/ compute_epoch = S.epoch -> S
    [] S.phase = "ready" /\ S.epoch = inactive /\ compute_epoch # inactive ->
         do_load([S EXCEPT !.epoch = compute_epoch], bad)
    [] S.phase = "ready" /\ S.epoch # inactive /\ compute_epoch = inactive ->
         [do_unload(S) EXCEPT !.epoch = inactive, !.status = "pending"]
    [] OTHER -> do_load([do_unload(S) EXCEPT !.epoch = compute_epoch], bad)

reload(S, bad) ==
  settle(refresh([do_unload(S) EXCEPT !.epoch = inactive, !.phase = "ready", !.status = "pending"], bad))

port_gone(S) == settle(fail_external([do_unload(close_port(S)) EXCEPT !.phase = "ready"]))

expire(S, r) ==
  CASE S.pending[r] = "none" -> S
    [] S.pending[r] = "load" ->
         settle(fail_external([close_port([S EXCEPT !.pending[r] = "none"]) EXCEPT !.phase = "ready"]))
    [] OTHER -> [S EXCEPT !.pending[r] = "none", !.armed = @ \ {r}, !.ans[r] = [t |-> "timeout"]]

take_pending(S, r) == [S EXCEPT !.pending[r] = "none", !.armed = @ \ {r}]
answer(S, r, a) == [take_pending(S, r) EXCEPT !.ans[r] = a]

park(S, c, frame, bad) ==
  CASE S.port = 0 -> [S EXCEPT !.ans[c] = [t |-> "no_plugin"]]
    [] S.port # 0 /\ bad -> [S EXCEPT !.ans[c] = [t |-> "frame_too_large"]]
    [] OTHER -> arm(send_frame(S, frame), c, "call")

reply_frame(S, fr) ==
  CASE S.pending[fr.r] = "none" -> S
    [] S.pending[fr.r] = "load" ->
         settle(IF fr.ok THEN [take_pending(S, fr.r) EXCEPT !.phase = "ready", !.status = "active"]
                ELSE fail([take_pending(S, fr.r) EXCEPT !.phase = "ready"]))
    [] OTHER -> answer(S, fr.r, IF fr.ok THEN [t |-> "rep", v |-> fr.v] ELSE [t |-> "error"])

\* What needs the plugin may fail, in a world where such things happen.
Bad == IF wleft.bad > 0 THEN BOOLEAN ELSE {FALSE}

NewFiber ==
  [status |-> "pending", phase |-> "hello", epoch |-> inactive, port |-> 0, spawned |-> 0,
   pending |-> Unparked, armed |-> {}, rows |-> FALSE, waiters |-> "none", out |-> <<>>,
   ans |-> [c \in Callers |-> Nothing]]

WireInit ==
  /\ dep = 1 /\ wleft \in WireWorlds
  /\ \E bad \in Bad : fib = open_plugin(NewFiber, bad)
  /\ mail = <<>> /\ live = {fib.port} \ {0} /\ plug = FreshPlug
  /\ caller = [c \in Callers |-> "idle"]

---------------------------------------------------------------------------
(* The fiber handles the first message of its mailbox.  S is its new       *)
(* state: a port it closed is a process killed, a port it opened one more  *)
(* process.                                                                *)

Becomes(S) ==
  /\ fib' = S
  /\ live' = (live \ (IF S.port # fib.port THEN {fib.port} ELSE {}))
             \cup (IF S.spawned # fib.spawned THEN {S.spawned} ELSE {})
  /\ plug' = IF S.port # fib.port THEN FreshPlug ELSE plug

First(m) == mail # <<>> /\ Head(mail).m = m /\ mail' = Tail(mail) /\ fib.status # "disposed"

\* Its pipe is full and the plugin does not read: the fiber that sends it a frame, an
\* unload among them, is suspended (port_command/2), and handles nothing meanwhile.
Blocked == fib.port \in live /\ Len(fib.out) >= wleft.pipe
Speaks(S) == (Blocked => S.port = fib.port /\ S.out = fib.out) /\ Becomes(S)

HandleCall ==
  /\ First("hook_call") /\ \E bad \in Bad :
       Speaks(park(fib, Head(mail).r, Frame("hook", Head(mail).r), bad))
  /\ UNCHANGED <<caller, dep, wleft>>

HandleResult ==
  /\ First("hook_result") /\ \E bad \in Bad :
       Speaks(park(fib, Head(mail).r, Frame("result", Head(mail).r), bad))
  /\ UNCHANGED <<caller, dep, wleft>>

HandleStatus ==
  /\ First("status")
  /\ \E bad \in Bad : Speaks(settle([refresh(fib, bad) EXCEPT !.waiters = "waiting"]))
  /\ UNCHANGED <<caller, dep, wleft>>

HandleRefresh ==
  /\ First("refresh") /\ \E bad \in Bad : Speaks(settle(refresh(fib, bad)))
  /\ UNCHANGED <<caller, dep, wleft>>

HandleRestart ==
  /\ First("restart") /\ \E bad \in Bad : Speaks(reload(fib, bad))
  /\ UNCHANGED <<caller, dep, wleft>>

HandleDeadline ==
  /\ First("deadline") /\ Becomes(expire(fib, Head(mail).r))
  /\ UNCHANGED <<caller, dep, wleft>>

\* A message of a port that is not the fiber's any more is dropped.
HandleExit ==
  /\ First("exit") /\ Becomes(IF Head(mail).p = fib.port THEN port_gone(fib) ELSE fib)
  /\ UNCHANGED <<caller, dep, wleft>>

\* The answer of the worker goes to whatever plugin is there now.
HandleWorkerReply ==
  /\ First("worker_reply")
  /\ Speaks(IF fib.port = 0 THEN fib ELSE send_frame(fib, Frame("rep", Worker)))
  /\ UNCHANGED <<caller, dep, wleft>>

\* Who is in the mailbox of a process that stops gets its exit.
HandleUnmount ==
  /\ First("unmount")
  /\ LET S == do_unload(fib)
         in == {c \in Callers : \E i \in DOMAIN mail : mail[i].m \in {"hook_call", "hook_result"} /\ mail[i].r = c}
     IN Speaks([S EXCEPT !.status = "disposed", !.phase = "ready",
                         !.waiters = IF @ = "waiting" \/ \E i \in DOMAIN mail : mail[i].m = "status"
                                     THEN "told" ELSE @,
                         !.ans = [c \in Callers |-> IF c \in in THEN [t |-> "exit"] ELSE S.ans[c]]])
  /\ UNCHANGED <<caller, dep, wleft>>

resume_load(S, bad) == IF S.status = "loading" THEN wire_load(S, bad) ELSE refresh(S, bad)

hello(S, bad) ==
  settle(resume_load([take_pending(S, "hello") EXCEPT !.phase = "ready"], bad))

\* handle_frame() of what the plugin sends; a `call` is run by a process of its own.
HandleFrame ==
  /\ First("frame")
  /\ LET fr == Head(mail) IN
     \E bad \in Bad :
       IF fr.p # fib.port THEN Becomes(fib) /\ UNCHANGED caller
       ELSE CASE fr.t = "hello" -> Speaks(hello(fib, bad)) /\ UNCHANGED caller
              [] fr.t = "on" -> Becomes([fib EXCEPT !.rows = TRUE]) /\ UNCHANGED caller
              [] fr.t = "off" -> Becomes([fib EXCEPT !.rows = FALSE]) /\ UNCHANGED caller
              [] fr.t = "next" ->
                   /\ Becomes(IF fib.pending[fr.r] # "none" THEN answer(fib, fr.r, [t |-> "next"]) ELSE fib)
                   /\ UNCHANGED caller
              [] fr.t = "call" -> Becomes(fib) /\ caller' = [caller EXCEPT ![Worker] = "found"]
              [] fr.t = "rep" -> Becomes(reply_frame(fib, fr)) /\ UNCHANGED caller
  /\ UNCHANGED <<dep, wleft>>

\* In a world where the plugin answers in time no timer fires.
TimerFires(r) ==
  /\ r \in fib.armed /\ wleft.slow > 0 /\ fib' = [fib EXCEPT !.armed = @ \ {r}] /\ Mail(Letter("deadline", r))
  /\ UNCHANGED <<live, plug, caller, dep, wleft>>

---------------------------------------------------------------------------
(* Around the fiber.                                                       *)

\* The hooks of an event are looked up first and called one by one later.
CallerFinds(c) ==
  /\ caller[c] = "idle" /\ fib.rows /\ Uses("calls") /\ caller' = [caller EXCEPT ![c] = "found"]
  /\ UNCHANGED <<fib, mail, live, plug, dep>>

\* wire_waterfall()
CallerSends(c) ==
  /\ caller[c] = "found"
  /\ IF fib.status = "disposed"
     THEN caller' = [caller EXCEPT ![c] = "done"] /\ fib' = [fib EXCEPT !.ans[c] = [t |-> "exit"]]
          /\ UNCHANGED mail
     ELSE caller' = [caller EXCEPT ![c] = "sent"] /\ fib' = fib /\ Mail(Letter("hook_call", c))
  /\ UNCHANGED <<live, plug, dep, wleft>>

\* {next, Args, true, Req}: the caller runs the rest of the chain itself, then comes back.
CallerGoesOn(c) ==
  /\ caller[c] = "sent" /\ fib.ans[c].t = "next"
  /\ caller' = [caller EXCEPT ![c] = "chain"] /\ fib' = [fib EXCEPT !.ans[c] = Nothing]
  /\ UNCHANGED <<mail, live, plug, dep, wleft>>

ChainReturns(c) ==
  /\ caller[c] = "chain"
  /\ IF fib.status = "disposed"
     THEN caller' = [caller EXCEPT ![c] = "done"] /\ fib' = [fib EXCEPT !.ans[c] = [t |-> "exit"]]
          /\ UNCHANGED mail
     ELSE caller' = [caller EXCEPT ![c] = "back"] /\ fib' = fib /\ Mail(Letter("hook_result", c))
  /\ UNCHANGED <<live, plug, dep, wleft>>

\* The rest of the chain raises in the caller, and no result ever reaches the plugin.
ChainRaises(c) ==
  /\ caller[c] = "chain" /\ wleft.slow > 0
  /\ caller' = [caller EXCEPT ![c] = "done"] /\ fib' = [fib EXCEPT !.ans[c] = [t |-> "exit"]]
  /\ IF c = Worker THEN Mail(Plain("worker_reply")) ELSE UNCHANGED mail
  /\ UNCHANGED <<live, plug, dep, wleft>>

\* The call of the plugin itself is answered with a cast to the fiber.
CallerReturns(c) ==
  /\ caller[c] \in {"sent", "back"} /\ fib.ans[c].t \notin {"none", "next"}
  /\ caller' = [caller EXCEPT ![c] = "done"]
  /\ IF c = Worker THEN Mail(Plain("worker_reply")) ELSE UNCHANGED mail
  /\ UNCHANGED <<fib, live, plug, dep, wleft>>

Flip ==
  /\ Uses("flips") /\ dep' = IF dep = 0 THEN 3 - wleft.flips ELSE 0
  /\ IF fib.status = "disposed" THEN UNCHANGED mail ELSE Mail(Plain("refresh"))
  /\ UNCHANGED <<fib, live, plug, caller>>

Ask(m) ==
  /\ fib.status # "disposed" /\ Uses(m) /\ Mail(Plain(m))
  /\ UNCHANGED <<fib, live, plug, caller, dep>>

---------------------------------------------------------------------------
(* The plugin (sdk/rs/src/lib.rs).                                         *)

Up == fib.port \in live
Sends(t, r, ok, v) == Mail(From(fib.port, t, r, ok, v))
Tells(t) == Sends(t, "none", TRUE, "none")
Top == plug.stack[Len(plug.stack)]
Running == Up /\ plug.stack # <<>> /\ Top.waits = "no"
Pop == SubSeq(plug.stack, 1, Len(plug.stack) - 1)
Handler(r) == [r |-> r, waits |-> "no", got |-> r, nexts |-> FALSE]

Hello ==
  /\ Up /\ ~plug.hello /\ plug' = [plug EXCEPT !.hello = TRUE] /\ Tells("hello")
  /\ UNCHANGED <<fib, live, caller, dep, wleft>>

\* Any reply will do.
AnySlot(h) == IF plug.replies = << >> THEN <<"result", h.r>> ELSE CHOOSE k \in DOMAIN plug.replies : TRUE

\* The reply a handler waits for is the one of its own slot.
Slot(h) == <<h.waits, IF h.waits = "result" THEN h.r ELSE Worker>>

settles(h) == h.waits # "no" /\ Slot(h) \in DOMAIN plug.replies

\* on_hook(): a hook that was taken back meanwhile is an error to its caller.
Hooked(fr) == fr.t = "hook" /\ plug.hooks
Unhooked(fr) == fr.t = "hook" /\ ~plug.hooks

\* A handler that waits serves nobody else.
DispatchFlat ==
  /\ Up /\ plug.hello /\ fib.out # <<>>
  /\ plug.stack # <<>> => (Top.waits # "no" /\ ~settles(Top) /\ Head(fib.out).t \in {"result", "rep"})
  /\ LET fr == Head(fib.out) IN
     /\ fib' = [fib EXCEPT !.out = Tail(@)]
     /\ plug' = CASE fr.t = "load" \/ Hooked(fr) -> [plug EXCEPT !.stack = Append(@, Handler(fr.r))]
                  [] Unhooked(fr) -> plug
                  [] OTHER -> [plug EXCEPT !.replies = Put(@, <<fr.t, fr.r>>, fr.v)]
     /\ CASE fr.t = "load" -> Tells("on")
          [] Unhooked(fr) -> Sends("rep", fr.r, FALSE, fr.r)
          [] OTHER -> UNCHANGED mail
  /\ UNCHANGED <<live, caller, dep, wleft>>

\* dispatch(), from run() or from a handler's settle(); what was registered before
\* the load is sent with it.
Dispatch ==
  /\ Up /\ plug.hello /\ fib.out # <<>>
  /\ plug.stack # <<>> => (Top.waits # "no" /\ ~settles(Top))
  /\ LET fr == Head(fib.out) IN
     /\ fib' = [fib EXCEPT !.out = Tail(@)]
     /\ plug' = CASE fr.t = "load" \/ Hooked(fr) -> [plug EXCEPT !.stack = Append(@, Handler(fr.r))]
                  [] Unhooked(fr) -> plug
                  [] OTHER -> [plug EXCEPT !.replies = Put(@, <<fr.t, fr.r>>, fr.v)]
     /\ CASE fr.t = "load" -> Tells("on")
          [] Unhooked(fr) -> Sends("rep", fr.r, FALSE, fr.r)
          [] OTHER -> UNCHANGED mail
  /\ UNCHANGED <<live, caller, dep, wleft>>

\* guard(): the handler's outcome is the answer to its request.
Answer ==
  /\ Running /\ \E ok \in BOOLEAN : Sends("rep", Top.r, ok, Top.got)
  /\ plug' = [plug EXCEPT !.stack = Pop]
  /\ UNCHANGED <<fib, live, caller, dep, wleft>>

Waits(s) == plug' = [plug EXCEPT !.stack[Len(plug.stack)].waits = s]

\* Next::call() of a hook, once.
NextCall ==
  /\ Running /\ Top.r # "load" /\ ~Top.nexts
  /\ plug' = [plug EXCEPT !.stack[Len(plug.stack)] = [@ EXCEPT !.waits = "result", !.nexts = TRUE]]
  /\ Sends("next", Top.r, TRUE, Top.r)
  /\ UNCHANGED <<fib, live, caller, dep, wleft>>

\* Next::waterfall(): the plugin calls an event it hooks itself.
CallOut ==
  /\ Running /\ Top.r # "load" /\ fib.rows /\ caller[Worker] = "idle" /\ Uses("nested")
  /\ Waits("rep") /\ Tells("call")
  /\ UNCHANGED <<fib, live, caller, dep>>

\* off(): the plugin forgets the hook at once, the kernel when it reads the frame.
Off ==
  /\ Running /\ plug.hooks /\ Uses("offs")
  /\ plug' = [plug EXCEPT !.hooks = FALSE] /\ Tells("off")
  /\ UNCHANGED <<fib, live, caller, dep>>

Settle ==
  /\ Up /\ plug.stack # <<>> /\ settles(Top)
  /\ LET s == Slot(Top) IN
     plug' = [plug EXCEPT !.replies = Without(@, s),
                          !.stack[Len(plug.stack)] =
                             [Top EXCEPT !.waits = "no",
                                         !.got = IF Top.waits = "result" THEN plug.replies[s] ELSE @]]
  /\ UNCHANGED <<fib, mail, live, caller, dep, wleft>>

Dies ==
  /\ Up /\ Uses("deaths") /\ live' = live \ {fib.port} /\ Mail([Plain("exit") EXCEPT !.p = fib.port])
  /\ plug' = [plug EXCEPT !.stack = <<>>]
  /\ UNCHANGED <<fib, caller, dep>>

---------------------------------------------------------------------------
FiberStep ==
  \/ HandleCall \/ HandleResult \/ HandleStatus \/ HandleRefresh \/ HandleRestart \/ HandleDeadline
  \/ HandleExit \/ HandleWorkerReply \/ HandleUnmount \/ HandleFrame
CallerStep(c) == CallerSends(c) \/ CallerGoesOn(c) \/ ChainReturns(c) \/ ChainRaises(c) \/ CallerReturns(c)
PluginStep == Hello \/ Dispatch \/ Answer \/ NextCall \/ CallOut \/ Off \/ Settle \/ Dies

WireNext ==
  \/ FiberStep \/ PluginStep \/ Flip
  \/ \E r \in fib.armed : TimerFires(r)
  \/ \E c \in WireCaller : CallerFinds(c)
  \/ \E c \in Callers : CallerStep(c)
  \/ \E m \in {"status", "restart", "unmount"} : Ask(m)

\* The fiber and the callers are scheduled and timers fire; a slow plugin owes nothing.
WireFairness ==
  /\ WF_wireVars(focus = "wire" /\ FiberStep)
  /\ \A r \in Req : WF_wireVars(focus = "wire" /\ TimerFires(r))
  /\ \A c \in Callers : WF_wireVars(focus = "wire" /\ CallerStep(c))
  /\ WF_wireVars(focus = "wire" /\ wleft.slow = 0 /\ (Hello \/ Dispatch \/ Answer \/ Settle))

WireSpec == WireInit /\ [][WireNext]_wireVars

---------------------------------------------------------------------------
(* Properties                                                              *)

\* A caller whose handler waited for the rest of the chain gets the result of its own
\* chain, however many handlers were nested on the plugin's stack meanwhile.
AnswersAreOwn == \A c \in Callers : fib.ans[c].t = "rep" => fib.ans[c].v = c

\* Nobody waits for an answer that nobody will give: a caller that waits is in the mailbox,
\* or parked under a timer that runs or has just fired; without a plugin nothing is parked.
InMail(m, k) == \E i \in DOMAIN mail : mail[i].m = m /\ mail[i].r = k
NobodyForgotten ==
  /\ \A c \in Callers :
       (caller[c] \in {"sent", "back"} /\ fib.ans[c] = Nothing) =>
         \/ InMail("hook_call", c) \/ InMail("hook_result", c)
         \/ fib.pending[c] # "none" /\ (c \in fib.armed \/ InMail("deadline", c))
  /\ fib.port = 0 => fib.pending = Unparked

\* The plugin processes that run are the one behind the port: whatever ended the last
\* one (a lost dependency, a restart, a deadline, its exit), none is left behind.
NoStrayPlugin == live \subseteq {fib.port}

\* All three: nobody gets another's answer, nobody is forgotten, nothing runs on.
WireIsSound == AnswersAreOwn /\ NobodyForgotten /\ NoStrayPlugin

\* Every call of a hook of the plugin returns, unless the plugin stops reading with
\* its pipe full: no deadline reaches a fiber that is suspended in a send.
WireCallsEnd == <>[](\A c \in Callers : caller[c] \in {"idle", "done"}) \/ <>[]Blocked

\* status() is the settle point: it returns, with the same exception.
StatusReturns == <>[](fib.waiters # "waiting") \/ <>[]Blocked

=============================================================================
