------------------------------- MODULE Kernel -------------------------------
(***************************************************************************)
(* The Tenon microkernel of kernel/src/tenon.erl for in-VM plugins: one    *)
(* kernel gen_server, one gen_server per fiber, and the ETS tables they    *)
(* share.  A process that is inside a callback is a list of instructions   *)
(* still to run (prog); a gen_server:call is an instruction that posts a   *)
(* message and leaves an "await" at the head of the list until the callee  *)
(* answers or dies.  The kernel handles one message per step and never     *)
(* waits for a fiber.                                                      *)
(*                                                                         *)
(* Abstractions: a service implementation, a hook function and a plugin    *)
(* config are opaque; the internal/... events run user hooks and change no *)
(* kernel state; an inject list is a set and one epoch is read in one      *)
(* step; make_ref() references are the registered thing itself.            *)
(***************************************************************************)
EXTENDS Naturals, Sequences, FiniteSets, SequencesExt

CONSTANTS
    Fiber,      \* pids of fibers; a pid is used at most once
    Root,       \* the fiber the kernel starts in its own init/1
    Client,     \* processes that are no fibers and call the API
    Name,       \* service names
    Event,      \* hook events
    NoOne,      \* no process
    inactive,   \* the epoch of a fiber that is not loaded
    Inject,     \* Inject[f]: what f's module returns from inject/0
    Script,     \* Script[f]: the registrations f's load/2 makes, in order
    Kids,       \* Kids[f]: pids for the children that load/2 of f mounts
    Hosts,      \* fibers under which clients mount
    TopLevel,   \* pids for the fibers that clients mount
    Flaky,      \* fibers whose load/2 may return {error, _}
    Returns,    \* fibers whose load/2 returns {ok, Disposer}
    Killable,   \* fibers that some process may exit(Fiber, kill)
    CutRetract, \* may a kill fall between deleting a service and telling the kernel?
    Foreign,    \* names that a client may provide on behalf of a fiber
    MaxOps      \* bound on the number of client requests and kills

VARIABLES
    alive,      \* fiber processes that run
    born,       \* pids that have been used
    row,        \* ETS fibers: the pids that have a row
    parent,     \* the parent column of that row
    status,     \* status of a fiber, mirrored in its row
    epoch,      \* inject epoch: provider per name, or "inactive"
    services,   \* ETS services: owner per name
    hooks,      \* ETS hooks: <<event, owner>>
    deps,       \* ETS deps: <<name, fiber>>
    ds,         \* disposer stack of each fiber, newest first
    eff,        \* tenon_effect and tenon_drop messages of a fiber to itself, newest first
    box,        \* mailbox of each fiber, apart from those
    kbox,       \* mailbox of the kernel
    prog,       \* what a process still has to run in its callback
    ops         \* client requests and kills so far

tabs == <<row, parent, services, hooks, deps>>
fvars == <<status, epoch, ds, eff>>
vars == <<alive, born, tabs, fvars, box, kbox, prog, ops>>

Proc == Fiber \cup Client

(***************************************************************************)
(* Instructions, messages and disposers.                                   *)
(***************************************************************************)
Svc(n) == [k |-> "svc", name |-> n]
Hook(e) == [k |-> "hook", event |-> e]
Child(g) == [k |-> "child", fiber |-> g]
Returned == [k |-> "load"]    \* what load/2 returned; it touches no table
Undo(d) == [k |-> "undo", d |-> d]

Disposer ==
    [k : {"svc"}, name : Name] \cup [k : {"hook"}, event : Event]
    \cup [k : {"child"}, fiber : Fiber] \cup [k : {"load"}]
Effect == Disposer \cup [k : {"undo"}, d : Disposer]
Epoch == (UNION {[S -> Fiber] : S \in SUBSET Name}) \cup {inactive}

I(o) == [op |-> o]
IMount(o) == [op |-> "mount", owner |-> o]
IProvide(n, o) == [op |-> "provide", name |-> n, owner |-> o]
IOn(e, o) == [op |-> "on", event |-> e, owner |-> o]
IAttach(o, d) == [op |-> "attach", owner |-> o, d |-> d]
INotify(ns) == [op |-> "notify", names |-> ns]
IStatus(f) == [op |-> "status", fiber |-> f]
IUnmount(f) == [op |-> "unmount", fiber |-> f]
IRestart(f) == [op |-> "restart", fiber |-> f]
IBegin(e) == [op |-> "begin", epoch |-> e]
IFinish(ok) == [op |-> "finish", ok |-> ok]
IDispose(d) == [op |-> "dispose", d |-> d]
IReply(p) == [op |-> "reply", to |-> p]
IDrop(f, d) == [op |-> "drop", fiber |-> f, d |-> d]
IAwait(f, i) == [op |-> "await", on |-> f, call |-> i]
ITeardown(p) == [op |-> "teardown", to |-> p]

\* The call itself stays with the await: how it fails depends on what it was.
BaseInstr ==
    [op : {"refresh", "kwait", "raise", "unload", "sweep", "drain", "pend"}]
    \cup [op : {"mount"}, owner : Fiber]
    \cup [op : {"provide"}, name : Name, owner : Fiber]
    \cup [op : {"on"}, event : Event, owner : Fiber]
    \cup [op : {"attach"}, owner : Fiber, d : Disposer]
    \cup [op : {"notify"}, names : SUBSET Name]
    \cup [op : {"status", "unmount", "restart"}, fiber : Fiber]
    \cup [op : {"drop"}, fiber : Fiber, d : Disposer]
    \cup [op : {"begin"}, epoch : Epoch]
    \cup [op : {"finish"}, ok : BOOLEAN]
    \cup [op : {"dispose"}, d : Disposer]
    \cup [op : {"reply", "teardown"}, to : Proc \cup {NoOne}]
Instr == BaseInstr \cup [op : {"await"}, on : Fiber, call : BaseInstr]

ASSUME KernelAssumption ==
    /\ Root \in Fiber
    /\ NoOne \notin Fiber
    /\ Client \cap Fiber = {}
    /\ Inject \in [Fiber -> SUBSET Name]
    /\ Kids \in [Fiber -> SUBSET Fiber]
    /\ Script \in [Fiber -> Seq(BaseInstr)]
    /\ \A f \in Fiber : \A i \in DOMAIN Script[f] :
          \/ Script[f][i].op \in {"mount", "provide", "on"} /\ Script[f][i].owner = f
          \/ Script[f][i].op = "drop" /\ Script[f][i].fiber = f
    /\ TopLevel \subseteq Fiber /\ Hosts \subseteq Fiber
    /\ Foreign \subseteq Name
    /\ CutRetract \in BOOLEAN
    /\ MaxOps \in Nat

MRefresh == [m |-> "refresh"]
MForget(g) == [m |-> "forget", fiber |-> g]
MEffect(d, p) == [m |-> "effect", d |-> d, from |-> p]
MDrop(d, p) == [m |-> "drop", d |-> d, from |-> p]
MCall(what, p) == [m |-> what, from |-> p]

Message ==
    [m : {"refresh"}] \cup [m : {"forget"}, fiber : Fiber]
    \cup [m : {"effect", "drop"}, d : Disposer, from : Proc]
    \cup [m : {"status", "unmount", "restart"}, from : Proc \cup {NoOne}]

KMount(g, o, p) == [m |-> "mount", fiber |-> g, owner |-> o, from |-> p]
KNotify(ns, p) == [m |-> "notify", names |-> ns, from |-> p]
KExit(f) == [m |-> "EXIT", fiber |-> f]
KMessage ==
    [m : {"mount"}, fiber : Fiber, owner : Fiber, from : Proc]
    \cup [m : {"notify"}, names : SUBSET Name, from : Proc]
    \cup [m : {"EXIT"}, fiber : Fiber]

(***************************************************************************)
(* Helpers.                                                                *)
(***************************************************************************)
\* A message to a process that is gone is dropped.
Post(b, f, m) == IF f \in alive THEN [b EXCEPT ![f] = Append(@, m)] ELSE b

\* gen_server:cast of refresh to a set of fibers.
CastRefresh(b, fs) ==
    [f \in Fiber |-> IF f \in fs \cap alive THEN Append(b[f], MRefresh) ELSE b[f]]

\* The caller p of a finished call goes on; a caller that is gone does not.
Resume(pr, p) ==
    IF p \in Proc /\ pr[p] # <<>> /\ Head(pr[p]).op \in {"await", "kwait"}
    THEN [pr EXCEPT ![p] = Tail(@)] ELSE pr

\* Mutant: a missing provider is not noticed.
ComputeUnchecked(f) == [n \in Inject[f] |-> services[n]]

\* compute_epoch/1 with collect/3.
Compute(f) ==
    IF \A n \in Inject[f] : services[n] # NoOne
    THEN [n \in Inject[f] |-> services[n]] ELSE inactive

\* Mutant: only the fibers that wait are told.
DependentsPending(ns) == {f \in Fiber : epoch[f] = inactive /\ \E n \in ns : <<n, f>> \in deps}

\* The fibers notify/2 casts to.
Dependents(ns) == {f \in Fiber : \E n \in ns : <<n, f>> \in deps}

\* Mutant: the sweep misses services.
OwnNamesNone(f) == {}

\* The rows that sweep/2 and sweep_own/1 delete by owner.
OwnNames(f) == {n \in Name : services[n] = f}
Without(ns) == [n \in Name |-> IF n \in ns THEN NoOne ELSE services[n]]
HooksWithout(f) == {h \in hooks : h[2] # f}
DepsWithout(f) == {d \in deps : d[2] # f}

\* forget/1 of a fiber that terminates.
Forget(b, f) == Post(b, parent[f], MForget(f))

\* Mutant: effects registered during a load are lost.
DrainedNone(f) == ds[f]

\* drain/1: selective receive of the effects a process sent to itself, the
\* last one on top of the stack.
Drained(f) == eff[f] \o ds[f]

\* A drop the process sent to itself is still to be run.
Undone(f) == {i \in DOMAIN eff[f] : eff[f][i].k = "undo"}

\* lists:keydelete/3 and keytake/3 by reference, which at most one entry has.
KeyDelete(s, d) ==
    IF Contains(s, d) THEN RemoveAt(s, CHOOSE i \in DOMAIN s : s[i] = d) ELSE s

\* An exception in a fiber unwinds to run_load/1, of which a callback holds at
\* most one; in a client it ends the call.
InLoad(p) == \E i \in DOMAIN prog[p] : prog[p][i].op = "finish"
HandlerAt(p) == CHOOSE i \in DOMAIN prog[p] : prog[p][i].op = "finish"
Unwind(p) ==
    IF InLoad(p)
    THEN <<IFinish(FALSE)>> \o SubSeq(prog[p], HandlerAt(p) + 1, Len(prog[p]))
    ELSE <<>>

\* do_load/1 of an in-VM plugin.
LoadProg(f, e) == <<IBegin(e)>> \o Script[f] \o <<IFinish(TRUE)>>

\* do_unload/1 as every caller of it starts it.
UnloadProg == <<I("unload")>>

-----------------------------------------------------------------------------
(***************************************************************************)
(* What a process p does next: one action per kind of instruction.         *)
(***************************************************************************)
At(p, o) == prog[p] # <<>> /\ Head(prog[p]).op = o
Cur(p) == Head(prog[p])
Go(p, is) == prog' = [prog EXCEPT ![p] = is \o Tail(@)]
Raise(p) == prog' = [prog EXCEPT ![p] = Unwind(p)]

\* A gen_server:call into fiber f, for instruction i of process p.
CallFiber(p, f, msg, i) ==
    /\ box' = Post(box, f, msg)
    /\ Go(p, <<IAwait(f, i)>>)

\* mount/2: ask the kernel for a child, then attach it, then wait until it
\* has settled.  Bound: past the pool of pids nothing is mounted.
DoMount(p) ==
    LET pool == (IF p \in Fiber THEN Kids[p] ELSE TopLevel) \ born
        o == Cur(p).owner
    IN  /\ At(p, "mount")
        /\ \/ \E g \in pool :
                /\ born' = born \cup {g}
                /\ kbox' = Append(kbox, KMount(g, o, p))
                /\ Go(p, <<I("kwait"), IAttach(o, Child(g)), IStatus(g)>>)
           \/ pool = {} /\ Go(p, <<>>) /\ UNCHANGED <<born, kbox>>
        /\ UNCHANGED <<alive, tabs, fvars, box, ops>>

\* Mutant: the child of a mount that fails is left running.
AttachFailsOnly(p, d) == Raise(p)

\* attach/3 fails because the owner is gone: mount/2 unmounts the child it
\* has started and raises owner_gone; effect/2 only raises.
AttachFails(p, d) ==
    IF d.k = "child" THEN Go(p, <<IUnmount(d.fiber), I("raise")>>) ELSE Raise(p)

\* attach/3: a message to self, or a call into the owner.
DoAttach(p) ==
    LET o == Cur(p).owner  d == Cur(p).d
    IN  /\ At(p, "attach")
        /\ \/ /\ p = o
              /\ eff' = [eff EXCEPT ![o] = <<d>> \o @]
              /\ Go(p, <<>>)
              /\ UNCHANGED box
           \/ /\ p # o /\ o \in alive
              /\ CallFiber(p, o, MEffect(d, p), Cur(p))
              /\ UNCHANGED eff
           \/ /\ p # o /\ o \notin alive
              /\ AttachFails(p, d)
              /\ UNCHANGED <<eff, box>>
        /\ UNCHANGED <<alive, born, tabs, status, epoch, ds, kbox, ops>>

\* status/1 and unmount/1: a call, and noproc is an answer.
DoCall(p) ==
    LET f == Cur(p).fiber
    IN  /\ At(p, "status") \/ At(p, "unmount")
        /\ \/ f \in alive /\ CallFiber(p, f, MCall(Cur(p).op, p), Cur(p))
           \/ f \notin alive /\ Go(p, <<>>) /\ UNCHANGED box
        /\ UNCHANGED <<alive, born, tabs, fvars, kbox, ops>>

\* drop_effect/2 by a process that was given the disposer of an effect, or by
\* the fiber itself, which sends itself a message.
DoDrop(p) ==
    LET f == Cur(p).fiber  d == Cur(p).d
    IN  /\ At(p, "drop")
        /\ \/ /\ p # f /\ f \in alive
              /\ CallFiber(p, f, MDrop(d, p), Cur(p)) /\ UNCHANGED eff
           \/ p # f /\ f \notin alive /\ Go(p, <<>>) /\ UNCHANGED <<box, eff>>
           \/ /\ p = f /\ eff' = [eff EXCEPT ![f] = <<Undo(d)>> \o @]
              /\ Go(p, <<>>) /\ UNCHANGED box
        /\ UNCHANGED <<alive, born, tabs, status, epoch, ds, kbox, ops>>

\* restart/1,2: a call that raises when the fiber is gone.
DoRestart(p) ==
    LET f == Cur(p).fiber
    IN  /\ At(p, "restart")
        /\ \/ f \in alive /\ CallFiber(p, f, MCall("restart", p), Cur(p))
           \/ f \notin alive /\ Raise(p) /\ UNCHANGED box
        /\ UNCHANGED <<alive, born, tabs, fvars, kbox, ops>>

\* The callee died with the call unanswered: the caller gets an exit, which
\* unmount/1 and drop_effect/2 catch whatever its reason, status/1 only noproc.
CalleeDown(p) ==
    LET i == Cur(p).call
    IN  /\ At(p, "await")
        /\ Cur(p).on \notin alive
        /\ \/ i.op \in {"unmount", "drop"} /\ Go(p, <<>>)
           \/ i.op = "attach" /\ AttachFails(p, i.d)
           \/ i.op \notin {"unmount", "drop", "attach"} /\ Raise(p)
        /\ UNCHANGED <<alive, born, tabs, fvars, box, kbox, ops>>

\* The call {notify, Names} of publish/3 and sweep_own/1.
DoNotify(p) ==
    /\ At(p, "notify")
    /\ kbox' = Append(kbox, KNotify(Cur(p).names, p))
    /\ Go(p, <<I("kwait")>>)
    /\ UNCHANGED <<alive, born, tabs, fvars, box, ops>>

\* provide/3 with install/3: the row goes in before anything else happens.
DoProvide(p) ==
    LET n == Cur(p).name  o == Cur(p).owner
    IN  /\ At(p, "provide")
        /\ \/ /\ services[n] = NoOne
              /\ services' = [services EXCEPT ![n] = o]
              /\ Go(p, <<INotify({n}), IAttach(o, Svc(n))>>)
           \/ /\ services[n] # NoOne
              /\ Raise(p)
              /\ UNCHANGED services
        /\ UNCHANGED <<alive, born, row, parent, hooks, deps, fvars, box, kbox, ops>>

\* on/4.
DoOn(p) ==
    LET e == Cur(p).event  o == Cur(p).owner
    IN  /\ At(p, "on")
        /\ hooks' = hooks \cup {<<e, o>>}
        /\ Go(p, <<IAttach(o, Hook(e))>>)
        /\ UNCHANGED <<alive, born, row, parent, services, deps, fvars, box, kbox, ops>>

DoRaise(p) ==
    /\ At(p, "raise")
    /\ Raise(p)
    /\ UNCHANGED <<alive, born, tabs, fvars, box, kbox, ops>>

(***************************************************************************)
(* The life cycle of a fiber f.                                            *)
(***************************************************************************)
\* refresh/1: compare the epoch with the services there are now.
DoRefresh(f) ==
    LET e == Compute(f)
    IN  /\ At(f, "refresh")
        /\ \/ e = epoch[f] /\ Go(f, <<>>)
           \/ e # epoch[f] /\ epoch[f] = inactive /\ Go(f, LoadProg(f, e))
           \/ e # epoch[f] /\ e = inactive /\ Go(f, UnloadProg \o <<I("pend")>>)
           \/ /\ e # epoch[f] /\ epoch[f] # inactive /\ e # inactive
              /\ Go(f, UnloadProg \o LoadProg(f, e))
        /\ UNCHANGED <<alive, born, tabs, fvars, box, kbox, ops>>

\* do_load/1 up to the call of Module:load/2.
DoBegin(f) ==
    /\ At(f, "begin")
    /\ epoch' = [epoch EXCEPT ![f] = Cur(f).epoch]
    /\ status' = [status EXCEPT ![f] = "loading"]
    /\ Go(f, <<>>)
    /\ UNCHANGED <<alive, born, tabs, ds, eff, box, kbox, ops>>

\* drain/1 comes to a drop: run_disposer/2 of an effect that is there.
DoUndo(f) ==
    /\ At(f, "finish")
    /\ \E i \in Undone(f) :
        LET d == eff[f][i].d
        IN  /\ \A j \in Undone(f) : j <= i
            /\ eff' = [eff EXCEPT ![f] = KeyDelete(RemoveAt(@, i), d)]
            /\ prog' = IF Contains(eff[f], d) THEN [prog EXCEPT ![f] = <<IDispose(d)>> \o @] ELSE prog
    /\ UNCHANGED <<alive, born, tabs, status, epoch, ds, box, kbox, ops>>

\* finish_load/2: drain the effects of load/2, then active, with the disposer
\* it may have returned on top, or failed.
DoFinish(f) ==
    /\ At(f, "finish") /\ Undone(f) = {}
    /\ eff' = [eff EXCEPT ![f] = <<>>]
    /\ \/ /\ Cur(f).ok /\ status' = [status EXCEPT ![f] = "active"]
          /\ ds' = [ds EXCEPT ![f] = (IF f \in Returns THEN <<Returned>> ELSE <<>>) \o Drained(f)]
       \/ /\ ~Cur(f).ok \/ f \in Flaky
          /\ status' = [status EXCEPT ![f] = "failed"]
          /\ ds' = [ds EXCEPT ![f] = Drained(f)]
    /\ Go(f, <<>>)
    /\ UNCHANGED <<alive, born, tabs, epoch, box, kbox, ops>>

\* Mutant: the stack is run and not emptied.
DoUnloadKeeps(f) ==
    /\ At(f, "unload")
    /\ status' = [status EXCEPT ![f] = "unloading"]
    /\ Go(f, [i \in 1..Len(ds[f]) |-> IDispose(ds[f][i])] \o <<I("sweep"), I("drain")>>)
    /\ UNCHANGED <<alive, born, tabs, epoch, ds, eff, box, kbox, ops>>

\* do_unload/1: take the stack; its disposers run next, newest first.
DoUnload(f) ==
    /\ At(f, "unload")
    /\ status' = [status EXCEPT ![f] = "unloading"]
    /\ ds' = [ds EXCEPT ![f] = <<>>]
    /\ Go(f, [i \in 1..Len(ds[f]) |-> IDispose(ds[f][i])] \o <<I("sweep"), I("drain")>>)
    /\ UNCHANGED <<alive, born, tabs, epoch, eff, box, kbox, ops>>

\* run/1 of one disposer: of install/3, of on/4, of mount/2, of load/2.
DoDispose(f) ==
    LET d == Cur(f).d
    IN  /\ At(f, "dispose")
        /\ \/ /\ d.k = "svc"
              /\ services' = [services EXCEPT ![d.name] = NoOne]
              /\ Go(f, <<INotify({d.name})>>)
              /\ UNCHANGED hooks
           \/ /\ d.k = "hook"
              /\ hooks' = hooks \ {<<d.event, f>>}
              /\ Go(f, <<>>)
              /\ UNCHANGED services
           \/ /\ d.k = "child"
              /\ Go(f, <<IUnmount(d.fiber)>>)
              /\ UNCHANGED <<hooks, services>>
           \/ d.k = "load" /\ Go(f, <<>>) /\ UNCHANGED <<hooks, services>>
        /\ UNCHANGED <<alive, born, row, parent, deps, fvars, box, kbox, ops>>

\* sweep_own/1: whatever the disposers left.
DoSweep(f) ==
    LET ns == OwnNames(f)
    IN  /\ At(f, "sweep")
        /\ hooks' = HooksWithout(f)
        /\ services' = Without(ns)
        /\ Go(f, IF ns = {} THEN <<>> ELSE <<INotify(ns)>>)
        /\ UNCHANGED <<alive, born, row, parent, deps, fvars, box, kbox, ops>>

\* No drop is in the mailbox here: load/2 sends them, and its end drains them.
DoDrain(f) ==
    /\ At(f, "drain") /\ Undone(f) = {}
    /\ ds' = [ds EXCEPT ![f] = Drained(f)]
    /\ eff' = [eff EXCEPT ![f] = <<>>]
    /\ Go(f, <<>>)
    /\ UNCHANGED <<alive, born, tabs, status, epoch, box, kbox, ops>>

\* The end of an unload that leaves the fiber pending.
DoPend(f) ==
    /\ At(f, "pend")
    /\ epoch' = [epoch EXCEPT ![f] = inactive]
    /\ status' = [status EXCEPT ![f] = "pending"]
    /\ Go(f, <<>>)
    /\ UNCHANGED <<alive, born, tabs, ds, eff, box, kbox, ops>>

\* The answer to status and restart calls.
DoReply(f) ==
    /\ At(f, "reply")
    /\ prog' = Resume([prog EXCEPT ![f] = Tail(@)], Cur(f).to)
    /\ UNCHANGED <<alive, born, tabs, fvars, box, kbox, ops>>

\* The end of teardown/2 and terminate/2: rows, forget/1, EXIT, the reply.
DoTeardown(f) ==
    /\ At(f, "teardown")
    /\ status' = [status EXCEPT ![f] = "disposed"]
    /\ row' = row \ {f}
    /\ deps' = DepsWithout(f)
    /\ alive' = alive \ {f}
    /\ kbox' = Append(kbox, KExit(f))
    /\ box' = [Forget(box, f) EXCEPT ![f] = <<>>]
    /\ prog' = Resume([prog EXCEPT ![f] = <<>>], Cur(f).to)
    /\ UNCHANGED <<born, parent, services, hooks, epoch, ds, eff, ops>>

\* handle_call/3, handle_cast/2 and handle_info/2 of a fiber at rest.
HandleMessage(f) ==
    LET m == Head(box[f])
        Run(is) == prog' = [prog EXCEPT ![f] = is] /\ UNCHANGED ds
    IN  /\ f \in alive
        /\ prog[f] = <<>> /\ box[f] # <<>>
        /\ box' = [box EXCEPT ![f] = Tail(@)]
        /\ \/ m.m = "refresh" /\ Run(<<I("refresh")>>)
           \/ m.m = "status" /\ Run(<<I("refresh"), IReply(m.from)>>)
           \/ m.m = "unmount" /\ Run(UnloadProg \o <<ITeardown(m.from)>>)
           \/ m.m = "restart" /\ Run(UnloadProg \o <<I("pend"), I("refresh"), IReply(m.from)>>)
           \/ /\ m.m = "effect"
              /\ ds' = [ds EXCEPT ![f] = <<m.d>> \o @]
              /\ prog' = Resume(prog, m.from)
           \/ /\ m.m = "drop"
              /\ ds' = [ds EXCEPT ![f] = KeyDelete(@, m.d)]
              /\ prog' = [prog EXCEPT ![f] =
                    (IF Contains(ds[f], m.d) THEN <<IDispose(m.d)>> ELSE <<>>) \o <<IReply(m.from)>>]
           \/ /\ m.m = "forget"
              /\ ds' = [ds EXCEPT ![f] = KeyDelete(@, Child(m.fiber))]
              /\ UNCHANGED prog
        /\ UNCHANGED <<alive, born, tabs, status, epoch, eff, kbox, ops>>

\* f has deleted a service row of its own and not yet told the kernel.
MidRetract(f) == At(f, "notify") /\ \E n \in Cur(f).names : services[n] # f

\* exit(Fiber, kill): no callback runs, the link tells the kernel.
Kill(f) ==
    /\ f \in alive \cap Killable
    /\ MidRetract(f) => CutRetract
    /\ ops < MaxOps
    /\ ops' = ops + 1
    /\ alive' = alive \ {f}
    /\ kbox' = Append(kbox, KExit(f))
    /\ box' = [box EXCEPT ![f] = <<>>]
    /\ prog' = [prog EXCEPT ![f] = <<>>]
    /\ ds' = [ds EXCEPT ![f] = <<>>]
    /\ eff' = [eff EXCEPT ![f] = <<>>]
    /\ UNCHANGED <<born, tabs, status, epoch>>

-----------------------------------------------------------------------------
(***************************************************************************)
(* The kernel process: one message per step, no call into a fiber.         *)
(***************************************************************************)
\* handle_call({mount, ..}): start_link runs the init/1 of the new fiber,
\* which writes its row and indexes its inject list, before it returns.
KernelMount ==
    LET m == Head(kbox)  g == m.fiber
    IN  /\ kbox # <<>> /\ m.m = "mount"
        /\ kbox' = Tail(kbox)
        /\ alive' = alive \cup {g}
        /\ row' = row \cup {g}
        /\ parent' = [parent EXCEPT ![g] = m.owner]
        /\ deps' = deps \cup {<<n, g>> : n \in Inject[g]}
        /\ prog' = Resume([prog EXCEPT ![g] = <<I("refresh")>>], m.from)
        /\ UNCHANGED <<born, services, hooks, fvars, box, ops>>

\* handle_call({notify, Names}).
KernelNotify ==
    LET m == Head(kbox)
    IN  /\ kbox # <<>> /\ m.m = "notify"
        /\ kbox' = Tail(kbox)
        /\ box' = CastRefresh(box, Dependents(m.names))
        /\ prog' = Resume(prog, m.from)
        /\ UNCHANGED <<alive, born, tabs, fvars, ops>>

\* handle_info({'EXIT', Pid, _}): sweep, dispose_children, notify.
KernelExit ==
    LET m == Head(kbox)  f == m.fiber
        children == {g \in row \ {f} : parent[g] = f}
        cast == [g \in Fiber |->
                    IF g \in children \cap alive THEN Append(box[g], MCall("unmount", NoOne))
                    ELSE box[g]]
    IN  /\ kbox # <<>> /\ m.m = "EXIT"
        /\ kbox' = Tail(kbox)
        /\ hooks' = HooksWithout(f)
        /\ services' = Without(OwnNames(f))
        /\ deps' = DepsWithout(f)
        /\ row' = row \ {f}
        /\ box' = CastRefresh(cast, Dependents(OwnNames(f)))
        /\ UNCHANGED <<alive, born, parent, fvars, prog, ops>>

-----------------------------------------------------------------------------
(***************************************************************************)
(* Client requests.  Any process may know the pid of a fiber once it runs, *)
(* from tree/1 or from an internal/plugin event.                           *)
(***************************************************************************)
Request(c) ==
    /\ prog[c] = <<>>
    /\ ops < MaxOps
    /\ ops' = ops + 1
    /\ \/ \E f \in Hosts \cap born : prog' = [prog EXCEPT ![c] = <<IMount(f)>>]
       \/ \E f \in {g \in Fiber : parent[g] # NoOne} :
            \/ \E i \in DOMAIN ds[f] :
                  /\ ds[f][i].k \notin {"child", "load"}
                  /\ prog' = [prog EXCEPT ![c] = <<IDrop(f, ds[f][i])>>]
            \/ prog' = [prog EXCEPT ![c] = <<IUnmount(f)>>]
            \/ prog' = [prog EXCEPT ![c] = <<IRestart(f)>>]
            \/ \E n \in Foreign : prog' = [prog EXCEPT ![c] = <<IProvide(n, f)>>]
    /\ UNCHANGED <<alive, born, tabs, fvars, box, kbox>>

Init ==
    /\ alive = {Root} /\ born = {Root} /\ row = {Root}
    /\ parent = [f \in Fiber |-> NoOne]
    /\ status = [f \in Fiber |-> IF f = Root THEN "active" ELSE "pending"]
    /\ epoch = [f \in Fiber |-> IF f = Root THEN [n \in {} |-> NoOne] ELSE inactive]
    /\ services = [n \in Name |-> NoOne]
    /\ hooks = {} /\ deps = {}
    /\ ds = [f \in Fiber |-> <<>>]
    /\ eff = [f \in Fiber |-> <<>>]
    /\ box = [f \in Fiber |-> <<>>]
    /\ kbox = <<>>
    /\ prog = [p \in Proc |-> <<>>]
    /\ ops = 0

ApiStep(p) ==
    \/ DoMount(p) \/ DoAttach(p) \/ DoCall(p) \/ DoDrop(p) \/ DoRestart(p)
    \/ CalleeDown(p) \/ DoNotify(p) \/ DoProvide(p) \/ DoOn(p) \/ DoRaise(p)

FiberStep(f) ==
    \/ DoRefresh(f) \/ DoBegin(f) \/ DoUndo(f) \/ DoFinish(f) \/ DoUnload(f) \/ DoDispose(f)
    \/ DoSweep(f) \/ DoDrain(f) \/ DoPend(f) \/ DoReply(f) \/ DoTeardown(f)
    \/ HandleMessage(f)

KernelStep == KernelMount \/ KernelNotify \/ KernelExit

\* Nothing is under way anywhere.
Quiescent ==
    /\ kbox = <<>>
    /\ \A p \in Proc : prog[p] = <<>>
    /\ \A f \in alive : box[f] = <<>>

\* All requests made and everything settled: the system may rest.
Rest == Quiescent /\ ops = MaxOps /\ UNCHANGED vars

Next ==
    \/ KernelStep
    \/ \E p \in Proc : ApiStep(p)
    \/ \E f \in Fiber : FiberStep(f) \/ Kill(f)
    \/ \E c \in Client : Request(c)
    \/ Rest

\* A runnable process is scheduled; clients and killers need not act.
Fairness ==
    /\ WF_vars(KernelStep)
    /\ \A p \in Proc : WF_vars(ApiStep(p))
    /\ \A f \in Fiber : WF_vars(FiberStep(f))

Spec == Init /\ [][Next]_vars /\ Fairness

-----------------------------------------------------------------------------
(***************************************************************************)
(* Properties.                                                             *)
(***************************************************************************)
\* Every table, mailbox and instruction list holds what the code puts there.
TypeOK ==
    /\ alive \subseteq Fiber /\ born \subseteq Fiber /\ row \subseteq Fiber
    /\ parent \in [Fiber -> Fiber \cup {NoOne}]
    /\ status \in [Fiber -> {"pending", "loading", "active", "failed", "unloading", "disposed"}]
    /\ epoch \in [Fiber -> Epoch]
    /\ services \in [Name -> Fiber \cup {NoOne}]
    /\ hooks \subseteq Event \X Fiber
    /\ deps \subseteq Name \X Fiber
    /\ ds \in [Fiber -> Seq(Disposer)]
    /\ eff \in [Fiber -> Seq(Effect)]
    /\ box \in [Fiber -> Seq(Message)]
    /\ kbox \in Seq(KMessage)
    /\ prog \in [Proc -> Seq(Instr)]
    /\ ops \in Nat

\* The fibers that own a row of some table.
Owners ==
    row \cup {h[2] : h \in hooks} \cup {d[2] : d \in deps}
    \cup ({services[n] : n \in Name} \ {NoOne})

\* Invariant 5 of kernel/README.md: a dead fiber, killed at any instruction of
\* a load, an unload or a mount, leaves no row behind once the kernel has
\* handled its EXIT.
NoOrphanRows == \A f \in Owners \ alive : \E i \in DOMAIN kbox : kbox[i] = KExit(f)

\* Invariant 7: once nothing is under way, every fiber runs under the providers
\* that are registered now, and is pending exactly when one is missing,
\* whatever the order in which providers came, went and were replaced.
SettledEpoch ==
    Quiescent => \A f \in alive \ {Root} :
        /\ epoch[f] = Compute(f)
        /\ status[f] \in {"active", "failed", "pending"}
        /\ status[f] = "pending" <=> epoch[f] = inactive

\* Invariant 8 and the owner_gone clause of mount/2: once nothing is under way
\* a live fiber hangs below a live parent, as one of its effects, even when
\* the parent died or reloaded in the middle of the mount.
TreeIsLive ==
    Quiescent => \A f \in alive \ {Root} :
        parent[f] \in alive /\ Contains(ds[parent[f]], Child(f))

\* Invariants 4 and 8: the disposer stack of a fiber at rest lists exactly what
\* it has registered, each once; a stale disposer would later delete what
\* somebody else registered.
StackMatchesRows ==
    Quiescent => \A f \in alive :
        /\ IsInjective(ds[f])
        /\ \A n \in Name : services[n] = f <=> Contains(ds[f], Svc(n))
        /\ \A e \in Event : <<e, f>> \in hooks <=> Contains(ds[f], Hook(e))

\* terminate/2 with forget/1: a child that was unmounted leaves the stack of its
\* parent, so mounting and unmounting does not grow it.
UnmountedIsForgotten ==
    Quiescent => \A f \in alive, g \in Fiber :
        Contains(ds[f], Child(g)) => status[g] # "disposed"

\* A fiber that waits for a service holds nothing: its unload has disposed of
\* every effect and every child of its last load.
PendingHoldsNothing ==
    Quiescent => \A f \in alive : status[f] = "pending" =>
        /\ ds[f] = <<>>
        /\ \A g \in alive : parent[g] # f

\* The three together: the stack of a fiber at rest is what it holds, no less
\* and no more (finish_load, do_unload, forget/1).
StackIsExact == StackMatchesRows /\ UnmountedIsForgotten /\ PendingHoldsNothing

\* The service of a live fiber disappears only by that fiber's own hand: no
\* unload, drop or EXIT sweep of another fiber may delete its row.
LostOnlyByOwner ==
    [][\A n \in Name : services[n] \in alive /\ services'[n] # services[n] =>
        At(services[n], "dispose") \/ At(services[n], "sweep")]_vars

\* Every API call returns and refreshes die out, whichever fibers die, reload
\* or unmount meanwhile: the kernel never waits for a fiber, so fibers and
\* callers never all wait for each other and never reload each other for ever.
Settles == <>[]Quiescent
=============================================================================
