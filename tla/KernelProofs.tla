---------------------------- MODULE KernelProofs ----------------------------
(***************************************************************************)
(* Proofs about Kernel, for any number of fibers, clients, services and    *)
(* hooks, any scripts and any number of requests and kills.                *)
(***************************************************************************)
EXTENDS Kernel, SequenceTheorems, TLAPS

(***************************************************************************)
(* The inductive invariant.  Beyond the types it says that only a live     *)
(* fiber runs instructions, and that without registrations on behalf of    *)
(* others a process registers only for itself: that is why a row whose     *)
(* owner is dead was written before the owner's EXIT was sent.             *)
(***************************************************************************)
Own(p) == {i \in Instr : Foreign = {} /\ i.op \in {"provide", "on"} => i.owner = p}

ProgOK(pr, al) ==
    /\ pr \in [Proc -> Seq(Instr)]
    /\ \A p \in Proc : pr[p] \in Seq(Own(p))
    /\ \A f \in Fiber : pr[f] # <<>> => f \in al

KInv ==
    /\ TypeOK
    /\ ProgOK(prog, alive)
    /\ Foreign = {} => NoOrphanRows

\* Every instruction the actions build is one that p may run.
LEMMA OwnInstr ==
    ASSUME NEW p \in Proc, NEW f \in Fiber, NEW d \in Disposer, NEW ns \in SUBSET Name,
           NEW e \in Epoch, NEW t \in Proc \cup {NoOne}, NEW b \in BOOLEAN
    PROVE  /\ \A o \in {"refresh", "kwait", "raise", "unload", "sweep", "drain", "pend"} : I(o) \in Own(p)
           /\ IMount(f) \in Own(p) /\ IAttach(f, d) \in Own(p) /\ INotify(ns) \in Own(p)
           /\ IStatus(f) \in Own(p) /\ IUnmount(f) \in Own(p) /\ IRestart(f) \in Own(p)
           /\ IDrop(f, d) \in Own(p) /\ IBegin(e) \in Own(p) /\ IFinish(b) \in Own(p)
           /\ IDispose(d) \in Own(p) /\ IReply(t) \in Own(p) /\ ITeardown(t) \in Own(p)
           /\ \A i \in BaseInstr : IAwait(f, i) \in Own(p)
PROOF
<1> USE DEF Own, Instr, BaseInstr
<1>1. \A o \in {"refresh", "kwait", "raise", "unload", "sweep", "drain", "pend"} : I(o) \in Own(p)
  BY DEF I
<1>2. IMount(f) \in Own(p) /\ IAttach(f, d) \in Own(p) /\ INotify(ns) \in Own(p)
  BY DEF IMount, IAttach, INotify
<1>3. IStatus(f) \in Own(p) /\ IUnmount(f) \in Own(p) /\ IRestart(f) \in Own(p)
  BY DEF IStatus, IUnmount, IRestart
<1>4. IDrop(f, d) \in Own(p) /\ IBegin(e) \in Own(p) /\ IFinish(b) \in Own(p)
  BY DEF IDrop, IBegin, IFinish
<1>5. IDispose(d) \in Own(p) /\ IReply(t) \in Own(p) /\ ITeardown(t) \in Own(p)
  BY DEF IDispose, IReply, ITeardown
<1>6. \A i \in BaseInstr : IAwait(f, i) \in Own(p)
  BY DEF IAwait
<1> QED BY <1>1, <1>2, <1>3, <1>4, <1>5, <1>6

\* Go: the process runs its first instruction and others are put before the rest.
LEMMA GoOK ==
    ASSUME ProgOK(prog, alive), NEW p \in Proc, prog[p] # <<>>,
           NEW is \in Seq(Own(p)), Go(p, is)
    PROVE  ProgOK(prog', alive)
PROOF
<1>1. Tail(prog[p]) \in Seq(Own(p))
  BY HeadTailProperties DEF ProgOK
<1>2. is \o Tail(prog[p]) \in Seq(Own(p))
  BY <1>1, ConcatProperties
<1>3. is \o Tail(prog[p]) \in Seq(Instr)
  BY <1>2 DEF Own
<1> QED BY <1>2, <1>3 DEF ProgOK, Go

\* An instruction that leaves nothing to do in its place.
LEMMA NextOK ==
    ASSUME ProgOK(prog, alive), NEW p \in Proc, prog[p] # <<>>, Go(p, <<>>)
    PROVE  ProgOK(prog', alive)
PROOF
<1>1. <<>> \in Seq(Own(p))
  OBVIOUS
<1> QED BY <1>1, GoOK

\* Raise: what is left after the exception is a part of what there was.
LEMMA RaiseOK ==
    ASSUME ProgOK(prog, alive), NEW p \in Proc, prog[p] # <<>>, Raise(p)
    PROVE  ProgOK(prog', alive)
PROOF
<1>1. Unwind(p) \in Seq(Own(p))
  <2>1. CASE ~InLoad(p)
    BY <2>1 DEF Unwind
  <2>2. CASE InLoad(p)
    <3> DEFINE rest == SubSeq(prog[p], HandlerAt(p) + 1, Len(prog[p]))
    <3>1. HandlerAt(p) \in Nat
      BY <2>2 DEF InLoad, HandlerAt, ProgOK
    <3>2. rest \in Seq(Own(p))
      BY <3>1, SubSeqProperties DEF ProgOK
    <3>3. <<IFinish(FALSE)>> \in Seq(Own(p))
      BY DEF IFinish, Own, Instr, BaseInstr
    <3>4. <<IFinish(FALSE)>> \o rest \in Seq(Own(p))
      BY <3>2, <3>3, ConcatProperties
    <3> QED BY <2>2, <3>4 DEF Unwind
  <2> QED BY <2>1, <2>2
<1>2. Unwind(p) \in Seq(Instr)
  BY <1>1 DEF Own
<1> QED BY <1>1, <1>2 DEF ProgOK, Raise

\* Resume: at most the head of the caller goes.
LEMMA ResumeOK ==
    ASSUME NEW pr, NEW al, NEW p, ProgOK(pr, al)
    PROVE  ProgOK(Resume(pr, p), al)
PROOF
<1>1. CASE p \in Proc /\ pr[p] # <<>>
  <2>1. Tail(pr[p]) \in Seq(Own(p))
    BY <1>1, HeadTailProperties DEF ProgOK
  <2>2. Tail(pr[p]) \in Seq(Instr)
    BY <2>1 DEF Own
  <2> QED BY <1>1, <2>1, <2>2 DEF ProgOK, Resume
<1>2. CASE ~(p \in Proc /\ pr[p] # <<>>)
  BY <1>2 DEF Resume
<1> QED BY <1>1, <1>2

\* What the fields of the current instruction of p are.
LEMMA CurType ==
    ASSUME ProgOK(prog, alive), NEW p \in Proc, prog[p] # <<>>
    PROVE  /\ Cur(p) \in Own(p) /\ Cur(p) \in Instr
           /\ Cur(p).op \in {"mount", "provide", "on", "attach"} => Cur(p).owner \in Fiber
           /\ Cur(p).op = "provide" => Cur(p).name \in Name
           /\ Cur(p).op = "on" => Cur(p).event \in Event
           /\ Cur(p).op \in {"attach", "drop", "dispose"} => Cur(p).d \in Disposer
           /\ Cur(p).op = "notify" => Cur(p).names \in SUBSET Name
           /\ Cur(p).op \in {"status", "unmount", "restart", "drop"} => Cur(p).fiber \in Fiber
           /\ Cur(p).op = "begin" => Cur(p).epoch \in Epoch
           /\ Cur(p).op = "finish" => Cur(p).ok \in BOOLEAN
           /\ Cur(p).op \in {"reply", "teardown"} => Cur(p).to \in Proc \cup {NoOne}
           /\ Cur(p).op = "await" => Cur(p).on \in Fiber /\ Cur(p).call \in BaseInstr
           /\ Cur(p).op # "await" => Cur(p) \in BaseInstr
PROOF
<1>1. Cur(p) \in Own(p)
  BY HeadTailProperties DEF ProgOK, Cur
<1>2. Cur(p) \in Instr
  BY <1>1 DEF Own
<1> DEFINE c == Cur(p)
<1> HIDE DEF c
<1>3. c \in Instr
  BY <1>2 DEF c
<1>4. c.op \in {"mount", "provide", "on", "attach"} => c.owner \in Fiber
  BY <1>3 DEF Instr, BaseInstr
<1>5. c.op = "provide" => c.name \in Name
  BY <1>3 DEF Instr, BaseInstr
<1>6. c.op = "on" => c.event \in Event
  BY <1>3 DEF Instr, BaseInstr
<1>7. c.op \in {"attach", "drop", "dispose"} => c.d \in Disposer
  BY <1>3 DEF Instr, BaseInstr
<1>8. c.op = "notify" => c.names \in SUBSET Name
  BY <1>3 DEF Instr, BaseInstr
<1>9. c.op \in {"status", "unmount", "restart", "drop"} => c.fiber \in Fiber
  BY <1>3 DEF Instr, BaseInstr
<1>10. c.op = "begin" => c.epoch \in Epoch
  BY <1>3 DEF Instr, BaseInstr
<1>11. c.op = "finish" => c.ok \in BOOLEAN
  BY <1>3 DEF Instr, BaseInstr
<1>12. c.op \in {"reply", "teardown"} => c.to \in Proc \cup {NoOne}
  BY <1>3 DEF Instr, BaseInstr
<1>13. c.op = "await" => c.on \in Fiber /\ c.call \in BaseInstr
  BY <1>3 DEF Instr, BaseInstr
<1>14. c.op # "await" => c \in BaseInstr
  BY <1>3 DEF Instr
<1> QED
  BY <1>1, <1>2, <1>4, <1>5, <1>6, <1>7, <1>8, <1>9, <1>10, <1>11, <1>12, <1>13, <1>14 DEF c

(***************************************************************************)
(* Rows.  A fiber is covered while it lives or its EXIT is on its way.     *)
(***************************************************************************)
Covered(al, kb, f) == f \in al \/ \E i \in DOMAIN kb : kb[i] = KExit(f)

\* New rows belong to live fibers and the owners of old ones stay covered.
LEMMA Orphans ==
    ASSUME NoOrphanRows, Owners' \subseteq Owners \cup alive',
           \A f \in Owners' : Covered(alive, kbox, f) => Covered(alive', kbox', f)
    PROVE  NoOrphanRows'
PROOF
<1> SUFFICES ASSUME NEW f \in Owners', f \notin alive'
             PROVE  \E i \in DOMAIN kbox' : kbox'[i] = KExit(f)
  BY DEF NoOrphanRows, KExit
<1>1. Covered(alive, kbox, f)
  BY DEF NoOrphanRows, Covered
<1> QED BY <1>1 DEF Covered

\* Steps that touch no table and kill nobody.
LEMMA SameRows ==
    ASSUME NoOrphanRows, UNCHANGED <<alive, tabs>>,
           \A i \in DOMAIN kbox : i \in DOMAIN kbox' /\ kbox'[i] = kbox[i]
    PROVE  NoOrphanRows'
PROOF
<1>1. Owners' = Owners
  BY DEF Owners, tabs
<1>2. \A f \in Owners' : Covered(alive, kbox, f) => Covered(alive', kbox', f)
  BY DEF Covered
<1> QED BY <1>1, <1>2, Orphans

\* Posting to the kernel keeps what is in its mailbox.
LEMMA KPost ==
    ASSUME TypeOK, NEW m \in KMessage, kbox' = Append(kbox, m)
    PROVE  /\ kbox' \in Seq(KMessage)
           /\ \A i \in DOMAIN kbox : i \in DOMAIN kbox' /\ kbox'[i] = kbox[i]
           /\ \E i \in DOMAIN kbox' : kbox'[i] = m
PROOF
<1>1. kbox \in Seq(KMessage)
  BY DEF TypeOK
<1> QED BY <1>1, AppendProperties

\* Posting to a fiber.
LEMMA PostOK ==
    ASSUME NEW b \in [Fiber -> Seq(Message)], NEW f, NEW m \in Message
    PROVE  Post(b, f, m) \in [Fiber -> Seq(Message)]
PROOF
<1>1. CASE f \in alive /\ f \in Fiber
  BY <1>1, AppendProperties DEF Post
<1>2. CASE ~(f \in alive /\ f \in Fiber)
  BY <1>2 DEF Post
<1> QED BY <1>1, <1>2

\* The messages a caller posts.
LEMMA MessageOK ==
    ASSUME NEW p \in Proc, NEW d \in Disposer, NEW f \in Fiber
    PROVE  /\ MRefresh \in Message /\ MForget(f) \in Message
           /\ MEffect(d, p) \in Message /\ MDrop(d, p) \in Message
           /\ \A w \in {"status", "unmount", "restart"}, t \in Proc \cup {NoOne} : MCall(w, t) \in Message
PROOF
BY DEF MRefresh, MForget, MEffect, MDrop, MCall, Message

\* A step that only moves the program counter of one process.
LEMMA OnlyProg ==
    ASSUME KInv, ProgOK(prog', alive), UNCHANGED <<alive, born, tabs, fvars, box, kbox, ops>>
    PROVE  KInv'
PROOF
<1>1. Foreign = {} => NoOrphanRows'
  BY SameRows DEF KInv
<1>2. TypeOK'
  BY DEF KInv, TypeOK, tabs, fvars, ProgOK
<1> QED BY <1>1, <1>2 DEF KInv

(***************************************************************************)
(* One lemma per group of actions.                                         *)
(***************************************************************************)
\* The calls into a fiber: post, and wait.
LEMMA CallOK ==
    ASSUME KInv, NEW p \in Proc, prog[p] # <<>>, NEW f \in Fiber, NEW m \in Message,
           NEW i \in BaseInstr, CallFiber(p, f, m, i),
           UNCHANGED <<alive, born, tabs, fvars, kbox, ops>>
    PROVE  KInv'
PROOF
<1>1. <<IAwait(f, i)>> \in Seq(Own(p))
  BY DEF IAwait, Own, Instr
<1>2. ProgOK(prog', alive)
  BY <1>1, GoOK DEF KInv, CallFiber
<1>3. box' \in [Fiber -> Seq(Message)]
  BY PostOK DEF CallFiber, KInv, TypeOK
<1>4. Foreign = {} => NoOrphanRows'
  BY SameRows DEF KInv
<1>5. TypeOK'
  BY <1>2, <1>3 DEF KInv, TypeOK, tabs, fvars, ProgOK
<1> QED BY <1>2, <1>4, <1>5 DEF KInv

\* mount/2 asks the kernel.
LEMMA MountOK ==
    ASSUME KInv, NEW p \in Proc, DoMount(p)
    PROVE  KInv'
PROOF
<1> DEFINE pool == (IF p \in Fiber THEN Kids[p] ELSE TopLevel) \ born
           o == Cur(p).owner
<1>1. prog[p] # <<>> /\ Cur(p).op = "mount"
  BY DEF DoMount, At, Cur
<1>2. o \in Fiber
  BY <1>1, CurType DEF KInv
<1>3. ASSUME NEW g \in pool,
             born' = born \cup {g},
             kbox' = Append(kbox, KMount(g, o, p)),
             Go(p, <<I("kwait"), IAttach(o, Child(g)), IStatus(g)>>),
             UNCHANGED <<alive, tabs, fvars, box, ops>>
      PROVE  KInv'
  <2>1. g \in Fiber
    BY <1>3, KernelAssumption
  <2>2. Child(g) \in Disposer
    BY <2>1 DEF Child, Disposer
  <2>3. I("kwait") \in Own(p) /\ IAttach(o, Child(g)) \in Own(p) /\ IStatus(g) \in Own(p)
    BY <1>2, <2>1, <2>2 DEF I, IAttach, IStatus, Own, Instr, BaseInstr
  <2>4. <<I("kwait"), IAttach(o, Child(g)), IStatus(g)>> \in Seq(Own(p))
    BY <2>3
  <2>5. ProgOK(prog', alive)
    BY <1>1, <1>3, <2>4, GoOK DEF KInv
  <2>6. KMount(g, o, p) \in KMessage
    BY <1>2, <2>1 DEF KMount, KMessage
  <2>7. Foreign = {} => NoOrphanRows'
    BY <1>3, <2>6, KPost, SameRows DEF KInv
  <2>8. TypeOK'
    BY <1>3, <2>1, <2>5, <2>6, KPost DEF KInv, TypeOK, tabs, fvars, ProgOK
  <2> QED BY <1>3, <2>5, <2>7, <2>8 DEF KInv, tabs
<1>4. ASSUME Go(p, <<>>), UNCHANGED <<born, kbox>>, UNCHANGED <<alive, tabs, fvars, box, ops>>
      PROVE  KInv'
  <2>1. ProgOK(prog', alive)
    BY <1>1, <1>4, NextOK DEF KInv
  <2> QED BY <1>4, <2>1, OnlyProg
<1> QED BY <1>3, <1>4 DEF DoMount

\* attach/3 that fails, at once or when the owner dies.
LEMMA AttachFailsOK ==
    ASSUME KInv, NEW p \in Proc, prog[p] # <<>>, NEW d \in Disposer, AttachFails(p, d),
           UNCHANGED <<alive, born, tabs, fvars, box, kbox, ops>>
    PROVE  KInv'
PROOF
<1>1. CASE d.k = "child"
  <2>1. d.fiber \in Fiber
    BY <1>1 DEF Disposer
  <2>2. <<IUnmount(d.fiber), I("raise")>> \in Seq(Own(p))
    BY <2>1 DEF IUnmount, I, Own, Instr, BaseInstr
  <2>3. ProgOK(prog', alive)
    BY <1>1, <2>2, GoOK DEF AttachFails, KInv
  <2> QED BY <2>3, OnlyProg
<1>2. CASE d.k # "child"
  <2>1. ProgOK(prog', alive)
    BY <1>2, RaiseOK DEF AttachFails, KInv
  <2> QED BY <2>1, OnlyProg
<1> QED BY <1>1, <1>2

\* attach/3.
LEMMA AttachOK ==
    ASSUME KInv, NEW p \in Proc, DoAttach(p)
    PROVE  KInv'
PROOF
<1> DEFINE o == Cur(p).owner
           d == Cur(p).d
<1>1. prog[p] # <<>> /\ Cur(p).op = "attach"
  BY DEF DoAttach, At, Cur
<1>2. o \in Fiber /\ d \in Disposer /\ Cur(p) \in BaseInstr
  BY <1>1, CurType DEF KInv
<1>3. ASSUME p = o, eff' = [eff EXCEPT ![o] = <<d>> \o @], Go(p, <<>>), UNCHANGED box,
             UNCHANGED <<alive, born, tabs, status, epoch, ds, kbox, ops>>
      PROVE  KInv'
  <2>1. ProgOK(prog', alive)
    BY <1>1, <1>3, NextOK DEF KInv
  <2>2. <<d>> \o eff[o] \in Seq(Effect)
    BY <1>2, ConcatProperties DEF KInv, TypeOK, Effect
  <2>3. Foreign = {} => NoOrphanRows'
    BY <1>3, SameRows DEF KInv
  <2>4. TypeOK'
    BY <1>2, <1>3, <2>1, <2>2 DEF KInv, TypeOK, tabs, ProgOK
  <2> QED BY <1>3, <2>1, <2>3, <2>4 DEF KInv
<1>4. ASSUME CallFiber(p, o, MEffect(d, p), Cur(p)), UNCHANGED eff,
             UNCHANGED <<alive, born, tabs, status, epoch, ds, kbox, ops>>
      PROVE  KInv'
  BY <1>1, <1>2, <1>4, MessageOK, CallOK DEF fvars
<1>5. ASSUME AttachFails(p, d), UNCHANGED <<eff, box>>,
             UNCHANGED <<alive, born, tabs, status, epoch, ds, kbox, ops>>
      PROVE  KInv'
  BY <1>1, <1>2, <1>5, AttachFailsOK DEF fvars
<1> QED BY <1>3, <1>4, <1>5 DEF DoAttach

\* Steps that change only the own state of one fiber.
LEMMA OwnStateStep ==
    ASSUME KInv, ProgOK(prog', alive), UNCHANGED <<alive, born, tabs, box, kbox, ops>>,
           status' \in [Fiber -> {"pending", "loading", "active", "failed", "unloading", "disposed"}],
           epoch' \in [Fiber -> Epoch], ds' \in [Fiber -> Seq(Disposer)], eff' \in [Fiber -> Seq(Effect)]
    PROVE  KInv'
PROOF
<1>1. Foreign = {} => NoOrphanRows'
  BY SameRows DEF KInv
<1>2. TypeOK'
  BY DEF KInv, TypeOK, tabs, ProgOK
<1> QED BY <1>1, <1>2 DEF KInv

\* status/1, unmount/1, restart/1, drop_effect/2 and their failures.
LEMMA CallsOK ==
    ASSUME KInv, NEW p \in Proc, DoCall(p) \/ DoDrop(p) \/ DoRestart(p) \/ CalleeDown(p) \/ DoRaise(p)
    PROVE  KInv'
PROOF
<1>1. CASE DoCall(p)
  <2>1. prog[p] # <<>> /\ Cur(p).op \in {"status", "unmount"}
    BY <1>1 DEF DoCall, At, Cur
  <2>2. Cur(p).fiber \in Fiber /\ Cur(p) \in BaseInstr /\ MCall(Cur(p).op, p) \in Message
    BY <2>1, CurType DEF KInv, MCall, Message
  <2>3. CASE Go(p, <<>>) /\ UNCHANGED box
    BY <1>1, <2>1, <2>3, NextOK, OnlyProg DEF DoCall, KInv
  <2> QED BY <1>1, <2>1, <2>2, <2>3, CallOK DEF DoCall
<1>2. CASE DoDrop(p)
  <2>1. prog[p] # <<>> /\ Cur(p).op = "drop"
    BY <1>2 DEF DoDrop, At, Cur
  <2>2. Cur(p).fiber \in Fiber /\ Cur(p).d \in Disposer /\ Cur(p) \in BaseInstr
    BY <2>1, CurType DEF KInv
  <2> DEFINE f == Cur(p).fiber
             d == Cur(p).d
  <2>3. CASE Go(p, <<>>) /\ UNCHANGED <<box, eff>>
    BY <1>2, <2>1, <2>3, NextOK, OnlyProg DEF DoDrop, KInv, fvars
  <2>4. CASE CallFiber(p, f, MDrop(d, p), Cur(p)) /\ UNCHANGED eff
    BY <1>2, <2>1, <2>2, <2>4, CallOK, MessageOK DEF DoDrop, fvars
  <2>5. CASE eff' = [eff EXCEPT ![f] = <<Undo(d)>> \o @] /\ Go(p, <<>>) /\ UNCHANGED box
    <3>1. Undo(d) \in Effect
      BY <2>2 DEF Undo, Effect
    <3>2. <<Undo(d)>> \o eff[f] \in Seq(Effect)
      BY <2>2, <3>1, ConcatProperties DEF KInv, TypeOK
    <3>3. eff' \in [Fiber -> Seq(Effect)]
      BY <2>2, <2>5, <3>2 DEF KInv, TypeOK
    <3>4. ProgOK(prog', alive)
      BY <2>1, <2>5, NextOK DEF KInv
    <3>5. UNCHANGED <<alive, born, tabs, status, epoch, ds, box, kbox, ops>>
      BY <1>2, <2>5 DEF DoDrop
    <3> QED BY <3>3, <3>4, <3>5, OwnStateStep DEF KInv, TypeOK
  <2> QED BY <1>2, <2>3, <2>4, <2>5 DEF DoDrop
<1>3. CASE DoRestart(p)
  <2>1. prog[p] # <<>> /\ Cur(p).op = "restart"
    BY <1>3 DEF DoRestart, At, Cur
  <2>2. Cur(p).fiber \in Fiber /\ Cur(p) \in BaseInstr /\ MCall("restart", p) \in Message
    BY <2>1, CurType DEF KInv, MCall, Message
  <2>3. CASE Raise(p) /\ UNCHANGED box
    BY <1>3, <2>1, <2>3, RaiseOK, OnlyProg DEF DoRestart, KInv
  <2> QED BY <1>3, <2>1, <2>2, <2>3, CallOK DEF DoRestart
<1>4. CASE CalleeDown(p)
  <2> DEFINE i == Cur(p).call
  <2>1. prog[p] # <<>> /\ Cur(p).op = "await"
    BY <1>4 DEF CalleeDown, At, Cur
  <2>2. i \in BaseInstr
    BY <2>1, CurType DEF KInv
  <2>3. CASE i.op \in {"unmount", "drop"}
    <3>1. Go(p, <<>>)
      BY <1>4, <2>3 DEF CalleeDown
    <3> QED BY <1>4, <2>1, <3>1, NextOK, OnlyProg DEF CalleeDown, KInv
  <2>4. CASE i.op = "attach"
    <3>1. AttachFails(p, i.d)
      BY <1>4, <2>4 DEF CalleeDown
    <3>2. i.d \in Disposer
      BY <2>2, <2>4 DEF BaseInstr
    <3> QED BY <1>4, <2>1, <3>1, <3>2, AttachFailsOK DEF CalleeDown
  <2>5. CASE i.op \notin {"unmount", "drop", "attach"}
    <3>1. Raise(p)
      BY <1>4, <2>5 DEF CalleeDown
    <3> QED BY <1>4, <2>1, <3>1, RaiseOK, OnlyProg DEF CalleeDown, KInv
  <2> QED BY <2>3, <2>4, <2>5
<1>5. CASE DoRaise(p)
  <2>1. prog[p] # <<>>
    BY <1>5 DEF DoRaise, At
  <2> QED BY <1>5, <2>1, RaiseOK, OnlyProg DEF DoRaise, KInv
<1> QED BY <1>1, <1>2, <1>3, <1>4, <1>5

\* A step that writes tables and moves on: the new owners are alive.
LEMMA TableStep ==
    ASSUME KInv, ProgOK(prog', alive), UNCHANGED <<alive, born, row, parent, deps, fvars, box, kbox, ops>>,
           services' \in [Name -> Fiber \cup {NoOne}], hooks' \subseteq Event \X Fiber,
           Foreign = {} => \A n \in Name : services'[n] \in {NoOne, services[n]} \cup alive,
           Foreign = {} => \A h \in hooks' : h \in hooks \/ h[2] \in alive
    PROVE  KInv'
PROOF
<1>1. TypeOK'
  BY DEF KInv, TypeOK, fvars, ProgOK
<1>2. Foreign = {} => Owners' \subseteq Owners \cup alive
  BY DEF Owners
<1>3. Foreign = {} => NoOrphanRows'
  BY <1>2, Orphans DEF KInv, Covered
<1> QED BY <1>1, <1>3 DEF KInv

\* The call of the kernel that announces services.
LEMMA NotifyOK ==
    ASSUME KInv, NEW p \in Proc, DoNotify(p)
    PROVE  KInv'
PROOF
<1>1. prog[p] # <<>> /\ Cur(p).op = "notify"
  BY DEF DoNotify, At, Cur
<1>2. KNotify(Cur(p).names, p) \in KMessage
  BY <1>1, CurType DEF KInv, KNotify, KMessage
<1>3. <<I("kwait")>> \in Seq(Own(p))
  BY DEF I, Own, Instr, BaseInstr
<1>4. ProgOK(prog', alive)
  BY <1>1, <1>3, GoOK DEF KInv, DoNotify
<1>5. Foreign = {} => NoOrphanRows'
  BY <1>2, KPost, SameRows DEF KInv, DoNotify
<1>6. TypeOK'
  BY <1>2, <1>4, KPost DEF KInv, TypeOK, DoNotify, tabs, fvars, ProgOK
<1> QED BY <1>4, <1>5, <1>6 DEF KInv, DoNotify

\* provide/3: without foreign registrations the owner is the process itself.
LEMMA ProvideOK ==
    ASSUME KInv, NEW p \in Proc, DoProvide(p)
    PROVE  KInv'
PROOF
<1> DEFINE n == Cur(p).name
           o == Cur(p).owner
<1>1. prog[p] # <<>> /\ Cur(p).op = "provide"
  BY DEF DoProvide, At, Cur
<1>2. n \in Name /\ o \in Fiber
  BY <1>1, CurType DEF KInv
<1>3. Foreign = {} => o \in alive
  BY <1>1, <1>2, CurType DEF KInv, Own, ProgOK
<1>4. ASSUME services' = [services EXCEPT ![n] = o], Go(p, <<INotify({n}), IAttach(o, Svc(n))>>)
      PROVE  KInv'
  <2>1. <<INotify({n}), IAttach(o, Svc(n))>> \in Seq(Own(p))
    BY <1>2 DEF INotify, IAttach, Svc, Disposer, Own, Instr, BaseInstr
  <2>2. ProgOK(prog', alive)
    BY <1>1, <1>4, <2>1, GoOK DEF KInv
  <2>3. services' \in [Name -> Fiber \cup {NoOne}]
    BY <1>2, <1>4 DEF KInv, TypeOK
  <2>4. Foreign = {} => \A m \in Name : services'[m] \in {NoOne, services[m]} \cup alive
    BY <1>2, <1>3, <1>4 DEF KInv, TypeOK
  <2>5. hooks' = hooks /\ hooks \subseteq Event \X Fiber
    BY DEF KInv, TypeOK, DoProvide
  <2> QED BY <2>2, <2>3, <2>4, <2>5, TableStep DEF DoProvide
<1>5. ASSUME Raise(p), UNCHANGED services
      PROVE  KInv'
  <2>1. ProgOK(prog', alive)
    BY <1>1, <1>5, RaiseOK DEF KInv
  <2> QED BY <1>5, <2>1, OnlyProg DEF DoProvide, tabs
<1> QED BY <1>4, <1>5 DEF DoProvide

\* on/4.
LEMMA OnOK ==
    ASSUME KInv, NEW p \in Proc, DoOn(p)
    PROVE  KInv'
PROOF
<1> DEFINE e == Cur(p).event
           o == Cur(p).owner
<1>1. prog[p] # <<>> /\ Cur(p).op = "on"
  BY DEF DoOn, At, Cur
<1>2. e \in Event /\ o \in Fiber
  BY <1>1, CurType DEF KInv
<1>3. Foreign = {} => o \in alive
  BY <1>1, <1>2, CurType DEF KInv, Own, ProgOK
<1>4. <<IAttach(o, Hook(e))>> \in Seq(Own(p))
  BY <1>2 DEF IAttach, Hook, Disposer, Own, Instr, BaseInstr
<1>5. ProgOK(prog', alive)
  BY <1>1, <1>4, GoOK DEF KInv, DoOn
<1>6. hooks' \subseteq Event \X Fiber
  BY <1>2 DEF KInv, TypeOK, DoOn
<1>7. Foreign = {} => \A h \in hooks' : h \in hooks \/ h[2] \in alive
  BY <1>3 DEF DoOn
<1>8. services' = services /\ services \in [Name -> Fiber \cup {NoOne}]
  BY DEF DoOn, KInv, TypeOK
<1> QED BY <1>5, <1>6, <1>7, <1>8, TableStep DEF DoOn

\* A load is a begin, the registrations of load/2, each for f itself, and a
\* finish; an unload starts with the instruction of that name.
LEMMA LoadProgOK ==
    ASSUME NEW f \in Fiber, NEW e \in Epoch
    PROVE  LoadProg(f, e) \in Seq(Own(f)) /\ UnloadProg \in Seq(Own(f))
PROOF
<1>1. Script[f] \in Seq(Own(f))
  BY KernelAssumption DEF Own, Instr
<1>2. <<IBegin(e)>> \in Seq(Own(f)) /\ <<IFinish(TRUE)>> \in Seq(Own(f)) /\ UnloadProg \in Seq(Own(f))
  BY DEF IBegin, IFinish, UnloadProg, I, Own, Instr, BaseInstr
<1>3. <<IBegin(e)>> \o Script[f] \in Seq(Own(f))
  BY <1>1, <1>2, ConcatProperties
<1>4. (<<IBegin(e)>> \o Script[f]) \o <<IFinish(TRUE)>> \in Seq(Own(f))
  BY <1>2, <1>3, ConcatProperties
<1> QED BY <1>2, <1>4 DEF LoadProg

\* compute_epoch/1 returns an epoch.
LEMMA ComputeOK ==
    ASSUME TypeOK, NEW f \in Fiber
    PROVE  Compute(f) \in Epoch
PROOF
<1>1. CASE \A n \in Inject[f] : services[n] # NoOne
  <2>1. Inject[f] \in SUBSET Name
    BY KernelAssumption
  <2>2. [n \in Inject[f] |-> services[n]] \in [Inject[f] -> Fiber]
    BY <1>1, <2>1 DEF TypeOK
  <2> QED BY <1>1, <2>1, <2>2 DEF Compute, Epoch
<1>2. inactive \in Epoch
  BY DEF Epoch
<1> QED BY <1>1, <1>2 DEF Compute

\* refresh/1.
LEMMA RefreshOK ==
    ASSUME KInv, NEW f \in Fiber, DoRefresh(f)
    PROVE  KInv'
PROOF
<1> DEFINE e == Compute(f)
<1>1. prog[f] # <<>> /\ f \in Proc
  BY DEF DoRefresh, At, Proc
<1>2. e \in Epoch
  BY ComputeOK DEF KInv
<1>3. LoadProg(f, e) \in Seq(Own(f)) /\ UnloadProg \in Seq(Own(f))
  BY <1>2, LoadProgOK
<1>4. <<I("pend")>> \in Seq(Own(f))
  BY DEF I, Own, Instr, BaseInstr
<1>5. UnloadProg \o <<I("pend")>> \in Seq(Own(f)) /\ UnloadProg \o LoadProg(f, e) \in Seq(Own(f))
  BY <1>3, <1>4, ConcatProperties
<1>6. <<>> \in Seq(Own(f))
  OBVIOUS
<1>7. \E is \in Seq(Own(f)) : Go(f, is)
  BY <1>3, <1>5, <1>6 DEF DoRefresh
<1>8. ProgOK(prog', alive)
  BY <1>1, <1>7, GoOK DEF KInv
<1> QED BY <1>8, OnlyProg DEF DoRefresh

\* do_load/1, finish_load/2, drain/1 and the end of an unload.
LEMMA LoadStepsOK ==
    ASSUME KInv, NEW f \in Fiber, DoBegin(f) \/ DoFinish(f) \/ DoDrain(f) \/ DoPend(f)
    PROVE  KInv'
PROOF
<1>1. f \in Proc /\ prog[f] # <<>> /\ Go(f, <<>>) /\ UNCHANGED <<alive, born, tabs, box, kbox, ops>>
  BY DEF Proc, DoBegin, DoFinish, DoDrain, DoPend, At
<1>2. ProgOK(prog', alive)
  BY <1>1, NextOK DEF KInv
<1>3. DoBegin(f) => Cur(f).epoch \in Epoch
  BY <1>1, CurType DEF KInv, DoBegin, At, Cur
<1>4. DoFinish(f) \/ DoDrain(f) => Drained(f) \in Seq(Disposer)
  <2>1. SUFFICES ASSUME Undone(f) = {} PROVE Drained(f) \in Seq(Disposer)
    BY <2>1 DEF DoFinish, DoDrain
  <2>2. eff[f] \in Seq(Effect) /\ ds[f] \in Seq(Disposer)
    BY DEF KInv, TypeOK
  <2>3. \A i \in DOMAIN eff[f] : eff[f][i] \in Effect /\ eff[f][i].k # "undo"
    BY <2>1, <2>2 DEF Undone
  <2>4. \A i \in DOMAIN eff[f] : eff[f][i] \in Disposer
    BY <2>3 DEF Effect
  <2>5. eff[f] \in Seq(Disposer)
    BY <2>2, <2>4
  <2> QED BY <2>2, <2>5, ConcatProperties DEF Drained
<1>5. inactive \in Epoch
  BY DEF Epoch
<1>6. status' \in [Fiber -> {"pending", "loading", "active", "failed", "unloading", "disposed"}]
  BY DEF KInv, TypeOK, DoBegin, DoFinish, DoDrain, DoPend
<1>7. epoch' \in [Fiber -> Epoch]
  BY <1>3, <1>5 DEF KInv, TypeOK, DoBegin, DoFinish, DoDrain, DoPend
<1>8. ds' \in [Fiber -> Seq(Disposer)]
  <2>1. Returned \in Disposer
    BY DEF Returned, Disposer
  <2>2. (IF f \in Returns THEN <<Returned>> ELSE <<>>) \in Seq(Disposer)
    BY <2>1
  <2>3. DoFinish(f) => (IF f \in Returns THEN <<Returned>> ELSE <<>>) \o Drained(f) \in Seq(Disposer)
    BY <1>4, <2>2, ConcatProperties
  <2>4. UNCHANGED ds \/ \E x \in Seq(Disposer) : ds' = [ds EXCEPT ![f] = x]
    BY <1>4, <2>3 DEF DoBegin, DoFinish, DoDrain, DoPend
  <2> QED BY <2>4 DEF KInv, TypeOK
<1>9. eff' \in [Fiber -> Seq(Effect)]
  <2>1. <<>> \in Seq(Effect)
    OBVIOUS
  <2> QED BY <2>1 DEF KInv, TypeOK, DoBegin, DoFinish, DoDrain, DoPend
<1> QED BY <1>1, <1>2, <1>6, <1>7, <1>8, <1>9, OwnStateStep

\* What is taken off a stack leaves a stack.
LEMMA RemoveOK ==
    ASSUME NEW S, NEW s \in Seq(S), NEW k \in 1..Len(s)
    PROVE  RemoveAt(s, k) \in Seq(S)
PROOF
<1>1. SubSeq(s, 1, k - 1) \in Seq(S)
  BY SubSeqProperties
<1>2. SubSeq(s, k + 1, Len(s)) \in Seq(S)
  BY SubSeqProperties
<1> QED BY <1>1, <1>2, ConcatProperties DEF RemoveAt

\* lists:keydelete/3 returns a stack.
LEMMA KeyDeleteOK ==
    ASSUME NEW S, NEW s \in Seq(S), NEW d
    PROVE  KeyDelete(s, d) \in Seq(S)
PROOF
<1>1. CASE Contains(s, d)
  <2> DEFINE k == CHOOSE i \in DOMAIN s : s[i] = d
  <2>1. k \in 1..Len(s)
    BY <1>1 DEF Contains
  <2> HIDE DEF k
  <2>2. RemoveAt(s, k) \in Seq(S)
    BY <2>1, RemoveOK
  <2> QED BY <1>1, <2>2 DEF KeyDelete, k
<1>2. CASE ~Contains(s, d)
  BY <1>2 DEF KeyDelete
<1> QED BY <1>1, <1>2

\* A drop that drain/1 comes to.
LEMMA UndoOK ==
    ASSUME KInv, NEW f \in Fiber, DoUndo(f)
    PROVE  KInv'
PROOF
<1>1. f \in Proc /\ prog[f] # <<>> /\ f \in alive
  BY DEF Proc, DoUndo, At, KInv, ProgOK
<1>2. eff[f] \in Seq(Effect)
  BY DEF KInv, TypeOK
<1>3. PICK i \in Undone(f) :
        /\ eff' = [eff EXCEPT ![f] = KeyDelete(RemoveAt(@, i), eff[f][i].d)]
        /\ prog' = IF Contains(eff[f], eff[f][i].d)
                   THEN [prog EXCEPT ![f] = <<IDispose(eff[f][i].d)>> \o @] ELSE prog
  BY DEF DoUndo
<1>4. i \in 1..Len(eff[f]) /\ eff[f][i] \in Effect /\ eff[f][i].k = "undo"
  BY <1>2, <1>3 DEF Undone
<1>5. PICK d \in Disposer : d = eff[f][i].d
  <2>1. eff[f][i] \notin Disposer
    BY <1>4 DEF Disposer
  <2> QED BY <1>4, <2>1 DEF Effect
<1>6. RemoveAt(eff[f], i) \in Seq(Effect)
  BY <1>2, <1>4, RemoveOK
<1>7. KeyDelete(RemoveAt(eff[f], i), d) \in Seq(Effect)
  BY <1>6, KeyDeleteOK
<1>8. eff' \in [Fiber -> Seq(Effect)]
  BY <1>3, <1>5, <1>7 DEF KInv, TypeOK
<1>9. <<IDispose(d)>> \in Seq(Own(f))
  BY DEF IDispose, Own, Instr, BaseInstr
<1>10. <<IDispose(d)>> \o prog[f] \in Seq(Own(f))
  BY <1>1, <1>9, ConcatProperties DEF KInv, ProgOK
<1>11. <<IDispose(d)>> \o prog[f] \in Seq(Instr)
  BY <1>10 DEF Own
<1>12. ProgOK(prog', alive)
  BY <1>1, <1>3, <1>5, <1>10, <1>11 DEF KInv, ProgOK
<1>13. UNCHANGED <<alive, born, tabs, status, epoch, ds, box, kbox, ops>>
  BY DEF DoUndo
<1> QED BY <1>8, <1>12, <1>13, OwnStateStep DEF KInv, TypeOK

\* do_unload/1.
LEMMA UnloadOK ==
    ASSUME KInv, NEW f \in Fiber, DoUnload(f)
    PROVE  KInv'
PROOF
<1> DEFINE run == [i \in 1..Len(ds[f]) |-> IDispose(ds[f][i])]
           end == <<I("sweep"), I("drain")>>
<1>1. f \in Proc /\ prog[f] # <<>>
  BY DEF Proc, DoUnload, At
<1>2. run \in Seq(Own(f))
  <2>1. \A i \in 1..Len(ds[f]) : IDispose(ds[f][i]) \in Own(f)
    BY DEF KInv, TypeOK, IDispose, Own, Instr, BaseInstr
  <2>2. Len(ds[f]) \in Nat
    BY DEF KInv, TypeOK
  <2> QED BY <2>1, <2>2
<1>3. end \in Seq(Own(f))
  BY DEF I, Own, Instr, BaseInstr
<1>4. run \o end \in Seq(Own(f))
  BY <1>2, <1>3, ConcatProperties
<1>5. ProgOK(prog', alive)
  BY <1>1, <1>4, GoOK DEF KInv, DoUnload
<1> QED BY <1>5, OwnStateStep DEF KInv, TypeOK, DoUnload

\* One disposer.
LEMMA DisposeOK ==
    ASSUME KInv, NEW f \in Fiber, DoDispose(f)
    PROVE  KInv'
PROOF
<1> DEFINE d == Cur(f).d
<1>1. f \in Proc /\ prog[f] # <<>> /\ Cur(f).op = "dispose"
  BY DEF Proc, DoDispose, At, Cur
<1>2. d \in Disposer
  BY <1>1, CurType DEF KInv
<1>3. /\ d.k = "svc" => d.name \in Name
      /\ d.k = "child" => d.fiber \in Fiber
  BY <1>2 DEF Disposer
<1>4. d.k = "svc" => <<INotify({d.name})>> \in Seq(Own(f))
  BY <1>3 DEF INotify, Own, Instr, BaseInstr
<1>5. d.k = "child" => <<IUnmount(d.fiber)>> \in Seq(Own(f))
  BY <1>3 DEF IUnmount, Own, Instr, BaseInstr
<1>6. <<>> \in Seq(Own(f))
  OBVIOUS
<1>7. \E is \in Seq(Own(f)) : Go(f, is)
  BY <1>4, <1>5, <1>6 DEF DoDispose
<1>8. ProgOK(prog', alive)
  BY <1>1, <1>7, GoOK DEF KInv
<1>9. services' \in [Name -> Fiber \cup {NoOne}] /\ hooks' \subseteq Event \X Fiber
  BY <1>3 DEF KInv, TypeOK, DoDispose
<1>10. \A n \in Name : services'[n] \in {NoOne, services[n]}
  BY <1>3 DEF KInv, TypeOK, DoDispose
<1>11. \A h \in hooks' : h \in hooks
  BY DEF DoDispose
<1> QED BY <1>8, <1>9, <1>10, <1>11, TableStep DEF DoDispose

\* sweep_own/1.
LEMMA SweepOK ==
    ASSUME KInv, NEW f \in Fiber, DoSweep(f)
    PROVE  KInv'
PROOF
<1>1. f \in Proc /\ prog[f] # <<>>
  BY DEF Proc, DoSweep, At
<1>2. <<INotify(OwnNames(f))>> \in Seq(Own(f))
  BY DEF OwnNames, INotify, Own, Instr, BaseInstr
<1>3. <<>> \in Seq(Own(f))
  OBVIOUS
<1>4. \E is \in Seq(Own(f)) : Go(f, is)
  BY <1>2, <1>3 DEF DoSweep
<1>5. ProgOK(prog', alive)
  BY <1>1, <1>4, GoOK DEF KInv
<1>6. services' \in [Name -> Fiber \cup {NoOne}] /\ hooks' \subseteq Event \X Fiber
  BY DEF KInv, TypeOK, DoSweep, Without, HooksWithout
<1>7. \A n \in Name : services'[n] \in {NoOne, services[n]}
  BY DEF DoSweep, Without
<1>8. \A h \in hooks' : h \in hooks
  BY DEF DoSweep, HooksWithout
<1> QED BY <1>5, <1>6, <1>7, <1>8, TableStep DEF DoSweep

\* The answer to a call.
LEMMA ReplyOK ==
    ASSUME KInv, NEW f \in Fiber, DoReply(f)
    PROVE  KInv'
PROOF
<1> DEFINE pr == [prog EXCEPT ![f] = Tail(@)]
<1>1. f \in Proc /\ prog[f] # <<>>
  BY DEF Proc, DoReply, At
<1>2. Tail(prog[f]) \in Seq(Own(f))
  BY <1>1, HeadTailProperties DEF KInv, ProgOK
<1>3. Tail(prog[f]) \in Seq(Instr)
  BY <1>2 DEF Own
<1>4. ProgOK(pr, alive)
  BY <1>1, <1>2, <1>3 DEF KInv, ProgOK
<1>5. ProgOK(prog', alive)
  BY <1>4, ResumeOK DEF DoReply
<1> QED BY <1>5, OnlyProg DEF DoReply

\* A fiber that ends or is killed: its EXIT covers what it owns.
LEMMA DeathRows ==
    ASSUME KInv, NEW f \in Fiber, alive' = alive \ {f}, kbox' = Append(kbox, KExit(f)),
           row' \subseteq row, deps' \subseteq deps, UNCHANGED <<parent, services, hooks>>
    PROVE  /\ kbox' \in Seq(KMessage)
           /\ Foreign = {} => NoOrphanRows'
PROOF
<1>1. KExit(f) \in KMessage
  BY DEF KExit, KMessage
<1>2. /\ kbox' \in Seq(KMessage)
      /\ \A i \in DOMAIN kbox : i \in DOMAIN kbox' /\ kbox'[i] = kbox[i]
      /\ \E i \in DOMAIN kbox' : kbox'[i] = KExit(f)
  BY <1>1, KPost DEF KInv
<1>3. Owners' \subseteq Owners
  BY DEF Owners
<1>4. \A g \in Owners' : Covered(alive, kbox, g) => Covered(alive', kbox', g)
  BY <1>2 DEF Covered
<1> QED BY <1>2, <1>3, <1>4, Orphans DEF KInv

\* Nobody runs the rest of a dead fiber.
LEMMA DeadProg ==
    ASSUME KInv, NEW f \in Fiber
    PROVE  ProgOK([prog EXCEPT ![f] = <<>>], alive \ {f})
PROOF
<1>1. <<>> \in Seq(Instr) /\ <<>> \in Seq(Own(f))
  OBVIOUS
<1>2. f \in Proc
  BY DEF Proc
<1> DEFINE pr == [prog EXCEPT ![f] = <<>>]
<1>3. pr \in [Proc -> Seq(Instr)]
  BY <1>1, <1>2 DEF KInv, ProgOK
<1>4. \A p \in Proc : pr[p] \in Seq(Own(p))
  BY <1>1, <1>2 DEF KInv, ProgOK
<1>5. \A g \in Fiber : pr[g] # <<>> => g \in alive \ {f}
  BY <1>2 DEF KInv, ProgOK, Proc
<1> QED BY <1>3, <1>4, <1>5 DEF ProgOK

\* teardown/2 with terminate/2.
LEMMA TeardownOK ==
    ASSUME KInv, NEW f \in Fiber, DoTeardown(f)
    PROVE  KInv'
PROOF
<1>1. ProgOK(prog', alive')
  BY DeadProg, ResumeOK DEF DoTeardown
<1>2. kbox' \in Seq(KMessage) /\ (Foreign = {} => NoOrphanRows')
  BY DeathRows DEF DoTeardown, DepsWithout
<1>3. Forget(box, f) \in [Fiber -> Seq(Message)]
  <2>1. MForget(f) \in Message
    BY DEF MForget, Message
  <2> QED BY <2>1, PostOK DEF Forget, KInv, TypeOK
<1>4. box' \in [Fiber -> Seq(Message)]
  <2>1. <<>> \in Seq(Message)
    OBVIOUS
  <2> QED BY <1>3, <2>1 DEF DoTeardown
<1>5. TypeOK'
  BY <1>1, <1>2, <1>4 DEF KInv, TypeOK, DoTeardown, DepsWithout, ProgOK
<1> QED BY <1>1, <1>2, <1>5 DEF KInv

\* exit(Fiber, kill).
LEMMA KillOK ==
    ASSUME KInv, NEW f \in Fiber, Kill(f)
    PROVE  KInv'
PROOF
<1>1. ProgOK(prog', alive')
  BY DeadProg DEF Kill
<1>2. kbox' \in Seq(KMessage) /\ (Foreign = {} => NoOrphanRows')
  BY DeathRows DEF Kill, tabs
<1>3. <<>> \in Seq(Message) /\ <<>> \in Seq(Disposer) /\ <<>> \in Seq(Effect)
  OBVIOUS
<1>4. box' \in [Fiber -> Seq(Message)] /\ ds' \in [Fiber -> Seq(Disposer)] /\ eff' \in [Fiber -> Seq(Effect)]
  BY <1>3 DEF Kill, KInv, TypeOK
<1>5. TypeOK'
  BY <1>1, <1>2, <1>4 DEF KInv, TypeOK, Kill, tabs, ProgOK
<1> QED BY <1>1, <1>2, <1>5 DEF KInv

\* The callbacks of a fiber at rest.
LEMMA HandleOK ==
    ASSUME KInv, NEW f \in Fiber, HandleMessage(f)
    PROVE  KInv'
PROOF
<1> DEFINE m == Head(box[f])
<1>1. f \in Proc /\ f \in alive /\ box[f] # <<>>
  BY DEF Proc, HandleMessage
<1>2. m \in Message /\ Tail(box[f]) \in Seq(Message)
  BY <1>1, HeadTailProperties DEF KInv, TypeOK
<1>3. /\ m.m \in {"effect", "drop"} => m.d \in Disposer
      /\ m.m \in {"effect", "drop", "status", "unmount", "restart"} => m.from \in Proc \cup {NoOne}
  BY <1>2 DEF Message
<1>4. box' \in [Fiber -> Seq(Message)]
  BY <1>2 DEF HandleMessage, KInv, TypeOK
<1>5. ds' \in [Fiber -> Seq(Disposer)]
  <2>1. \A d : KeyDelete(ds[f], d) \in Seq(Disposer)
    BY KeyDeleteOK DEF KInv, TypeOK
  <2>2. \A d \in Disposer : <<d>> \o ds[f] \in Seq(Disposer)
    BY ConcatProperties DEF KInv, TypeOK
  <2>3. UNCHANGED ds \/ \E x \in Seq(Disposer) : ds' = [ds EXCEPT ![f] = x]
    BY <1>3, <2>1, <2>2 DEF HandleMessage
  <2> QED BY <2>3 DEF KInv, TypeOK
<1>6. ProgOK(prog', alive)
  <2>1. ASSUME NEW is \in Seq(Own(f)), prog' = [prog EXCEPT ![f] = is]
        PROVE  ProgOK(prog', alive)
    <3>1. is \in Seq(Instr)
      BY DEF Own
    <3> QED BY <1>1, <2>1, <3>1 DEF KInv, ProgOK
  <2>2. UnloadProg \in Seq(Own(f)) /\ <<I("refresh")>> \in Seq(Own(f))
    BY DEF UnloadProg, I, Own, Instr, BaseInstr
  <2>3. m.m = "status" => <<I("refresh"), IReply(m.from)>> \in Seq(Own(f))
    BY <1>3 DEF IReply, I, Own, Instr, BaseInstr
  <2>4. m.m = "unmount" => <<ITeardown(m.from)>> \in Seq(Own(f))
    BY <1>3 DEF ITeardown, Own, Instr, BaseInstr
  <2>5. m.m = "restart" => <<I("pend"), I("refresh"), IReply(m.from)>> \in Seq(Own(f))
    BY <1>3 DEF IReply, I, Own, Instr, BaseInstr
  <2>6. /\ m.m = "unmount" => UnloadProg \o <<ITeardown(m.from)>> \in Seq(Own(f))
        /\ m.m = "restart" => UnloadProg \o <<I("pend"), I("refresh"), IReply(m.from)>> \in Seq(Own(f))
    BY <2>2, <2>4, <2>5, ConcatProperties
  <2>7. m.m = "drop" => /\ <<IDispose(m.d)>> \in Seq(Own(f)) /\ <<>> \in Seq(Own(f))
                        /\ <<IReply(m.from)>> \in Seq(Own(f))
    BY <1>3 DEF IDispose, IReply, Own, Instr, BaseInstr
  <2>8. m.m = "drop" => /\ <<IDispose(m.d)>> \o <<IReply(m.from)>> \in Seq(Own(f))
                        /\ <<>> \o <<IReply(m.from)>> \in Seq(Own(f))
    BY <2>7, ConcatProperties
  <2>9. CASE m.m = "effect" /\ prog' = Resume(prog, m.from)
    BY <2>9, ResumeOK DEF KInv
  <2>10. CASE UNCHANGED prog
    BY <2>10 DEF KInv
  <2>11. \/ \E is \in Seq(Own(f)) : prog' = [prog EXCEPT ![f] = is]
         \/ m.m = "effect" /\ prog' = Resume(prog, m.from)
         \/ UNCHANGED prog
    BY <2>2, <2>3, <2>6, <2>8 DEF HandleMessage
  <2> QED BY <2>1, <2>9, <2>10, <2>11
<1>7. Foreign = {} => NoOrphanRows'
  BY SameRows DEF KInv, HandleMessage
<1>8. TypeOK'
  BY <1>4, <1>5, <1>6 DEF KInv, TypeOK, HandleMessage, tabs, ProgOK
<1> QED BY <1>6, <1>7, <1>8 DEF KInv, HandleMessage

\* Rows belong to fibers.
LEMMA OwnersType ==
    ASSUME TypeOK
    PROVE  Owners \subseteq Fiber
PROOF
<1>1. \A h \in hooks : h[2] \in Fiber
  BY DEF TypeOK
<1>2. \A d \in deps : d[2] \in Fiber
  BY DEF TypeOK
<1>3. \A n \in Name : services[n] \in Fiber \cup {NoOne}
  BY DEF TypeOK
<1> QED BY <1>1, <1>2, <1>3 DEF Owners, TypeOK

\* The kernel takes a message that is not an EXIT: nobody loses cover.
LEMMA KTakeRows ==
    ASSUME KInv, kbox # <<>>, \A f \in Fiber : Head(kbox) # KExit(f), kbox' = Tail(kbox)
    PROVE  \A al : \A f \in Fiber : Covered(al, kbox, f) => Covered(al, kbox', f)
PROOF
<1>1. kbox \in Seq(KMessage)
  BY DEF KInv, TypeOK
<1> SUFFICES ASSUME NEW f \in Fiber, NEW i \in DOMAIN kbox, kbox[i] = KExit(f)
             PROVE  \E j \in DOMAIN kbox' : kbox'[j] = KExit(f)
  BY DEF Covered
<1>2. i # 1
  BY <1>1 
<1>3. i - 1 \in DOMAIN kbox' /\ kbox'[i - 1] = kbox[i]
  BY <1>1, <1>2, HeadTailProperties
<1> QED BY <1>3

\* handle_call({mount, ..}).
LEMMA KMountOK ==
    ASSUME KInv, KernelMount
    PROVE  KInv'
PROOF
<1> DEFINE m == Head(kbox)
           g == m.fiber
<1>1. kbox # <<>> /\ m.m = "mount" /\ kbox' = Tail(kbox)
  BY DEF KernelMount
<1>2. m \in KMessage /\ kbox' \in Seq(KMessage)
  BY <1>1, HeadTailProperties DEF KInv, TypeOK
<1>3. g \in Fiber /\ m.owner \in Fiber
  BY <1>1, <1>2 DEF KMessage
<1>4. ProgOK(prog', alive')
  <2> DEFINE pr == [prog EXCEPT ![g] = <<I("refresh")>>]
  <2>1. I("refresh") \in Own(g) /\ I("refresh") \in Instr /\ g \in Proc
    BY <1>3 DEF I, Own, Instr, BaseInstr, Proc
  <2>2. <<I("refresh")>> \in Seq(Own(g)) /\ <<I("refresh")>> \in Seq(Instr)
    BY <2>1
  <2>3. pr \in [Proc -> Seq(Instr)] /\ \A p \in Proc : pr[p] \in Seq(Own(p))
    BY <2>1, <2>2 DEF KInv, ProgOK
  <2>4. \A f \in Fiber : pr[f] # <<>> => f \in alive \cup {g}
    BY <2>1 DEF KInv, ProgOK, Proc
  <2>5. ProgOK(pr, alive \cup {g})
    BY <2>3, <2>4 DEF ProgOK
  <2> QED BY <2>5, ResumeOK DEF KernelMount
<1>5. Foreign = {} => NoOrphanRows'
  <2>1. Owners' \subseteq Owners \cup alive'
    BY DEF KernelMount, Owners
  <2>2. \A f \in Fiber : Head(kbox) # KExit(f)
    BY <1>1 DEF KExit
  <2>3. Owners' \subseteq Fiber
    BY <1>3, <2>1, OwnersType DEF KInv, TypeOK, KernelMount
  <2>4. \A f \in Owners' : Covered(alive, kbox, f) => Covered(alive', kbox', f)
    BY <1>1, <2>2, <2>3, KTakeRows DEF Covered, KernelMount
  <2> QED BY <2>1, <2>4, Orphans DEF KInv
<1>6. {<<n, g>> : n \in Inject[g]} \subseteq Name \X Fiber
  BY <1>3, KernelAssumption
<1>7. TypeOK'
  BY <1>2, <1>3, <1>4, <1>6 DEF KInv, TypeOK, KernelMount, fvars, ProgOK
<1> QED BY <1>4, <1>5, <1>7 DEF KInv

\* gen_server:cast of refresh.
LEMMA CastOK ==
    ASSUME NEW b \in [Fiber -> Seq(Message)], NEW fs
    PROVE  CastRefresh(b, fs) \in [Fiber -> Seq(Message)]
PROOF
<1>1. MRefresh \in Message
  BY DEF MRefresh, Message
<1>2. \A f \in Fiber : Append(b[f], MRefresh) \in Seq(Message)
  BY <1>1, AppendProperties
<1> QED BY <1>2 DEF CastRefresh

\* handle_call({notify, Names}).
LEMMA KNotifyOK ==
    ASSUME KInv, KernelNotify
    PROVE  KInv'
PROOF
<1> DEFINE m == Head(kbox)
<1>1. kbox # <<>> /\ m.m = "notify" /\ kbox' = Tail(kbox)
  BY DEF KernelNotify
<1>2. kbox' \in Seq(KMessage)
  BY <1>1, HeadTailProperties DEF KInv, TypeOK
<1>3. ProgOK(prog', alive')
  BY ResumeOK DEF KInv, KernelNotify
<1>4. box' \in [Fiber -> Seq(Message)]
  BY CastOK DEF KInv, TypeOK, KernelNotify
<1>5. Foreign = {} => NoOrphanRows'
  <2>1. Owners' = Owners
    BY DEF KernelNotify, Owners, tabs
  <2>2. \A f \in Fiber : Head(kbox) # KExit(f)
    BY <1>1 DEF KExit
  <2>3. Owners' \subseteq Fiber
    BY <2>1, OwnersType DEF KInv
  <2>4. \A f \in Owners' : Covered(alive, kbox, f) => Covered(alive', kbox', f)
    BY <1>1, <2>2, <2>3, KTakeRows DEF KernelNotify
  <2> QED BY <2>1, <2>4, Orphans DEF KInv
<1>6. TypeOK'
  BY <1>2, <1>3, <1>4 DEF KInv, TypeOK, KernelNotify, tabs, fvars, ProgOK
<1> QED BY <1>3, <1>5, <1>6 DEF KInv

\* handle_info({'EXIT', ..}): the rows go with the message that covered them.
LEMMA KExitOK ==
    ASSUME KInv, KernelExit
    PROVE  KInv'
PROOF
<1> DEFINE m == Head(kbox)
           f == m.fiber
           children == {g \in row \ {f} : parent[g] = f}
           cast == [g \in Fiber |->
                       IF g \in children \cap alive THEN Append(box[g], MCall("unmount", NoOne))
                       ELSE box[g]]
<1>1. kbox # <<>> /\ m.m = "EXIT" /\ kbox' = Tail(kbox)
  BY DEF KernelExit
<1>2. m \in KMessage /\ kbox \in Seq(KMessage) /\ kbox' \in Seq(KMessage)
  BY <1>1, HeadTailProperties DEF KInv, TypeOK
<1>3. f \in Fiber /\ m = KExit(f)
  BY <1>1, <1>2 DEF KMessage, KExit
<1>4. box' \in [Fiber -> Seq(Message)]
  <2>1. MCall("unmount", NoOne) \in Message
    BY DEF MCall, Message
  <2>2. cast \in [Fiber -> Seq(Message)]
    BY <2>1, AppendProperties DEF KInv, TypeOK
  <2> HIDE DEF cast
  <2>3. CastRefresh(cast, Dependents(OwnNames(f))) \in [Fiber -> Seq(Message)]
    BY <2>2, CastOK
  <2> QED BY <2>3 DEF KernelExit, cast
<1>5. Foreign = {} => NoOrphanRows'
  <2>1. Owners' \subseteq Owners
    BY DEF KernelExit, Owners, Without, HooksWithout, DepsWithout, tabs
  <2>2. f \notin Owners'
    BY <1>3, KernelAssumption DEF KernelExit, Owners, OwnNames, Without, HooksWithout, DepsWithout, KInv, TypeOK
  <2>3. ASSUME NEW g \in Owners', Covered(alive, kbox, g)
        PROVE  Covered(alive', kbox', g)
    <3>1. CASE g \in alive
      BY <3>1 DEF Covered, KernelExit
    <3>2. ASSUME NEW i \in DOMAIN kbox, kbox[i] = KExit(g)
          PROVE  Covered(alive', kbox', g)
      <4>1. g # f
        BY <2>2, <2>3
      <4>2. i # 1
        BY <1>2, <1>3, <3>2, <4>1 DEF KExit
      <4>3. i - 1 \in DOMAIN kbox' /\ kbox'[i - 1] = kbox[i]
        BY <1>1, <1>2, <4>2, HeadTailProperties
      <4> QED BY <3>2, <4>3 DEF Covered
    <3> QED BY <2>3, <3>1, <3>2 DEF Covered
  <2> QED BY <2>1, <2>3, Orphans DEF KInv
<1>6. services' \in [Name -> Fiber \cup {NoOne}]
  BY DEF KernelExit, Without, KInv, TypeOK
<1>7. TypeOK'
  BY <1>2, <1>4, <1>6 DEF KInv, TypeOK, KernelExit, HooksWithout, DepsWithout, fvars
<1>8. ProgOK(prog', alive')
  BY DEF KInv, KernelExit
<1> QED BY <1>5, <1>7, <1>8 DEF KInv

\* Client requests.
LEMMA RequestOK ==
    ASSUME KInv, NEW c \in Client, Request(c)
    PROVE  KInv'
PROOF
<1>1. c \in Proc /\ c \notin Fiber
  BY KernelAssumption DEF Proc
<1>2. ASSUME NEW i \in Own(c), prog' = [prog EXCEPT ![c] = <<i>>]
      PROVE  ProgOK(prog', alive)
  <2>1. <<i>> \in Seq(Own(c)) /\ <<i>> \in Seq(Instr)
    BY DEF Own
  <2> QED BY <1>1, <1>2, <2>1 DEF KInv, ProgOK
<1>3. \E i \in Own(c) : prog' = [prog EXCEPT ![c] = <<i>>]
  <2>1. ASSUME NEW f \in Hosts \cap born PROVE IMount(f) \in Own(c)
    BY KernelAssumption DEF IMount, Own, Instr, BaseInstr
  <2>2. ASSUME NEW f \in Fiber PROVE IUnmount(f) \in Own(c) /\ IRestart(f) \in Own(c)
    BY DEF IUnmount, IRestart, Own, Instr, BaseInstr
  <2>3. ASSUME NEW f \in Fiber, NEW n \in Foreign PROVE IProvide(n, f) \in Own(c)
    BY KernelAssumption DEF IProvide, Own, Instr, BaseInstr
  <2>4. ASSUME NEW f \in Fiber, NEW i \in DOMAIN ds[f] PROVE IDrop(f, ds[f][i]) \in Own(c)
    BY DEF IDrop, Own, Instr, BaseInstr, KInv, TypeOK
  <2> QED BY <2>1, <2>2, <2>3, <2>4 DEF Request
<1>4. ProgOK(prog', alive)
  BY <1>2, <1>3
<1>5. ops' \in Nat
  BY DEF Request, KInv, TypeOK
<1>6. Foreign = {} => NoOrphanRows'
  BY SameRows DEF KInv, Request
<1>7. TypeOK'
  BY <1>4, <1>5 DEF KInv, TypeOK, Request, tabs, fvars, ProgOK
<1> QED BY <1>4, <1>6, <1>7 DEF KInv, Request

\* The invariant holds when the kernel has started its root fiber.
LEMMA InitOK == Init => KInv
PROOF
<1> SUFFICES ASSUME Init PROVE KInv
  OBVIOUS
<1>1. [n \in {} |-> NoOne] \in Epoch /\ inactive \in Epoch
  BY DEF Epoch
<1>2. /\ <<>> \in Seq(Disposer) /\ <<>> \in Seq(Effect) /\ <<>> \in Seq(Message)
      /\ <<>> \in Seq(KMessage) /\ <<>> \in Seq(Instr) /\ \A p : <<>> \in Seq(Own(p))
  OBVIOUS
<1>3. TypeOK
  BY <1>1, <1>2, KernelAssumption DEF Init, TypeOK
<1>4. ProgOK(prog, alive)
  BY <1>2 DEF Init, ProgOK, Proc
<1>5. NoOrphanRows
  BY KernelAssumption DEF Init, NoOrphanRows, Owners
<1> QED BY <1>3, <1>4, <1>5 DEF KInv

\* Every step of the system keeps the invariant.
LEMMA NextKeeps == KInv /\ [Next]_vars => KInv'
PROOF
<1> SUFFICES ASSUME KInv, [Next]_vars PROVE KInv'
  OBVIOUS
<1>1. CASE KernelStep
  BY <1>1, KMountOK, KNotifyOK, KExitOK DEF KernelStep
<1>2. ASSUME NEW p \in Proc, ApiStep(p) PROVE KInv'
  BY <1>2, MountOK, AttachOK, CallsOK, NotifyOK, ProvideOK, OnOK DEF ApiStep
<1>3. ASSUME NEW f \in Fiber, FiberStep(f) PROVE KInv'
  BY <1>3, RefreshOK, LoadStepsOK, UndoOK, UnloadOK, DisposeOK, SweepOK, ReplyOK, TeardownOK, HandleOK
     DEF FiberStep
<1>4. ASSUME NEW f \in Fiber, Kill(f) PROVE KInv'
  BY <1>4, KillOK
<1>5. ASSUME NEW c \in Client, Request(c) PROVE KInv'
  BY <1>5, RequestOK
<1>6. CASE UNCHANGED vars
  <2>1. UNCHANGED <<alive, born, tabs, fvars, box, kbox, ops>> /\ prog' = prog
    BY <1>6 DEF vars
  <2> QED BY <2>1, OnlyProg DEF KInv
<1> QED BY <1>1, <1>2, <1>3, <1>4, <1>5, <1>6 DEF Next, Rest

\* Whatever is mounted, killed, reloaded or dropped, the tables, mailboxes and
\* callbacks of kernel/src/tenon.erl hold only what their types allow.
THEOREM TypeCorrect == Spec => []TypeOK
PROOF
<1>1. KInv => TypeOK
  BY DEF KInv
<1> QED BY InitOK, NextKeeps, <1>1, PTL DEF Spec

\* Invariant 5 of kernel/README.md for any kernel in which fibers register for
\* themselves: a row of a fiber that is gone is one whose EXIT the kernel has
\* not handled yet.
THEOREM KillLeavesNoRows == Foreign = {} => (Spec => []NoOrphanRows)
PROOF
<1> SUFFICES ASSUME Foreign = {} PROVE Spec => []NoOrphanRows
  OBVIOUS
<1>1. KInv => NoOrphanRows
  BY DEF KInv
<1> QED BY InitOK, NextKeeps, <1>1, PTL DEF Spec
=============================================================================
