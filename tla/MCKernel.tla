------------------------------ MODULE MCKernel ------------------------------
(***************************************************************************)
(* Instances of Kernel: a provider "prov" and its stand-in "prov2" of one  *)
(* service, a dependent "dep" that registers a hook and mounts a child.    *)
(* A behaviour is one of one instance, chosen by `focus`: the kernel of    *)
(* the .cfg, or the kernel Prov below, where two clients bring two         *)
(* providers of the service and take them away.                            *)
(***************************************************************************)
EXTENDS Kernel, Focus

CONSTANTS root, prov, prov2, dep, kid, kid2, svc, ev, c1, c2, c3, Focuses

MCKids == [f \in Fiber |-> IF f = dep THEN {kid, kid2} \cap Fiber ELSE {}]
MCInject == [f \in Fiber |-> IF f = dep THEN Name ELSE {}]
MCScript == [f \in Fiber |->
    CASE f \in {prov, prov2} -> <<IProvide(svc, f)>>
      [] f = dep  -> (IF ev \in Event THEN <<IOn(ev, dep)>> ELSE <<>>) \o <<IMount(dep)>>
      [] f = kid2 -> IF ev \in Event THEN <<IOn(ev, kid2), IDrop(kid2, Hook(ev))>> ELSE <<>>
      [] OTHER    -> <<>>]

VARIABLES p_alive, p_born, p_row, p_parent, p_status, p_epoch, p_services, p_hooks,
          p_deps, p_ds, p_eff, p_box, p_kbox, p_prog, p_ops

ProvFiber == {root, prov, prov2, dep}
Prov == INSTANCE Kernel WITH
    Fiber <- ProvFiber, Client <- {c2, c3}, Event <- {},
    Hosts <- {root}, TopLevel <- {prov, prov2, dep}, Flaky <- {}, Returns <- {}, Killable <- {prov},
    CutRetract <- FALSE, Foreign <- {}, MaxOps <- 4,
    Kids <- [f \in ProvFiber |-> {}],
    Inject <- [f \in ProvFiber |-> IF f = dep THEN {svc} ELSE {}],
    Script <- [f \in ProvFiber |->
        IF f \in {prov, prov2} THEN <<IProvide(svc, f)>> ELSE <<>>],
    alive <- p_alive, born <- p_born, row <- p_row, parent <- p_parent, status <- p_status,
    epoch <- p_epoch, services <- p_services, hooks <- p_hooks, deps <- p_deps, ds <- p_ds,
    eff <- p_eff, box <- p_box, kbox <- p_kbox, prog <- p_prog, ops <- p_ops

\* The clients of Prov may change places.
ClientsAlike == Permutations({c2, c3})

provVars == <<p_alive, p_born, p_row, p_parent, p_status, p_epoch, p_services, p_hooks,
              p_deps, p_ds, p_eff, p_box, p_kbox, p_prog, p_ops>>

-----------------------------------------------------------------------------
MCInit == focus \in Focuses /\ Init /\ Prov!Init

MCNext ==
    /\ UNCHANGED focus
    /\ \/ focus = "lifecycle" /\ Next /\ UNCHANGED provVars
       \/ focus = "providers" /\ Prov!Next /\ UNCHANGED vars

MCSpec == MCInit /\ [][MCNext]_<<focus, vars, provVars>>

\* SettledEpoch of both kernels: whatever comes, goes and is replaced, a fiber
\* at rest runs under the providers there are (refresh/1, notify/2).
EpochsSettle == SettledEpoch /\ Prov!SettledEpoch

\* LostOnlyByOwner of both kernels: no disposer, drop or EXIT sweep deletes the
\* service of another fiber that lives (install/3, sweep/2).
ServicesAreKept == LostOnlyByOwner /\ Prov!LostOnlyByOwner
=============================================================================
