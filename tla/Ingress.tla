------------------------------- MODULE Ingress -------------------------------
(***************************************************************************)
(* Ingress routes of base (rs/base/src/ingress.rs): an app in a sandbox    *)
(* registers a host-wide name, possibly after a human agreed; the route is *)
(* an ephemeral kv key bound to a lease.  A loop probes every route of a   *)
(* snapshot, renews the leases of those that answer and drops those that   *)
(* miss twice; kv's sweep drops the rest when their lease ends.            *)
(***************************************************************************)
EXTENDS Integers, Sequences, FiniteSets, Focus

CONSTANTS
  App, RouteName,
  EnvOf,          \* App -> the env whose sandbox it runs in
  max_total, max_per_env, PROBE_MISSES,
  LEASE,          \* lease_ttl_ms, in rounds of the loop
  IngressGated,   \* is ingress.register a gated tool?
  MaxRegister, MaxSlow, MaxDeaths    \* bounds

\* A lease outlives a round of the loop (the defaults are 15 s and 1 s).
ASSUME IngressAssumption ==
  /\ IsFiniteSet(RouteName) /\ max_total \in Nat /\ max_per_env \in Nat
  /\ PROBE_MISSES \in Nat /\ LEASE \in Nat /\ LEASE > 1

VARIABLES
  route,     \* RouteName -> [app, lease], lease 0 is no route
  left,      \* what each lease granted so far still has; 0 is over
  alive,     \* App -> does it answer?
  asks,      \* registrations that wait for a human
  round,     \* the loop: its snapshot, and is a round due?
  misses,    \* RouteName -> probes missed in a row
  strikes,   \* for each lease, its own probes missed in a row, see Strikes
  wronged,   \* names whose route went although its app answered
  slow, deaths

ingressVars == <<route, left, alive, asks, round, misses, strikes, wronged, slow, deaths>>

NoApp == "none"
NoRoute == [app |-> NoApp, lease |-> 0]
Routed == {n \in RouteName : route[n] # NoRoute}
Owner(n) == EnvOf[route[n].app]

IngressInit ==
  /\ route = [n \in RouteName |-> NoRoute] /\ left = <<>> /\ alive = [a \in App |-> TRUE]
  /\ asks = {} /\ round = [due |-> FALSE, todo |-> {}] /\ misses = [n \in RouteName |-> 0]
  /\ strikes = <<>> /\ wronged = {} /\ slow = 0 /\ deaths = 0

\* ingress_check(): an app that is connected; its own name again, or a free one
\* inside both quotas.
IngressCheck(a, n) ==
  /\ alive[a]
  /\ IF n \in Routed THEN Owner(n) = EnvOf[a]
     ELSE /\ Cardinality(Routed) < max_total
          /\ Cardinality({m \in Routed : Owner(m) = EnvOf[a]}) < max_per_env

\* What counts against a route from the start: the loop counts by name, so that a
\* route registered while misses of that name stand, or while a probe of an
\* earlier route of that name is out, may go with the verdict on that one.
Strikes(n) ==
  IF misses[n] > 0 \/ \E e \in round.todo : e.name = n THEN PROBE_MISSES ELSE 0

\* ingress_commit(): a new lease and the key bound to it.
IngressCommit(a, n) ==
  /\ left' = Append(left, LEASE) /\ strikes' = Append(strikes, Strikes(n))
  /\ route' = [route EXCEPT ![n] = [app |-> a, lease |-> Len(left) + 1]]

\* ingress_register(): at once, or after a human.
Register(a, n) ==
  /\ Len(left) + Cardinality(asks) < MaxRegister /\ IngressCheck(a, n)
  /\ IF IngressGated THEN asks' = asks \cup {<<a, n>>} /\ UNCHANGED <<left, route, strikes>>
     ELSE IngressCommit(a, n) /\ UNCHANGED asks
  /\ UNCHANGED <<alive, round, misses, wronged, slow, deaths>>

\* Mutant: what was checked before the human was asked is not checked again.
RegisterApprovedUnchecked(a, n) ==
  /\ <<a, n>> \in asks /\ asks' = asks \ {<<a, n>>}
  /\ IngressCommit(a, n)
  /\ UNCHANGED <<alive, round, misses, wronged, slow, deaths>>

\* The approved registration is sent again, and checked again.
RegisterApproved(a, n) ==
  /\ <<a, n>> \in asks /\ asks' = asks \ {<<a, n>>}
  /\ IF IngressCheck(a, n) THEN IngressCommit(a, n) ELSE UNCHANGED <<left, route, strikes>>
  /\ UNCHANGED <<alive, round, misses, wronged, slow, deaths>>

RegisterDenied(a, n) ==
  /\ <<a, n>> \in asks /\ asks' = asks \ {<<a, n>>}
  /\ UNCHANGED <<route, left, alive, round, misses, strikes, wronged, slow, deaths>>

\* ingress_drop(): any app of the owning env.
Unregister(a, n) ==
  /\ alive[a] /\ n \in Routed /\ Owner(n) = EnvOf[a]
  /\ route' = [route EXCEPT ![n] = NoRoute]
  /\ UNCHANGED <<left, alive, asks, round, misses, strikes, wronged, slow, deaths>>

AppDies(a) ==
  /\ alive[a] /\ deaths < MaxDeaths /\ deaths' = deaths + 1
  /\ alive' = [alive EXCEPT ![a] = FALSE]
  /\ UNCHANGED <<route, left, asks, round, misses, strikes, wronged, slow>>

AppReturns(a) ==
  /\ ~alive[a] /\ alive' = [alive EXCEPT ![a] = TRUE]
  /\ UNCHANGED <<route, left, asks, round, misses, strikes, wronged, slow, deaths>>

\* A round begins: a copy of the routes, and the misses of names that are gone
\* are forgotten.
RoundBegins ==
  /\ round.due
  /\ round' = [due |-> FALSE,
               todo |-> {[name |-> n, app |-> route[n].app, lease |-> route[n].lease] : n \in Routed}]
  /\ misses' = [n \in RouteName |-> IF n \in Routed THEN misses[n] ELSE 0]
  /\ UNCHANGED <<route, left, alive, asks, strikes, wronged, slow, deaths>>

\* The app at the address of the copy answers: keep_alive() of the copy's lease.
ProbeAnswers(e) ==
  /\ alive[e.app]
  /\ misses' = [misses EXCEPT ![e.name] = 0]
  /\ left' = [left EXCEPT ![e.lease] = IF @ = 0 THEN 0 ELSE LEASE]
  /\ strikes' = [strikes EXCEPT ![e.lease] = 0]
  /\ round' = [round EXCEPT !.todo = @ \ {e}]
  /\ UNCHANGED <<route, alive, asks, wronged, slow, deaths>>

\* It does not, being dead or slow: at the second miss whatever route now has
\* the name goes.
ProbeMisses(e) ==
  LET n == e.name  last == misses[n] + 1 >= PROBE_MISSES IN
  /\ alive[e.app] => slow < MaxSlow
  /\ slow' = IF alive[e.app] THEN slow + 1 ELSE slow
  /\ misses' = [misses EXCEPT ![n] = IF last THEN 0 ELSE @ + 1]
  /\ route' = IF last THEN [route EXCEPT ![n] = NoRoute] ELSE route
  /\ strikes' = [strikes EXCEPT ![e.lease] = @ + 1]
  /\ wronged' = IF last /\ n \in Routed /\ strikes'[route[n].lease] < PROBE_MISSES
                THEN wronged \cup {n} ELSE wronged
  /\ round' = [round EXCEPT !.todo = @ \ {e}]
  /\ UNCHANGED <<left, alive, asks, deaths>>

\* A round's time passes: leases run, and the next round is due.
RoundPasses ==
  /\ ~round.due /\ round.todo = {} /\ Len(left) > 0
  /\ round' = [round EXCEPT !.due = TRUE]
  /\ left' = [l \in 1 .. Len(left) |-> IF left[l] > 0 THEN left[l] - 1 ELSE 0]
  /\ UNCHANGED <<route, alive, asks, misses, strikes, wronged, slow, deaths>>

\* kv's sweep: the keys of a lease that has ended.
RouteExpires(n) ==
  /\ n \in Routed /\ left[route[n].lease] = 0
  /\ route' = [route EXCEPT ![n] = NoRoute]
  /\ wronged' = IF alive[route[n].app] /\ deaths = 0 /\ slow = 0 THEN wronged \cup {n} ELSE wronged
  /\ UNCHANGED <<left, alive, asks, round, misses, strikes, slow, deaths>>

ProbeStep == RoundBegins \/ \E e \in round.todo : ProbeAnswers(e) \/ ProbeMisses(e)
ExpiryStep == \E n \in RouteName : RouteExpires(n)

IngressNext ==
  \/ \E a \in App, n \in RouteName :
       Register(a, n) \/ RegisterApproved(a, n) \/ RegisterDenied(a, n) \/ Unregister(a, n)
  \/ (\E a \in App : AppDies(a) \/ AppReturns(a))
  \/ ProbeStep \/ RoundPasses \/ ExpiryStep

IngressSpec == IngressInit /\ [][IngressNext]_ingressVars

\* The loop and kv's sweep run, and time passes.
IngressFairness ==
  /\ WF_ingressVars(focus = "ingress" /\ ProbeStep)
  /\ WF_ingressVars(focus = "ingress" /\ RoundPasses)
  /\ WF_ingressVars(focus = "ingress" /\ ExpiryStep)

---------------------------------------------------------------------------
(* Properties.                                                             *)

\* No schedule of registrations, approvals and expiries takes the host or an
\* env past its quota.
QuotasHold ==
  /\ Cardinality(Routed) <= max_total
  /\ \A a \in App : Cardinality({n \in Routed : Owner(n) = EnvOf[a]}) <= max_per_env

\* A route goes by probes only when PROBE_MISSES of its own missed in a row, or
\* when it was registered while a verdict on an earlier route of that name was
\* under way; and its lease never ends while every probe is answered.
LiveRoutesStay == wronged = {}

\* Routes stay within the quotas, stay while their app lives, and a name never
\* goes from one env to another without having been free, whenever the approval
\* of a register comes (ingress_register, ingress_commit, spawn_liveness).
RoutesAreKept ==
  /\ [](QuotasHold /\ LiveRoutesStay)
  /\ [][\A n \in RouteName :
         n \in Routed /\ route'[n] # NoRoute => EnvOf[route'[n].app] = Owner(n)]_ingressVars

\* A route whose app stays dead goes.
DeadRoutesGo ==
  <>[](\A n \in Routed : alive[route[n].app])
=============================================================================
