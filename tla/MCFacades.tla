----------------------------- MODULE MCFacades -----------------------------
(***************************************************************************)
(* The services base offers on top of its store and its hub, for TLC: the  *)
(* key-value facade, timers, triggers, ingress routes, the limiter and the *)
(* runs of command-line agents, filters of subscriptions, and secrets.  A  *)
(* behaviour is one of one of them.                                        *)
(***************************************************************************)
EXTENDS Kv, Timers, Triggers, Ingress, CliAgent, Secrets

CONSTANTS
    Focuses,                     \* the components of a run
    ctr, k1, p1, p2, tick        \* keys and threads of the key-value facade

-----------------------------------------------------------------------------
(* Worlds of the key-value facade: calls, how many, leases, crashes, time. *)
Counting == KvWorld({Op("incr", ctr, TRUE), Op("cas", ctr, TRUE)}, 3, 0, 1, 1)
Rewritten == KvWorld({Set(k1, 1, FALSE, 0, FALSE), Op("del", k1, FALSE)}, 2, 0, 1, 1)
Fading == KvWorld({Set(k1, 1, FALSE, 1, FALSE), Op("expire", k1, FALSE)}, 2, 0, 0, 3)
FadingOnDisk == KvWorld({Set(k1, 1, TRUE, 1, FALSE)}, 2, 0, 0, 3)
Leased == KvWorld({Set(k1, 1, FALSE, 0, TRUE)}, 1, 2, 0, 4)
MCKvs == {Counting, Rewritten, Fading, FadingOnDisk, Leased}

-----------------------------------------------------------------------------
(* Worlds of the triggers: rules on disk, rules written, what is published. *)
Rule(i, e, a, t, k, o) == [id |-> i, env |-> e, admin |-> a, topic |-> t, kind |-> k, out |-> o]
InE(e) == [topic |-> "a", env |-> e]
LoopA == Rule("r", "e1", FALSE, "a", "publish", "b")
LoopB == Rule("s", "e1", FALSE, "b", "publish", "a")
Post  == Rule("q", "e1", FALSE, "a", "http_post", "")
Far   == Rule("r", "e2", TRUE, "a", "prompt", "e1")
Near  == Rule("q", "e2", FALSE, "a", "prompt", "e1")
MCTrigs ==
    {TrigWorld({LoopA, LoopB, Near}, {}, {InE("e1")}, <<0, 2>>, 1, 1),
     TrigWorld({Post}, {}, {InE("e1")}, <<0, 3>>, 1, 4),
     TrigWorld({LoopB}, {LoopA, Far, Near}, {InE("e1"), InE("e2")}, <<2, 1>>, 1, 1)}

-----------------------------------------------------------------------------
(* Where the apps of the ingress run, and the runs of an agent. *)
MCEnvOf == [a \in App |-> IF a = "a3" THEN "e2" ELSE "e1"]
CliRun(s, w, l, o) == [max_steps |-> s, wall |-> w, lines |-> l, only |-> o, closes |-> l # Chatty]
MCRuns == {CliRun(2, TRUE, 3, FALSE), CliRun(0, FALSE, 2, FALSE), CliRun(0, FALSE, 2, TRUE)}
\* An agent that does not pause, and closes its output when it exits.
ChattyRuns == {CliRun(0, TRUE, Chatty, FALSE)}

-----------------------------------------------------------------------------
(* Calls of bus.subscribe and envelopes: all patterns of up to three       *)
(* segments, alone, and some calls that narrow in other ways.              *)
UpTo3(S) == UNION {[1 .. n -> S] : n \in 1 .. 3}
Body(t, l, e, s) == [topics |-> t, levels |-> l, env |-> e, session |-> s]
MCBodies ==
    {Body({p}, {}, Anyone, Anyone) : p \in UpTo3({"session", "x", "*", "**"})}
    \cup {Body(t, l, e, s) : t \in {{}, {<<"x">>, <<"session", "**">>}}, l \in {{}, {"warn"}},
                            e \in {Anyone, "e1", "e2"}, s \in {Anyone, "s1"}}
Env(t, l, e, s) == [topic |-> t, level |-> l, env |-> e, session |-> s]
MCEnvelopes ==
    {Env(t, "info", e, Anyone) : t \in UpTo3({"session", "x"}), e \in {Anyone, "e1"}}
    \cup {Env(<<"session", "x">>, l, e, s) :
             l \in {"info", "warn"}, e \in {Anyone, "e1", "e2"}, s \in {Anyone, "s1"}}

\* What callers keep as secrets: two under one name, and one that is blocked.
Secret(n, v, l) == [name |-> n, value |-> v, leak |-> l]
MCSecrets ==
    {[sets |-> {Secret("api", "v1", "mask"), Secret("api", "v2", "block"), Secret("tok", "v3", "block")},
      calls |-> 3, fails |-> 1, crashes |-> 1]}

-----------------------------------------------------------------------------
otherVars == <<filterVars, secretVars>>
allVars == <<focus, kvVars, timerVars, trigVars, ingressVars, limitVars, cliVars, otherVars>>

\* A component outside the focus stays in one initial state of its own.
AtRest(f, world, worlds) == focus # f => world = CHOOSE w \in worlds : TRUE

Init ==
    /\ focus \in Focuses
    /\ KvInit /\ TimersInit /\ TriggersInit /\ IngressInit /\ RateInit /\ CliInit
    /\ FilterInit /\ SecretsInit
    /\ AtRest("kv", kv_left, KvWorlds) /\ AtRest("triggers", tworld, TrigWorlds)
    /\ AtRest("cli", cworld, CliWorlds)

Next ==
    /\ UNCHANGED focus
    /\ \/ /\ focus = "kv" /\ KvNext
          /\ UNCHANGED <<timerVars, trigVars, ingressVars, limitVars, cliVars, otherVars>>
       \/ /\ focus = "timers" /\ TimersNext
          /\ UNCHANGED <<kvVars, trigVars, ingressVars, limitVars, cliVars, otherVars>>
       \/ /\ focus = "triggers" /\ TriggersNext
          /\ UNCHANGED <<kvVars, timerVars, ingressVars, limitVars, cliVars, otherVars>>
       \/ /\ focus = "ingress" /\ IngressNext
          /\ UNCHANGED <<kvVars, timerVars, trigVars, limitVars, cliVars, otherVars>>
       \/ /\ focus = "rate" /\ RateNext
          /\ UNCHANGED <<kvVars, timerVars, trigVars, ingressVars, cliVars, otherVars>>
       \/ /\ focus = "cli" /\ CliNext
          /\ UNCHANGED <<kvVars, timerVars, trigVars, ingressVars, limitVars, otherVars>>
       \/ /\ focus = "filters" /\ FilterNext
          /\ UNCHANGED <<kvVars, timerVars, trigVars, ingressVars, limitVars, cliVars, secretVars>>
       \/ /\ focus = "secrets" /\ SecretsNext
          /\ UNCHANGED <<kvVars, timerVars, trigVars, ingressVars, limitVars, cliVars, filterVars>>

Spec ==
    /\ Init /\ [][Next]_allVars
    /\ KvFairness /\ TimersFairness /\ TriggersFairness
    /\ IngressFairness /\ RateFairness /\ CliFairness

=============================================================================
