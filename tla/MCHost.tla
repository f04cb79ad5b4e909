------------------------------- MODULE MCHost -------------------------------
(***************************************************************************)
(* The host side for TLC: the home and its commands, the front door of     *)
(* base, the upgrade drivers, and a node's loader and link.  The           *)
(* components do not share state: a behaviour is one of one component,     *)
(* chosen by `focus`, with the others at rest in an initial state.         *)
(***************************************************************************)
EXTENDS BaseHome, FrontDoor, Upgrade, Loader, NodeLink

CONSTANT Focuses        \* the components of a run

-----------------------------------------------------------------------------
(* Worlds of the home. *)
QuietHome(d, o, t) ==
    [daemon |-> d, fore |-> o, tools |-> t, alone |-> TRUE, force |-> FALSE, kills |-> 1,
     signals |-> 0, stops |-> 0, edits |-> 0, rots |-> 0, lates |-> 0,
     fails |-> 0]
One == CHOOSE s \in Starter : TRUE

\* Two daemons start at once, one is killed or runs out of time.
TwoDaemons == [QuietHome(Starter, {}, <<>>) EXCEPT !.lates = 1]
\* A daemon and a foreground start, a signal and a `stop` frame.
StopsAtBoot == [QuietHome({One}, Starter \ {One}, <<>>) EXCEPT !.kills = 0, !.signals = 1, !.stops = 1]
\* Two bases in turn, an edit between their promotions, a kill, a copy that
\* fails, a rollback.
HalfPromoted == [QuietHome({}, Starter, <<"rollback">>) EXCEPT !.edits = 1, !.fails = 1]
\* A spoiled state file.
Spoiled == [QuietHome({}, {One}, <<"rollback">>) EXCEPT !.edits = 1, !.stops = 1, !.rots = 1]
\* Two backups into one directory, the second killed or not, a restore, and a
\* rollback of what it left.
TwoBackups == [QuietHome({}, {One}, <<"backup", "backup", "restore", "rollback">>) EXCEPT !.edits = 1]
\* Any rollback, `--force` too.
Forced == [QuietHome({}, {One}, <<"rollback">>) EXCEPT !.force = TRUE, !.edits = 1]
\* The same, while the base may be starting.
Hurried == [QuietHome({}, {One}, <<"rollback">>) EXCEPT !.alone = FALSE, !.edits = 1]

QuietHomes == {TwoDaemons, StopsAtBoot, HalfPromoted, Spoiled, TwoBackups, Forced}
HurriedHomes == {Hurried}

-----------------------------------------------------------------------------
(* Worlds of the front door: what a client asks, and what goes wrong. *)
R(m, e) == [m |-> m, env |-> e]
DoorWorld(w, p, d, h, x) == [wants |-> w, patient |-> p, drops |-> d, hangs |-> h, detach |-> x]
MCDoors ==
    {DoorWorld(<<R("auth.scope", "e1"), R("svc", "e1"), R("kv.set", "root")>>, TRUE, 0, FALSE, FALSE),
     DoorWorld(<<R("auth.scope", "e1"), R("query.text", "root"), R("kill", NoEnv)>>, TRUE, 0, FALSE, FALSE),
     DoorWorld(<<R("svc", NoEnv), R("session.prompt", NoEnv), R("status", NoEnv)>>, FALSE, 0, TRUE, FALSE),
     DoorWorld(<<R("runtime.register", NoEnv), R("events.append", NoEnv)>>, FALSE, 1, TRUE, FALSE),
     DoorWorld(<<R("auth.scope", "e1"), R("config.patch", "e1"), R("approval.request", "e1")>>, TRUE, 0, FALSE, FALSE),
     DoorWorld(<<R("status", NoEnv), R("status", NoEnv), R("stop", NoEnv)>>, FALSE, 1, FALSE, FALSE),
     DoorWorld(<<R("bus.subscribe", NoEnv), R("svc", NoEnv)>>, TRUE, 1, FALSE, TRUE)}

-----------------------------------------------------------------------------
(* Worlds of the upgrades: the targets of two proposals, the tier, who dies. *)
UpWorld(a, b, t, d) ==
    [target |-> [u \in Proposal |-> IF u = "u1" THEN a ELSE b], tier |-> t, mortal |-> d,
     selfcheck |-> {"u1"}]
MCUpgrades ==
    {UpWorld("plugin", "plugin", "auto", {}), UpWorld("worker", "plugin", "ask", {}),
     UpWorld("kernel", "config", "auto", {"old"})}

-----------------------------------------------------------------------------
(* Worlds of the loader: versions of the layers and of the registry. *)
Row(i, n, p, d, c) ==
    [id |-> i, name |-> n, group |-> FALSE, disabled |-> d, config |-> c, parent |-> p]
Group(i, p, d) ==
    [id |-> i, name |-> "group", group |-> TRUE, disabled |-> d, config |-> "", parent |-> p]
Ins(i, rows) == [op |-> "insert", id |-> i, rows |-> rows]
Ovr(i, n, k, v) == [op |-> "override", id |-> i, name |-> n, key |-> k, value |-> v]
Layers(ps) ==
    [patches |-> ps, registry |-> [mod |-> [kind |-> "module", body |-> "m"],
                                   ext |-> [kind |-> "external", body |-> "1"]]]
Versions(fs, r, t, n) ==
    [files |-> fs, restart |-> r, unsure |-> FALSE, takes |-> t, reloads |-> n]

BaseRows == Ins("", <<Group("g", "", "no"), Row("a", "mod", "g", "no", "1"), Row("b", "ext", "", "no", "1")>>)
More == Ins("g", <<Group("h", "", "no"), Row("c", "mod", "h", "no", "1")>>)

\* Rows added, overridden, disabled and regrouped.
Grow == Versions(
    <<Layers(<<BaseRows>>),
      Layers(<<BaseRows, More, Ovr("b", "ext", "config", "2"), Ovr("a", "other", "config", "9")>>),
      Layers(<<BaseRows, More, Ins("a", <<Row("x", "mod", "", "no", "1")>>), Ovr("g", "", "disabled", "yes")>>),
      Layers(<<Ins("", <<Row("b", "ext", "", "no", "1"), Group("g", "", "no"),
                         Row("a", "mod", "", "no", "2")>>)>>)>>, FALSE, 1, 3)

\* Rows of the other runtime, unresolved names, dynamic values.
Bridged == [Versions(
    <<Layers(<<Ins("", <<Group("g", "", "no"), Row("d", "dsh", "g", "no", "1"),
                         Row("n", "nope", "", "no", "1"), Row("j", "mod", "", "js", "1"),
                         Row("k", "ext", "", "no", "js")>>)>>),
      Layers(<<Ins("", <<Group("g", "", "yes"), Row("d", "dsh", "g", "no", "1"),
                         Row("e", "dsh", "", "no", "1"), Row("k", "ext", "", "no", "js")>>)>>),
      Layers(<<Ins("", <<Group("g", "", "js"), Row("d", "dsh", "g", "no", "1"),
                         Row("k", "ext", "", "js", "1")>>)>>)>>, TRUE, 1, 3) EXCEPT !.unsure = TRUE]

\* A group below a new group, a row of another kind.
Nested == Versions(
    <<Layers(<<BaseRows>>),
      Layers(<<Ins("", <<Group("h", "", "no"), Group("g", "h", "no"), Row("a", "mod", "g", "no", "1"),
                         Row("b", "mod", "", "no", "1")>>)>>)>>, FALSE, 0, 2)

\* A row leaves a group that moves later in the walk, and goes in the end.
Leaving == Versions(
    <<Layers(<<Ins("", <<Group("h", "", "no"), Group("g", "h", "no"), Row("a", "mod", "g", "no", "1"),
                         Row("b", "ext", "g", "no", "1")>>)>>),
      Layers(<<Ins("", <<Row("a", "mod", "", "no", "1"), Group("h", "", "no"), Group("g", "", "no"),
                         Row("b", "ext", "g", "no", "2")>>)>>),
      Layers(<<Ins("", <<Group("g", "", "no"), Row("b", "ext", "g", "no", "2")>>)>>)>>, FALSE, 1, 3)

\* An id that two rows have, for a while.
Twins == Versions(
    <<Layers(<<Ins("", <<Row("a", "mod", "", "no", "1"), Row("b", "ext", "", "no", "1"),
                         Row("a", "ext", "", "no", "2")>>)>>),
      Layers(<<Ins("", <<Row("a", "mod", "", "no", "1"), Row("b", "ext", "", "no", "1")>>)>>),
      Layers(<<Ins("", <<Row("b", "ext", "", "no", "1"), Row("a", "ext", "", "no", "2")>>)>>)>>, FALSE, 0, 3)

MCTrees == <<Grow, Bridged, Nested, Leaving, Twins>>
-----------------------------------------------------------------------------
(* Worlds of the link and the guardian. *)
LinkWorld(a, c, l, b, p) ==
    [asks |-> a, core |-> c, loads |-> l, broken |-> b, drops |-> 0, dies |-> 0, faults |-> 0,
     lates |-> 0, passes |-> p]
MCLinks ==
    {LinkWorld({"reload", "health"}, <<"env">>, TRUE, FALSE, 1),
     LinkWorld({"reload", "svc"}, <<"extra">>, FALSE, TRUE, 2),
     [LinkWorld({}, <<"base", "worker", "harness", "budgets", "env">>, FALSE, FALSE, -1) EXCEPT !.dies = 1],
     [LinkWorld({"plugin"}, <<"violations">>, FALSE, FALSE, 2) EXCEPT !.drops = 1, !.faults = 1],
     [LinkWorld({}, <<"env", "tree">>, FALSE, FALSE, 2) EXCEPT !.lates = 2]}

-----------------------------------------------------------------------------
allVars == <<focus, homeVars, doorVars, upVars, loaderVars, linkVars>>

\* A component outside the focus stays in one initial state of its own.
AtRest(f, world, worlds) == focus # f => world = CHOOSE w \in worlds : TRUE

Init ==
    /\ focus \in Focuses
    /\ HomeInit /\ DoorInit /\ UpInit /\ LoaderInit /\ LinkInit
    /\ AtRest("home", hw, HomeWorlds) /\ AtRest("door", dworld, DoorWorlds)
    /\ AtRest("upgrade", uworld, UpgradeWorlds) /\ AtRest("loader", loader, DOMAIN LoaderWorlds)
    /\ AtRest("link", linked, LinkWorlds)

Next ==
    /\ UNCHANGED focus
    /\ \/ focus = "home" /\ HomeNext /\ UNCHANGED <<doorVars, upVars, loaderVars, linkVars>>
       \/ focus = "door" /\ DoorNext /\ UNCHANGED <<homeVars, upVars, loaderVars, linkVars>>
       \/ focus = "upgrade" /\ UpNext /\ UNCHANGED <<homeVars, doorVars, loaderVars, linkVars>>
       \/ focus = "loader" /\ LoaderNext /\ UNCHANGED <<homeVars, doorVars, upVars, linkVars>>
       \/ focus = "link" /\ LinkNext /\ UNCHANGED <<homeVars, doorVars, upVars, loaderVars>>

Spec ==
    /\ Init /\ [][Next]_allVars
    /\ HomeFairness /\ DoorFairness
    /\ UpFairness /\ LoaderFairness
    /\ LinkFairness

=============================================================================
