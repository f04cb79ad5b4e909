---------------------------- MODULE MCSupervisor ----------------------------
(***************************************************************************)
(* Instances of the supervisor for TLC.  One run covers several worlds,    *)
(* each small in what the others are large in.                             *)
(***************************************************************************)
EXTENDS Supervisor

CONSTANTS guardian, root, kid, grandkid

Quiet == [mute |-> {}, named |-> {root}, requests |-> {}, failures |-> {},
          req |-> 0, death |-> 0, fail |-> 0]

\* Nodes that register, die, are reset and stopped and fail to start.
NodesWorld == [Quiet EXCEPT !.requests = {"reset", "stop"}, !.failures = {"spawn"},
                            !.req = 1, !.death = 1, !.fail = 1]

\* Kill switch, budget, reset and a destroyed sandbox against boots under way.
HaltWorld == [Quiet EXCEPT !.mute = {guardian}, !.failures = {"settings", "harness"},
                !.requests = {"kill", "resume", "spend", "reset", "destroy"},
                !.req = 2, !.fail = 1]

\* Children and grandchildren while nodes above them die and are reset.
TreeWorld == [Quiet EXCEPT !.mute = Env, !.named = Env \ {guardian},
                !.failures = {"spawn"}, !.requests = {"reset", "spawn", "stop_child"},
                !.req = 3, !.death = 2, !.fail = 1]

\* A node that keeps dying.
DeathWorld == [Quiet EXCEPT !.mute = Env, !.failures = {"spawn"}, !.requests = {"reset"},
                 !.req = 1, !.death = 3, !.fail = 1]

\* The kill switch turned on, off and on again.
SwitchWorld == [Quiet EXCEPT !.mute = {guardian}, !.requests = {"kill", "resume"}, !.req = 3]

Everything == {NodesWorld, HaltWorld, SwitchWorld, TreeWorld, DeathWorld}
Switch     == {SwitchWorld}
=============================================================================
