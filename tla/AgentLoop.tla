------------------------------ MODULE AgentLoop ------------------------------
(***************************************************************************)
(* The agent loop of a harness (rs/harness/src/agent.rs over llm.rs and    *)
(* api.rs), one session: prompts are queued and answered at once, a pump   *)
(* task runs one turn per prompt, a turn is a series of model calls and    *)
(* tool calls, and every event is appended to base's log over a lane that  *)
(* retries.  A restarted harness rebuilds the context from that log.       *)
(***************************************************************************)
EXTENDS Integers, Sequences, SequencesExt, FiniteSets, Focus

CONSTANTS
  Prompt,            \* prompts clients send
  max_steps,         \* model calls of a turn
  retry_attempts,    \* tries of a model call
  LoopWorlds         \* [crashes, resumes, lapses, vetoes, calls]: how often at most, do hooks
                     \* veto, and how many tool calls may a reply ask for?

ASSUME LoopAssumption == \A w \in LoopWorlds : w.calls \in Nat

VARIABLES
  messages,    \* the context: [role, of, owes]
  events,      \* the session's rows in base's log, the ones resume() reads
  queue, running,
  calls,       \* Prompt -> how far its session.prompt has got
  pump,        \* Prompt -> the pump task that prompt started
  known,       \* does the harness have the session?
  pushed,      \* prompts in the order they were queued, this life
  served,      \* prompts in the order their turns began, this life
  replayed,    \* was the context ever rebuilt?
  resume,      \* what session.resume has read of the log and not put in place yet
  lapsed,      \* appends that were lost or doubled
  lworld

loopVars == <<messages, events, queue, running, calls, pump, known, pushed, served, replayed,
              resume, lapsed, lworld>>

\* A message, and how many tool results a model expects after it: a reply owes one
\* for each of its calls, and each result one less.
Msg(role, of, owes) == [role |-> role, of |-> of, owes |-> owes]
NoPump == [at |-> "none", turn |-> "none", step |-> 0, try |-> 0, left |-> 0]
Active == {p \in Prompt : pump[p].at # "none"}
Goto(p, at) == pump' = [pump EXCEPT ![p].at = at]

LoopInit ==
  /\ messages = <<>> /\ events = <<>> /\ queue = <<>> /\ running = FALSE
  /\ calls = [p \in Prompt |-> "no"] /\ pump = [p \in Prompt |-> NoPump] /\ known = TRUE
  /\ pushed = <<>> /\ served = <<>> /\ replayed = FALSE /\ resume = {} /\ lapsed = 0 /\ lworld \in LoopWorlds

\* Api::talk(): one append; when the answer is lost it is sent again, and when
\* base cannot be reached or does not answer in time there is no row.
Talk(e) ==
  \/ events' = Append(events, e) /\ UNCHANGED lapsed
  \/ /\ lapsed < lworld.lapses /\ lapsed' = lapsed + 1
     /\ \/ UNCHANGED events
        \/ events' = events \o <<e, e>>

\* event(): the loop goes on whatever comes of it.
Log(e) == Talk(e)

\* Mutant: a prompt starts a pump whenever the queue was empty.
EnqueuePushIfEmpty(p) ==
  /\ calls[p] = "no" /\ known
  /\ queue' = Append(queue, p) /\ running' = TRUE /\ pushed' = Append(pushed, p)
  /\ calls' = [calls EXCEPT ![p] = IF queue = <<>> THEN "first" ELSE "queued"]
  /\ UNCHANGED <<messages, events, pump, known, served, replayed, resume, lapsed, lworld>>

\* enqueue(): into the queue; the first one is to start the pump, ...
EnqueuePush(p) ==
  /\ calls[p] = "no" /\ known
  /\ queue' = Append(queue, p) /\ running' = TRUE /\ pushed' = Append(pushed, p)
  /\ calls' = [calls EXCEPT ![p] = IF running THEN "queued" ELSE "first"]
  /\ UNCHANGED <<messages, events, pump, known, served, replayed, resume, lapsed, lworld>>

\* ... but logs its message before.
EnqueueLog(p) ==
  /\ calls[p] \in {"first", "queued"}
  /\ Log(Msg("user", p, 0))
  /\ calls' = [calls EXCEPT ![p] = "done"]
  /\ pump' = IF calls[p] = "first" THEN [pump EXCEPT ![p].at = "pop"] ELSE pump
  /\ UNCHANGED <<messages, queue, running, known, pushed, served, replayed, resume, lworld>>

\* pump(): the next prompt, or nothing more to run.
PumpPop(p) ==
  /\ pump[p].at = "pop"
  /\ IF queue = <<>> THEN /\ running' = FALSE /\ pump' = [pump EXCEPT ![p] = NoPump]
                          /\ UNCHANGED <<queue, served>>
     ELSE /\ queue' = Tail(queue) /\ served' = Append(served, Head(queue))
          /\ pump' = [pump EXCEPT ![p] = [NoPump EXCEPT !.at = "begin", !.turn = Head(queue)]]
          /\ UNCHANGED running
  /\ UNCHANGED <<messages, events, calls, known, pushed, replayed, resume, lapsed, lworld>>

\* turn() begins.
TurnBegin(p) ==
  /\ pump[p].at = "begin"
  /\ messages' = Append(messages, Msg("user", pump[p].turn, 0))
  /\ pump' = [pump EXCEPT ![p].at = "model", ![p].step = 1]
  /\ UNCHANGED <<events, queue, running, calls, known, pushed, served, replayed, resume, lapsed, lworld>>

\* step(): the model answers, with tool calls or without; the message goes into
\* the context before it goes into the log.
RoleOf(n) == IF n = 0 THEN "answer" ELSE "call"
ModelReplies(p, n) ==
  /\ pump[p].at = "model"
  /\ messages' = Append(messages, Msg(RoleOf(n), pump[p].turn, n))
  /\ pump' = [pump EXCEPT ![p].at = RoleOf(n), ![p].try = 0, ![p].left = n]
  /\ UNCHANGED <<events, queue, running, calls, known, pushed, served, replayed, resume, lapsed, lworld>>

\* chat(): a timeout, a 429 or a 5xx is tried again, anything else and the last
\* try fail the turn.
ModelFails(p) ==
  /\ pump[p].at = "model"
  /\ pump' = [pump EXCEPT ![p].try = @ + 1,
                          ![p].at = IF pump[p].try + 1 < retry_attempts THEN "model" ELSE "end"]
  /\ UNCHANGED <<messages, events, queue, running, calls, known, pushed, served, replayed, resume,
                 lapsed, lworld>>
ModelRefuses(p) ==
  /\ pump[p].at = "model" /\ Goto(p, "end")
  /\ UNCHANGED <<messages, events, queue, running, calls, known, pushed, served, replayed, resume,
                 lapsed, lworld>>

LogReply(p) ==
  /\ pump[p].at \in {"call", "answer"}
  /\ Log(Msg(pump[p].at, pump[p].turn, pump[p].left))
  /\ Goto(p, IF pump[p].at = "call" THEN "tool" ELSE "stopping")
  /\ UNCHANGED <<messages, queue, running, calls, known, pushed, served, replayed, resume, lworld>>

\* tool(): whatever comes of it, the result goes into the log first, ...
ToolDone(p) ==
  /\ pump[p].at = "tool"
  /\ Log(Msg("result", pump[p].turn, pump[p].left - 1)) /\ Goto(p, "result")
  /\ UNCHANGED <<messages, queue, running, calls, known, pushed, served, replayed, resume, lworld>>

\* The next step, or the last one is over.
Stepped(f, p) ==
  [f EXCEPT ![p].step = @ + 1, ![p].at = IF f[p].step < max_steps THEN "model" ELSE "end"]

\* ... then into the context; the calls of a reply are run one after the other.
ToolPush(p) ==
  /\ pump[p].at = "result"
  /\ messages' = Append(messages, Msg("result", pump[p].turn, pump[p].left - 1))
  /\ LET less == [pump EXCEPT ![p].left = @ - 1]
     IN pump' = IF pump[p].left > 1 THEN [less EXCEPT ![p].at = "tool"] ELSE Stepped(less, p)
  /\ UNCHANGED <<events, queue, running, calls, known, pushed, served, replayed, resume, lapsed, lworld>>

\* stopping(): the turn ends, or a hook keeps it going with one more message.
TurnStops(p) ==
  /\ pump[p].at = "stopping" /\ Goto(p, "end")
  /\ UNCHANGED <<messages, events, queue, running, calls, known, pushed, served, replayed, resume,
                 lapsed, lworld>>
TurnVetoed(p) ==
  /\ pump[p].at = "stopping" /\ lworld.vetoes
  /\ messages' = Append(messages, Msg("user", "continue", 0))
  /\ pump' = Stepped(pump, p)
  /\ UNCHANGED <<events, queue, running, calls, known, pushed, served, replayed, resume, lapsed, lworld>>

TurnEnd(p) ==
  /\ pump[p].at = "end" /\ Goto(p, "pop")
  /\ UNCHANGED <<messages, events, queue, running, calls, known, pushed, served, replayed, resume,
                 lapsed, lworld>>

\* The harness dies and starts again, without the session.
HarnessDies ==
  /\ lworld.crashes > 0 /\ lworld' = [lworld EXCEPT !.crashes = @ - 1]
  /\ messages' = <<>> /\ queue' = <<>> /\ running' = FALSE /\ known' = FALSE
  /\ calls' = [p \in Prompt |-> IF calls[p] \in {"first", "queued"} THEN "done" ELSE calls[p]]
  /\ pump' = [p \in Prompt |-> NoPump] /\ pushed' = <<>> /\ served' = <<>>
  /\ resume' = {}
  /\ UNCHANGED <<events, replayed, lapsed>>

\* resume(): the log is read, ...
ResumeTail ==
  /\ lworld.resumes > 0 /\ lworld' = [lworld EXCEPT !.resumes = @ - 1]
  /\ resume' = resume \cup {events}
  /\ UNCHANGED <<messages, events, queue, running, calls, pump, known, pushed, served, replayed, lapsed>>

\* ... and what was read becomes the context, whatever happened since.
ResumeFold ==
  /\ \E log \in resume : messages' = log /\ resume' = resume \ {log}
  /\ known' = TRUE /\ replayed' = TRUE
  /\ UNCHANGED <<events, queue, running, calls, pump, pushed, served, lapsed, lworld>>

TurnStep(p) ==
  \/ EnqueueLog(p) \/ PumpPop(p) \/ TurnBegin(p) \/ ModelFails(p) \/ ModelRefuses(p)
  \/ (\E n \in 0 .. lworld.calls : ModelReplies(p, n)) \/ LogReply(p) \/ ToolPush(p)
  \/ TurnStops(p) \/ TurnVetoed(p) \/ TurnEnd(p)
PumpStep(p) == TurnStep(p) \/ ToolDone(p)

LoopNext ==
  \/ \E p \in Prompt : EnqueuePush(p) \/ PumpStep(p)
  \/ HarnessDies \/ ResumeTail \/ ResumeFold

LoopSpec == LoopInit /\ [][LoopNext]_loopVars

\* Tasks run, and the model answers or fails (it is called with a time limit); a
\* tool need not come back: a call of an MCP server has no limit (mcp.rs:174-183).
LoopFairness == \A p \in Prompt : WF_loopVars(focus = "loop" /\ TurnStep(p))

---------------------------------------------------------------------------
(* Properties.                                                             *)

\* One pump at a time, and "running" means there is one, or a prompt about to
\* start one: no session is stuck and no two turns run in one context.
OnePump ==
  /\ Cardinality(Active \cup {p \in Prompt : calls[p] = "first"}) <= 1
  /\ running <=> Active \cup {p \in Prompt : calls[p] = "first"} # {}

\* Turns run the prompts in the order they were queued, each once.
TurnsKeepOrder == IsPrefix(served, pushed)

\* A context that was never rebuilt is one a model accepts: the results of a reply's
\* tool calls follow it, one for each, in its turn, and nothing comes between them.
ContextIsWellFormed ==
  ~replayed => \A i \in 1 .. Len(messages) :
    /\ messages[i].role = "result" =>
         /\ i > 1 /\ messages[i - 1].owes = messages[i].owes + 1
         /\ messages[i - 1].of = messages[i].of
    /\ messages[i].owes > 0 /\ i < Len(messages) => messages[i + 1].role = "result"

\* All three: the turns of a session are one after the other, each of them whole.
TurnsAreWhole == OnePump /\ TurnsKeepOrder /\ ContextIsWellFormed

\* Every prompt has its turn and the session comes to rest, whatever hooks and
\* models do, unless a tool never comes back or the harness dies.
ToolHangs == \E p \in Prompt : pump[p].at = "tool"
PromptsAreServed == <>[](served = pushed) \/ <>[]ToolHangs
SessionRests == []<>~running \/ <>[]ToolHangs

=============================================================================
