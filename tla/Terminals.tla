------------------------------ MODULE Terminals ------------------------------
(***************************************************************************)
(* Commands and terminals of a worker (rs/worker/src/pty.rs).  The worker  *)
(* serves one call at a time: bash() watches a command until it ends or    *)
(* its time is up and keeps what it wrote, the tail in memory and all of   *)
(* it in a file once it is too much; a terminal session has a thread       *)
(* that fills a bounded ring which pty.read empties.                       *)
(* The n-th byte a process writes is the number n.                         *)
(***************************************************************************)
EXTENDS Integers, Sequences, SequencesExt, Focus

CONSTANTS
  TAIL_BYTES, RING_BYTES, CHUNK,     \* tail, ring, and one read()
  PIPE,                              \* what a pipe or a terminal holds
  timeout_ms,                        \* of the command, in ticks
  MaxOut,                            \* bytes of a process the model tells apart
  TermWorlds                         \* [calls, endless, deaf]: a command or a session, does it
                                     \* write for ever, does its program ignore its input?

ASSUME TermBounds ==
  /\ {TAIL_BYTES, RING_BYTES, CHUNK, PIPE} \subseteq Nat \ {0} /\ {timeout_ms, MaxOut} \subseteq Nat

VARIABLES
  cmd,      \* the command: [shell, bg, avail, out, due]
  bash,     \* bash(): [at, clock, eof, timed_out, left]
  sink,     \* its Sink: [bytes, tail, spill]
  pty,      \* the session: [open, shell, bg, avail, out, input]
  reader,   \* its reader thread: [up, stop]
  ring,     \* its Ring: [buf, dropped]
  seen,     \* how far the reader of the session knows to be
  missed,   \* did a read() ever return other bytes than the reader thinks?
  busy,     \* the call being served: [call, left]
  pworld

termVars == <<cmd, bash, sink, pty, reader, ring, seen, missed, busy, pworld>>

Free == [call |-> "none", left |-> 0]
Least(a, b) == IF a < b THEN a ELSE b
Bytes(after, n) == [i \in 1 .. n |-> after + i]
LastOf(s, n) == SubSeq(s, Len(s) - Least(n, Len(s)) + 1, Len(s))

TermInit ==
  /\ cmd = [shell |-> FALSE, bg |-> FALSE, avail |-> 0, out |-> 0, due |-> 0]
  /\ bash = [at |-> "no", clock |-> 0, eof |-> FALSE, timed_out |-> FALSE, left |-> 0]
  /\ sink = [bytes |-> 0, tail |-> <<>>, spill |-> <<>>]
  /\ pty = [open |-> FALSE, shell |-> FALSE, bg |-> FALSE, avail |-> 0, out |-> 0, input |-> 0]
  /\ reader = [up |-> FALSE, stop |-> FALSE] /\ ring = [buf |-> <<>>, dropped |-> 0]
  /\ seen = 0 /\ missed = FALSE /\ busy = Free /\ pworld \in TermWorlds

ptyPart == <<pty, reader, ring, seen, missed>>
bashPart == <<cmd, bash, sink>>

---------------------------------------------------------------------------
(* The command's processes: a shell and one it leaves in the background.   *)

CommandWrites ==
  /\ cmd.shell \/ cmd.bg
  /\ cmd.avail < PIPE /\ (cmd.out < MaxOut \/ pworld.endless)
  /\ cmd' = [cmd EXCEPT !.avail = @ + 1, !.out = IF @ < MaxOut THEN @ + 1 ELSE @]
  /\ UNCHANGED <<bash, sink, ptyPart, busy, pworld>>

ShellExits ==
  /\ cmd.shell /\ ~pworld.endless
  /\ cmd' = [cmd EXCEPT !.shell = FALSE, !.due = cmd.out]
  /\ UNCHANGED <<bash, sink, ptyPart, busy, pworld>>

BackgroundExits ==
  /\ cmd.bg /\ cmd' = [cmd EXCEPT !.bg = FALSE]
  /\ UNCHANGED <<bash, sink, ptyPart, busy, pworld>>

Clock ==
  /\ bash.at \notin {"no", "done", "failed"} /\ bash.clock < timeout_ms
  /\ bash' = [bash EXCEPT !.clock = @ + 1]
  /\ UNCHANGED <<cmd, sink, ptyPart, busy, pworld>>

---------------------------------------------------------------------------
(* bash()                                                                  *)

BashBegin ==
  /\ busy = Free /\ bash.at = "no" /\ pworld.calls = "bash"
  /\ busy' = [call |-> "bash", left |-> 0] /\ bash' = [bash EXCEPT !.at = "poll"]
  /\ \E bg \in BOOLEAN : cmd' = [cmd EXCEPT !.shell = TRUE, !.bg = bg]
  /\ UNCHANGED <<sink, ptyPart, pworld>>

\* Mutant: the file gets only what comes after the tail overflowed.
PushedLate(n) ==
  LET all == sink.tail \o Bytes(sink.bytes, n) IN
  [bytes |-> sink.bytes + n, tail |-> LastOf(all, TAIL_BYTES),
   spill |-> IF sink.bytes + n <= TAIL_BYTES THEN <<>>
             ELSE sink.spill \o Bytes(sink.bytes, n)]

\* Sink::push(): the file begins with the tail the moment the tail is too small.
Pushed(n) ==
  LET all == sink.tail \o Bytes(sink.bytes, n) IN
  [bytes |-> sink.bytes + n, tail |-> LastOf(all, TAIL_BYTES),
   spill |-> IF sink.bytes + n <= TAIL_BYTES THEN <<>>
             ELSE IF sink.spill = <<>> THEN all
             ELSE sink.spill \o Bytes(sink.bytes, n)]

\* readable(): wait for something to read, 20 ms at most.
Poll ==
  /\ bash.at = "poll"
  /\ bash' = [bash EXCEPT !.at = IF ~bash.eof /\ cmd.avail > 0 THEN "drain" ELSE "check"]
  /\ UNCHANGED <<cmd, sink, ptyPart, busy, pworld>>

\* drain(): read() until it would block or the other end is closed.
Drain ==
  LET n == Least(cmd.avail, CHUNK) IN
  /\ bash.at \in {"drain", "last"}
  /\ IF n > 0
     THEN /\ sink' = IF sink.bytes + n <= MaxOut THEN Pushed(n) ELSE sink
          /\ cmd' = [cmd EXCEPT !.avail = @ - n] /\ UNCHANGED bash
     ELSE /\ bash' = [bash EXCEPT !.eof = ~(cmd.shell \/ cmd.bg),
                                  !.at = IF @ = "drain" THEN "check" ELSE "again"]
          /\ UNCHANGED <<sink, cmd>>
  /\ UNCHANGED <<ptyPart, busy, pworld>>

\* watch(): has the shell ended, or its time?
Check ==
  /\ bash.at = "check"
  /\ bash' = [bash EXCEPT !.left = 3, !.at = IF ~cmd.shell THEN "again"
                                            ELSE IF bash.clock >= timeout_ms THEN "stop" ELSE "poll"]
  /\ UNCHANGED <<cmd, sink, ptyPart, busy, pworld>>

\* stop_group(): a shell that has ended meanwhile is enough; otherwise TERM, a
\* grace, and KILL for the whole group.
StopGroup(g) == IF g.shell THEN [g EXCEPT !.shell = FALSE, !.bg = FALSE] ELSE g

TimesOut ==
  /\ bash.at = "stop"
  /\ cmd' = StopGroup(cmd)
  /\ bash' = [bash EXCEPT !.timed_out = TRUE, !.at = "again"]
  /\ UNCHANGED <<sink, ptyPart, busy, pworld>>

\* Three more looks at what is left, then finish().
Again ==
  LET more == bash.left > 0 /\ ~bash.eof /\ cmd.avail > 0 IN
  /\ bash.at = "again"
  /\ bash' = [bash EXCEPT !.at = IF more THEN "last" ELSE "done", !.left = IF more THEN @ - 1 ELSE @]
  /\ busy' = IF more THEN busy ELSE Free
  /\ UNCHANGED <<cmd, sink, ptyPart, pworld>>

\* The file a chunk makes necessary, or goes into, cannot be made or written: the
\* group is stopped and the call fails, without a result.
SpillFails ==
  LET n == Least(cmd.avail, CHUNK) IN
  /\ bash.at \in {"drain", "last"} /\ n > 0 /\ sink.bytes + n > TAIL_BYTES
  /\ cmd' = StopGroup(cmd)
  /\ bash' = [bash EXCEPT !.at = "failed"] /\ busy' = Free
  /\ UNCHANGED <<sink, ptyPart, pworld>>

---------------------------------------------------------------------------
(* pty.*                                                                   *)

PtyOpen ==
  /\ busy = Free /\ ~pty.open /\ ~reader.stop /\ pworld.calls = "pty"
  /\ \E bg \in BOOLEAN : pty' = [pty EXCEPT !.open = TRUE, !.shell = TRUE, !.bg = bg]
  /\ reader' = [up |-> TRUE, stop |-> FALSE]
  /\ UNCHANGED <<bashPart, ring, seen, missed, busy, pworld>>

PtyWrites ==
  /\ pty.shell \/ pty.bg
  /\ pty.avail < PIPE /\ pty.out < MaxOut
  /\ pty' = [pty EXCEPT !.avail = @ + 1, !.out = @ + 1]
  /\ UNCHANGED <<bashPart, reader, ring, seen, missed, busy, pworld>>

PtyExits ==
  /\ pty.shell /\ pty' = [pty EXCEPT !.shell = FALSE]
  /\ UNCHANGED <<bashPart, reader, ring, seen, missed, busy, pworld>>

\* The program at the terminal reads what was typed.
PtyReadsInput ==
  /\ pty.shell /\ pty.input > 0 /\ ~pworld.deaf
  /\ pty' = [pty EXCEPT !.input = 0]
  /\ UNCHANGED <<bashPart, reader, ring, seen, missed, busy, pworld>>

\* Ring::push(): the oldest bytes go, and are counted.
RingPush(n) ==
  LET all == ring.buf \o Bytes(pty.out - pty.avail, n)
      kept == LastOf(all, RING_BYTES)
  IN ring' = [buf |-> kept, dropped |-> ring.dropped + Len(all) - Len(kept)]

\* pump(): until it is told to stop or nobody can write any more.
ReaderReads ==
  LET n == Least(pty.avail, CHUNK) IN
  /\ reader.up /\ ~reader.stop /\ n > 0
  /\ RingPush(n) /\ pty' = [pty EXCEPT !.avail = @ - n]
  /\ UNCHANGED <<bashPart, reader, seen, missed, busy, pworld>>
ReaderEnds ==
  /\ reader.up /\ (reader.stop \/ (pty.avail = 0 /\ ~pty.shell /\ ~pty.bg))
  /\ reader' = [reader EXCEPT !.up = FALSE]
  /\ UNCHANGED <<bashPart, pty, ring, seen, missed, busy, pworld>>

\* pty.read: the oldest bytes of the ring, and how many were lost before them.
PtyRead(max) ==
  LET n == Least(max, Len(ring.buf))  at == seen + ring.dropped IN
  /\ busy = Free /\ pty.open
  /\ ring' = [buf |-> SubSeq(ring.buf, n + 1, Len(ring.buf)), dropped |-> 0]
  /\ seen' = at + n
  /\ missed' = (missed \/ SubSeq(ring.buf, 1, n) # Bytes(at, n))
  /\ UNCHANGED <<bashPart, pty, reader, busy, pworld>>

\* pty.send: write, and again for as long as the terminal is full.
SendBegin(n) ==
  /\ busy = Free /\ pty.open /\ busy' = [call |-> "send", left |-> n]
  /\ UNCHANGED <<bashPart, ptyPart, pworld>>
SendWrites ==
  LET n == Least(busy.left, PIPE - pty.input) IN
  /\ busy.call = "send"
  /\ IF ~pty.shell THEN busy' = Free /\ UNCHANGED pty
     ELSE /\ n > 0 /\ pty' = [pty EXCEPT !.input = @ + n]
          /\ busy' = IF busy.left = n THEN Free ELSE [busy EXCEPT !.left = @ - n]
  /\ UNCHANGED <<bashPart, reader, ring, seen, missed, pworld>>

\* pty.close and close_all(): the group, then the reader.
CloseBegin ==
  /\ busy = Free /\ pty.open
  /\ pty' = [StopGroup(pty) EXCEPT !.open = FALSE] /\ reader' = [reader EXCEPT !.stop = TRUE]
  /\ busy' = [call |-> "close", left |-> 0]
  /\ UNCHANGED <<bashPart, ring, seen, missed, pworld>>
CloseJoins ==
  /\ busy.call = "close" /\ ~reader.up /\ busy' = Free
  /\ UNCHANGED <<bashPart, ptyPart, pworld>>

WorkerStep ==
  \/ Poll \/ Drain \/ Check \/ TimesOut \/ Again \/ SpillFails \/ SendWrites \/ CloseJoins
ReaderStep == ReaderReads \/ ReaderEnds

TermNext ==
  \/ CommandWrites \/ ShellExits \/ BackgroundExits \/ Clock \/ BashBegin
  \/ PtyOpen \/ PtyWrites \/ PtyExits \/ PtyReadsInput
  \/ (\E n \in 1 .. PIPE + 1 : PtyRead(n) \/ SendBegin(n)) \/ CloseBegin
  \/ WorkerStep \/ ReaderStep

TermSpec == TermInit /\ [][TermNext]_termVars

\* The worker and its reader run, time passes, and a program reads its terminal
\* if it does so at all.  Nothing makes a command end.
TermFairness ==
  /\ WF_termVars(focus = "terminals" /\ WorkerStep)
  /\ WF_termVars(focus = "terminals" /\ ReaderStep)
  /\ WF_termVars(focus = "terminals" /\ Clock)
  /\ WF_termVars(focus = "terminals" /\ PtyReadsInput)

---------------------------------------------------------------------------
(* Properties.                                                             *)

\* A result holds what the command wrote: all of it in memory, or its end in
\* memory and all of it in the file, nothing twice, nothing missing at the seam.
OutputIsWhole ==
  /\ sink.tail = LastOf(Bytes(0, sink.bytes), TAIL_BYTES)
  /\ sink.spill = IF sink.bytes > TAIL_BYTES THEN Bytes(0, sink.bytes) ELSE <<>>

\* Whatever the shell wrote before it ended is in the result.
LastWordsAreKept == bash.at = "done" /\ ~pworld.endless => sink.bytes >= cmd.due

\* The reader of a terminal always knows where in the output it is: the bytes
\* it gets are the ones its count of read and dropped bytes says.
ReaderKnowsItsPlace == ~missed

\* All three: what the agent reads of a process is what it wrote.
TerminalsAreTrue == OutputIsWhole /\ LastWordsAreKept /\ ReaderKnowsItsPlace

\* The worker gets done with every call, so with every other client's, but for two:
\* a command that writes faster than it is read keeps drain() going past every
\* deadline, and pty.send waits for a program that does not read its terminal.
WorkerAnswers ==
  \/ []<>(busy = Free)
  \/ <>[](pworld.endless /\ bash.at \in {"drain", "last"})
  \/ <>[](pworld.deaf /\ busy.call = "send" /\ pty.shell)

=============================================================================
