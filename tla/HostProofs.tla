----------------------------- MODULE HostProofs -----------------------------
(***************************************************************************)
(* Proofs about what is around the nodes: the home of a base and its       *)
(* processes, the front door with the connections of clients and nodes,    *)
(* the link of a node with the guardian behind it, and the upgrades.  The  *)
(* four share no state; each has an inductive invariant of its own.        *)
(***************************************************************************)
EXTENDS BaseHome, FrontDoor, NodeLink, Upgrade, SequenceTheorems, FiniteSetTheorems, TLAPS

-----------------------------------------------------------------------------
(***************************************************************************)
(* The home of a base: its lock, its ready file, its socket, and the       *)
(* commands that copy its files.                                           *)
(***************************************************************************)

\* A base process that holds the lock of its home; the phases of a start, of the
\* process and of the actor in it.
Holding == {"locked", "cleared", "booting", "up", "serving", "failing"}

CmdPhase == {"none", "new", "probing", "refused", "waiting", "up", "failed"}
MainPhase == {"none", "new"} \cup Holding \cup Ended
ActorPhase == {"none", "running", "over", "dead"}

\* The processes of a home.
HomeTypes ==
  /\ hw \in HomeWorld
  /\ hcmd \in [Starter -> CmdPhase] /\ hmain \in [Starter -> MainPhase]
  /\ hactor \in [Starter -> ActorPhase]
  /\ heard \in [Starter -> Nat] /\ hwrites \in Nat
  /\ hready \in Starter \cup {NoOne}

\* Who is past take_lock(), or probes before it spawns, holds the lock.
LockIsHeld ==
  \A s \in Starter : hmain[s] \in Holding \/ hcmd[s] = "probing" => hlock = s

\* A start that has not spawned has no process.
CmdIsFirst ==
  \A s \in Starter : hcmd[s] \in {"new", "probing", "refused"} => hmain[s] = "none"

\* A running actor has its process and its socket.
ActorIsServed ==
  \A s \in Starter : hactor[s] = "running" =>
    /\ hmain[s] \in {"booting", "up", "serving", "failing"}
    /\ hsock = s
    /\ hmain[s] = "serving" => hready = s

\* The ready file is of a process that came to write it; an actor that ended before that
\* is one of the early ones.
ReadyIsWritten ==
  \A s \in Starter :
    /\ hready = s => hmain[s] \in {"serving", "exit", "dead"}
    /\ hmain[s] \in {"serving", "exit"} /\ hready = s /\ hactor[s] = "over" => s \in early
    /\ hmain[s] = "up" /\ hactor[s] = "over" => s \in early
    /\ hmain[s] = "exit" => hactor[s] = "over"

\* A start that waits has seen the ready file of before only.
HeardIsBefore ==
  \A s \in Starter :
    /\ heard[s] <= hwrites
    /\ hcmd[s] = "waiting" /\ hready # NoOne => hwrites > heard[s]
    /\ hcmd[s] = "up" => hwrites > heard[s]

\* The inductive invariant of the processes.
ProcInv == HomeTypes /\ LockIsHeld /\ CmdIsFirst /\ ActorIsServed /\ ReadyIsWritten /\ HeardIsBefore

USE DEF Ended, Starting

\* A home nobody serves.
LEMMA ProcInitHolds == HomeInit => ProcInv
<1> SUFFICES ASSUME HomeInit PROVE ProcInv
  OBVIOUS
<1>1. hw \in HomeWorld /\ hw.daemon \cap hw.fore = {} /\ NoOne \notin Starter
  BY HomeWorldsAreWorlds DEF HomeInit
<1>2. HomeTypes
  BY <1>1 DEF HomeInit, HomeTypes, CmdPhase, MainPhase, ActorPhase
<1>3. LockIsHeld /\ CmdIsFirst /\ ActorIsServed /\ ReadyIsWritten /\ HeardIsBefore
  BY <1>1 DEF HomeInit, LockIsHeld, CmdIsFirst, ActorIsServed, ReadyIsWritten, HeardIsBefore,
     Holding
<1> QED
  BY <1>2, <1>3 DEF ProcInv

\* What is left of a world after one of its events.
LEMMA Spent ==
  ASSUME hw \in HomeWorld, NEW f \in {"kills", "signals", "stops", "edits", "rots", "lates", "fails"},
         SpendHome(f)
  PROVE  hw' \in HomeWorld /\ hw'.alone = hw.alone /\ hw'.force = hw.force /\ hw'.tools = hw.tools
<1>1. PICK n : n = hw[f] - 1 /\ hw[f] > 0 /\ hw' = [hw EXCEPT ![f] = n]
  BY DEF SpendHome
<1>2. hw[f] \in Nat
  BY DEF HomeWorld
<1>3. n \in Nat
  BY <1>1, <1>2
<1> QED
  BY <1>1, <1>3 DEF HomeWorld

\* daemon() takes the lock to see whether a base runs.
LEMMA DaemonProbeKeeps ==
  ASSUME ProcInv, NEW s \in Starter, DaemonProbe(s) PROVE ProcInv'
<1> USE DEF ProcInv
<1>0. NoOne \notin Starter
  BY HomeWorldsAreWorlds
<1>2. HomeTypes'
  BY DEF DaemonProbe, HomeTypes, CmdPhase, MainPhase, ActorPhase, Holding
<1>3. LockIsHeld'
  BY <1>0 DEF DaemonProbe, HomeTypes, LockIsHeld, CmdIsFirst, Holding
<1>4. CmdIsFirst'
  BY DEF DaemonProbe, HomeTypes, CmdIsFirst
<1>5. ActorIsServed'
  BY <1>0 DEF DaemonProbe, HomeTypes, ActorIsServed, LockIsHeld, CmdIsFirst, Holding
<1>6. ReadyIsWritten'
  BY <1>0 DEF DaemonProbe, HomeTypes, ReadyIsWritten, LockIsHeld, ActorIsServed, CmdIsFirst, Holding
<1>7. HeardIsBefore'
  BY <1>0 DEF DaemonProbe, HomeTypes, HeardIsBefore
<1> QED
  BY <1>2, <1>3, <1>4, <1>5, <1>6, <1>7

\* It gives the lock back and spawns a base.
LEMMA DaemonSpawnKeeps ==
  ASSUME ProcInv, NEW s \in Starter, DaemonSpawn(s) PROVE ProcInv'
<1> USE DEF ProcInv
<1>0. NoOne \notin Starter
  BY HomeWorldsAreWorlds
<1>2. HomeTypes'
  BY DEF DaemonSpawn, histVars, HomeTypes, CmdPhase, MainPhase, ActorPhase, Holding
<1>3. LockIsHeld'
  BY <1>0 DEF DaemonSpawn, histVars, HomeTypes, LockIsHeld, CmdIsFirst, Holding
<1>4. CmdIsFirst'
  BY DEF DaemonSpawn, histVars, HomeTypes, CmdIsFirst
<1>5. ActorIsServed'
  BY <1>0 DEF DaemonSpawn, histVars, HomeTypes, ActorIsServed, LockIsHeld, CmdIsFirst, Holding
<1>6. ReadyIsWritten'
  BY <1>0 DEF DaemonSpawn, histVars, HomeTypes, ReadyIsWritten, LockIsHeld, ActorIsServed,
     CmdIsFirst, Holding
<1>7. HeardIsBefore'
  BY <1>0 DEF DaemonSpawn, histVars, HomeTypes, HeardIsBefore
<1> QED
  BY <1>2, <1>3, <1>4, <1>5, <1>6, <1>7

\* It returns when a ready file is written that was not there before.
LEMMA DaemonAnswersKeeps ==
  ASSUME ProcInv, NEW s \in Starter, DaemonAnswers(s) PROVE ProcInv'
<1> USE DEF ProcInv
<1>0. NoOne \notin Starter
  BY HomeWorldsAreWorlds
<1>2. HomeTypes'
  BY DEF DaemonAnswers, histVars, HomeTypes, CmdPhase, MainPhase, ActorPhase, Holding
<1>3. LockIsHeld'
  BY <1>0 DEF DaemonAnswers, histVars, HomeTypes, LockIsHeld, CmdIsFirst, Holding
<1>4. CmdIsFirst'
  BY DEF DaemonAnswers, histVars, HomeTypes, CmdIsFirst
<1>5. ActorIsServed'
  BY <1>0 DEF DaemonAnswers, histVars, HomeTypes, ActorIsServed, LockIsHeld, CmdIsFirst, Holding
<1>6. ReadyIsWritten'
  BY <1>0 DEF DaemonAnswers, histVars, HomeTypes, ReadyIsWritten, LockIsHeld, ActorIsServed,
     CmdIsFirst, Holding
<1>7. HeardIsBefore'
  BY <1>0 DEF DaemonAnswers, histVars, HomeTypes, HeardIsBefore
<1> QED
  BY <1>2, <1>3, <1>4, <1>5, <1>6, <1>7

\* It gives up after its time.
LEMMA DaemonGivesUpKeeps ==
  ASSUME ProcInv, NEW s \in Starter, DaemonGivesUp(s) PROVE ProcInv'
<1> USE DEF ProcInv
<1>0. NoOne \notin Starter
  BY HomeWorldsAreWorlds
<1>1. hw' \in HomeWorld
  BY Spent DEF DaemonGivesUp, HomeTypes
<1>2. HomeTypes'
  BY <1>1 DEF DaemonGivesUp, BaseDies, histVars, HomeTypes, CmdPhase, MainPhase, ActorPhase, Holding
<1>3. LockIsHeld'
  BY <1>0 DEF DaemonGivesUp, BaseDies, histVars, HomeTypes, LockIsHeld, CmdIsFirst, Holding
<1>4. CmdIsFirst'
  BY DEF DaemonGivesUp, BaseDies, histVars, HomeTypes, CmdIsFirst
<1>5. ActorIsServed'
  BY <1>0 DEF DaemonGivesUp, BaseDies, histVars, HomeTypes, ActorIsServed, LockIsHeld, CmdIsFirst,
     Holding
<1>6. ReadyIsWritten'
  BY <1>0 DEF DaemonGivesUp, BaseDies, histVars, HomeTypes, ReadyIsWritten, LockIsHeld,
     ActorIsServed, CmdIsFirst, Holding
<1>7. HeardIsBefore'
  BY <1>0 DEF DaemonGivesUp, BaseDies, histVars, HomeTypes, HeardIsBefore
<1> QED
  BY <1>2, <1>3, <1>4, <1>5, <1>6, <1>7

\* Only one process has the lock.
LEMMA TakeLockKeeps ==
  ASSUME ProcInv, NEW s \in Starter, TakeLock(s) PROVE ProcInv'
<1> USE DEF ProcInv
<1>0. NoOne \notin Starter
  BY HomeWorldsAreWorlds
<1>2. HomeTypes'
  BY DEF TakeLock, histVars, HomeTypes, CmdPhase, MainPhase, ActorPhase, Holding
<1>3. LockIsHeld'
  BY <1>0 DEF TakeLock, histVars, HomeTypes, LockIsHeld, CmdIsFirst, Holding
<1>4. CmdIsFirst'
  BY DEF TakeLock, histVars, HomeTypes, CmdIsFirst
<1>5. ActorIsServed'
  BY <1>0 DEF TakeLock, histVars, HomeTypes, ActorIsServed, LockIsHeld, CmdIsFirst, Holding
<1>6. ReadyIsWritten'
  BY <1>0 DEF TakeLock, histVars, HomeTypes, ReadyIsWritten, LockIsHeld, ActorIsServed, CmdIsFirst,
     Holding
<1>7. HeardIsBefore'
  BY <1>0 DEF TakeLock, histVars, HomeTypes, HeardIsBefore
<1> QED
  BY <1>2, <1>3, <1>4, <1>5, <1>6, <1>7

\* The process that has the lock removes the ready file and the socket of one that is gone.
LEMMA ClearStaleKeeps ==
  ASSUME ProcInv, NEW s \in Starter, ClearStale(s) PROVE ProcInv'
<1> USE DEF ProcInv
<1>0. NoOne \notin Starter
  BY HomeWorldsAreWorlds
<1>2. HomeTypes'
  BY DEF ClearStale, histVars, HomeTypes, CmdPhase, MainPhase, ActorPhase, Holding
<1>3. LockIsHeld'
  BY <1>0 DEF ClearStale, histVars, HomeTypes, LockIsHeld, CmdIsFirst, Holding
<1>4. CmdIsFirst'
  BY DEF ClearStale, histVars, HomeTypes, CmdIsFirst
<1>5. ActorIsServed'
  BY <1>0 DEF ClearStale, histVars, HomeTypes, ActorIsServed, LockIsHeld, CmdIsFirst, Holding
<1>6. ReadyIsWritten'
  BY <1>0 DEF ClearStale, histVars, HomeTypes, ReadyIsWritten, LockIsHeld, ActorIsServed,
     CmdIsFirst, Holding
<1>7. HeardIsBefore'
  BY <1>0 DEF ClearStale, histVars, HomeTypes, HeardIsBefore
<1> QED
  BY <1>2, <1>3, <1>4, <1>5, <1>6, <1>7

\* A home that cannot be opened ends the process.
LEMMA OpenFailsKeeps ==
  ASSUME ProcInv, NEW s \in Starter, OpenFails(s) PROVE ProcInv'
<1> USE DEF ProcInv
<1>0. NoOne \notin Starter
  BY HomeWorldsAreWorlds
<1>2. HomeTypes'
  BY DEF OpenFails, histVars, HomeTypes, CmdPhase, MainPhase, ActorPhase, Holding
<1>3. LockIsHeld'
  BY <1>0 DEF OpenFails, histVars, HomeTypes, LockIsHeld, CmdIsFirst, Holding
<1>4. CmdIsFirst'
  BY DEF OpenFails, histVars, HomeTypes, CmdIsFirst
<1>5. ActorIsServed'
  BY <1>0 DEF OpenFails, histVars, HomeTypes, ActorIsServed, LockIsHeld, CmdIsFirst, Holding
<1>6. ReadyIsWritten'
  BY <1>0 DEF OpenFails, histVars, HomeTypes, ReadyIsWritten, LockIsHeld, ActorIsServed,
     CmdIsFirst, Holding
<1>7. HeardIsBefore'
  BY <1>0 DEF OpenFails, histVars, HomeTypes, HeardIsBefore
<1> QED
  BY <1>2, <1>3, <1>4, <1>5, <1>6, <1>7

\* The home is opened and the actor begins.
LEMMA OpenHomeKeeps ==
  ASSUME ProcInv, NEW s \in Starter, OpenHome(s) PROVE ProcInv'
<1> USE DEF ProcInv
<1>0. NoOne \notin Starter
  BY HomeWorldsAreWorlds
<1>2. HomeTypes'
  BY DEF OpenHome, histVars, HomeTypes, CmdPhase, MainPhase, ActorPhase, Holding
<1>3. LockIsHeld'
  BY <1>0 DEF OpenHome, histVars, HomeTypes, LockIsHeld, CmdIsFirst, Holding
<1>4. CmdIsFirst'
  BY DEF OpenHome, histVars, HomeTypes, CmdIsFirst
<1>5. ActorIsServed'
  BY <1>0 DEF OpenHome, histVars, HomeTypes, ActorIsServed, LockIsHeld, CmdIsFirst, Holding
<1>6. ReadyIsWritten'
  BY <1>0 DEF OpenHome, histVars, HomeTypes, ReadyIsWritten, LockIsHeld, ActorIsServed, CmdIsFirst,
     Holding
<1>7. HeardIsBefore'
  BY <1>0 DEF OpenHome, histVars, HomeTypes, HeardIsBefore
<1> QED
  BY <1>2, <1>3, <1>4, <1>5, <1>6, <1>7

\* The nodes came up in time.
LEMMA BootReadyKeeps ==
  ASSUME ProcInv, NEW s \in Starter, BootReady(s) PROVE ProcInv'
<1> USE DEF ProcInv
<1>0. NoOne \notin Starter
  BY HomeWorldsAreWorlds
<1>2. HomeTypes'
  BY DEF BootReady, histVars, HomeTypes, CmdPhase, MainPhase, ActorPhase, Holding
<1>3. LockIsHeld'
  BY <1>0 DEF BootReady, histVars, HomeTypes, LockIsHeld, CmdIsFirst, Holding
<1>4. CmdIsFirst'
  BY DEF BootReady, histVars, HomeTypes, CmdIsFirst
<1>5. ActorIsServed'
  BY <1>0 DEF BootReady, histVars, HomeTypes, ActorIsServed, LockIsHeld, CmdIsFirst, Holding
<1>6. ReadyIsWritten'
  BY <1>0 DEF BootReady, histVars, HomeTypes, ReadyIsWritten, LockIsHeld, ActorIsServed,
     CmdIsFirst, Holding
<1>7. HeardIsBefore'
  BY <1>0 DEF BootReady, histVars, HomeTypes, HeardIsBefore
<1> QED
  BY <1>2, <1>3, <1>4, <1>5, <1>6, <1>7

\* They did not.
LEMMA BootFailsKeeps ==
  ASSUME ProcInv, NEW s \in Starter, BootFails(s) PROVE ProcInv'
<1> USE DEF ProcInv
<1>0. NoOne \notin Starter
  BY HomeWorldsAreWorlds
<1>2. HomeTypes'
  BY DEF BootFails, histVars, HomeTypes, CmdPhase, MainPhase, ActorPhase, Holding
<1>3. LockIsHeld'
  BY <1>0 DEF BootFails, histVars, HomeTypes, LockIsHeld, CmdIsFirst, Holding
<1>4. CmdIsFirst'
  BY DEF BootFails, histVars, HomeTypes, CmdIsFirst
<1>5. ActorIsServed'
  BY <1>0 DEF BootFails, histVars, HomeTypes, ActorIsServed, LockIsHeld, CmdIsFirst, Holding
<1>6. ReadyIsWritten'
  BY <1>0 DEF BootFails, histVars, HomeTypes, ReadyIsWritten, LockIsHeld, ActorIsServed,
     CmdIsFirst, Holding
<1>7. HeardIsBefore'
  BY <1>0 DEF BootFails, histVars, HomeTypes, HeardIsBefore
<1> QED
  BY <1>2, <1>3, <1>4, <1>5, <1>6, <1>7

\* A signal ends the boot.
LEMMA BootSignalKeeps ==
  ASSUME ProcInv, NEW s \in Starter, BootSignal(s) PROVE ProcInv'
<1> USE DEF ProcInv
<1>0. NoOne \notin Starter
  BY HomeWorldsAreWorlds
<1>2. HomeTypes'
  BY DEF BootSignal, histVars, HomeTypes, CmdPhase, MainPhase, ActorPhase, Holding
<1>3. LockIsHeld'
  BY <1>0 DEF BootSignal, histVars, HomeTypes, LockIsHeld, CmdIsFirst, Holding
<1>4. CmdIsFirst'
  BY DEF BootSignal, histVars, HomeTypes, CmdIsFirst
<1>5. ActorIsServed'
  BY <1>0 DEF BootSignal, histVars, HomeTypes, ActorIsServed, LockIsHeld, CmdIsFirst, Holding
<1>6. ReadyIsWritten'
  BY <1>0 DEF BootSignal, histVars, HomeTypes, ReadyIsWritten, LockIsHeld, ActorIsServed,
     CmdIsFirst, Holding
<1>7. HeardIsBefore'
  BY <1>0 DEF BootSignal, histVars, HomeTypes, HeardIsBefore
<1> QED
  BY <1>2, <1>3, <1>4, <1>5, <1>6, <1>7

\* The ready file is written after the boot.
LEMMA WriteReadyKeeps ==
  ASSUME ProcInv, NEW s \in Starter, WriteReady(s) PROVE ProcInv'
<1> USE DEF ProcInv
<1>0. NoOne \notin Starter
  BY HomeWorldsAreWorlds
<1>2. HomeTypes'
  BY DEF WriteReady, HomeTypes, CmdPhase, MainPhase, ActorPhase, Holding
<1>3. LockIsHeld'
  BY <1>0 DEF WriteReady, HomeTypes, LockIsHeld, CmdIsFirst, Holding
<1>4. CmdIsFirst'
  BY DEF WriteReady, HomeTypes, CmdIsFirst
<1>5. ActorIsServed'
  BY <1>0 DEF WriteReady, HomeTypes, ActorIsServed, LockIsHeld, CmdIsFirst, Holding
<1>6. ReadyIsWritten'
  BY <1>0 DEF WriteReady, HomeTypes, ReadyIsWritten, LockIsHeld, ActorIsServed, CmdIsFirst, Holding
<1>7. HeardIsBefore'
  BY <1>0 DEF WriteReady, HomeTypes, HeardIsBefore
<1> QED
  BY <1>2, <1>3, <1>4, <1>5, <1>6, <1>7

\* A signal ends a base that serves.
LEMMA ServeSignalKeeps ==
  ASSUME ProcInv, NEW s \in Starter, ServeSignal(s) PROVE ProcInv'
<1> USE DEF ProcInv
<1>0. NoOne \notin Starter
  BY HomeWorldsAreWorlds
<1>2. HomeTypes'
  BY DEF ServeSignal, histVars, HomeTypes, CmdPhase, MainPhase, ActorPhase, Holding
<1>3. LockIsHeld'
  BY <1>0 DEF ServeSignal, histVars, HomeTypes, LockIsHeld, CmdIsFirst, Holding
<1>4. CmdIsFirst'
  BY DEF ServeSignal, histVars, HomeTypes, CmdIsFirst
<1>5. ActorIsServed'
  BY <1>0 DEF ServeSignal, histVars, HomeTypes, ActorIsServed, LockIsHeld, CmdIsFirst, Holding
<1>6. ReadyIsWritten'
  BY <1>0 DEF ServeSignal, histVars, HomeTypes, ReadyIsWritten, LockIsHeld, ActorIsServed,
     CmdIsFirst, Holding
<1>7. HeardIsBefore'
  BY <1>0 DEF ServeSignal, histVars, HomeTypes, HeardIsBefore
<1> QED
  BY <1>2, <1>3, <1>4, <1>5, <1>6, <1>7

\* A process that ends removes its files and gives the lock back.
LEMMA MainEndsKeeps ==
  ASSUME ProcInv, NEW s \in Starter, MainEnds(s) PROVE ProcInv'
<1> USE DEF ProcInv
<1>0. NoOne \notin Starter
  BY HomeWorldsAreWorlds
<1>2. HomeTypes'
  BY DEF MainEnds, histVars, HomeTypes, CmdPhase, MainPhase, ActorPhase, Holding
<1>3. LockIsHeld'
  BY <1>0 DEF MainEnds, histVars, HomeTypes, LockIsHeld, CmdIsFirst, Holding
<1>4. CmdIsFirst'
  BY DEF MainEnds, histVars, HomeTypes, CmdIsFirst
<1>5. ActorIsServed'
  BY <1>0 DEF MainEnds, histVars, HomeTypes, ActorIsServed, LockIsHeld, CmdIsFirst, Holding
<1>6. ReadyIsWritten'
  BY <1>0 DEF MainEnds, histVars, HomeTypes, ReadyIsWritten, LockIsHeld, ActorIsServed, CmdIsFirst,
     Holding
<1>7. HeardIsBefore'
  BY <1>0 DEF MainEnds, histVars, HomeTypes, HeardIsBefore
<1> QED
  BY <1>2, <1>3, <1>4, <1>5, <1>6, <1>7

\* The nodes register; the actor goes on.
LEMMA NodesRegisterKeeps ==
  ASSUME ProcInv, NEW s \in Starter, NodesRegister(s) PROVE ProcInv'
<1> USE DEF ProcInv
<1>0. NoOne \notin Starter
  BY HomeWorldsAreWorlds
<1>2. HomeTypes'
  BY DEF NodesRegister, histVars, HomeTypes, CmdPhase, MainPhase, ActorPhase, Holding
<1>3. LockIsHeld'
  BY <1>0 DEF NodesRegister, histVars, HomeTypes, LockIsHeld, CmdIsFirst, Holding
<1>4. CmdIsFirst'
  BY DEF NodesRegister, histVars, HomeTypes, CmdIsFirst
<1>5. ActorIsServed'
  BY <1>0 DEF NodesRegister, histVars, HomeTypes, ActorIsServed, LockIsHeld, CmdIsFirst, Holding
<1>6. ReadyIsWritten'
  BY <1>0 DEF NodesRegister, histVars, HomeTypes, ReadyIsWritten, LockIsHeld, ActorIsServed,
     CmdIsFirst, Holding
<1>7. HeardIsBefore'
  BY <1>0 DEF NodesRegister, histVars, HomeTypes, HeardIsBefore
<1> QED
  BY <1>2, <1>3, <1>4, <1>5, <1>6, <1>7

\* A boot that came up saves its config as the last known good one.
LEMMA PromoteKeeps ==
  ASSUME ProcInv, NEW s \in Starter, Promote(s) PROVE ProcInv'
<1> USE DEF ProcInv
<1>0. NoOne \notin Starter
  BY HomeWorldsAreWorlds
<1>2. HomeTypes'
  BY DEF Promote, HomeTypes, CmdPhase, MainPhase, ActorPhase, Holding
<1>3. LockIsHeld'
  BY <1>0 DEF Promote, HomeTypes, LockIsHeld, CmdIsFirst, Holding
<1>4. CmdIsFirst'
  BY DEF Promote, HomeTypes, CmdIsFirst
<1>5. ActorIsServed'
  BY <1>0 DEF Promote, HomeTypes, ActorIsServed, LockIsHeld, CmdIsFirst, Holding
<1>6. ReadyIsWritten'
  BY <1>0 DEF Promote, HomeTypes, ReadyIsWritten, LockIsHeld, ActorIsServed, CmdIsFirst, Holding
<1>7. HeardIsBefore'
  BY <1>0 DEF Promote, HomeTypes, HeardIsBefore
<1> QED
  BY <1>2, <1>3, <1>4, <1>5, <1>6, <1>7

\* A copy or the manifest that fails leaves the processes as a promotion does.
LEMMA PromoteFailsKeeps ==
  ASSUME ProcInv, NEW s \in Starter, PromoteFails(s) PROVE ProcInv'
<1> USE DEF ProcInv
<1>0. NoOne \notin Starter
  BY HomeWorldsAreWorlds
<1>1. hw' \in HomeWorld
  BY Spent DEF PromoteFails, HomeTypes
<1>2. HomeTypes'
  BY <1>1 DEF PromoteFails, histVars, HomeTypes, CmdPhase, MainPhase, ActorPhase, Holding
<1>3. LockIsHeld'
  BY <1>0 DEF PromoteFails, histVars, HomeTypes, LockIsHeld, CmdIsFirst, Holding
<1>4. CmdIsFirst'
  BY DEF PromoteFails, histVars, HomeTypes, CmdIsFirst
<1>5. ActorIsServed'
  BY <1>0 DEF PromoteFails, histVars, HomeTypes, ActorIsServed, LockIsHeld, CmdIsFirst, Holding
<1>6. ReadyIsWritten'
  BY <1>0 DEF PromoteFails, histVars, HomeTypes, ReadyIsWritten, LockIsHeld, ActorIsServed, CmdIsFirst, Holding
<1>7. HeardIsBefore'
  BY <1>0 DEF PromoteFails, histVars, HomeTypes, HeardIsBefore
<1> QED
  BY <1>2, <1>3, <1>4, <1>5, <1>6, <1>7

\* The actor ends: a stop or a signal came to it.
LEMMA ActorEndsKeeps ==
  ASSUME ProcInv, NEW s \in Starter, ActorEnds(s) PROVE ProcInv'
<1> USE DEF ProcInv
<1>0. NoOne \notin Starter
  BY HomeWorldsAreWorlds
<1>2. HomeTypes'
  BY DEF ActorEnds, Listens, HomeTypes, CmdPhase, MainPhase, ActorPhase, Holding
<1>3. LockIsHeld'
  BY <1>0 DEF ActorEnds, Listens, HomeTypes, LockIsHeld, CmdIsFirst, Holding
<1>4. CmdIsFirst'
  BY DEF ActorEnds, Listens, HomeTypes, CmdIsFirst
<1>5. ActorIsServed'
  BY <1>0 DEF ActorEnds, Listens, HomeTypes, ActorIsServed, LockIsHeld, CmdIsFirst, Holding
<1>6. ReadyIsWritten'
  BY <1>0 DEF ActorEnds, Listens, HomeTypes, ReadyIsWritten, LockIsHeld, ActorIsServed, CmdIsFirst,
     Holding
<1>7. HeardIsBefore'
  BY <1>0 DEF ActorEnds, Listens, HomeTypes, HeardIsBefore
<1> QED
  BY <1>2, <1>3, <1>4, <1>5, <1>6, <1>7

\* A signal is sent.
LEMMA SignalKeeps ==
  ASSUME ProcInv, NEW s \in Starter, Signal(s) PROVE ProcInv'
<1> USE DEF ProcInv
<1>0. NoOne \notin Starter
  BY HomeWorldsAreWorlds
<1>1. hw' \in HomeWorld
  BY Spent DEF Signal, HomeTypes
<1>2. HomeTypes'
  BY <1>1 DEF Signal, histVars, HomeTypes, CmdPhase, MainPhase, ActorPhase, Holding
<1>3. LockIsHeld'
  BY <1>0 DEF Signal, histVars, HomeTypes, LockIsHeld, CmdIsFirst, Holding
<1>4. CmdIsFirst'
  BY DEF Signal, histVars, HomeTypes, CmdIsFirst
<1>5. ActorIsServed'
  BY <1>0 DEF Signal, histVars, HomeTypes, ActorIsServed, LockIsHeld, CmdIsFirst, Holding
<1>6. ReadyIsWritten'
  BY <1>0 DEF Signal, histVars, HomeTypes, ReadyIsWritten, LockIsHeld, ActorIsServed, CmdIsFirst,
     Holding
<1>7. HeardIsBefore'
  BY <1>0 DEF Signal, histVars, HomeTypes, HeardIsBefore
<1> QED
  BY <1>2, <1>3, <1>4, <1>5, <1>6, <1>7

\* A client asks for the stop.
LEMMA StopFrameKeeps ==
  ASSUME ProcInv, NEW s \in Starter, StopFrame(s) PROVE ProcInv'
<1> USE DEF ProcInv
<1>0. NoOne \notin Starter
  BY HomeWorldsAreWorlds
<1>1. hw' \in HomeWorld
  BY Spent DEF StopFrame, HomeTypes
<1>2. HomeTypes'
  BY <1>1 DEF StopFrame, histVars, HomeTypes, CmdPhase, MainPhase, ActorPhase, Holding
<1>3. LockIsHeld'
  BY <1>0 DEF StopFrame, histVars, HomeTypes, LockIsHeld, CmdIsFirst, Holding
<1>4. CmdIsFirst'
  BY DEF StopFrame, histVars, HomeTypes, CmdIsFirst
<1>5. ActorIsServed'
  BY <1>0 DEF StopFrame, histVars, HomeTypes, ActorIsServed, LockIsHeld, CmdIsFirst, Holding
<1>6. ReadyIsWritten'
  BY <1>0 DEF StopFrame, histVars, HomeTypes, ReadyIsWritten, LockIsHeld, ActorIsServed,
     CmdIsFirst, Holding
<1>7. HeardIsBefore'
  BY <1>0 DEF StopFrame, histVars, HomeTypes, HeardIsBefore
<1> QED
  BY <1>2, <1>3, <1>4, <1>5, <1>6, <1>7

\* A process that is killed leaves its files, and the system its lock.
LEMMA BaseKilledKeeps ==
  ASSUME ProcInv, NEW s \in Starter, BaseKilled(s) PROVE ProcInv'
<1> USE DEF ProcInv
<1>0. NoOne \notin Starter
  BY HomeWorldsAreWorlds
<1>1. hw' \in HomeWorld
  BY Spent DEF BaseKilled, HomeTypes
<1>2. HomeTypes'
  BY <1>1 DEF BaseKilled, BaseDies, histVars, HomeTypes, CmdPhase, MainPhase, ActorPhase, Holding
<1>3. LockIsHeld'
  BY <1>0 DEF BaseKilled, BaseDies, histVars, HomeTypes, LockIsHeld, CmdIsFirst, Holding
<1>4. CmdIsFirst'
  BY DEF BaseKilled, BaseDies, histVars, HomeTypes, CmdIsFirst
<1>5. ActorIsServed'
  BY <1>0 DEF BaseKilled, BaseDies, histVars, HomeTypes, ActorIsServed, LockIsHeld, CmdIsFirst,
     Holding
<1>6. ReadyIsWritten'
  BY <1>0 DEF BaseKilled, BaseDies, histVars, HomeTypes, ReadyIsWritten, LockIsHeld, ActorIsServed,
     CmdIsFirst, Holding
<1>7. HeardIsBefore'
  BY <1>0 DEF BaseKilled, BaseDies, histVars, HomeTypes, HeardIsBefore
<1> QED
  BY <1>2, <1>3, <1>4, <1>5, <1>6, <1>7
\* What is no step of a process leaves ProcInv.
LEMMA ProcIsLeft ==
  ASSUME ProcInv, UNCHANGED <<procVars, early, hwrites, heard>>, hw' \in HomeWorld
  PROVE  ProcInv'
  BY DEF ProcInv, procVars, HomeTypes, LockIsHeld, CmdIsFirst, ActorIsServed, ReadyIsWritten,
     HeardIsBefore

---------------------------------------------------------------------------
\* A command that may write to the home, and its record.
Writing == {"verify", "save", "copy", "pins"}

ToolRow ==
  [op : {"none", "backup", "restore", "rollback"},
   at : {"idle", "refused", "done", "killed"} \cup Writing,
   todo : Seq(Part), put : [Part -> Nat]]

\* The files of a home, each a version.
FileTypes ==
  /\ htool \in ToolRow
  /\ hdisk \in [Part -> Nat] /\ hlkg \in [Part -> Nat] /\ hdir \in [Part -> Nat]

\* What a manifest lists was the home's once.
SavedIsListed ==
  /\ listed # Absent => listed \in saved
  /\ pinned # Absent => pinned \in saved
  /\ dirpin # Absent => dirpin \in saved

\* With a human who waits, no base works while a restore or a rollback does.
ToolIsAlone ==
  hw.alone /\ htool.at \in Writing /\ htool.op # "backup" =>
    NoBoot /\ \A s \in Starter : hactor[s] # "running"

\* The files a command still has to copy.
Left(seq) == {seq[i] : i \in 1 .. Len(seq)}

\* Where a command takes the files from.
Source == IF htool.op = "restore" THEN hdir ELSE hlkg

\* A rollback with --force skips the check.
Unforced == ~(htool.op = "rollback" /\ hw.force)

\* A file is copied or still to copy, from a source that was checked first.
ToolIsFaithful ==
  /\ htool.op = "none" => htool.at = "idle"
  /\ htool.at = "save" => htool.op = "restore"
  /\ htool.op \in {"restore", "rollback"} /\ htool.at \in Writing =>
       \A p \in Part : p \in Left(htool.todo) \/ htool.put[p] = Source[p]
  /\ htool.op \in {"restore", "rollback"} /\ htool.at \in {"save", "copy", "pins"} /\ Unforced =>
       Source \in saved

\* The inductive invariant of the files, for a human who waits.
FileInv ==
  hw.alone => FileTypes /\ SavedIsListed /\ ToolIsAlone /\ ToolIsFaithful /\ WhatComesBackWasSaved
\* A step that touches no file.
LEMMA FilesAreLeft ==
  ASSUME FileInv, UNCHANGED <<htool, fileVars, saved>>, hw'.alone = hw.alone, hw'.force = hw.force,
         hw.alone => ToolIsAlone'
  PROVE  FileInv'
<1> SUFFICES ASSUME hw.alone PROVE FileInv'
  BY DEF FileInv
<1>1. FileTypes' /\ SavedIsListed' /\ ToolIsFaithful' /\ WhatComesBackWasSaved'
  BY DEF FileInv, fileVars, FileTypes, SavedIsListed, ToolIsFaithful, Unforced, Source,
     WhatComesBackWasSaved
<1> QED
  BY <1>1 DEF FileInv

\* A base that is not at work stays so while a command writes.
LEMMA ProcessesLeaveFiles ==
  ASSUME ProcInv, FileInv, NEW s \in Starter,
         \/ DaemonProbe(s)
         \/ DaemonSpawn(s)
         \/ DaemonAnswers(s)
         \/ DaemonGivesUp(s)
         \/ TakeLock(s)
         \/ ClearStale(s)
         \/ OpenFails(s)
         \/ BootReady(s)
         \/ BootFails(s)
         \/ BootSignal(s)
         \/ WriteReady(s)
         \/ ServeSignal(s)
         \/ MainEnds(s)
         \/ NodesRegister(s)
         \/ ActorEnds(s)
         \/ Signal(s)
         \/ StopFrame(s)
         \/ BaseKilled(s)
  PROVE  FileInv'
<1> USE DEF FileInv
<1>0. hw \in HomeWorld
  BY DEF ProcInv, HomeTypes
<1>1. CASE DaemonProbe(s)
  <2>2. hw'.alone = hw.alone /\ hw'.force = hw.force
    BY <1>1 DEF DaemonProbe
  <2>3. UNCHANGED <<htool, fileVars, saved>>
    BY <1>1 DEF DaemonProbe
  <2>4. hw.alone => ToolIsAlone'
    BY <1>1, <2>2, <2>3
       DEF DaemonProbe, ToolIsAlone, NoBoot, NoTool, Writing, ProcInv, HomeTypes, FileTypes, ToolRow
  <2> QED
    BY <2>2, <2>3, <2>4, FilesAreLeft
<1>2. CASE DaemonSpawn(s)
  <2>2. hw'.alone = hw.alone /\ hw'.force = hw.force
    BY <1>2 DEF DaemonSpawn
  <2>3. UNCHANGED <<htool, fileVars, saved>>
    BY <1>2 DEF DaemonSpawn, histVars
  <2>4. hw.alone => ToolIsAlone'
    BY <1>2, <2>2, <2>3
       DEF DaemonSpawn, histVars, ToolIsAlone, NoBoot, NoTool, Writing, ProcInv, HomeTypes,
           FileTypes, ToolRow
  <2> QED
    BY <2>2, <2>3, <2>4, FilesAreLeft
<1>3. CASE DaemonAnswers(s)
  <2>2. hw'.alone = hw.alone /\ hw'.force = hw.force
    BY <1>3 DEF DaemonAnswers
  <2>3. UNCHANGED <<htool, fileVars, saved>>
    BY <1>3 DEF DaemonAnswers, histVars
  <2>4. hw.alone => ToolIsAlone'
    BY <1>3, <2>2, <2>3
       DEF DaemonAnswers, histVars, ToolIsAlone, NoBoot, NoTool, Writing, ProcInv, HomeTypes,
           FileTypes, ToolRow
  <2> QED
    BY <2>2, <2>3, <2>4, FilesAreLeft
<1>4. CASE DaemonGivesUp(s)
  <2>1. SpendHome("lates")
    BY <1>4 DEF DaemonGivesUp
  <2>2. hw'.alone = hw.alone /\ hw'.force = hw.force
    BY <1>0, <2>1, Spent
  <2>3. UNCHANGED <<htool, fileVars, saved>>
    BY <1>4 DEF DaemonGivesUp, BaseDies, histVars
  <2>4. hw.alone => ToolIsAlone'
    BY <1>4, <2>2, <2>3
       DEF DaemonGivesUp, BaseDies, histVars, ToolIsAlone, NoBoot, NoTool, Writing, ProcInv,
           HomeTypes, FileTypes, ToolRow
  <2> QED
    BY <2>2, <2>3, <2>4, FilesAreLeft
<1>5. CASE TakeLock(s)
  <2>2. hw'.alone = hw.alone /\ hw'.force = hw.force
    BY <1>5 DEF TakeLock
  <2>3. UNCHANGED <<htool, fileVars, saved>>
    BY <1>5 DEF TakeLock, histVars
  <2>4. hw.alone => ToolIsAlone'
    BY <1>5, <2>2, <2>3
       DEF TakeLock, histVars, ToolIsAlone, NoBoot, NoTool, Writing, ProcInv, HomeTypes,
           FileTypes, ToolRow
  <2> QED
    BY <2>2, <2>3, <2>4, FilesAreLeft
<1>6. CASE ClearStale(s)
  <2>2. hw'.alone = hw.alone /\ hw'.force = hw.force
    BY <1>6 DEF ClearStale
  <2>3. UNCHANGED <<htool, fileVars, saved>>
    BY <1>6 DEF ClearStale, histVars
  <2>4. hw.alone => ToolIsAlone'
    BY <1>6, <2>2, <2>3
       DEF ClearStale, histVars, ToolIsAlone, NoBoot, NoTool, Writing, ProcInv, HomeTypes,
           FileTypes, ToolRow
  <2> QED
    BY <2>2, <2>3, <2>4, FilesAreLeft
<1>7. CASE OpenFails(s)
  <2>2. hw'.alone = hw.alone /\ hw'.force = hw.force
    BY <1>7 DEF OpenFails
  <2>3. UNCHANGED <<htool, fileVars, saved>>
    BY <1>7 DEF OpenFails, histVars
  <2>4. hw.alone => ToolIsAlone'
    BY <1>7, <2>2, <2>3
       DEF OpenFails, histVars, ToolIsAlone, NoBoot, NoTool, Writing, ProcInv, HomeTypes,
           FileTypes, ToolRow
  <2> QED
    BY <2>2, <2>3, <2>4, FilesAreLeft
<1>8. CASE BootReady(s)
  <2>2. hw'.alone = hw.alone /\ hw'.force = hw.force
    BY <1>8 DEF BootReady
  <2>3. UNCHANGED <<htool, fileVars, saved>>
    BY <1>8 DEF BootReady, histVars
  <2>4. hw.alone => ToolIsAlone'
    BY <1>8, <2>2, <2>3
       DEF BootReady, histVars, ToolIsAlone, NoBoot, NoTool, Writing, ProcInv, HomeTypes,
           FileTypes, ToolRow
  <2> QED
    BY <2>2, <2>3, <2>4, FilesAreLeft
<1>9. CASE BootFails(s)
  <2>2. hw'.alone = hw.alone /\ hw'.force = hw.force
    BY <1>9 DEF BootFails
  <2>3. UNCHANGED <<htool, fileVars, saved>>
    BY <1>9 DEF BootFails, histVars
  <2>4. hw.alone => ToolIsAlone'
    BY <1>9, <2>2, <2>3
       DEF BootFails, histVars, ToolIsAlone, NoBoot, NoTool, Writing, ProcInv, HomeTypes,
           FileTypes, ToolRow
  <2> QED
    BY <2>2, <2>3, <2>4, FilesAreLeft
<1>10. CASE BootSignal(s)
  <2>2. hw'.alone = hw.alone /\ hw'.force = hw.force
    BY <1>10 DEF BootSignal
  <2>3. UNCHANGED <<htool, fileVars, saved>>
    BY <1>10 DEF BootSignal, histVars
  <2>4. hw.alone => ToolIsAlone'
    BY <1>10, <2>2, <2>3
       DEF BootSignal, histVars, ToolIsAlone, NoBoot, NoTool, Writing, ProcInv, HomeTypes,
           FileTypes, ToolRow
  <2> QED
    BY <2>2, <2>3, <2>4, FilesAreLeft
<1>11. CASE WriteReady(s)
  <2>2. hw'.alone = hw.alone /\ hw'.force = hw.force
    BY <1>11 DEF WriteReady
  <2>3. UNCHANGED <<htool, fileVars, saved>>
    BY <1>11 DEF WriteReady
  <2>4. hw.alone => ToolIsAlone'
    BY <1>11, <2>2, <2>3
       DEF WriteReady, ToolIsAlone, NoBoot, NoTool, Writing, ProcInv, HomeTypes, FileTypes, ToolRow
  <2> QED
    BY <2>2, <2>3, <2>4, FilesAreLeft
<1>12. CASE ServeSignal(s)
  <2>2. hw'.alone = hw.alone /\ hw'.force = hw.force
    BY <1>12 DEF ServeSignal
  <2>3. UNCHANGED <<htool, fileVars, saved>>
    BY <1>12 DEF ServeSignal, histVars
  <2>4. hw.alone => ToolIsAlone'
    BY <1>12, <2>2, <2>3
       DEF ServeSignal, histVars, ToolIsAlone, NoBoot, NoTool, Writing, ProcInv, HomeTypes,
           FileTypes, ToolRow
  <2> QED
    BY <2>2, <2>3, <2>4, FilesAreLeft
<1>13. CASE MainEnds(s)
  <2>2. hw'.alone = hw.alone /\ hw'.force = hw.force
    BY <1>13 DEF MainEnds
  <2>3. UNCHANGED <<htool, fileVars, saved>>
    BY <1>13 DEF MainEnds, histVars
  <2>4. hw.alone => ToolIsAlone'
    BY <1>13, <2>2, <2>3
       DEF MainEnds, histVars, ToolIsAlone, NoBoot, NoTool, Writing, ProcInv, HomeTypes,
           FileTypes, ToolRow
  <2> QED
    BY <2>2, <2>3, <2>4, FilesAreLeft
<1>14. CASE NodesRegister(s)
  <2>2. hw'.alone = hw.alone /\ hw'.force = hw.force
    BY <1>14 DEF NodesRegister
  <2>3. UNCHANGED <<htool, fileVars, saved>>
    BY <1>14 DEF NodesRegister, histVars
  <2>4. hw.alone => ToolIsAlone'
    BY <1>14, <2>2, <2>3
       DEF NodesRegister, histVars, ToolIsAlone, NoBoot, NoTool, Writing, ProcInv, HomeTypes,
           FileTypes, ToolRow
  <2> QED
    BY <2>2, <2>3, <2>4, FilesAreLeft
<1>15. CASE ActorEnds(s)
  <2>2. hw'.alone = hw.alone /\ hw'.force = hw.force
    BY <1>15 DEF ActorEnds
  <2>3. UNCHANGED <<htool, fileVars, saved>>
    BY <1>15 DEF ActorEnds, Listens
  <2>4. hw.alone => ToolIsAlone'
    BY <1>15, <2>2, <2>3
       DEF ActorEnds, Listens, ToolIsAlone, NoBoot, NoTool, Writing, ProcInv, HomeTypes,
           FileTypes, ToolRow
  <2> QED
    BY <2>2, <2>3, <2>4, FilesAreLeft
<1>16. CASE Signal(s)
  <2>1. SpendHome("signals")
    BY <1>16 DEF Signal
  <2>2. hw'.alone = hw.alone /\ hw'.force = hw.force
    BY <1>0, <2>1, Spent
  <2>3. UNCHANGED <<htool, fileVars, saved>>
    BY <1>16 DEF Signal, histVars
  <2>4. hw.alone => ToolIsAlone'
    BY <1>16, <2>2, <2>3
       DEF Signal, histVars, ToolIsAlone, NoBoot, NoTool, Writing, ProcInv, HomeTypes, FileTypes,
           ToolRow
  <2> QED
    BY <2>2, <2>3, <2>4, FilesAreLeft
<1>17. CASE StopFrame(s)
  <2>1. SpendHome("stops")
    BY <1>17 DEF StopFrame
  <2>2. hw'.alone = hw.alone /\ hw'.force = hw.force
    BY <1>0, <2>1, Spent
  <2>3. UNCHANGED <<htool, fileVars, saved>>
    BY <1>17 DEF StopFrame, histVars
  <2>4. hw.alone => ToolIsAlone'
    BY <1>17, <2>2, <2>3
       DEF StopFrame, histVars, ToolIsAlone, NoBoot, NoTool, Writing, ProcInv, HomeTypes,
           FileTypes, ToolRow
  <2> QED
    BY <2>2, <2>3, <2>4, FilesAreLeft
<1>18. CASE BaseKilled(s)
  <2>1. SpendHome("kills")
    BY <1>18 DEF BaseKilled
  <2>2. hw'.alone = hw.alone /\ hw'.force = hw.force
    BY <1>0, <2>1, Spent
  <2>3. UNCHANGED <<htool, fileVars, saved>>
    BY <1>18 DEF BaseKilled, BaseDies, histVars
  <2>4. hw.alone => ToolIsAlone'
    BY <1>18, <2>2, <2>3
       DEF BaseKilled, BaseDies, histVars, ToolIsAlone, NoBoot, NoTool, Writing, ProcInv,
           HomeTypes, FileTypes, ToolRow
  <2> QED
    BY <2>2, <2>3, <2>4, FilesAreLeft
<1> QED
  BY <1>1, <1>2, <1>3, <1>4, <1>5, <1>6, <1>7, <1>8, <1>9, <1>10, <1>11, <1>12, <1>13, <1>14,
     <1>15, <1>16, <1>17, <1>18

\* Opening a home writes no file a command copies.
LEMMA OpenHomeLeavesFiles ==
  ASSUME ProcInv, FileInv, NEW s \in Starter, OpenHome(s)
  PROVE  FileInv'
<1> SUFFICES ASSUME hw.alone PROVE FileInv'
  BY DEF FileInv, OpenHome
<1> USE DEF FileInv
<1>1. UNCHANGED <<hw, htool, hlkg, pinned, hdir, listed, dirpin, saved>>
  BY DEF OpenHome, histVars
<1>2. hdisk' \in [Part -> Nat]
  BY DEF OpenHome, RestoreIfCorrupt, FileTypes
<1>3. FileTypes' /\ SavedIsListed' /\ ToolIsFaithful' /\ WhatComesBackWasSaved'
  BY <1>1, <1>2 DEF FileTypes, SavedIsListed, ToolIsFaithful, Unforced, Source,
     WhatComesBackWasSaved
<1>4. ToolIsAlone'
  BY <1>1 DEF OpenHome, ToolIsAlone, NoBoot
<1> QED
  BY <1>3, <1>4

\* A promotion saves what the home is: that was the home's from now on.
LEMMA PromoteLeavesFiles ==
  ASSUME ProcInv, FileInv, NEW s \in Starter, Promote(s)
  PROVE  FileInv'
<1> SUFFICES ASSUME hw.alone PROVE FileInv'
  BY DEF FileInv, Promote
<1> USE DEF FileInv
<1>1. UNCHANGED <<hw, hcmd, hmain, hactor, htool, hdisk, hdir, listed, dirpin>>
  BY DEF Promote
<1>2. ~(htool.at \in Writing /\ htool.op # "backup")
  BY DEF Promote, ToolIsAlone
<1>3. hlkg' \in [Part -> Nat]
  BY DEF Promote, FileTypes, PromoteOrder, Part
<1>4. FileTypes'
  BY <1>1, <1>3 DEF FileTypes
<1>5. saved \subseteq saved'
  BY DEF Promote
<1>6. SavedIsListed'
  BY <1>1, <1>5 DEF Promote, SavedIsListed
<1>7. ToolIsAlone'
  BY <1>1, <1>2 DEF ToolIsAlone
<1>8. ToolIsFaithful'
  BY <1>1, <1>2 DEF ToolIsFaithful, Writing
<1>9. WhatComesBackWasSaved'
  BY <1>1, <1>5 DEF WhatComesBackWasSaved
<1> QED
  BY <1>4, <1>6, <1>7, <1>8, <1>9

\* One that fails leaves copies that the manifest does not pin, or no manifest.
LEMMA PromoteFailsLeavesFiles ==
  ASSUME ProcInv, FileInv, NEW s \in Starter, PromoteFails(s)
  PROVE  FileInv'
<1>0. hw \in HomeWorld /\ SpendHome("fails")
  BY DEF ProcInv, HomeTypes, PromoteFails
<1>a. hw'.alone = hw.alone /\ hw'.force = hw.force
  BY <1>0, Spent
<1> SUFFICES ASSUME hw.alone PROVE FileInv'
  BY <1>a DEF FileInv
<1> USE DEF FileInv
<1>1. UNCHANGED <<hcmd, hmain, hactor, htool, hdisk, hdir, listed, dirpin, saved>>
  BY DEF PromoteFails, histVars
<1>2. ~(htool.at \in Writing /\ htool.op # "backup")
  BY DEF PromoteFails, ToolIsAlone
<1>3. hlkg' \in [Part -> Nat]
  BY DEF PromoteFails, FileTypes, PromoteOrder, Part, Rotten
<1>4. FileTypes'
  BY <1>1, <1>3 DEF FileTypes
<1>5. pinned' = pinned \/ pinned' = Absent
  BY DEF PromoteFails
<1>6. SavedIsListed'
  BY <1>1, <1>5 DEF SavedIsListed
<1>7. ToolIsAlone'
  BY <1>1, <1>2 DEF ToolIsAlone
<1>8. ToolIsFaithful'
  BY <1>1, <1>2 DEF ToolIsFaithful, Writing
<1>9. WhatComesBackWasSaved'
  BY <1>1, <1>a DEF WhatComesBackWasSaved
<1> QED
  BY <1>4, <1>6, <1>7, <1>8, <1>9

\* An edit by hand waits for the command; a byte that rots is not listed.
LEMMA WorldLeavesFiles ==
  ASSUME ProcInv, FileInv, (\E p \in Part : EditFile(p)) \/ Rot
  PROVE  ProcInv' /\ FileInv'
<1> USE DEF FileInv
<1>0. hw \in HomeWorld
  BY DEF ProcInv, HomeTypes
<1>1. UNCHANGED <<procVars, hlkg, pinned, hdir, listed, dirpin, htool, histVars>>
      /\ (SpendHome("edits") \/ SpendHome("rots"))
  BY DEF EditFile, Rot
<1>2. hw' \in HomeWorld /\ hw'.alone = hw.alone /\ hw'.force = hw.force
  BY <1>0, <1>1, Spent
<1>3. ProcInv'
  BY <1>1, <1>2, ProcIsLeft DEF histVars
<1>4. ASSUME hw.alone PROVE FileInv'
  <2>1. hdisk' \in [Part -> Nat]
    <3>1. CASE Rot
      BY <3>1, <1>4 DEF Rot, FileTypes, Rotten
    <3>2. CASE \E p \in Part : EditFile(p)
      <4>1. PICK p \in Part : EditFile(p)
        BY <3>2
      <4>2. PICK n \in Nat : n = hw.edits + 1
        BY <1>0 DEF HomeWorld
      <4> QED
        BY <4>1, <4>2, <1>4 DEF EditFile, FileTypes
    <3> QED
      BY <3>1, <3>2
  <2>2. FileTypes'
    BY <2>1, <1>1, <1>4 DEF FileTypes
  <2>3. SavedIsListed' /\ WhatComesBackWasSaved'
    BY <1>1, <1>2, <1>4 DEF SavedIsListed, WhatComesBackWasSaved, histVars
  <2>4. ToolIsFaithful'
    BY <1>1, <1>2, <1>4 DEF ToolIsFaithful, Unforced, Source, histVars
  <2>5. ToolIsAlone'
    BY <1>1, <1>2, <1>4 DEF ToolIsAlone, NoBoot, procVars
  <2> QED
    BY <2>2, <2>3, <2>4, <2>5
<1> QED
  BY <1>2, <1>3, <1>4

---------------------------------------------------------------------------
\* A command that begins has all its files before it.
LEMMA ToolBegins ==
  ASSUME ProcInv, FileInv,
         NEW op \in {"backup", "restore", "rollback"}, NEW at \in {"refused", "verify", "copy"},
         NEW files \in Seq(Part), Left(files) = Part, Begins(op, at, files),
         at = "copy" => op = "backup",
         op # "backup" /\ at # "refused" => hready = NoOne
  PROVE  ProcInv' /\ FileInv'
<1> USE DEF FileInv
<1>0. hw \in HomeWorld /\ Len(hw.tools) > 0
  BY EmptySeq DEF ProcInv, HomeTypes, Begins, HomeWorld
<1>1. UNCHANGED <<procVars, fileVars, histVars>>
  BY DEF Begins
<1>2. PICK ts \in Seq({"backup", "restore", "rollback"}) : ts = Tail(hw.tools)
  <2>1. PICK ss : ss = hw.tools
    OBVIOUS
  <2>2. ss \in Seq({"backup", "restore", "rollback"}) /\ ss # <<>>
    BY <2>1, <1>0 DEF HomeWorld, Begins
  <2>3. Tail(ss) \in Seq({"backup", "restore", "rollback"})
    BY <2>2, HeadTailProperties
  <2> QED
    BY <2>1, <2>3
<1>3. hw' = [hw EXCEPT !.tools = ts]
  BY <1>2 DEF Begins
<1>4. hw' \in HomeWorld /\ hw'.alone = hw.alone /\ hw'.force = hw.force
  BY <1>0, <1>3 DEF HomeWorld
<1>5. ProcInv'
  BY <1>1, <1>4, ProcIsLeft DEF histVars
<1>6. htool' = [op |-> op, at |-> at, todo |-> files, put |-> Absent]
  BY DEF Begins
<1>7. htool' \in ToolRow /\ htool'.op = op /\ htool'.at = at /\ htool'.todo = files
  BY <1>6 DEF ToolRow, Writing, Absent
<1>8. ASSUME hw.alone PROVE FileInv'
  <2>1. FileTypes' /\ SavedIsListed'
    BY <1>1, <1>7, <1>8 DEF FileTypes, SavedIsListed, fileVars, histVars
  <2>2. WhatComesBackWasSaved'
    BY <1>7 DEF WhatComesBackWasSaved
  <2>3. ToolIsFaithful'
    BY <1>7 DEF ToolIsFaithful
  <2>4. ToolIsAlone'
    <3> SUFFICES ASSUME at # "refused", op # "backup"
                 PROVE  (NoBoot /\ \A s \in Starter : hactor[s] # "running")'
      BY <1>7 DEF ToolIsAlone, Writing
    <3>1. NoBoot
      BY <1>8 DEF Begins
    <3>2. hready = NoOne /\ NoOne \notin Starter
      BY HomeWorldsAreWorlds
    <3>3. \A s \in Starter : hactor[s] # "running"
      BY <3>1, <3>2 DEF NoBoot, ProcInv, ActorIsServed
    <3> QED
      BY <3>1, <3>3, <1>1 DEF procVars, NoBoot
  <2> QED
    BY <2>1, <2>2, <2>3, <2>4
<1> QED
  BY <1>4, <1>5, <1>8

\* Each command copies every file, in an order of its own.
LEMMA OrdersAreWhole ==
  /\ <<"state", "config", "profiles">> \in Seq(Part) /\ Left(<<"state", "config", "profiles">>) = Part
  /\ <<"config", "profiles", "state">> \in Seq(Part) /\ Left(<<"config", "profiles", "state">>) = Part
  /\ <<"config", "state", "profiles">> \in Seq(Part) /\ Left(<<"config", "state", "profiles">>) = Part
<1>1. ASSUME NEW a \in Part, NEW b \in Part, NEW c \in Part, Part = {a, b, c}
      PROVE  <<a, b, c>> \in Seq(Part) /\ Left(<<a, b, c>>) = Part
  <2>1. <<a, b, c>> \in Seq(Part) /\ Len(<<a, b, c>>) = 3 /\ 1 .. 3 = {1, 2, 3}
    OBVIOUS
  <2>2. <<a, b, c>>[1] = a /\ <<a, b, c>>[2] = b /\ <<a, b, c>>[3] = c
    OBVIOUS
  <2> QED
    BY <1>1, <2>1, <2>2 DEF Left
<1>2. /\ "config" \in Part /\ "state" \in Part /\ "profiles" \in Part
      /\ Part = {"state", "config", "profiles"} /\ Part = {"config", "profiles", "state"}
      /\ Part = {"config", "state", "profiles"}
  BY DEF Part
<1> QED
  BY <1>1, <1>2

\* backup(), restore() and rollback() begin, or refuse a home that is served.
LEMMA BeginsKeep ==
  ASSUME ProcInv, FileInv, BackupBegin \/ RestoreBegin \/ RollbackBegin
  PROVE  ProcInv' /\ FileInv'
<1>1. CASE BackupBegin
  <2>1. Begins("backup", "copy", <<"state", "config", "profiles">>)
    BY <1>1 DEF BackupBegin
  <2> QED
    BY <2>1, ToolBegins, OrdersAreWhole
<1>2. CASE RestoreBegin
  <2>1. PICK at \in {"refused", "verify", "copy"} :
          at = IF hready # NoOne THEN "refused" ELSE "verify"
    OBVIOUS
  <2>2. Begins("restore", at, <<"config", "profiles", "state">>)
    BY <1>2, <2>1 DEF RestoreBegin
  <2>3. at # "copy" /\ (at # "refused" => hready = NoOne)
    BY <2>1
  <2> QED
    BY <2>2, <2>3, ToolBegins, OrdersAreWhole
<1>3. CASE RollbackBegin
  <2>1. PICK at \in {"refused", "verify", "copy"} :
          at = IF hready # NoOne THEN "refused" ELSE "verify"
    OBVIOUS
  <2>2. Begins("rollback", at, <<"config", "state", "profiles">>)
    BY <1>3, <2>1 DEF RollbackBegin
  <2>3. at # "copy" /\ (at # "refused" => hready = NoOne)
    BY <2>1
  <2> QED
    BY <2>2, <2>3, ToolBegins, OrdersAreWhole
<1> QED
  BY <1>1, <1>2, <1>3

\* What is left after the first file.
LEMMA LeftAfter ==
  ASSUME NEW seq \in Seq(Part), seq # <<>>
  PROVE  /\ Head(seq) \in Part /\ Tail(seq) \in Seq(Part)
         /\ \A p \in Left(seq) : p = Head(seq) \/ p \in Left(Tail(seq))
<1>1. /\ Head(seq) \in Part /\ Tail(seq) \in Seq(Part) /\ Head(seq) = seq[1]
      /\ Len(seq) \in Nat /\ Len(Tail(seq)) = Len(seq) - 1 /\ Len(seq) # 0
      /\ \A i \in 1 .. Len(Tail(seq)) : Tail(seq)[i] = seq[i + 1]
  BY HeadTailProperties, EmptySeq, LenProperties
<1>2. ASSUME NEW i \in 1 .. Len(seq), i # 1 PROVE seq[i] \in Left(Tail(seq))
  <2>1. i - 1 \in 1 .. Len(Tail(seq)) /\ (i - 1) + 1 = i
    BY <1>1, <1>2
  <2> QED
    BY <2>1, <1>1 DEF Left
<1> QED
  BY <1>1, <1>2 DEF Left

\* A command's step leaves the processes alone.
LEMMA ToolLeavesProcesses ==
  ASSUME ProcInv, UNCHANGED <<hw, procVars, early, hwrites, heard>>
  PROVE  ProcInv'
  BY ProcIsLeft DEF ProcInv, HomeTypes

\* The check of a backup, or of the last known good config, against its manifest.
LEMMA VerifyKeeps ==
  ASSUME ProcInv, FileInv, RestoreVerify \/ RollbackVerify
  PROVE  ProcInv' /\ FileInv'
<1> USE DEF FileInv
<1>1. UNCHANGED <<hw, procVars, fileVars, histVars>> /\ htool.at = "verify"
  BY DEF RestoreVerify, RollbackVerify
<1>2. ProcInv'
  BY <1>1, ToolLeavesProcesses DEF histVars
<1>3. ASSUME hw.alone PROVE FileInv'
  <2>0. htool \in ToolRow
    BY <1>3 DEF FileTypes
  <2>1. PICK at \in {"save", "copy", "refused"} : htool' = [htool EXCEPT !.at = at]
    BY DEF RestoreVerify, RollbackVerify
  <2>2. htool' \in ToolRow /\ htool'.at = at /\ htool'.op = htool.op /\ htool'.todo = htool.todo
        /\ htool'.put = htool.put
    BY <2>0, <2>1 DEF ToolRow, Writing
  <2>3. FileTypes' /\ SavedIsListed'
    BY <1>1, <1>3, <2>2 DEF FileTypes, SavedIsListed, fileVars, histVars
  <2>4. WhatComesBackWasSaved'
    BY <2>2 DEF WhatComesBackWasSaved
  <2>5. ToolIsAlone'
    BY <1>1, <1>3, <2>2 DEF ToolIsAlone, Writing, NoBoot, procVars
  <2>6. CASE RestoreVerify
    <3>1. htool.op = "restore" /\ (at # "refused" => SameListed /\ at = "save")
      BY <2>6, <2>2 DEF RestoreVerify
    <3>2. at # "refused" => hdir \in saved
      BY <3>1, <1>3 DEF SameListed, SavedIsListed
    <3>3. ToolIsFaithful'
      BY <3>1, <3>2, <1>1, <1>3, <2>2
         DEF ToolIsFaithful, Source, Unforced, fileVars, histVars, Writing
    <3> QED
      BY <2>3, <2>4, <2>5, <3>3
  <2>7. CASE RollbackVerify
    <3>1. htool.op = "rollback" /\ (at # "refused" => (SamePinned \/ hw.force) /\ at = "copy")
      BY <2>7, <2>2 DEF RollbackVerify
    <3>2. at # "refused" => hlkg \in saved \/ hw.force
      BY <3>1, <1>3 DEF SamePinned, SavedIsListed
    <3>3. ToolIsFaithful'
      BY <3>1, <3>2, <1>1, <1>3, <2>2
         DEF ToolIsFaithful, Source, Unforced, fileVars, histVars, Writing
    <3> QED
      BY <2>3, <2>4, <2>5, <3>3
  <2> QED
    BY <2>6, <2>7
<1> QED
  BY <1>1, <1>2, <1>3

\* restore() keeps the present home as a backup first.
LEMMA RestoreSaveKeeps ==
  ASSUME ProcInv, FileInv, RestoreSave
  PROVE  ProcInv' /\ FileInv'
<1> USE DEF FileInv
<1>1. UNCHANGED <<hw, procVars, hlkg, pinned, hdir, listed, dirpin, histVars>> /\ htool.at = "save"
  BY DEF RestoreSave
<1>2. ProcInv'
  BY <1>1, ToolLeavesProcesses DEF histVars
<1>3. ASSUME hw.alone PROVE FileInv'
  <2>0. htool \in ToolRow
    BY <1>3 DEF FileTypes
  <2>1. htool' = [htool EXCEPT !.at = "copy"]
    BY DEF RestoreSave
  <2>2. /\ htool' \in ToolRow /\ htool'.at = "copy" /\ htool'.op = htool.op
        /\ htool'.todo = htool.todo /\ htool'.put = htool.put
    BY <2>0, <2>1 DEF ToolRow, Writing
  <2>3. FileTypes' /\ SavedIsListed'
    BY <1>1, <1>3, <2>2 DEF RestoreSave, FileTypes, SavedIsListed, histVars
  <2>4. WhatComesBackWasSaved'
    BY <2>2 DEF WhatComesBackWasSaved
  <2>5. ToolIsAlone'
    BY <1>1, <1>3, <2>2 DEF ToolIsAlone, Writing, NoBoot, procVars
  <2>6. ToolIsFaithful'
    BY <1>1, <1>3, <2>2 DEF ToolIsFaithful, Source, Unforced, histVars, Writing
  <2> QED
    BY <2>3, <2>4, <2>5, <2>6
<1> QED
  BY <1>1, <1>2, <1>3

\* A command copies its next file.
LEMMA CopyKeeps ==
  ASSUME ProcInv, FileInv, BackupCopy \/ RestoreCopy \/ RollbackCopy
  PROVE  ProcInv' /\ FileInv'
<1> USE DEF FileInv
<1>1. /\ UNCHANGED <<hw, procVars, hlkg, pinned, listed, dirpin, histVars>>
      /\ htool.at = "copy" /\ htool.todo # <<>>
  BY DEF BackupCopy, RestoreCopy, RollbackCopy, Puts
<1>2. ProcInv'
  BY <1>1, ToolLeavesProcesses DEF histVars
<1>3. ASSUME hw.alone PROVE FileInv'
  <2>0. htool \in ToolRow /\ hdisk \in [Part -> Nat] /\ hdir \in [Part -> Nat]
        /\ hlkg \in [Part -> Nat]
    BY <1>3 DEF FileTypes
  <2>1. PICK td \in Seq(Part), pt \in [Part -> Nat] : td = htool.todo /\ pt = htool.put
    BY <2>0 DEF ToolRow
  <2>2. PICK f \in Part, tl \in Seq(Part) : f = Head(td) /\ tl = Tail(td)
    BY <2>1, <1>1, LeftAfter
  <2>3. \A p \in Left(td) : p = f \/ p \in Left(tl)
    BY <2>1, <2>2, <1>1, LeftAfter
  <2>4. PICK from \in [Part -> Nat], at \in {"copy", "pins"} :
          /\ htool' = [htool EXCEPT !.todo = tl, !.put = [pt EXCEPT ![f] = from[f]], !.at = at]
          /\ htool.op = "restore" => from = hdir
          /\ htool.op = "rollback" => from = hlkg
    <3>1. CASE BackupCopy
      BY <3>1, <2>0, <2>1, <2>2 DEF BackupCopy, Puts
    <3>2. CASE RestoreCopy
      BY <3>2, <2>0, <2>1, <2>2 DEF RestoreCopy, Puts
    <3>3. CASE RollbackCopy
      BY <3>3, <2>0, <2>1, <2>2 DEF RollbackCopy, Puts
    <3> QED
      BY <3>1, <3>2, <3>3
  <2>5. PICK pu \in [Part -> Nat] : pu = [pt EXCEPT ![f] = from[f]]
    OBVIOUS
  <2>6. /\ htool' \in ToolRow /\ htool'.at \in {"copy", "pins"} /\ htool'.op = htool.op
        /\ htool'.todo = tl /\ htool'.put = pu
    BY <1>1, <2>0, <2>4, <2>5 DEF ToolRow, Writing
  <2>7. /\ hdisk' \in [Part -> Nat] /\ hdir' \in [Part -> Nat]
        /\ htool.op # "backup" => hdir' = hdir
    BY <2>0, <2>1, <2>2 DEF BackupCopy, RestoreCopy, RollbackCopy, Puts
  <2>8. FileTypes' /\ SavedIsListed'
    BY <1>1, <1>3, <2>6, <2>7 DEF FileTypes, SavedIsListed, histVars
  <2>9. WhatComesBackWasSaved'
    BY <2>6 DEF WhatComesBackWasSaved
  <2>10. ToolIsAlone'
    BY <1>1, <1>3, <2>6 DEF ToolIsAlone, Writing, NoBoot, procVars
  <2>11. ToolIsFaithful'
    <3>1. htool.op # "none"
      BY <1>1, <1>3 DEF ToolIsFaithful
    <3>2. ASSUME htool.op \in {"restore", "rollback"}
          PROVE  \A p \in Part : p \in Left(tl) \/ pu[p] = from[p]
      <4>1. \A p \in Part : p \in Left(td) \/ pt[p] = from[p]
        BY <3>2, <1>1, <1>3, <2>1, <2>4 DEF ToolIsFaithful, Source, Writing
      <4> QED
        BY <4>1, <2>3, <2>5
    <3>3. htool.op \in {"restore", "rollback"} => Source' = Source /\ Source = from
      BY <1>1, <2>4, <2>6, <2>7 DEF Source
    <3>4. Unforced' <=> Unforced
      BY <1>1, <2>6 DEF Unforced
    <3>5. htool.op \in {"restore", "rollback"} /\ Unforced => Source \in saved
      BY <1>1, <1>3 DEF ToolIsFaithful
    <3>6. saved' = saved
      BY <1>1 DEF histVars
    <3> QED
      BY <2>6, <3>1, <3>2, <3>3, <3>4, <3>5, <3>6 DEF ToolIsFaithful
  <2> QED
    BY <2>8, <2>9, <2>10, <2>11
<1> QED
  BY <1>1, <1>2, <1>3

\* A command copies the manifest that pins the last known good files.
LEMMA PinKeeps ==
  ASSUME ProcInv, FileInv, BackupPin \/ RestorePin
  PROVE  ProcInv' /\ FileInv'
<1> USE DEF FileInv
<1>1. /\ UNCHANGED <<hw, procVars, hdisk, hlkg, hdir, listed, histVars>>
      /\ htool.at \in {"copy", "pins"}
  BY DEF BackupPin, RestorePin
<1>2. ProcInv'
  BY <1>1, ToolLeavesProcesses DEF histVars
<1>3. ASSUME hw.alone PROVE FileInv'
  <2>0. htool \in ToolRow
    BY <1>3 DEF FileTypes
  <2>1. PICK at \in {"copy", "pins"} : htool' = [htool EXCEPT !.at = at]
    BY DEF BackupPin, RestorePin
  <2>2. /\ htool' \in ToolRow /\ htool'.at = at /\ htool'.op = htool.op
        /\ htool'.todo = htool.todo /\ htool'.put = htool.put
    BY <2>0, <2>1 DEF ToolRow, Writing
  <2>3. FileTypes'
    BY <1>1, <1>3, <2>2 DEF FileTypes
  <2>4. SavedIsListed'
    BY <1>1, <1>3 DEF BackupPin, RestorePin, SavedIsListed, histVars
  <2>5. WhatComesBackWasSaved'
    BY <2>2 DEF WhatComesBackWasSaved
  <2>6. ToolIsAlone'
    BY <1>1, <1>3, <2>2 DEF ToolIsAlone, Writing, NoBoot, procVars
  <2>7. ToolIsFaithful'
    BY <1>1, <1>3, <2>2 DEF ToolIsFaithful, Source, Unforced, histVars, Writing
  <2> QED
    BY <2>3, <2>4, <2>5, <2>6, <2>7
<1> QED
  BY <1>1, <1>2, <1>3

\* The last file is copied; a backup writes its manifest.
LEMMA EndKeeps ==
  ASSUME ProcInv, FileInv, BackupEnd \/ RestoreEnd
  PROVE  ProcInv' /\ FileInv'
<1> USE DEF FileInv
<1>1. /\ UNCHANGED <<hw, procVars, hdisk, hlkg, pinned, hdir, early, hwrites, heard>>
      /\ htool.at \in {"copy", "pins"} /\ (htool.op # "backup" => htool.todo = <<>>)
      /\ dirpin' = dirpin /\ htool' = [htool EXCEPT !.at = "done"]
  BY DEF BackupEnd, RestoreEnd, fileVars, histVars
<1>2. ProcInv'
  BY <1>1, ToolLeavesProcesses
<1>3. ASSUME hw.alone PROVE FileInv'
  <2>0. htool \in ToolRow
    BY <1>3 DEF FileTypes
  <2>1. /\ htool' \in ToolRow /\ htool'.at = "done" /\ htool'.op = htool.op
        /\ htool'.put = htool.put /\ htool.put \in [Part -> Nat]
    BY <2>0, <1>1 DEF ToolRow
  <2>2. FileTypes'
    BY <1>1, <1>3, <2>1 DEF FileTypes
  <2>3. SavedIsListed' /\ saved \subseteq saved'
    BY <1>1, <1>3 DEF BackupEnd, RestoreEnd, SavedIsListed, fileVars, histVars
  <2>4. ToolIsAlone'
    BY <2>1 DEF ToolIsAlone, Writing
  <2>5. htool.op # "none"
    BY <1>1, <1>3 DEF ToolIsFaithful
  <2>6. ToolIsFaithful'
    BY <2>1, <2>5 DEF ToolIsFaithful, Writing
  <2>7. WhatComesBackWasSaved'
    <3> SUFFICES ASSUME htool.op # "backup", Unforced PROVE htool.put \in saved
      BY <1>1, <2>1, <2>3 DEF WhatComesBackWasSaved, Unforced
    <3>1. htool.op \in {"restore", "rollback"}
      BY <2>0, <2>5 DEF ToolRow
    <3>2. \A p \in Part : p \in Left(htool.todo) \/ htool.put[p] = Source[p]
      BY <1>1, <1>3, <3>1 DEF ToolIsFaithful, Writing
    <3>3. Left(htool.todo) = {}
      BY <1>1 DEF Left
    <3>4. Source \in [Part -> Nat]
      BY <1>3 DEF FileTypes, Source
    <3>5. htool.put = Source
      BY <2>1, <3>2, <3>3, <3>4
    <3>6. Source \in saved
      BY <1>1, <1>3, <3>1 DEF ToolIsFaithful
    <3> QED
      BY <3>5, <3>6
  <2> QED
    BY <2>2, <2>3, <2>4, <2>6, <2>7
<1> QED
  BY <1>1, <1>2, <1>3

\* A command that is killed leaves the files as they are.
LEMMA ToolKilledKeeps ==
  ASSUME ProcInv, FileInv, ToolKilled
  PROVE  ProcInv' /\ FileInv'
<1> USE DEF FileInv
<1>0. hw \in HomeWorld
  BY DEF ProcInv, HomeTypes
<1>1. /\ UNCHANGED <<procVars, fileVars, histVars>> /\ SpendHome("kills")
      /\ htool' = [htool EXCEPT !.at = "killed"] /\ htool.at \in Writing
  BY DEF ToolKilled, Writing
<1>2. hw' \in HomeWorld /\ hw'.alone = hw.alone /\ hw'.force = hw.force
  BY <1>0, <1>1, Spent
<1>3. ProcInv'
  BY <1>1, <1>2, ProcIsLeft DEF histVars
<1>4. ASSUME hw.alone PROVE FileInv'
  <2>1. htool \in ToolRow
    BY <1>4 DEF FileTypes
  <2>2. htool' \in ToolRow /\ htool'.at = "killed" /\ htool'.op = htool.op
    BY <2>1, <1>1 DEF ToolRow
  <2>3. FileTypes' /\ SavedIsListed'
    BY <1>1, <1>4, <2>2 DEF FileTypes, SavedIsListed, fileVars, histVars
  <2>4. WhatComesBackWasSaved' /\ ToolIsAlone'
    BY <2>2 DEF WhatComesBackWasSaved, ToolIsAlone, Writing
  <2>5. ToolIsFaithful'
    BY <1>1, <1>4, <2>2 DEF ToolIsFaithful, Writing
  <2> QED
    BY <2>3, <2>4, <2>5
<1> QED
  BY <1>2, <1>3, <1>4

---------------------------------------------------------------------------
\* A home with its first files and no backup.
LEMMA FileInitHolds == HomeInit => FileInv
<1> SUFFICES ASSUME HomeInit PROVE FileInv
  OBVIOUS
<1>1. htool \in ToolRow /\ htool.op = "none" /\ htool.at = "idle"
  BY DEF HomeInit, IdleTool, ToolRow, Absent
<1>2. FileTypes
  BY <1>1 DEF HomeInit, FileTypes, Absent
<1>3. SavedIsListed
  BY DEF HomeInit, SavedIsListed
<1>4. ToolIsAlone /\ ToolIsFaithful /\ WhatComesBackWasSaved
  BY <1>1 DEF ToolIsAlone, ToolIsFaithful, WhatComesBackWasSaved, Writing
<1> QED
  BY <1>2, <1>3, <1>4 DEF FileInv

\* Each step keeps both, and a human who waits goes on waiting.
LEMMA HomeNextKeeps ==
  ASSUME ProcInv, FileInv, [HomeNext]_homeVars
  PROVE  ProcInv' /\ FileInv' /\ hw'.alone = hw.alone
<1>0. hw \in HomeWorld
  BY DEF ProcInv, HomeTypes
<1>1. CASE UNCHANGED homeVars
  <2>1. UNCHANGED <<hw, procVars, fileVars, htool, histVars>>
    BY <1>1 DEF homeVars
  <2>2. ProcInv'
    BY <2>1, ToolLeavesProcesses DEF histVars
  <2>3. hw.alone => ToolIsAlone'
    BY <2>1 DEF FileInv, ToolIsAlone, NoBoot, procVars
  <2>4. FileInv'
    BY <2>1, <2>3, FilesAreLeft DEF histVars
  <2> QED
    BY <2>1, <2>2, <2>4
<1>2. ASSUME NEW s \in Starter,
             \/ DaemonProbe(s) \/ DaemonSpawn(s) \/ DaemonAnswers(s) \/ DaemonGivesUp(s)
             \/ TakeLock(s) \/ ClearStale(s) \/ OpenFails(s) \/ OpenHome(s)
             \/ BootReady(s) \/ BootFails(s) \/ BootSignal(s) \/ WriteReady(s)
             \/ ServeSignal(s) \/ MainEnds(s)
             \/ NodesRegister(s) \/ Promote(s) \/ PromoteFails(s) \/ ActorEnds(s)
             \/ Signal(s) \/ StopFrame(s) \/ BaseKilled(s)
      PROVE  ProcInv' /\ FileInv' /\ hw'.alone = hw.alone
  <2>1. ProcInv'
    BY <1>2, DaemonProbeKeeps, DaemonSpawnKeeps, DaemonAnswersKeeps, DaemonGivesUpKeeps,
       TakeLockKeeps,
       ClearStaleKeeps, OpenFailsKeeps, OpenHomeKeeps, BootReadyKeeps, BootFailsKeeps,
       BootSignalKeeps,
       WriteReadyKeeps, ServeSignalKeeps, MainEndsKeeps, NodesRegisterKeeps, PromoteKeeps,
       PromoteFailsKeeps, ActorEndsKeeps, SignalKeeps, StopFrameKeeps, BaseKilledKeeps
  <2>2. FileInv'
    BY <1>2, ProcessesLeaveFiles, OpenHomeLeavesFiles, PromoteLeavesFiles, PromoteFailsLeavesFiles
  <2>3. hw' = hw \/ \E f \in {"kills", "signals", "stops", "edits", "rots", "lates", "fails"} :
                        SpendHome(f)
    BY <1>2 DEF DaemonProbe, DaemonSpawn, DaemonAnswers, DaemonGivesUp, TakeLock, ClearStale,
       OpenFails,
       OpenHome, BootReady, BootFails, BootSignal, WriteReady, ServeSignal, MainEnds, NodesRegister,
       Promote, PromoteFails, ActorEnds, Signal, StopFrame, BaseKilled
  <2> QED
    BY <2>1, <2>2, <2>3, <1>0, Spent
<1>3. CASE (\E p \in Part : EditFile(p)) \/ Rot
  BY <1>0, <1>3, WorldLeavesFiles, Spent DEF EditFile, Rot
<1>4. CASE BackupBegin \/ RestoreBegin \/ RollbackBegin
  <2>1. hw'.alone = hw.alone
    BY <1>0, <1>4 DEF BackupBegin, RestoreBegin, RollbackBegin, Begins, HomeWorld
  <2> QED
    BY <1>4, <2>1, BeginsKeep
<1>5. CASE RestoreVerify \/ RollbackVerify
  BY <1>5, VerifyKeeps DEF RestoreVerify, RollbackVerify
<1>6. CASE RestoreSave
  BY <1>6, RestoreSaveKeeps DEF RestoreSave
<1>7. CASE BackupCopy \/ RestoreCopy \/ RollbackCopy
  BY <1>7, CopyKeeps DEF BackupCopy, RestoreCopy, RollbackCopy, Puts
<1>8. CASE BackupEnd \/ RestoreEnd
  BY <1>8, EndKeeps DEF BackupEnd, RestoreEnd
<1>10. CASE BackupPin \/ RestorePin
  BY <1>10, PinKeeps DEF BackupPin, RestorePin
<1>9. CASE ToolKilled
  BY <1>0, <1>9, ToolKilledKeeps, Spent DEF ToolKilled
<1> QED
  BY <1>1, <1>2, <1>3, <1>4, <1>5, <1>6, <1>7, <1>8, <1>9, <1>10 DEF HomeNext

\* What the invariant of the processes says of the door.
LEMMA ProcInvIsEnough ==
  ASSUME ProcInv PROVE ServingBaseKeepsItsDoor /\ UpMeansReady /\ LeftoversAreRaced
<1>1. ServingBaseKeepsItsDoor
  BY DEF ProcInv, ActorIsServed, LockIsHeld, Holding, ServingBaseKeepsItsDoor
<1>2. UpMeansReady
  BY DEF ProcInv, HeardIsBefore, UpMeansReady
<1>3. LeftoversAreRaced
  BY DEF ProcInv, ReadyIsWritten, LeftoversAreRaced
<1> QED
  BY <1>1, <1>2, <1>3

\* The two invariants say what HomeIsSound does.
LEMMA HomeInvIsEnough ==
  ASSUME ProcInv, FileInv, hw.alone PROVE HomeIsSound
  BY ProcInvIsEnough DEF HomeIsSound, FileInv

\* For any starts, commands, kills, signals and rotten bytes, and a human who waits for a
\* command before the next: one base serves a home, a start that says it is up is right, and
\* what a restore or a rollback puts into the home was the home's before (lock.rs, main.rs
\* daemon, backup.rs restore, lkg.rs rollback).
THEOREM QuietHomeIsSound == QuietSpec => []HomeIsSound
<1>1. HomeInit => ProcInv /\ FileInv
  BY ProcInitHolds, FileInitHolds
<1>2. ProcInv /\ FileInv /\ hw.alone /\ [HomeNext]_homeVars => (ProcInv /\ FileInv /\ hw.alone)'
  BY HomeNextKeeps
<1>3. ProcInv /\ FileInv /\ hw.alone => HomeIsSound
  BY HomeInvIsEnough
<1> QED
  BY <1>1, <1>2, <1>3, PTL DEF QuietSpec, HomeSpec

\* For any starts, kills and signals, and whatever commands of a human run beside the bases:
\* a serving base holds its lock, its socket and its ready file, a daemonizing start that says
\* up has seen a file written since, and a file left behind is the known race (lib.rs, lock.rs).
THEOREM ServingBasesKeepTheirDoors ==
  HomeSpec => [](ServingBaseKeepsItsDoor /\ UpMeansReady /\ LeftoversAreRaced)
<1>1. HomeInit => ProcInv /\ FileInv
  BY ProcInitHolds, FileInitHolds
<1>2. ProcInv /\ FileInv /\ [HomeNext]_homeVars => (ProcInv /\ FileInv)'
  BY HomeNextKeeps
<1>3. ProcInv => ServingBaseKeepsItsDoor /\ UpMeansReady /\ LeftoversAreRaced
  BY ProcInvIsEnough
<1> QED
  BY <1>1, <1>2, <1>3, PTL DEF HomeSpec

-----------------------------------------------------------------------------
(***************************************************************************)
(* The front door: tasks of requests, the queue of the actor, and the      *)
(* connections of a node with the tasks that wait on them.                 *)
(***************************************************************************)

\* What a client wants of a connection, and what goes wrong.
DoorWorld == [wants : Seq([m : STRING, env : STRING]), patient : BOOLEAN,
              drops : Nat, hangs : BOOLEAN, detach : BOOLEAN]

\* The environments and the methods a client may name.
EnvName == {NoEnv, root_env} \cup UNION {{w.wants[i].env : i \in DOMAIN w.wants} : w \in DoorWorlds}
CmdName == {"peer_of", "probed", "attach", "gone", "exited", "node.register"}
           \cup UNION {{w.wants[i].m : i \in DOMAIN w.wants} : w \in DoorWorlds}
\* Where a task can be, and what it can end with.
Phase == {"unsent", "guard", "peer_of", "attach", "local", "ask", "asked", "bind", "request",
          "waiting", "answered", "held", "done"}
Outcome == {"none", "ok", "denied", "node_gone", "timeout", "disconnected", "not_registered",
            "halted", "unauthorized"}

\* The task of a request, the actor, the client's connection, a command of the actor's
\* queue and a connection of the node.
Task == [at : Phase, env : EnvName, peer : Nat, got : Outcome \X Nat]
ActorRow == [peer : Nat, gen : Nat, row : Nat, attached : BOOLEAN, stopped : BOOLEAN]
Connection == [open : BOOLEAN, scope : EnvName, pump : {"none", "on", "ended"}, said : Nat]
QueuedCmd == [t : CmdName, i : Nat]

PeerRow == [up : BOOLEAN, waiting : SUBSET DoorRequests, wire : Seq(DoorRequests)]

\* The state of the door.
DoorTypes ==
  /\ dworld \in DoorWorlds /\ dworld \in DoorWorld /\ door \in Connection /\ actor \in ActorRow
  /\ req \in [DoorRequests -> Task]
  /\ cmds \in Seq(QueuedCmd)
  /\ peers \in Seq(PeerRow)

\* A command whose reply a task waits for.
OfTask(c) == c.t \notin {"attach", "gone", "exited", "node.register"}

\* The task of a queued command waits for its reply.
CmdIsAsked(c) ==
  OfTask(c) => /\ c.i \in DoorRequests /\ req[c.i].at = "asked"
               /\ c.t \in {"peer_of", "probed"} \/ c.t = MethodOf(c.i)

CmdsAreAsked == \A k \in 1 .. Len(cmds) : CmdIsAsked(cmds[k])

\* A task has one command in the queue.
CmdsAreOnce ==
  \A k, l \in 1 .. Len(cmds) :
    OfTask(cmds[k]) /\ OfTask(cmds[l]) /\ cmds[k].i = cmds[l].i => k = l

\* Who waits on a connection is a task that waits, and waits on that one.
WaitersWait ==
  \A p \in 1 .. Len(peers) : \A i \in peers[p].waiting : req[i].at = "waiting" /\ req[i].peer = p

\* The answer a task got is to its own request.
GotIsOwn == \A i, j \in DoorRequests : req[i].got = <<"ok", j>> => i = j

\* A request that bound its connection to an environment.
Bound(i) == MethodOf(i) = "auth.scope" /\ req[i].got = <<"ok", 0>>

\* How far a task is says whether it has an environment and an answer.
PhaseIsRight(i, r) ==
  /\ r.at \in {"unsent", "guard"} => r.env = NoEnv /\ r.got = <<"none", 0>>
  /\ r.at \notin {"unsent", "guard", "done"} => r.env # NoEnv
  /\ r.at = "bind" => MethodOf(i) = "auth.scope"
  /\ r.at \in {"local", "attach", "held"} => MethodOf(i) # "auth.scope"
  /\ r.at # "done" /\ MethodOf(i) = "auth.scope" => r.got # <<"ok", 0>>

TaskPhases ==
  \A i \in DoorRequests : PhaseIsRight(i, req[i]) /\ (req[i].at = "unsent" <=> i > door.said)

\* A client that waits for each answer has one request under way.
InTurn == dworld.patient => \A i \in DoorRequests : i < door.said => req[i].at = "done"

\* Its connection is bound to the environment of the last binding.
ScopeIsLast ==
  dworld.patient =>
    \A j \in DoorRequests :
      Bound(j) /\ (\A k \in DoorRequests : k > j => ~Bound(k)) =>
        door.scope = req[j].env /\ door.scope # NoEnv

\* The inductive invariant of the front door.
DoorInv ==
  /\ DoorTypes /\ CmdsAreAsked /\ CmdsAreOnce /\ WaitersWait /\ GotIsOwn /\ TaskPhases
  /\ InTurn /\ ScopeIsLast /\ ScopedStaysHome

---------------------------------------------------------------------------
\* The step of a task that is neither the check of its scope nor a binding.
Moves(i, r) ==
  /\ r \in Task /\ r.env = req[i].env
  /\ req[i].at \notin {"unsent", "guard", "done"} /\ r.at \notin {"unsent", "guard"}
  /\ r.at = "bind" => MethodOf(i) = "auth.scope"
  /\ r.at \in {"local", "attach", "held"} => MethodOf(i) # "auth.scope"
  /\ MethodOf(i) = "auth.scope" => r.got # <<"ok", 0>>
  /\ \A j \in DoorRequests : r.got = <<"ok", j>> => i = j

\* The requests of a client are numbered in the order it sends them.
LEMMA RequestsAreNumbered ==
  ASSUME DoorTypes
  PROVE  DoorRequests = 1 .. Len(dworld.wants) /\ Len(dworld.wants) \in Nat
<1>1. PICK w \in Seq([m : STRING, env : STRING]) : w = dworld.wants
  BY DEF DoorTypes, DoorWorld
<1>2. Len(w) \in Nat /\ DOMAIN w = 1 .. Len(w)
  BY <1>1, LenProperties
<1> QED
  BY <1>1, <1>2 DEF DoorRequests

\* What the invariant says of answers, phases and scopes stays where tasks move.
LEMMA TasksMove ==
  ASSUME DoorInv, dworld' = dworld, door'.said = door.said, door'.scope = door.scope,
         req' \in [DoorRequests -> Task],
         \A i \in DoorRequests : req'[i] = req[i] \/ Moves(i, req'[i])
  PROVE  GotIsOwn' /\ TaskPhases' /\ InTurn' /\ ScopeIsLast' /\ ScopedStaysHome'
<1>0. /\ DoorRequests' = DoorRequests /\ \A i : MethodOf(i)' = MethodOf(i)
      /\ GotIsOwn /\ TaskPhases /\ InTurn /\ ScopeIsLast /\ ScopedStaysHome
  BY DEF DoorRequests, MethodOf, DoorInv
<1>1. \A i \in DoorRequests : req'[i].env = req[i].env
  BY DEF Moves
<1>2. \A i \in DoorRequests : (Bound(i))' <=> Bound(i)
  <2> SUFFICES ASSUME NEW i \in DoorRequests, Moves(i, req'[i]) PROVE (Bound(i))' <=> Bound(i)
    BY <1>0 DEF Bound
  <2>1. ~Bound(i)
    BY <1>0 DEF Moves, TaskPhases, PhaseIsRight, Bound
  <2>2. ~(Bound(i))'
    BY <1>0 DEF Moves, Bound
  <2> QED
    BY <2>1, <2>2
<1>3. GotIsOwn'
  BY <1>0 DEF GotIsOwn, Moves
<1>4. TaskPhases'
  <2> SUFFICES ASSUME NEW i \in DoorRequests
               PROVE  PhaseIsRight(i, req[i])' /\ (req'[i].at = "unsent" <=> i > door.said)
    BY <1>0 DEF TaskPhases
  <2>1. CASE req'[i] = req[i]
    BY <1>0, <2>1 DEF TaskPhases, PhaseIsRight
  <2>2. CASE Moves(i, req'[i])
    BY <1>0, <2>2 DEF TaskPhases, PhaseIsRight, Moves
  <2> QED
    BY <2>1, <2>2
<1>5. InTurn'
  BY <1>0 DEF InTurn, Moves
<1>6. ScopeIsLast'
  BY <1>0, <1>1, <1>2 DEF ScopeIsLast
<1>7. ScopedStaysHome'
  <2> SUFFICES ASSUME dworld.patient, NEW i \in DoorRequests, NEW j \in DoorRequests,
                      j < i, MethodOf(j) = "auth.scope", req'[j].got = <<"ok", 0>>,
                      MethodOf(i) \notin Open, req'[i].env # NoEnv,
                      ~\E k \in j + 1 .. i - 1 : MethodOf(k) = "auth.scope"
               PROVE  req'[i].env = req'[j].env
    BY <1>0 DEF ScopedStaysHome
  <2>1. req[j].got = <<"ok", 0>>
    BY <1>0, <1>2 DEF Bound
  <2>2. req[i].env # NoEnv /\ req'[i].env = req[i].env /\ req'[j].env = req[j].env
    BY <1>1
  <2> QED
    BY <1>0, <2>1, <2>2 DEF ScopedStaysHome
<1> QED
  BY <1>3, <1>4, <1>5, <1>6, <1>7

\* Nothing was sent.
LEMMA DoorInitHolds == DoorInit => DoorInv
<1> SUFFICES ASSUME DoorInit PROVE DoorInv
  OBVIOUS
<1>0. dworld \in DoorWorlds /\ dworld \in DoorWorld
  BY DoorAssumption DEF DoorInit, DoorWorld
<1>1. req \in [DoorRequests -> Task] /\ door \in Connection /\ actor \in ActorRow
  <2>1. PICK r : r = [at |-> "unsent", env |-> NoEnv, peer |-> NoPeer, got |-> <<"none", 0>>]
    OBVIOUS
  <2>2. r \in Task
    BY <2>1 DEF Task, EnvName, NoPeer, Phase, Outcome
  <2>3. req = [i \in DoorRequests |-> r]
    BY <2>1 DEF DoorInit
  <2>4. door \in Connection
    BY DEF DoorInit, Connection, EnvName
  <2>5. actor \in ActorRow
    BY DEF DoorInit, ActorRow
  <2> QED
    BY <2>2, <2>3, <2>4, <2>5
<1>2. PICK pr : pr = [up |-> TRUE, waiting |-> {}, wire |-> <<>>]
  OBVIOUS
<1>3. pr \in PeerRow
  BY <1>2 DEF PeerRow
<1>4. peers = <<pr>> /\ Len(peers) = 1 /\ pr.waiting = {}
  BY <1>2 DEF DoorInit
<1>5. peers \in Seq(PeerRow)
  BY <1>3, <1>4
<1>6. cmds = <<>> /\ Len(cmds) = 0
  BY DEF DoorInit
<1>7. DoorTypes
  BY <1>0, <1>1, <1>5, <1>6 DEF DoorTypes
<1>8. \A i \in DoorRequests : req[i].at = "unsent" /\ req[i].env = NoEnv /\ req[i].got = <<"none", 0>>
  BY DEF DoorInit
<1>9. CmdsAreAsked /\ CmdsAreOnce
  BY <1>6 DEF CmdsAreAsked, CmdsAreOnce
<1>10. WaitersWait
  BY <1>4 DEF WaitersWait
<1>11. GotIsOwn /\ InTurn
  BY <1>8, RequestsAreNumbered, <1>7 DEF GotIsOwn, InTurn, DoorInit
<1>12. TaskPhases
  BY <1>8, RequestsAreNumbered, <1>7 DEF TaskPhases, PhaseIsRight, DoorInit
<1>13. ScopeIsLast /\ ScopedStaysHome
  BY <1>8 DEF ScopeIsLast, ScopedStaysHome, Bound
<1> QED
  BY <1>7, <1>9, <1>10, <1>11, <1>12, <1>13 DEF DoorInv

---------------------------------------------------------------------------
\* The queue of the actor stays, and so do the tasks that wait for it.
LEMMA QueueIsLeft ==
  ASSUME DoorInv, dworld' = dworld, cmds' = cmds,
         \A i \in DoorRequests : req[i].at = "asked" => req'[i].at = "asked"
  PROVE  CmdsAreAsked' /\ CmdsAreOnce'
<1>1. DoorRequests' = DoorRequests /\ \A i : MethodOf(i)' = MethodOf(i)
  BY DEF DoorRequests, MethodOf
<1> QED
  BY <1>1 DEF DoorInv, CmdsAreAsked, CmdsAreOnce, CmdIsAsked, OfTask

\* A task puts its command at the end of the queue and waits.
LEMMA QueueGrows ==
  ASSUME DoorInv, dworld' = dworld, NEW c \in QueuedCmd, cmds' = Append(cmds, c),
         \A i \in DoorRequests : req[i].at = "asked" => req'[i].at = "asked",
         OfTask(c) => /\ c.i \in DoorRequests /\ req[c.i].at # "asked" /\ req'[c.i].at = "asked"
                      /\ c.t \in {"peer_of", "probed"} \/ c.t = MethodOf(c.i)
  PROVE  cmds' \in Seq(QueuedCmd) /\ CmdsAreAsked' /\ CmdsAreOnce'
<1>1. DoorRequests' = DoorRequests /\ \A i : MethodOf(i)' = MethodOf(i)
  BY DEF DoorRequests, MethodOf
<1>2. cmds \in Seq(QueuedCmd) /\ Len(cmds) \in Nat
  BY LenProperties DEF DoorInv, DoorTypes
<1>3. /\ cmds' \in Seq(QueuedCmd) /\ Len(cmds') = Len(cmds) + 1 /\ cmds'[Len(cmds) + 1] = c
      /\ \A k \in 1 .. Len(cmds) : cmds'[k] = cmds[k]
  BY <1>2, AppendProperties
<1>4. \A k \in 1 .. Len(cmds) : CmdIsAsked(cmds[k])
  BY DEF DoorInv, CmdsAreAsked
<1>5. CmdsAreAsked'
  <2> SUFFICES ASSUME NEW k \in 1 .. Len(cmds'), OfTask(cmds'[k])
               PROVE  /\ cmds'[k].i \in DoorRequests /\ req'[cmds'[k].i].at = "asked"
                      /\ cmds'[k].t \in {"peer_of", "probed"} \/ cmds'[k].t = MethodOf(cmds'[k].i)
    BY <1>1 DEF CmdsAreAsked, CmdIsAsked, OfTask
  <2>1. CASE k = Len(cmds) + 1
    BY <1>3, <2>1
  <2>2. CASE k # Len(cmds) + 1
    <3>1. k \in 1 .. Len(cmds)
      BY <1>2, <1>3, <2>2
    <3> QED
      BY <3>1, <1>3, <1>4 DEF CmdIsAsked
  <2> QED
    BY <2>1, <2>2
<1>6. CmdsAreOnce'
  <2> SUFFICES ASSUME NEW k \in 1 .. Len(cmds'), NEW l \in 1 .. Len(cmds'),
                      OfTask(cmds'[k]), OfTask(cmds'[l]), cmds'[k].i = cmds'[l].i
               PROVE  k = l
    BY DEF CmdsAreOnce, OfTask
  <2>1. (k = Len(cmds) + 1 \/ k \in 1 .. Len(cmds)) /\ (l = Len(cmds) + 1 \/ l \in 1 .. Len(cmds))
    BY <1>2, <1>3
  <2>2. ASSUME NEW n \in 1 .. Len(cmds), OfTask(cmds'[n]), OfTask(c) PROVE cmds'[n].i # c.i
    BY <2>2, <1>3, <1>4 DEF CmdIsAsked
  <2>3. CASE k \in 1 .. Len(cmds) /\ l \in 1 .. Len(cmds)
    BY <2>3, <1>3 DEF DoorInv, CmdsAreOnce
  <2> QED
    BY <2>1, <2>2, <2>3, <1>3
<1> QED
  BY <1>3, <1>5, <1>6

\* The actor takes the oldest command; only its task may go on.
LEMMA QueueShrinks ==
  ASSUME DoorInv, dworld' = dworld, cmds # <<>>, cmds' = Tail(cmds),
         \A i \in DoorRequests :
           req[i].at = "asked" => req'[i].at = "asked" \/ (OfTask(Head(cmds)) /\ i = Head(cmds).i)
  PROVE  /\ cmds' \in Seq(QueuedCmd) /\ CmdsAreAsked' /\ CmdsAreOnce'
         /\ Head(cmds) \in QueuedCmd /\ CmdIsAsked(Head(cmds))
<1>1. DoorRequests' = DoorRequests /\ \A i : MethodOf(i)' = MethodOf(i)
  BY DEF DoorRequests, MethodOf
<1>2. cmds \in Seq(QueuedCmd) /\ Len(cmds) \in Nat
  BY LenProperties DEF DoorInv, DoorTypes
<1>3. /\ cmds' \in Seq(QueuedCmd) /\ Head(cmds) \in QueuedCmd /\ Head(cmds) = cmds[1]
      /\ Len(cmds') = Len(cmds) - 1 /\ Len(cmds) # 0
      /\ \A k \in 1 .. Len(cmds') : cmds'[k] = cmds[k + 1]
  BY <1>2, HeadTailProperties, EmptySeq
<1>4. \A k \in 1 .. Len(cmds) : CmdIsAsked(cmds[k])
  BY DEF DoorInv, CmdsAreAsked
<1>5. \A k \in 1 .. Len(cmds') : k + 1 \in 1 .. Len(cmds) /\ k + 1 # 1
  BY <1>2, <1>3
<1>6. 1 \in 1 .. Len(cmds)
  BY <1>2, <1>3
<1>7. CmdIsAsked(Head(cmds))
  BY <1>3, <1>4, <1>6
<1>8. CmdsAreAsked'
  <2> SUFFICES ASSUME NEW k \in 1 .. Len(cmds'), OfTask(cmds'[k])
               PROVE  /\ cmds'[k].i \in DoorRequests /\ req'[cmds'[k].i].at = "asked"
                      /\ cmds'[k].t \in {"peer_of", "probed"} \/ cmds'[k].t = MethodOf(cmds'[k].i)
    BY <1>1 DEF CmdsAreAsked, CmdIsAsked, OfTask
  <2>1. PICK n \in 1 .. Len(cmds) : n = k + 1 /\ n # 1 /\ cmds'[k] = cmds[n]
    BY <1>3, <1>5
  <2>2. CmdIsAsked(cmds[n]) /\ OfTask(cmds[n])
    BY <1>4, <2>1
  <2>3. ~(OfTask(Head(cmds)) /\ cmds[n].i = Head(cmds).i)
    BY <1>3, <1>6, <2>1, <2>2 DEF DoorInv, CmdsAreOnce
  <2> QED
    BY <2>1, <2>2, <2>3 DEF CmdIsAsked
<1>9. CmdsAreOnce'
  <2> SUFFICES ASSUME NEW k \in 1 .. Len(cmds'), NEW l \in 1 .. Len(cmds'),
                      OfTask(cmds'[k]), OfTask(cmds'[l]), cmds'[k].i = cmds'[l].i
               PROVE  k = l
    BY DEF CmdsAreOnce, OfTask
  <2>1. cmds'[k] = cmds[k + 1] /\ cmds'[l] = cmds[l + 1] /\ k + 1 \in 1 .. Len(cmds)
        /\ l + 1 \in 1 .. Len(cmds)
    BY <1>3, <1>5
  <2>2. k + 1 = l + 1
    BY <2>1 DEF DoorInv, CmdsAreOnce
  <2> QED
    BY <2>2
<1> QED
  BY <1>3, <1>7, <1>8, <1>9

\* The connections of the node stay, and so do the tasks that wait on them.
LEMMA WaitersAreLeft ==
  ASSUME DoorInv, dworld' = dworld, peers' = peers,
         \A i \in DoorRequests : req[i].at = "waiting" => req'[i] = req[i]
  PROVE  WaitersWait'
<1>0. peers \in Seq(PeerRow)
  BY DEF DoorInv, DoorTypes
<1>1. \A p \in 1 .. Len(peers) : peers[p] \in PeerRow
  BY <1>0, ElementOfSeq
<1>2. \A p \in 1 .. Len(peers) : \A i \in peers[p].waiting : i \in DoorRequests
  BY <1>1 DEF PeerRow
<1> QED
  BY <1>2 DEF DoorInv, WaitersWait

\* The types of a step that leaves the client's wishes.
LEMMA TypesAreLeft ==
  ASSUME DoorInv, dworld' = dworld, req' \in [DoorRequests -> Task], cmds' \in Seq(QueuedCmd),
         peers' \in Seq(PeerRow),
         door' \in Connection, actor' \in ActorRow
  PROVE  DoorTypes'
  BY DEF DoorInv, DoorTypes, DoorRequests, PeerRow

---------------------------------------------------------------------------
\* One task moves: what else the step must say of the queue and of the waiters.
LEMMA OneMoves ==
  ASSUME DoorInv, dworld' = dworld, door' = door, NEW i \in DoorRequests, NEW r, Moves(i, r),
         req' = [req EXCEPT ![i] = r], actor' \in ActorRow,
         cmds' \in Seq(QueuedCmd), CmdsAreAsked', CmdsAreOnce',
         peers' \in Seq(PeerRow), WaitersWait'
  PROVE  DoorInv'
<1>1. req \in [DoorRequests -> Task] /\ r \in Task /\ door \in Connection
  BY DEF DoorInv, DoorTypes, Moves
<1>2. req' \in [DoorRequests -> Task] /\ \A j \in DoorRequests : req'[j] = req[j] \/ Moves(j, req'[j])
  BY <1>1
<1>3. GotIsOwn' /\ TaskPhases' /\ InTurn' /\ ScopeIsLast' /\ ScopedStaysHome'
  BY <1>2, TasksMove
<1>4. DoorTypes'
  BY <1>1, <1>2, TypesAreLeft
<1> QED
  BY <1>3, <1>4 DEF DoorInv

\* The types, for use in the steps.
LEMMA DoorFacts ==
  ASSUME DoorInv
  PROVE  /\ dworld \in DoorWorlds /\ dworld \in DoorWorld /\ door \in Connection /\ actor \in ActorRow
         /\ req \in [DoorRequests -> Task] /\ cmds \in Seq(QueuedCmd) /\ peers \in Seq(PeerRow)
         /\ DoorRequests = 1 .. Len(dworld.wants) /\ Len(dworld.wants) \in Nat
         /\ \A i \in DoorRequests :
              /\ i \in Nat \ {0} /\ req[i] \in Task
              /\ Named(i) \in EnvName /\ MethodOf(i) \in CmdName
  <1>1. DoorTypes
    BY DEF DoorInv
  <1>2. DoorRequests = 1 .. Len(dworld.wants) /\ Len(dworld.wants) \in Nat
    BY <1>1, RequestsAreNumbered
  <1>3. ASSUME NEW i \in DoorRequests
        PROVE  Named(i) \in EnvName /\ MethodOf(i) \in CmdName
    BY <1>1 DEF DoorTypes, Named, MethodOf, EnvName, CmdName, DoorRequests
  <1> QED
    BY <1>1, <1>2, <1>3 DEF DoorTypes

\* A task that goes on, and what it came with stays.
LEMMA TaskGoes ==
  ASSUME NEW r \in Task, NEW l \in Phase
  PROVE  /\ [r EXCEPT !.at = l] \in Task
         /\ [r EXCEPT !.at = l].at = l /\ [r EXCEPT !.at = l].env = r.env
         /\ [r EXCEPT !.at = l].peer = r.peer /\ [r EXCEPT !.at = l].got = r.got
  BY DEF Task

\* A task that has got an answer.
Given(r, l, o, n) == [r EXCEPT !.at = l, !.got = <<o, n>>]

\* A task that is given an answer keeps its environment and its connection.
LEMMA TaskGets ==
  ASSUME NEW r \in Task, NEW l \in Phase, NEW o \in Outcome, NEW n \in Nat
  PROVE  /\ Given(r, l, o, n) \in Task /\ Given(r, l, o, n).at = l /\ Given(r, l, o, n).env = r.env
         /\ Given(r, l, o, n).peer = r.peer /\ Given(r, l, o, n).got = <<o, n>>
<1>1. PICK g \in Outcome \X Nat : g = <<o, n>>
  OBVIOUS
<1>2. PICK q : q = [r EXCEPT !.at = l, !.got = g]
  OBVIOUS
<1>3. q \in Task /\ q.at = l /\ q.env = r.env /\ q.peer = r.peer /\ q.got = g
  BY <1>2 DEF Task
<1>4. q = Given(r, l, o, n)
  BY <1>1, <1>2 DEF Given
<1> QED
  BY <1>1, <1>3, <1>4

\* A task that is over.
TaskOver(r, o) == [r EXCEPT !.at = "done", !.got = <<o, 0>>]

\* So does one that ends,
LEMMA TaskIsOver ==
  ASSUME NEW r \in Task, NEW o \in Outcome
  PROVE  /\ TaskOver(r, o) \in Task /\ TaskOver(r, o).at = "done" /\ TaskOver(r, o).env = r.env
         /\ TaskOver(r, o).peer = r.peer /\ TaskOver(r, o).got = <<o, 0>>
<1>1. PICK l \in Phase, n \in Nat : l = "done" /\ n = 0
  BY DEF Phase
<1>2. TaskOver(r, o) = Given(r, l, o, n)
  BY <1>1 DEF TaskOver, Given
<1> QED
  BY <1>1, <1>2, TaskGets

\* A task that an answer has reached.
Answered(r, o, n) == [r EXCEPT !.at = "answered", !.got = <<o, n>>]

\* one that is answered,
LEMMA TaskIsAnswered ==
  ASSUME NEW r \in Task, NEW o \in Outcome, NEW n \in Nat
  PROVE  /\ Answered(r, o, n) \in Task /\ Answered(r, o, n).at = "answered"
         /\ Answered(r, o, n).env = r.env
         /\ Answered(r, o, n).peer = r.peer /\ Answered(r, o, n).got = <<o, n>>
<1>1. PICK l \in Phase : l = "answered"
  BY DEF Phase
<1>2. Answered(r, o, n) = Given(r, l, o, n)
  BY <1>1 DEF Answered, Given
<1> QED
  BY <1>1, <1>2, TaskGets

\* A task that is told the connection of its node.
AtPeer(r, n) == [r EXCEPT !.at = "request", !.peer = n]

\* and one that is told the connection of its node, which keeps what it got.
LEMMA TaskAsked ==
  ASSUME NEW r \in Task, NEW n \in Nat
  PROVE  /\ AtPeer(r, n) \in Task /\ AtPeer(r, n).at = "request" /\ AtPeer(r, n).env = r.env
         /\ AtPeer(r, n).peer = n /\ AtPeer(r, n).got = r.got
<1>1. PICK q : q = [r EXCEPT !.at = "request", !.peer = n]
  OBVIOUS
<1>2. q \in Task /\ q.at = "request" /\ q.env = r.env /\ q.peer = n /\ q.got = r.got
  BY <1>1 DEF Task, Phase
<1> QED
  BY <1>1, <1>2 DEF AtPeer

\* A task sends a command to the actor.
LEMMA AskActorKeeps ==
  ASSUME DoorInv, NEW i \in DoorRequests, AskActor(i) \/ PeerOf(i) PROVE DoorInv'
<1>0. UNCHANGED <<door, actor, peers, dworld>> /\ req[i].at \in {"ask", "peer_of"}
  BY DEF AskActor, PeerOf, At
<1>1. req[i] \in Task /\ i \in Nat /\ MethodOf(i) \in CmdName /\ actor \in ActorRow
      /\ peers \in Seq(PeerRow)
      /\ req \in [DoorRequests -> Task]
  BY DoorFacts
<1>2. PICK r : r = [req[i] EXCEPT !.at = "asked"]
  OBVIOUS
<1>3. r \in Task /\ r.at = "asked" /\ r.env = req[i].env /\ r.got = req[i].got
  BY <1>1, <1>2, TaskGoes DEF Phase
<1>4. req' = [req EXCEPT ![i] = r]
  BY <1>1, <1>2 DEF AskActor, PeerOf, Goes
<1>5. PICK t \in CmdName : (t = "peer_of" \/ t = MethodOf(i))
                           /\ cmds' = Append(cmds, [t |-> t, i |-> i])
  BY <1>1 DEF AskActor, PeerOf, Sent, ActorCmd, CmdName
<1>6. PICK c : c = [t |-> t, i |-> i]
  OBVIOUS
<1>7. c \in QueuedCmd /\ c.t = t /\ c.i = i
  BY <1>1, <1>6 DEF QueuedCmd
<1>8. \A j \in DoorRequests : j # i => req'[j] = req[j]
  BY <1>1, <1>4
<1>9. req'[i] = r
  BY <1>1, <1>4
<1>10. \A j \in DoorRequests : req[j].at = "asked" => req'[j].at = "asked"
  BY <1>3, <1>8, <1>9
<1>11. cmds' = Append(cmds, c)
  BY <1>5, <1>6
<1>12. cmds' \in Seq(QueuedCmd) /\ CmdsAreAsked' /\ CmdsAreOnce'
  BY <1>0, <1>3, <1>5, <1>7, <1>9, <1>10, <1>11, QueueGrows
<1>13. WaitersWait'
  BY <1>0, <1>8, WaitersAreLeft
<1>14. Moves(i, r)
  <2>1. PhaseIsRight(i, req[i]) /\ GotIsOwn
    BY DEF DoorInv, TaskPhases
  <2> QED
    BY <2>1, <1>0, <1>3 DEF Moves, PhaseIsRight, GotIsOwn
<1> QED
  BY <1>0, <1>1, <1>4, <1>12, <1>13, <1>14, OneMoves

\* A task that is neither asked for nor waits moves by itself.
LEMMA MovesAlone ==
  ASSUME DoorInv, NEW i \in DoorRequests, NEW r, Moves(i, r), req' = [req EXCEPT ![i] = r],
         req[i].at \notin {"asked", "waiting"}, UNCHANGED <<door, dworld, actor, cmds, peers>>
  PROVE  DoorInv'
<1>1. req \in [DoorRequests -> Task] /\ actor \in ActorRow /\ peers \in Seq(PeerRow)
      /\ cmds \in Seq(QueuedCmd)
  BY DoorFacts
<1>2. \A j \in DoorRequests : j # i => req'[j] = req[j]
  BY <1>1
<1>3. CmdsAreAsked' /\ CmdsAreOnce'
  BY <1>2, QueueIsLeft
<1>4. WaitersWait'
  BY <1>2, WaitersAreLeft
<1> QED
  BY <1>1, <1>3, <1>4, OneMoves

\* The command at the head of the queue is of a task that waits for its reply.
LEMMA HeadIsAsked ==
  ASSUME DoorInv, cmds # <<>>, OfTask(Head(cmds))
  PROVE  /\ Head(cmds).i \in DoorRequests /\ req[Head(cmds).i].at = "asked"
         /\ Head(cmds).t \in {"peer_of", "probed"} \/ Head(cmds).t = MethodOf(Head(cmds).i)
<1>1. cmds \in Seq(QueuedCmd) /\ Len(cmds) \in Nat
  BY DoorFacts, LenProperties
<1>2. Head(cmds) = cmds[1] /\ Len(cmds) # 0
  BY <1>1, HeadTailProperties, EmptySeq
<1>3. 1 \in 1 .. Len(cmds)
  BY <1>1, <1>2
<1>4. CmdIsAsked(Head(cmds))
  BY <1>2, <1>3 DEF DoorInv, CmdsAreAsked
<1> QED
  BY <1>4 DEF CmdIsAsked

\* The actor answers the task of the command it takes.
LEMMA MovesOnReply ==
  ASSUME DoorInv, cmds # <<>>, cmds' = Tail(cmds), OfTask(Head(cmds)),
         NEW i \in DoorRequests, i = Head(cmds).i, NEW r, Moves(i, r), req' = [req EXCEPT ![i] = r],
         UNCHANGED <<door, dworld, peers>>, actor' \in ActorRow
  PROVE  DoorInv'
<1>1. req \in [DoorRequests -> Task] /\ peers \in Seq(PeerRow) /\ req[i].at = "asked"
  BY DoorFacts, HeadIsAsked
<1>2. \A j \in DoorRequests : j # i => req'[j] = req[j]
  BY <1>1
<1>3. cmds' \in Seq(QueuedCmd) /\ CmdsAreAsked' /\ CmdsAreOnce'
  BY <1>2, QueueShrinks
<1>4. WaitersWait'
  BY <1>1, <1>2, WaitersAreLeft
<1> QED
  BY <1>1, <1>3, <1>4, OneMoves

\* The actor takes a command nobody waits for.
LEMMA NothingMoves ==
  ASSUME DoorInv, cmds # <<>>, cmds' = Tail(cmds),
         UNCHANGED <<door, dworld, peers, req>>, actor' \in ActorRow
  PROVE  DoorInv'
<1>1. req \in [DoorRequests -> Task] /\ peers \in Seq(PeerRow) /\ door \in Connection
  BY DoorFacts
<1>2. cmds' \in Seq(QueuedCmd) /\ CmdsAreAsked' /\ CmdsAreOnce'
  BY QueueShrinks
<1>3. WaitersWait'
  BY WaitersAreLeft
<1>4. req' \in [DoorRequests -> Task] /\ \A j \in DoorRequests : req'[j] = req[j]
  BY <1>1
<1>5. GotIsOwn' /\ TaskPhases' /\ InTurn' /\ ScopeIsLast' /\ ScopedStaysHome'
  BY <1>4, TasksMove
<1>6. DoorTypes'
  BY <1>1, <1>2, <1>4, TypesAreLeft
<1> QED
  BY <1>2, <1>3, <1>5, <1>6 DEF DoorInv

\* What Moves asks of a task that goes on without an answer.
LEMMA GoesOn ==
  ASSUME DoorInv, NEW i \in DoorRequests, NEW r \in Task, r.env = req[i].env, r.got = req[i].got,
         req[i].at \notin {"unsent", "guard", "done"},
         r.at \notin {"unsent", "guard", "local", "attach"},
         r.at = "bind" => MethodOf(i) = "auth.scope", r.at = "held" => MethodOf(i) # "auth.scope"
  PROVE  Moves(i, r)
<1>1. PhaseIsRight(i, req[i]) /\ GotIsOwn
  BY DEF DoorInv, TaskPhases
<1> QED
  BY <1>1 DEF Moves, PhaseIsRight, GotIsOwn

\* What Moves asks of a task that is answered.
LEMMA IsAnswered ==
  ASSUME DoorInv, NEW i \in DoorRequests, NEW r \in Task, r.env = req[i].env,
         NEW o \in Outcome, NEW n \in Nat, r.got = <<o, n>>, n = 0 \/ n = i,
         req[i].at \notin {"unsent", "guard", "done"}, r.at \in {"answered", "done"},
         MethodOf(i) = "auth.scope" => o # "ok" \/ n # 0
  PROVE  Moves(i, r)
<1>1. \A j \in DoorRequests : j # 0
  BY DoorFacts
<1> QED
  BY <1>1 DEF Moves

---------------------------------------------------------------------------
\* A task that needs no actor ends (server.rs facade), and so does one whose reply the
\* actor gave away.
LEMMA LocalKeeps ==
  ASSUME DoorInv, NEW i \in DoorRequests, Local(i) \/ Release(i) PROVE DoorInv'
<1>0. UNCHANGED <<door, actor, peers, dworld, cmds>> /\ req[i].at \in {"local", "held"}
      /\ req[i] \in Task /\ req \in [DoorRequests -> Task]
  BY DoorFacts DEF Local, Release, At
<1>1. PICK r : r = TaskOver(req[i], "ok")
  OBVIOUS
<1>2. r \in Task /\ r.at = "done" /\ r.env = req[i].env /\ r.got = <<"ok", 0>>
  BY <1>0, <1>1, TaskIsOver DEF Outcome
<1>3. req' = [req EXCEPT ![i] = r]
  BY <1>0, <1>1 DEF Local, Release, Ends, TaskOver
<1>4. MethodOf(i) # "auth.scope"
  BY <1>0 DEF DoorInv, TaskPhases, PhaseIsRight
<1>5. Moves(i, r)
  BY <1>0, <1>2, <1>4, IsAnswered DEF Outcome
<1> QED
  BY <1>0, <1>3, <1>5, MovesAlone

\* An answered task writes its answer.
LEMMA FinishKeeps ==
  ASSUME DoorInv, NEW i \in DoorRequests, Finish(i) PROVE DoorInv'
<1>0. UNCHANGED <<door, actor, peers, dworld>> /\ req[i].at = "answered" /\ req[i] \in Task
      /\ req \in [DoorRequests -> Task] /\ i \in Nat /\ actor \in ActorRow /\ peers \in Seq(PeerRow)
  BY DoorFacts DEF Finish, At
<1>1. CASE MethodOf(i) # "runtime.register"
  <2>1. PICK r : r = [req[i] EXCEPT !.at = "done"]
    OBVIOUS
  <2>2. r \in Task /\ r.at = "done" /\ r.env = req[i].env /\ r.got = req[i].got
    BY <1>0, <2>1, TaskGoes DEF Phase
  <2>3. req' = [req EXCEPT ![i] = r] /\ cmds' = cmds
    BY <1>0, <1>1, <2>1 DEF Finish, Goes
  <2>4. Moves(i, r)
    BY <1>0, <2>2, GoesOn
  <2> QED
    BY <1>0, <2>3, <2>4, MovesAlone
<1>2. CASE MethodOf(i) = "runtime.register"
  <2>1. PICK r : r = [req[i] EXCEPT !.at = "asked"]
    OBVIOUS
  <2>2. r \in Task /\ r.at = "asked" /\ r.env = req[i].env /\ r.got = req[i].got
    BY <1>0, <2>1, TaskGoes DEF Phase
  <2>3. PICK c : c = [t |-> "probed", i |-> i]
    OBVIOUS
  <2>4. req' = [req EXCEPT ![i] = r] /\ cmds' = Append(cmds, c)
    BY <1>0, <1>2, <2>1, <2>3 DEF Finish, Goes, Sent, ActorCmd
  <2>5. c \in QueuedCmd /\ c.i = i /\ c.t = "probed"
    BY <1>0, <2>3 DEF QueuedCmd, CmdName
  <2>6. (\A j \in DoorRequests : j # i => req'[j] = req[j]) /\ req'[i] = r
    BY <1>0, <2>4
  <2>7. \A j \in DoorRequests : req[j].at = "asked" => req'[j].at = "asked"
    BY <2>2, <2>6
  <2>8. cmds' \in Seq(QueuedCmd) /\ CmdsAreAsked' /\ CmdsAreOnce'
    BY <1>0, <2>2, <2>4, <2>5, <2>6, <2>7, QueueGrows
  <2>9. WaitersWait'
    BY <1>0, <2>6, WaitersAreLeft
  <2>10. Moves(i, r)
    BY <1>0, <2>2, GoesOn
  <2> QED
    BY <1>0, <2>4, <2>8, <2>9, <2>10, OneMoves
<1> QED
  BY <1>1, <1>2

\* The actor lets a task go on, or ends it with an outcome of its own.
LEMMA ActorLetsGo ==
  ASSUME DoorInv, cmds # <<>>, cmds' = Tail(cmds), OfTask(Head(cmds)),
         NEW l \in Phase \ {"unsent", "guard", "local", "attach"},
         l = "bind" => MethodOf(Head(cmds).i) = "auth.scope",
         l = "held" => MethodOf(Head(cmds).i) # "auth.scope",
         Goes(Head(cmds).i, l), UNCHANGED <<door, dworld, peers>>, actor' \in ActorRow
  PROVE  DoorInv'
<1>1. PICK i \in DoorRequests : i = Head(cmds).i
  BY HeadIsAsked
<1>2. req[i].at = "asked" /\ req[i] \in Task /\ req \in [DoorRequests -> Task]
  BY <1>1, HeadIsAsked, DoorFacts
<1>3. PICK r : r = [req[i] EXCEPT !.at = l]
  OBVIOUS
<1>4. r \in Task /\ r.at = l /\ r.env = req[i].env /\ r.got = req[i].got
  BY <1>2, <1>3, TaskGoes
<1>5. req' = [req EXCEPT ![i] = r]
  BY <1>1, <1>2, <1>3 DEF Goes
<1>6. Moves(i, r)
  BY <1>1, <1>2, <1>4, GoesOn
<1> QED
  BY <1>1, <1>5, <1>6, MovesOnReply

\* The actor ends a task with an outcome of its own.
LEMMA ActorEndsTask ==
  ASSUME DoorInv, cmds # <<>>, cmds' = Tail(cmds), OfTask(Head(cmds)), NEW o \in Outcome,
         MethodOf(Head(cmds).i) = "auth.scope" => o # "ok",
         Ends(Head(cmds).i, o), UNCHANGED <<door, dworld, peers>>, actor' \in ActorRow
  PROVE  DoorInv'
<1>1. PICK i \in DoorRequests : i = Head(cmds).i
  BY HeadIsAsked
<1>2. req[i].at = "asked" /\ req[i] \in Task /\ req \in [DoorRequests -> Task]
  BY <1>1, HeadIsAsked, DoorFacts
<1>3. PICK r : r = TaskOver(req[i], o)
  OBVIOUS
<1>4. r \in Task /\ r.at = "done" /\ r.env = req[i].env /\ r.got = <<o, 0>>
  BY <1>2, <1>3, TaskIsOver
<1>5. req' = [req EXCEPT ![i] = r]
  BY <1>1, <1>2, <1>3 DEF Ends, TaskOver
<1>6. Moves(i, r)
  BY <1>1, <1>2, <1>4, IsAnswered
<1> QED
  BY <1>1, <1>5, <1>6, MovesOnReply

\* The actor tells a task the connection of the environment's node.
LEMMA ActorTellsPeer ==
  ASSUME DoorInv, cmds # <<>>, cmds' = Tail(cmds), OfTask(Head(cmds)),
         ToNode(Head(cmds).i), UNCHANGED <<door, actor, dworld, peers>>
  PROVE  DoorInv'
<1>1. PICK i \in DoorRequests : i = Head(cmds).i
  BY HeadIsAsked
<1>2. /\ req[i].at = "asked" /\ req[i] \in Task /\ actor.peer \in Nat /\ actor' \in ActorRow
      /\ req \in [DoorRequests -> Task]
  BY <1>1, HeadIsAsked, DoorFacts DEF ActorRow
<1>3. PICK r : r = AtPeer(req[i], actor.peer)
  OBVIOUS
<1>4. r \in Task /\ r.at = "request" /\ r.env = req[i].env /\ r.got = req[i].got
  BY <1>2, <1>3, TaskAsked
<1>5. req' = [req EXCEPT ![i] = r]
  BY <1>1, <1>2, <1>3 DEF ToNode, AtPeer
<1>6. Moves(i, r)
  BY <1>2, <1>4, GoesOn
<1> QED
  BY <1>1, <1>2, <1>5, <1>6, MovesOnReply

\* peer_of(): the node's connection, or that there is none.
LEMMA OnPeerOfKeeps ==
  ASSUME DoorInv, OnPeerOf PROVE DoorInv'
<1>0. /\ UNCHANGED <<door, actor, peers, dworld>> /\ cmds # <<>> /\ cmds' = Tail(cmds)
      /\ Head(cmds).t = "peer_of" /\ actor' \in ActorRow
  BY DoorFacts DEF OnPeerOf, First
<1>1. OfTask(Head(cmds))
  BY <1>0 DEF OfTask
<1>2. CASE actor.peer = NoPeer
  <2>1. PICK o \in Outcome : o = "not_registered" /\ o # "ok"
    BY DEF Outcome
  <2>2. Ends(Head(cmds).i, o)
    BY <1>2, <2>1 DEF OnPeerOf, It
  <2> QED
    BY <1>0, <1>1, <2>1, <2>2, ActorEndsTask
<1>3. CASE actor.peer # NoPeer
  BY <1>0, <1>1, <1>3, ActorTellsPeer DEF OnPeerOf, It
<1> QED
  BY <1>2, <1>3

\* status(): the snapshot, and the tree of a node that is registered.
LEMMA OnStatusKeeps ==
  ASSUME DoorInv, OnStatus PROVE DoorInv'
<1>0. /\ UNCHANGED <<door, actor, peers, dworld>> /\ cmds # <<>> /\ cmds' = Tail(cmds)
      /\ Head(cmds).t = "status" /\ actor' \in ActorRow
  BY DoorFacts DEF OnStatus, First
<1>1. OfTask(Head(cmds))
  BY <1>0 DEF OfTask
<1>2. MethodOf(Head(cmds).i) # "auth.scope"
  BY <1>0, <1>1, HeadIsAsked
<1>3. CASE actor.peer = NoPeer
  <2>1. PICK o \in Outcome : o = "ok"
    BY DEF Outcome
  <2>2. Ends(Head(cmds).i, o)
    BY <1>3, <2>1 DEF OnStatus, It
  <2> QED
    BY <1>0, <1>1, <1>2, <2>2, ActorEndsTask
<1>4. CASE actor.peer # NoPeer
  BY <1>0, <1>1, <1>4, ActorTellsPeer DEF OnStatus, It
<1> QED
  BY <1>3, <1>4

\* probe(): what came of it, for the task that asks the actor once more.
LEMMA ActorProbes ==
  ASSUME DoorInv, cmds # <<>>, cmds' = Tail(cmds), OfTask(Head(cmds)), NEW o \in Outcome, NEW n \in Nat,
         n = 0 \/ n = Head(cmds).i, MethodOf(Head(cmds).i) # "auth.scope",
         ProbeIs(Head(cmds).i, <<o, n>>), UNCHANGED <<door, actor, dworld, peers>>
  PROVE  DoorInv'
<1>1. PICK i \in DoorRequests : i = Head(cmds).i
  BY HeadIsAsked
<1>2. /\ req[i].at = "asked" /\ req[i] \in Task /\ actor' \in ActorRow
      /\ req \in [DoorRequests -> Task]
  BY <1>1, HeadIsAsked, DoorFacts
<1>3. PICK r : r = Answered(req[i], o, n)
  OBVIOUS
<1>4. r \in Task /\ r.at = "answered" /\ r.env = req[i].env /\ r.got = <<o, n>>
  BY <1>2, <1>3, TaskIsAnswered
<1>5. req' = [req EXCEPT ![i] = r]
  BY <1>1, <1>2, <1>3 DEF ProbeIs, Answered
<1>6. Moves(i, r)
  BY <1>1, <1>2, <1>4, IsAnswered
<1> QED
  BY <1>1, <1>2, <1>5, <1>6, MovesOnReply

\* runtime_register(): a refusal, a probe at the node or by http.
LEMMA OnRuntimeKeeps ==
  ASSUME DoorInv, OnRuntime PROVE DoorInv'
<1>0. /\ UNCHANGED <<door, actor, peers, dworld>> /\ cmds # <<>> /\ cmds' = Tail(cmds)
      /\ Head(cmds).t = "runtime.register" /\ actor' \in ActorRow
  BY DoorFacts DEF OnRuntime, First
<1>1. OfTask(Head(cmds))
  BY <1>0 DEF OfTask
<1>2. MethodOf(Head(cmds).i) # "auth.scope" /\ Head(cmds).i \in Nat
  BY <1>0, <1>1, HeadIsAsked, DoorFacts
<1>3. CASE Ends(Head(cmds).i, "unauthorized")
  <2>1. PICK o \in Outcome : o = "unauthorized"
    BY DEF Outcome
  <2>2. Ends(Head(cmds).i, o)
    BY <1>3, <2>1
  <2> QED
    BY <1>0, <1>1, <1>2, <2>2, ActorEndsTask
<1>4. CASE ToNode(Head(cmds).i)
  BY <1>0, <1>1, <1>4, ActorTellsPeer
<1>5. ASSUME NEW g \in {"ok", "timeout", "not_registered"}, NEW n \in {0, Head(cmds).i},
             ProbeIs(Head(cmds).i, <<g, n>>)
      PROVE  DoorInv'
  <2>1. g \in Outcome /\ n \in Nat /\ (n = 0 \/ n = Head(cmds).i)
    BY <1>2 DEF Outcome
  <2> QED
    BY <1>0, <1>1, <1>2, <1>5, <2>1, ActorProbes
<1>6. CASE ProbeIs(Head(cmds).i, <<"not_registered", 0>>)
  <2>1. PICK g \in {"ok", "timeout", "not_registered"}, n \in {0, Head(cmds).i} :
          g = "not_registered" /\ n = 0
    OBVIOUS
  <2> QED
    BY <1>5, <1>6, <2>1
<1>7. ASSUME NEW got \in {<<"ok", Head(cmds).i>>, <<"timeout", 0>>}, ProbeIs(Head(cmds).i, got)
      PROVE  DoorInv'
  <2>1. PICK g \in {"ok", "timeout", "not_registered"}, n \in {0, Head(cmds).i} : got = <<g, n>>
    BY <1>7
  <2> QED
    BY <1>5, <1>7, <2>1
<1> QED
  BY <1>3, <1>4, <1>6, <1>7 DEF OnRuntime, It

\* A prompt: the actor probes the node, attaches it or refuses.
LEMMA OnPromptKeeps ==
  ASSUME DoorInv, OnPrompt PROVE DoorInv'
<1>0. /\ UNCHANGED <<door, actor, peers, dworld>> /\ cmds # <<>> /\ cmds' = Tail(cmds)
      /\ Head(cmds).t \in Prompts /\ actor \in ActorRow
  BY DoorFacts DEF OnPrompt, First
<1>1. OfTask(Head(cmds))
  BY <1>0 DEF OfTask, Prompts
<1>2. MethodOf(Head(cmds).i) # "auth.scope"
  BY <1>0, <1>1, HeadIsAsked DEF Prompts
<1>3. CASE Goes(Head(cmds).i, "peer_of")
  <2>1. PICK l \in Phase \ {"unsent", "guard", "local", "attach"} : l = "peer_of"
    BY DEF Phase
  <2>2. Goes(Head(cmds).i, l) /\ l \notin {"bind", "held"}
    BY <2>1, <1>3
  <2> QED
    BY <1>0, <1>1, <2>2, ActorLetsGo
<1>4. CASE Ends(Head(cmds).i, "halted")
  <2>1. PICK o \in Outcome : o = "halted"
    BY DEF Outcome
  <2>2. Ends(Head(cmds).i, o)
    BY <2>1, <1>4
  <2> QED
    BY <1>0, <1>1, <1>2, <2>2, ActorEndsTask
<1> QED
  BY <1>3, <1>4 DEF OnPrompt, It

\* auth.scope: the actor checks the token and lets the connection be bound.
LEMMA OnScopeKeeps ==
  ASSUME DoorInv, OnScope PROVE DoorInv'
<1>0. /\ UNCHANGED <<door, actor, peers, dworld>> /\ cmds # <<>> /\ cmds' = Tail(cmds)
      /\ Head(cmds).t = "auth.scope" /\ actor \in ActorRow
  BY DoorFacts DEF OnScope, First
<1>1. OfTask(Head(cmds))
  BY <1>0 DEF OfTask
<1>2. MethodOf(Head(cmds).i) = "auth.scope"
  BY <1>0, <1>1, HeadIsAsked
<1>3. CASE Goes(Head(cmds).i, "bind")
  <2>1. PICK l \in Phase \ {"unsent", "guard", "local", "attach"} : l = "bind"
    BY DEF Phase
  <2>2. Goes(Head(cmds).i, l) /\ l # "held"
    BY <2>1, <1>3
  <2> QED
    BY <1>0, <1>1, <1>2, <2>2, ActorLetsGo
<1>4. CASE Ends(Head(cmds).i, "unauthorized")
  <2>1. PICK o \in Outcome : o = "unauthorized" /\ o # "ok"
    BY DEF Outcome
  <2>2. Ends(Head(cmds).i, o)
    BY <2>1, <1>4
  <2> QED
    BY <1>0, <1>1, <2>1, <2>2, ActorEndsTask
<1> QED
  BY <1>3, <1>4 DEF OnScope, It

\* A command the actor answers from its records.
LEMMA OnRecordsKeeps ==
  ASSUME DoorInv, OnRecords PROVE DoorInv'
<1>0. /\ UNCHANGED <<door, actor, peers, dworld>> /\ cmds # <<>> /\ cmds' = Tail(cmds)
      /\ actor' \in ActorRow
      /\ Head(cmds).t \in Records \cup Queries \cup (Open \ {"auth.scope", "status"})
                         \cup (Barebone \ {"stop"})
  BY DoorFacts DEF OnRecords, First, It
<1>1. /\ OfTask(Head(cmds)) /\ Head(cmds).t # "auth.scope"
      /\ Head(cmds).t \notin {"peer_of", "probed"}
  BY <1>0 DEF OfTask, Records, Queries, Open, Barebone
<1>2. MethodOf(Head(cmds).i) # "auth.scope"
  BY <1>0, <1>1, HeadIsAsked
<1>3. CASE Ends(Head(cmds).i, "ok")
  <2>1. PICK o \in Outcome : o = "ok"
    BY DEF Outcome
  <2>2. Ends(Head(cmds).i, o)
    BY <1>3, <2>1
  <2> QED
    BY <1>0, <1>1, <1>2, <2>2, ActorEndsTask
<1>4. CASE Goes(Head(cmds).i, "held")
  <2>1. PICK l \in Phase \ {"unsent", "guard", "local", "attach"} : l = "held"
    BY DEF Phase
  <2>2. Goes(Head(cmds).i, l) /\ l # "bind"
    BY <2>1, <1>4
  <2> QED
    BY <1>0, <1>1, <1>2, <2>2, ActorLetsGo
<1> QED
  BY <1>3, <1>4 DEF OnRecords, It

\* stop: base answers and is gone (cmds.rs).
LEMMA OnStopKeeps ==
  ASSUME DoorInv, OnStop PROVE DoorInv'
<1>0. /\ UNCHANGED <<door, peers, dworld>> /\ cmds # <<>> /\ cmds' = Tail(cmds)
      /\ actor \in ActorRow /\ Head(cmds).t = "stop" /\ Ends(Head(cmds).i, "ok")
      /\ actor' = [actor EXCEPT !.stopped = TRUE]
  BY DoorFacts DEF OnStop, First, It
<1>1. actor' \in ActorRow
  BY <1>0 DEF ActorRow
<1>2. OfTask(Head(cmds))
  BY <1>0 DEF OfTask
<1>3. MethodOf(Head(cmds).i) # "auth.scope"
  BY <1>0, <1>2, HeadIsAsked
<1>4. PICK o \in Outcome : o = "ok"
  BY DEF Outcome
<1>5. Ends(Head(cmds).i, o)
  BY <1>0, <1>4
<1> QED
  BY <1>0, <1>1, <1>2, <1>3, <1>5, ActorEndsTask

\* The answer of a probe.
LEMMA OnProbedKeeps ==
  ASSUME DoorInv, OnProbed PROVE DoorInv'
<1>0. /\ UNCHANGED <<door, peers, dworld>> /\ cmds # <<>> /\ cmds' = Tail(cmds)
      /\ Head(cmds).t = "probed" /\ actor \in ActorRow /\ Goes(Head(cmds).i, "done")
  BY DoorFacts DEF OnProbed, First, It
<1>1. OfTask(Head(cmds))
  BY <1>0 DEF OfTask
<1>2. PICK n \in Nat : n = Head(cmds).i
  BY <1>0, <1>1, HeadIsAsked, DoorFacts
<1>3. actor' = [actor EXCEPT !.row = n] \/ actor' = actor
  BY <1>2 DEF OnProbed, It
<1>4. actor' \in ActorRow
  BY <1>0, <1>3 DEF ActorRow
<1>5. PICK l \in Phase \ {"unsent", "guard", "local", "attach"} : l = "done"
  BY DEF Phase
<1>6. Goes(Head(cmds).i, l) /\ l \notin {"bind", "held"}
  BY <1>0, <1>5
<1> QED
  BY <1>0, <1>1, <1>4, <1>6, ActorLetsGo

\* A command nobody waits for: an attach, a loss, an exit, a registration.
LEMMA ActorAloneKeeps ==
  ASSUME DoorInv, OnAttach \/ OnGone \/ OnExited \/ OnRegister PROVE DoorInv'
<1>0. /\ UNCHANGED <<door, peers, dworld, req>> /\ cmds # <<>> /\ cmds' = Tail(cmds)
      /\ actor \in ActorRow /\ dworld \in DoorWorld /\ cmds \in Seq(QueuedCmd)
  BY DoorFacts DEF OnAttach, OnGone, OnExited, OnRegister, First
<1>1. PICK n \in Nat : n = Head(cmds).i
  <2>1. Head(cmds) \in QueuedCmd
    BY <1>0, HeadTailProperties
  <2> QED
    BY <2>1 DEF QueuedCmd
<1>2. CASE OnAttach
  BY <1>0, <1>2, NothingMoves DEF OnAttach, ActorRow
<1>3. CASE OnGone
  <2>1. PICK b \in BOOLEAN : b = (actor.attached /\ dworld.detach)
    BY <1>0 DEF DoorWorld, ActorRow
  <2>2. actor' = [actor EXCEPT !.attached = FALSE, !.stopped = b]
    BY <1>3, <2>1 DEF OnGone
  <2>3. actor' \in ActorRow
    BY <1>0, <2>2 DEF ActorRow
  <2> QED
    BY <1>0, <2>3, NothingMoves
<1>4. CASE OnExited
  <2>1. PICK g \in Nat : g = actor.gen + 1
    BY <1>0 DEF ActorRow
  <2>2. actor' = [actor EXCEPT !.peer = 0, !.gen = g, !.row = 0]
    BY <1>4, <2>1, <1>0 DEF OnExited, NoPeer, ActorRow
  <2>3. actor' \in ActorRow
    BY <1>0, <2>2 DEF ActorRow
  <2> QED
    BY <1>0, <2>3, NothingMoves
<1>5. CASE OnRegister
  <2>1. actor' = [actor EXCEPT !.peer = n]
    BY <1>5, <1>1 DEF OnRegister, It
  <2>2. actor' \in ActorRow
    BY <1>0, <2>1 DEF ActorRow
  <2> QED
    BY <1>0, <2>2, NothingMoves
<1> QED
  BY <1>2, <1>3, <1>4, <1>5

---------------------------------------------------------------------------
\* A task is let in or refused: its environment is the one its connection is bound to.
LEMMA LeavesGuard ==
  ASSUME DoorInv, NEW i \in DoorRequests, NEW r \in Task, req[i].at = "guard",
         req' = [req EXCEPT ![i] = r], UNCHANGED <<door, cmds, actor, peers, dworld>>,
         r.at \in {"peer_of", "attach", "local", "ask", "done"},
         r.at \in {"local", "attach", "held"} => MethodOf(i) # "auth.scope",
         r.at # "done" => r.env # NoEnv, r.got = <<"none", 0>> \/ r.got = <<"denied", 0>>,
         r.env # NoEnv /\ door.scope # NoEnv /\ MethodOf(i) \notin Open => r.env = door.scope
  PROVE  DoorInv'
<1>0. /\ DoorRequests' = DoorRequests /\ \A j : MethodOf(j)' = MethodOf(j)
      /\ GotIsOwn /\ TaskPhases /\ InTurn /\ ScopeIsLast /\ ScopedStaysHome
  BY DEF DoorRequests, MethodOf, DoorInv
<1>1. /\ req \in [DoorRequests -> Task] /\ actor \in ActorRow /\ peers \in Seq(PeerRow)
      /\ cmds \in Seq(QueuedCmd) /\ door \in Connection /\ DoorRequests \subseteq Nat
      /\ door.said \in Nat
  BY DoorFacts DEF Connection
<1>2. (\A j \in DoorRequests : j # i => req'[j] = req[j]) /\ req'[i] = r
  BY <1>1
<1>3. CmdsAreAsked' /\ CmdsAreOnce'
  BY <1>2, QueueIsLeft
<1>4. WaitersWait'
  BY <1>2, WaitersAreLeft
<1>5. req' \in [DoorRequests -> Task]
  BY <1>1
<1>6. DoorTypes'
  BY <1>1, <1>5, TypesAreLeft
<1>7. GotIsOwn'
  BY <1>0, <1>2 DEF GotIsOwn
<1>8. TaskPhases'
  <2> SUFFICES ASSUME NEW j \in DoorRequests
               PROVE  PhaseIsRight(j, req[j])' /\ (req'[j].at = "unsent" <=> j > door.said)
    BY <1>0 DEF TaskPhases
  <2>1. CASE j # i
    BY <1>0, <1>2, <2>1 DEF TaskPhases, PhaseIsRight
  <2>2. CASE j = i
    BY <1>0, <1>2, <2>2 DEF TaskPhases, PhaseIsRight
  <2> QED
    BY <2>1, <2>2
<1>9. InTurn'
  BY <1>0, <1>2 DEF InTurn
<1>10. ~Bound(i) /\ ~(Bound(i))' /\ \A j \in DoorRequests : (Bound(j))' <=> Bound(j)
  BY <1>0, <1>2 DEF TaskPhases, PhaseIsRight, Bound
<1>11. ScopeIsLast'
  BY <1>0, <1>2, <1>10 DEF ScopeIsLast
<1>12. ScopedStaysHome'
  <2> SUFFICES ASSUME dworld.patient, NEW h \in DoorRequests, NEW j \in DoorRequests,
                      j < h, MethodOf(j) = "auth.scope", req'[j].got = <<"ok", 0>>,
                      MethodOf(h) \notin Open, req'[h].env # NoEnv,
                      ~\E k \in j + 1 .. h - 1 : MethodOf(k) = "auth.scope"
               PROVE  req'[h].env = req'[j].env
    BY <1>0 DEF ScopedStaysHome
  <2>1. j # i /\ req'[j] = req[j] /\ Bound(j)
    BY <1>0, <1>2, <1>10 DEF Bound
  <2>2. CASE h # i
    BY <1>0, <1>2, <2>1, <2>2 DEF ScopedStaysHome
  <2>3. CASE h = i
    <3>1. i = door.said
      BY <1>0, <1>1 DEF InTurn, TaskPhases
    <3>2. ASSUME NEW k \in DoorRequests, k > j, Bound(k) PROVE FALSE
      <4>1. k > i
        BY <3>2, <1>1, <1>10, <2>3 DEF Bound
      <4>2. req[k].at = "unsent"
        BY <4>1, <3>1, <1>0 DEF TaskPhases
      <4> QED
        BY <4>2, <3>2, <1>0 DEF TaskPhases, PhaseIsRight, Bound
    <3>3. door.scope = req[j].env /\ door.scope # NoEnv
      BY <3>2, <2>1, <1>0 DEF ScopeIsLast
    <3> QED
      BY <3>3, <2>1, <2>3, <1>2
  <2> QED
    BY <2>2, <2>3
<1> QED
  BY <1>3, <1>4, <1>6, <1>7, <1>8, <1>9, <1>11, <1>12 DEF DoorInv

\* scoped_env(): on a bound connection it is the environment the connection is bound to.
LEMMA ScopeOfTask ==
  ASSUME DoorInv, NEW i \in DoorRequests
  PROVE  /\ Scoped(i) \in EnvName
         /\ Scoped(i) # NoEnv /\ door.scope # NoEnv
            /\ MethodOf(i) \notin Open => Scoped(i) = door.scope
<1>1. door.scope \in EnvName /\ root_env \in EnvName /\ NoEnv \in EnvName /\ Named(i) \in EnvName
  BY DoorFacts DEF EnvName, Connection
<1>2. scoped_env(i) \in EnvName /\ (scoped_env(i) # NoEnv
        /\ door.scope # NoEnv => scoped_env(i) = door.scope)
  BY <1>1 DEF scoped_env
<1>3. confined_env(i) \in EnvName /\ (door.scope # NoEnv => confined_env(i) = door.scope)
  BY <1>1, <1>2 DEF confined_env
<1> QED
  BY <1>1, <1>2, <1>3 DEF Scoped

\* A task is routed by its method, in the environment its scope allows.
LEMMA GuardKeeps ==
  ASSUME DoorInv, NEW i \in DoorRequests, Guard(i) PROVE DoorInv'
<1>0. /\ UNCHANGED <<door, actor, peers, dworld, cmds>> /\ req[i].at = "guard" /\ req[i] \in Task
      /\ req \in [DoorRequests -> Task]
  BY DoorFacts DEF Guard, At
<1>1. req[i].env = NoEnv /\ req[i].got = <<"none", 0>>
  BY <1>0 DEF DoorInv, TaskPhases, PhaseIsRight
<1>2. CASE Ends(i, "denied")
  <2>1. PICK r : r = TaskOver(req[i], "denied")
    OBVIOUS
  <2>2. r \in Task /\ r.at = "done" /\ r.env = req[i].env /\ r.got = <<"denied", 0>>
    BY <1>0, <2>1, TaskIsOver DEF Outcome
  <2>3. req' = [req EXCEPT ![i] = r]
    BY <1>0, <1>2, <2>1 DEF Ends, TaskOver
  <2> QED
    BY <1>0, <1>1, <2>2, <2>3, LeavesGuard
<1>3. CASE Scoped(i) # NoEnv
           /\ req' = [req EXCEPT ![i] = [@ EXCEPT !.env = Scoped(i), !.at = Route(MethodOf(i))]]
  <2>1. PICK e \in EnvName : e = Scoped(i)
    BY ScopeOfTask
  <2>2. PICK l : l = Route(MethodOf(i))
    OBVIOUS
  <2>3. /\ l \in {"peer_of", "attach", "local", "ask"}
        /\ l \in {"local", "attach", "held"} => MethodOf(i) # "auth.scope"
    BY <2>2 DEF Route, FacadeReads, FacadeWrites
  <2>4. PICK r : r = [req[i] EXCEPT !.env = e, !.at = l]
    OBVIOUS
  <2>5. l \in Phase
    BY <2>3 DEF Phase
  <2>6. r \in Task /\ r.at = l /\ r.env = e /\ r.got = <<"none", 0>>
    BY <1>0, <1>1, <2>4, <2>5 DEF Task
  <2>7. req' = [req EXCEPT ![i] = r]
    BY <1>0, <1>3, <2>1, <2>2, <2>4
  <2>8. e # NoEnv /\ door.scope # NoEnv /\ MethodOf(i) \notin Open => e = door.scope
    BY <2>1, ScopeOfTask
  <2>9. e # NoEnv
    BY <1>3, <2>1
  <2> QED
    BY <1>0, <2>3, <2>6, <2>7, <2>8, <2>9, LeavesGuard
<1> QED
  BY <1>2, <1>3 DEF Guard

\* auth.scope binds the connection.
LEMMA BindKeeps ==
  ASSUME DoorInv, NEW i \in DoorRequests, Bind(i) PROVE DoorInv'
<1>0. /\ UNCHANGED <<cmds, actor, peers, dworld>> /\ req[i].at = "bind" /\ req[i] \in Task
      /\ req \in [DoorRequests -> Task] /\ actor \in ActorRow /\ peers \in Seq(PeerRow)
      /\ cmds \in Seq(QueuedCmd) /\ door \in Connection /\ DoorRequests \subseteq Nat
      /\ door.said \in Nat /\ req[i].env \in EnvName /\ door' = [door EXCEPT !.scope = req[i].env]
  BY DoorFacts DEF Bind, At, Connection, Task
<1>1. door' \in Connection /\ door'.said = door.said /\ door'.scope = req[i].env
  BY <1>0 DEF Connection
<1>2. /\ DoorRequests' = DoorRequests /\ \A j : MethodOf(j)' = MethodOf(j)
      /\ GotIsOwn /\ TaskPhases /\ InTurn /\ ScopeIsLast /\ ScopedStaysHome
  BY <1>0 DEF DoorRequests, MethodOf, DoorInv
<1>3. MethodOf(i) = "auth.scope" /\ req[i].env # NoEnv
  BY <1>0, <1>2 DEF TaskPhases, PhaseIsRight
<1>4. PICK r : r = TaskOver(req[i], "ok")
  OBVIOUS
<1>5. r \in Task /\ r.at = "done" /\ r.env = req[i].env /\ r.got = <<"ok", 0>>
  BY <1>0, <1>4, TaskIsOver DEF Outcome
<1>6. req' = [req EXCEPT ![i] = r]
  BY <1>0, <1>4 DEF Bind, Ends, TaskOver
<1>7. (\A j \in DoorRequests : j # i => req'[j] = req[j]) /\ req'[i] = r
  BY <1>0, <1>6
<1>8. CmdsAreAsked' /\ CmdsAreOnce'
  BY <1>0, <1>7, QueueIsLeft
<1>9. WaitersWait'
  BY <1>0, <1>7, WaitersAreLeft
<1>10. req' \in [DoorRequests -> Task]
  BY <1>0, <1>5, <1>6
<1>11. DoorTypes'
  BY <1>0, <1>1, <1>10, TypesAreLeft
<1>12. GotIsOwn'
  <2>1. \A j \in DoorRequests : j # 0
    BY DoorFacts
  <2> QED
    BY <1>2, <1>5, <1>7, <2>1 DEF GotIsOwn
<1>13. TaskPhases'
  <2> SUFFICES ASSUME NEW j \in DoorRequests
               PROVE  PhaseIsRight(j, req[j])' /\ (req'[j].at = "unsent" <=> j > door'.said)
    BY <1>2 DEF TaskPhases
  <2>1. CASE j # i
    BY <1>1, <1>2, <1>7, <2>1 DEF TaskPhases, PhaseIsRight
  <2>2. CASE j = i
    BY <1>0, <1>1, <1>2, <1>5, <1>7, <2>2 DEF TaskPhases, PhaseIsRight
  <2> QED
    BY <2>1, <2>2
<1>14. InTurn'
  BY <1>0, <1>1, <1>2, <1>5, <1>7 DEF InTurn
<1>15. ASSUME dworld.patient PROVE i = door.said
  BY <1>0, <1>2, <1>15 DEF InTurn, TaskPhases
<1>16. ASSUME dworld.patient, NEW k \in DoorRequests, k > i
       PROVE  req'[k] = req[k] /\ req[k].env = NoEnv /\ req[k].got = <<"none", 0>>
  <2>1. req[k].at = "unsent" /\ k # i
    BY <1>0, <1>2, <1>15, <1>16 DEF TaskPhases
  <2> QED
    BY <1>2, <1>7, <2>1 DEF TaskPhases, PhaseIsRight
<1>17. ScopeIsLast'
  <2> SUFFICES ASSUME dworld.patient, NEW j \in DoorRequests, (Bound(j))',
                      \A k \in DoorRequests : k > j => ~(Bound(k))'
               PROVE  door'.scope = req'[j].env /\ door'.scope # NoEnv
    BY <1>0, <1>2 DEF ScopeIsLast
  <2>1. (Bound(i))'
    BY <1>2, <1>3, <1>5, <1>7 DEF Bound
  <2>2. ~(i > j)
    BY <2>1
  <2>3. ~(j > i)
    BY <1>16 DEF Bound
  <2>4. j = i
    BY <1>0, <2>2, <2>3
  <2> QED
    BY <2>4, <1>1, <1>3, <1>5, <1>7
<1>18. ScopedStaysHome'
  <2> SUFFICES ASSUME dworld.patient, NEW h \in DoorRequests, NEW j \in DoorRequests,
                      j < h, MethodOf(j) = "auth.scope", req'[j].got = <<"ok", 0>>,
                      MethodOf(h) \notin Open, req'[h].env # NoEnv,
                      ~\E k \in j + 1 .. h - 1 : MethodOf(k) = "auth.scope"
               PROVE  req'[h].env = req'[j].env
    BY <1>0, <1>2 DEF ScopedStaysHome
  <2>1. h # i
    BY <1>3 DEF Open
  <2>2. j # i
    BY <1>16
  <2> QED
    BY <1>2, <1>7, <2>1, <2>2 DEF ScopedStaysHome
<1> QED
  BY <1>8, <1>9, <1>11, <1>12, <1>13, <1>14, <1>17, <1>18 DEF DoorInv

\* The client sends its next request.
LEMMA ClientSendsKeeps ==
  ASSUME DoorInv, NEW i \in DoorRequests, ClientSends(i) PROVE DoorInv'
<1>0. /\ UNCHANGED <<cmds, actor, peers, dworld>> /\ req[i] \in Task /\ i = door.said + 1
      /\ req \in [DoorRequests -> Task] /\ actor \in ActorRow /\ peers \in Seq(PeerRow)
      /\ cmds \in Seq(QueuedCmd) /\ door \in Connection /\ DoorRequests \subseteq Nat
      /\ door.said \in Nat /\ door' = [door EXCEPT !.said = i]
  BY DoorFacts DEF ClientSends, Connection
<1>1. door' \in Connection /\ door'.said = i /\ door'.scope = door.scope
  BY <1>0 DEF Connection
<1>2. /\ DoorRequests' = DoorRequests /\ \A j : MethodOf(j)' = MethodOf(j)
      /\ GotIsOwn /\ TaskPhases /\ InTurn /\ ScopeIsLast /\ ScopedStaysHome
  BY <1>0 DEF DoorRequests, MethodOf, DoorInv
<1>3. req[i].at = "unsent" /\ req[i].env = NoEnv /\ req[i].got = <<"none", 0>>
  BY <1>0, <1>2 DEF TaskPhases, PhaseIsRight
<1>4. PICK r : r = [req[i] EXCEPT !.at = "guard"]
  OBVIOUS
<1>5. r \in Task /\ r.at = "guard" /\ r.env = req[i].env /\ r.got = req[i].got
  BY <1>0, <1>4, TaskGoes DEF Phase
<1>6. req' = [req EXCEPT ![i] = r]
  BY <1>0, <1>4 DEF ClientSends, Goes
<1>7. (\A j \in DoorRequests : j # i => req'[j] = req[j]) /\ req'[i] = r
  BY <1>0, <1>6
<1>8. CmdsAreAsked' /\ CmdsAreOnce'
  BY <1>0, <1>3, <1>7, QueueIsLeft
<1>9. WaitersWait'
  BY <1>0, <1>3, <1>7, WaitersAreLeft
<1>10. req' \in [DoorRequests -> Task]
  BY <1>0, <1>5, <1>6
<1>11. DoorTypes'
  BY <1>0, <1>1, <1>10, TypesAreLeft
<1>12. \A j \in DoorRequests : req'[j].env = req[j].env /\ req'[j].got = req[j].got
  BY <1>5, <1>7
<1>13. GotIsOwn' /\ ScopeIsLast'
  <2>1. GotIsOwn'
    BY <1>2, <1>12 DEF GotIsOwn
  <2>2. \A j \in DoorRequests : (Bound(j))' <=> Bound(j)
    BY <1>2, <1>12 DEF Bound
  <2>3. ScopeIsLast'
    BY <1>0, <1>1, <1>2, <1>12, <2>2 DEF ScopeIsLast
  <2> QED
    BY <2>1, <2>3
<1>14. TaskPhases'
  <2> SUFFICES ASSUME NEW j \in DoorRequests
               PROVE  PhaseIsRight(j, req[j])' /\ (req'[j].at = "unsent" <=> j > door'.said)
    BY <1>2 DEF TaskPhases
  <2>1. CASE j # i
    <3>1. j > i <=> j > door.said
      BY <1>0, <2>1
    <3> QED
      BY <1>1, <1>2, <1>7, <2>1, <3>1 DEF TaskPhases, PhaseIsRight
  <2>2. CASE j = i
    BY <1>0, <1>1, <1>2, <1>3, <1>5, <1>7, <2>2 DEF TaskPhases, PhaseIsRight
  <2> QED
    BY <2>1, <2>2
<1>15. InTurn'
  <2> SUFFICES ASSUME dworld.patient, NEW j \in DoorRequests, j < i PROVE req'[j].at = "done"
    BY <1>0, <1>1, <1>2 DEF InTurn
  <2>1. CASE j = i - 1
    <3>1. i > 1 /\ j # i
      BY <2>1, <1>0, DoorFacts
    <3>2. req[j].at = "done"
      BY <3>1, <2>1 DEF ClientSends, At
    <3> QED
      BY <3>1, <3>2, <1>7
  <2>2. CASE j # i - 1
    <3>1. j < door.said /\ j # i
      BY <2>2, <1>0
    <3> QED
      BY <3>1, <1>2, <1>7 DEF InTurn
  <2> QED
    BY <2>1, <2>2
<1>16. ScopedStaysHome'
  BY <1>0, <1>2, <1>12 DEF ScopedStaysHome
<1> QED
  BY <1>8, <1>9, <1>11, <1>13, <1>14, <1>15, <1>16 DEF DoorInv

---------------------------------------------------------------------------
\* Any number of tasks move, and the connection goes on as it is.
LEMMA ManyMove ==
  ASSUME DoorInv, dworld' = dworld, door' \in Connection, door'.said = door.said,
         door'.scope = door.scope,
         req' \in [DoorRequests -> Task],
         \A i \in DoorRequests : req'[i] = req[i] \/ Moves(i, req'[i]),
         actor' \in ActorRow, cmds' \in Seq(QueuedCmd), CmdsAreAsked', CmdsAreOnce',
         peers' \in Seq(PeerRow), WaitersWait'
  PROVE  DoorInv'
<1>1. GotIsOwn' /\ TaskPhases' /\ InTurn' /\ ScopeIsLast' /\ ScopedStaysHome'
  BY TasksMove
<1>2. DoorTypes'
  BY TypesAreLeft
<1> QED
  BY <1>1, <1>2 DEF DoorInv

\* One of the node's connections changes.
LEMMA PeerChanges ==
  ASSUME DoorInv, dworld' = dworld, NEW p \in 1 .. Len(peers), NEW v \in PeerRow,
         peers' = [peers EXCEPT ![p] = v],
         \A i \in v.waiting : req'[i].at = "waiting" /\ req'[i].peer = p,
         \A i \in DoorRequests : req[i].at = "waiting" => req'[i] = req[i] \/ req[i].peer = p
  PROVE  peers' \in Seq(PeerRow) /\ WaitersWait'
<1>1. peers \in Seq(PeerRow) /\ WaitersWait
  BY DEF DoorInv, DoorTypes
<1>2. /\ peers' \in Seq(PeerRow) /\ Len(peers') = Len(peers) /\ peers'[p] = v
      /\ \A q \in 1 .. Len(peers) : q # p => peers'[q] = peers[q]
  BY <1>1, ExceptSeq
<1>3. \A q \in 1 .. Len(peers) : peers[q] \in PeerRow
  BY <1>1, ElementOfSeq
<1>4. \A q \in 1 .. Len(peers) : \A i \in peers[q].waiting :
        i \in DoorRequests /\ req[i].at = "waiting" /\ req[i].peer = q
  BY <1>1, <1>3 DEF PeerRow, WaitersWait
<1>5. ASSUME NEW q \in 1 .. Len(peers), q # p, NEW i \in peers[q].waiting
      PROVE  req'[i].at = "waiting" /\ req'[i].peer = q
  BY <1>4, <1>5
<1> QED
  BY <1>2, <1>5 DEF WaitersWait

\* A subscription starts the pump of the connection.
LEMMA SubscribeKeeps ==
  ASSUME DoorInv, NEW i \in DoorRequests, Subscribe(i) PROVE DoorInv'
<1>0. /\ UNCHANGED <<actor, peers, dworld>> /\ req[i].at = "attach" /\ req[i] \in Task
      /\ req \in [DoorRequests -> Task] /\ i \in Nat /\ actor \in ActorRow /\ peers \in Seq(PeerRow)
      /\ door \in Connection /\ door' = [door EXCEPT !.pump = "on"]
  BY DoorFacts DEF Subscribe, At
<1>1. door' \in Connection /\ door'.said = door.said /\ door'.scope = door.scope
  BY <1>0 DEF Connection
<1>2. PICK r : r = TaskOver(req[i], "ok")
  OBVIOUS
<1>3. r \in Task /\ r.at = "done" /\ r.env = req[i].env /\ r.got = <<"ok", 0>>
  BY <1>0, <1>2, TaskIsOver DEF Outcome
<1>4. req' = [req EXCEPT ![i] = r]
  BY <1>0, <1>2 DEF Subscribe, Ends, TaskOver
<1>5. (\A j \in DoorRequests : j # i => req'[j] = req[j]) /\ req'[i] = r
      /\ req' \in [DoorRequests -> Task]
  BY <1>0, <1>3, <1>4
<1>6. MethodOf(i) # "auth.scope"
  BY <1>0 DEF DoorInv, TaskPhases, PhaseIsRight
<1>7. Moves(i, r)
  BY <1>0, <1>3, <1>6, IsAnswered DEF Outcome
<1>8. PICK c : c = [t |-> "attach", i |-> i]
  OBVIOUS
<1>9. c \in QueuedCmd /\ c.t = "attach" /\ ~OfTask(c)
  BY <1>0, <1>8 DEF QueuedCmd, CmdName, OfTask
<1>10. cmds' = Append(cmds, c)
  BY <1>8 DEF Subscribe, Sent, ActorCmd
<1>11. cmds' \in Seq(QueuedCmd) /\ CmdsAreAsked' /\ CmdsAreOnce'
  BY <1>0, <1>5, <1>9, <1>10, QueueGrows
<1>12. WaitersWait'
  BY <1>0, <1>5, WaitersAreLeft
<1> QED
  BY <1>0, <1>1, <1>5, <1>7, <1>11, <1>12, ManyMove

\* The client is gone; its tasks go on.
LEMMA ClientGoneKeeps ==
  ASSUME DoorInv, ClientGone PROVE DoorInv'
<1>0. /\ UNCHANGED <<actor, peers, dworld, req>>
      /\ req \in [DoorRequests -> Task] /\ actor \in ActorRow /\ peers \in Seq(PeerRow)
      /\ door \in Connection /\ door' = [door EXCEPT !.open = FALSE]
  BY DoorFacts DEF ClientGone
<1>1. door' \in Connection /\ door'.said = door.said /\ door'.scope = door.scope
  BY <1>0 DEF Connection
<1>2. PICK c : c = [t |-> "gone", i |-> 0]
  OBVIOUS
<1>3. c \in QueuedCmd /\ c.t = "gone" /\ ~OfTask(c)
  BY <1>2 DEF QueuedCmd, CmdName, OfTask
<1>4. cmds' = Append(cmds, c)
  BY <1>2 DEF ClientGone, Sent, ActorCmd
<1>5. cmds' \in Seq(QueuedCmd) /\ CmdsAreAsked' /\ CmdsAreOnce'
  BY <1>0, <1>3, <1>4, QueueGrows
<1>6. WaitersWait'
  BY <1>0, WaitersAreLeft
<1> QED
  BY <1>0, <1>1, <1>5, <1>6, ManyMove

\* The pump of a connection that is gone ends.
LEMMA PumpEndsKeeps ==
  ASSUME DoorInv, PumpEnds PROVE DoorInv'
<1>0. /\ UNCHANGED <<actor, peers, dworld, req, cmds>>
      /\ req \in [DoorRequests -> Task] /\ actor \in ActorRow /\ peers \in Seq(PeerRow)
      /\ door \in Connection /\ door' = [door EXCEPT !.pump = "ended"] /\ cmds \in Seq(QueuedCmd)
  BY DoorFacts DEF PumpEnds
<1>1. door' \in Connection /\ door'.said = door.said /\ door'.scope = door.scope
  BY <1>0 DEF Connection
<1>2. CmdsAreAsked' /\ CmdsAreOnce'
  BY <1>0, QueueIsLeft
<1>3. WaitersWait'
  BY <1>0, WaitersAreLeft
<1> QED
  BY <1>0, <1>1, <1>2, <1>3, ManyMove

\* A node connects: a new connection, with nobody waiting.
LEMMA NodeConnectsKeeps ==
  ASSUME DoorInv, NodeConnects PROVE DoorInv'
<1>0. /\ UNCHANGED <<actor, door, dworld, req>>
      /\ req \in [DoorRequests -> Task] /\ actor \in ActorRow /\ peers \in Seq(PeerRow)
      /\ door \in Connection /\ Len(peers) \in Nat
  BY DoorFacts, LenProperties DEF NodeConnects
<1>1. PICK n \in Nat : n = Len(peers) + 1
  BY <1>0
<1>2. PICK c : c = [t |-> "node.register", i |-> n]
  OBVIOUS
<1>3. c \in QueuedCmd /\ c.t = "node.register" /\ ~OfTask(c)
  BY <1>2 DEF QueuedCmd, CmdName, OfTask
<1>4. cmds' = Append(cmds, c)
  BY <1>1, <1>2 DEF NodeConnects, Sent, ActorCmd
<1>5. cmds' \in Seq(QueuedCmd) /\ CmdsAreAsked' /\ CmdsAreOnce'
  BY <1>0, <1>3, <1>4, QueueGrows
<1>6. PICK v : v = [up |-> TRUE, waiting |-> {}, wire |-> <<>>]
  OBVIOUS
<1>7. v \in PeerRow /\ v.waiting = {} /\ peers' = Append(peers, v)
  BY <1>6 DEF PeerRow, NodeConnects
<1>8. /\ peers' \in Seq(PeerRow) /\ Len(peers') = Len(peers) + 1 /\ peers'[Len(peers) + 1] = v
      /\ \A k \in 1 .. Len(peers) : peers'[k] = peers[k]
  BY <1>0, <1>7, AppendProperties
<1>9. WaitersWait'
  <2> SUFFICES ASSUME NEW p \in 1 .. Len(peers'), NEW i \in peers'[p].waiting
               PROVE  req[i].at = "waiting" /\ req[i].peer = p
    BY <1>0 DEF WaitersWait
  <2>1. p \in 1 .. Len(peers)
    BY <1>0, <1>7, <1>8
  <2> QED
    BY <2>1, <1>8 DEF DoorInv, WaitersWait
<1> QED
  BY <1>0, <1>5, <1>8, <1>9, ManyMove

\* A row of the node's connections with other waiters, and another wire.
LEMMA PeerRowChanges ==
  ASSUME NEW v \in PeerRow, NEW w \in SUBSET DoorRequests, NEW x \in Seq(DoorRequests)
  PROVE  /\ [v EXCEPT !.waiting = w] \in PeerRow /\ [v EXCEPT !.waiting = w].waiting = w
         /\ [v EXCEPT !.waiting = w, !.wire = x] \in PeerRow
         /\ [v EXCEPT !.waiting = w, !.wire = x].waiting = w
  BY DEF PeerRow

\* Peer::request() on the connection the actor told, or an error when that is closed.
LEMMA RequestKeeps ==
  ASSUME DoorInv, NEW i \in DoorRequests, Request(i) PROVE DoorInv'
<1>0. /\ UNCHANGED <<door, cmds, actor, dworld>> /\ req[i].at = "request" /\ req[i] \in Task
      /\ req \in [DoorRequests -> Task] /\ actor \in ActorRow /\ peers \in Seq(PeerRow)
      /\ door \in Connection /\ cmds \in Seq(QueuedCmd)
  BY DoorFacts DEF Request, At
<1>1. CASE Ends(i, "node_gone") /\ peers' = peers
  <2>1. PICK r : r = TaskOver(req[i], "node_gone")
    OBVIOUS
  <2>2. r \in Task /\ r.at = "done" /\ r.env = req[i].env /\ r.got = <<"node_gone", 0>>
    BY <1>0, <2>1, TaskIsOver DEF Outcome
  <2>3. req' = [req EXCEPT ![i] = r]
    BY <1>0, <1>1, <2>1 DEF Ends, TaskOver
  <2>4. Moves(i, r)
    BY <1>0, <2>2, IsAnswered DEF Outcome
  <2> QED
    BY <1>0, <1>1, <2>3, <2>4, MovesAlone
<1>2. CASE Waits(req[i].peer, i) /\ Goes(i, "waiting")
  <2>1. PICK r : r = [req[i] EXCEPT !.at = "waiting"]
    OBVIOUS
  <2>2. r \in Task /\ r.at = "waiting" /\ r.env = req[i].env /\ r.got = req[i].got
        /\ r.peer = req[i].peer
    BY <1>0, <2>1, TaskGoes DEF Phase
  <2>3. req' = [req EXCEPT ![i] = r]
    BY <1>0, <1>2, <2>1 DEF Goes
  <2>4. Moves(i, r)
    BY <1>0, <2>2, GoesOn
  <2>5. (\A j \in DoorRequests : j # i => req'[j] = req[j]) /\ req'[i] = r
    BY <1>0, <2>3
  <2>6. CmdsAreAsked' /\ CmdsAreOnce'
    BY <1>0, <2>5, QueueIsLeft
  <2>7. peers' \in Seq(PeerRow) /\ WaitersWait'
    <3>1. CASE req[i].peer \notin 1 .. Len(peers)
      <4>1. peers' = peers
        BY <1>0, <1>2, <3>1, LenProperties DEF Waits
      <4> QED
        BY <1>0, <2>5, <4>1, WaitersAreLeft
    <3>2. CASE req[i].peer \in 1 .. Len(peers)
      <4>1. PICK p \in 1 .. Len(peers) : p = req[i].peer
        BY <3>2
      <4>2. peers[p] \in PeerRow
        BY <1>0, ElementOfSeq
      <4>3. PICK w \in SUBSET DoorRequests : w = peers[p].waiting \cup {i}
        BY <4>2 DEF PeerRow
      <4>4. PICK x \in Seq(DoorRequests) : x = Append(peers[p].wire, i)
        BY <4>2, AppendProperties DEF PeerRow
      <4>5. PICK v : v = [peers[p] EXCEPT !.waiting = w, !.wire = x]
        OBVIOUS
      <4>6. v \in PeerRow /\ v.waiting = w
        BY <4>2, <4>5, PeerRowChanges
      <4>7. peers' = [peers EXCEPT ![p] = v]
        <5>1. v = Asks(peers[p], i)
          BY <4>2, <4>3, <4>4, <4>5 DEF PeerRow, Asks
        <5>2. peers' = [peers EXCEPT ![p] = Asks(peers[p], i)]
          BY <1>2, <4>1 DEF Waits
        <5> QED
          BY <5>1, <5>2
      <4>8. \A j \in w : req'[j].at = "waiting" /\ req'[j].peer = p
        <5>1. \A j \in peers[p].waiting : j \in DoorRequests /\ req[j].at = "waiting"
              /\ req[j].peer = p
          BY <4>2 DEF DoorInv, WaitersWait, PeerRow
        <5> QED
          BY <5>1, <2>2, <2>5, <4>1, <4>3
      <4> QED
        BY <1>0, <2>5, <4>6, <4>7, <4>8, PeerChanges
    <3> QED
      BY <3>1, <3>2
  <2> QED
    BY <1>0, <2>3, <2>4, <2>6, <2>7, OneMoves
<1> QED
  BY <1>1, <1>2 DEF Request

\* A task gives up; it waits on no connection any more.
LEMMA TimesOutKeeps ==
  ASSUME DoorInv, NEW i \in DoorRequests, TimesOut(i) PROVE DoorInv'
<1>0. /\ UNCHANGED <<door, cmds, actor, dworld>> /\ req[i].at = "waiting" /\ req[i] \in Task
      /\ req \in [DoorRequests -> Task] /\ actor \in ActorRow /\ peers \in Seq(PeerRow)
      /\ door \in Connection /\ cmds \in Seq(QueuedCmd)
  BY DoorFacts DEF TimesOut, At
<1>1. PICK o \in Outcome, n \in Nat : o = "timeout" /\ n = 0
  BY DEF Outcome
<1>2. PICK r : r = Answered(req[i], o, n)
  OBVIOUS
<1>3. r \in Task /\ r.at = "answered" /\ r.env = req[i].env /\ r.got = <<o, n>>
  BY <1>0, <1>2, TaskIsAnswered
<1>4. req' = [req EXCEPT ![i] = r]
  BY <1>0, <1>1, <1>2 DEF TimesOut, Answered
<1>5. Moves(i, r)
  BY <1>0, <1>1, <1>3, IsAnswered
<1>6. (\A j \in DoorRequests : j # i => req'[j] = req[j]) /\ req'[i] = r
  BY <1>0, <1>4
<1>7. CmdsAreAsked' /\ CmdsAreOnce'
  BY <1>0, <1>6, QueueIsLeft
<1>8. peers' \in Seq(PeerRow) /\ WaitersWait'
  <2>0. peers' = [peers EXCEPT ![req[i].peer].waiting = @ \ {i}]
    BY DEF TimesOut
  <2>1. CASE req[i].peer \notin 1 .. Len(peers)
    <3>1. peers' = peers
      BY <1>0, <2>0, <2>1, LenProperties
    <3>2. \A q \in 1 .. Len(peers) : peers[q] \in PeerRow
      BY <1>0, ElementOfSeq
    <3>3. \A q \in 1 .. Len(peers) : \A j \in peers[q].waiting :
            j \in DoorRequests /\ req[j].at = "waiting" /\ req[j].peer = q
      BY <3>2 DEF DoorInv, WaitersWait, PeerRow
    <3>4. \A q \in 1 .. Len(peers) : \A j \in peers[q].waiting : j # i
      BY <3>3, <2>1
    <3> QED
      BY <1>0, <1>6, <3>1, <3>3, <3>4 DEF WaitersWait
  <2>2. CASE req[i].peer \in 1 .. Len(peers)
    <3>1. PICK p \in 1 .. Len(peers) : p = req[i].peer
      BY <2>2
    <3>2. peers[p] \in PeerRow
      BY <1>0, ElementOfSeq
    <3>3. PICK w \in SUBSET DoorRequests : w = peers[p].waiting \ {i}
      BY <3>2 DEF PeerRow
    <3>4. PICK v : v = [peers[p] EXCEPT !.waiting = w]
      OBVIOUS
    <3>5. v \in PeerRow /\ v.waiting = w
      BY <3>2, <3>4 DEF PeerRow
    <3>6. peers' = [peers EXCEPT ![p] = v]
      BY <2>0, <3>1, <3>2, <3>3, <3>4 DEF PeerRow
    <3>7. \A j \in w : req'[j].at = "waiting" /\ req'[j].peer = p
      <4>1. \A j \in peers[p].waiting : j \in DoorRequests /\ req[j].at = "waiting" /\ req[j].peer = p
        BY <3>2 DEF DoorInv, WaitersWait, PeerRow
      <4> QED
        BY <4>1, <1>6, <3>3
    <3> QED
      BY <1>0, <1>6, <3>1, <3>5, <3>6, <3>7, PeerChanges
  <2> QED
    BY <2>1, <2>2
<1> QED
  BY <1>0, <1>4, <1>5, <1>7, <1>8, OneMoves

\* Peer::resolve(): the answer goes to the request of its number, if somebody still waits.
LEMMA NodeAnswersKeeps ==
  ASSUME DoorInv, NEW p \in DOMAIN peers, NEW k \in DOMAIN peers[p].wire, NodeAnswers(p, k)
  PROVE  DoorInv'
<1>0. /\ UNCHANGED <<door, cmds, actor, dworld>> /\ peers \in Seq(PeerRow)
      /\ req \in [DoorRequests -> Task] /\ actor \in ActorRow
      /\ door \in Connection /\ cmds \in Seq(QueuedCmd)
  BY DoorFacts DEF NodeAnswers
<1>1. p \in 1 .. Len(peers)
  BY <1>0, LenProperties
<1>2. peers[p] \in PeerRow
  BY <1>0, <1>1, ElementOfSeq
<1>3. PICK f \in Seq(DoorRequests) : f = peers[p].wire
  BY <1>2 DEF PeerRow
<1>4. k \in 1 .. Len(f) /\ Len(f) \in Nat
  BY <1>3, LenProperties
<1>5. PICK i \in DoorRequests : i = f[k]
  BY <1>4, ElementOfSeq
<1>6. PICK x \in Seq(DoorRequests) : x = SubSeq(f, 1, k - 1) \o SubSeq(f, k + 1, Len(f))
  <2>1. \A m \in 1 .. Len(f) : f[m] \in DoorRequests
    BY ElementOfSeq
  <2>2. SubSeq(f, 1, k - 1) \in Seq(DoorRequests)
    BY <1>4, <2>1
  <2>3. SubSeq(f, k + 1, Len(f)) \in Seq(DoorRequests)
    BY <1>4, <2>1
  <2> QED
    BY <2>2, <2>3, ConcatProperties
<1>7. PICK w \in SUBSET DoorRequests : w = peers[p].waiting \ (peers[p].waiting \cap {i})
  BY <1>2 DEF PeerRow
<1>8. PICK v : v = [peers[p] EXCEPT !.waiting = w, !.wire = x]
  OBVIOUS
<1>9. v \in PeerRow /\ v.waiting = w
  BY <1>2, <1>8, PeerRowChanges
<1>10. peers' = [peers EXCEPT ![p] = v]
  <2>1. peers' = [peers EXCEPT ![p] = Resolved(peers[p], peers[p].waiting \cap {i}, k)]
    BY <1>3, <1>5 DEF NodeAnswers, Waiter
  <2>2. v = Resolved(peers[p], peers[p].waiting \cap {i}, k)
    BY <1>2, <1>3, <1>6, <1>7, <1>8 DEF PeerRow, Resolved
  <2> QED
    BY <2>1, <2>2
<1>11. \A j \in peers[p].waiting : j \in DoorRequests /\ req[j].at = "waiting" /\ req[j].peer = p
  BY <1>1, <1>2 DEF DoorInv, WaitersWait, PeerRow
<1>12. PICK o \in Outcome, n \in Nat : o = "ok" /\ n = i /\ n # 0
  BY DoorFacts DEF Outcome
<1>13. \A j \in DoorRequests : req'[j] = IF j \in peers[p].waiting \cap {i} THEN Answered(req[j], o,
         n) ELSE req[j]
  BY <1>3, <1>5, <1>12 DEF NodeAnswers, Waiter, Answered
<1>14. PICK r : r = Answered(req[i], o, n)
  OBVIOUS
<1>15. r \in Task /\ r.at = "answered" /\ r.env = req[i].env /\ r.got = <<o, n>>
  BY <1>0, <1>14, TaskIsAnswered
<1>16. i \in peers[p].waiting => Moves(i, r)
  BY <1>11, <1>12, <1>15, IsAnswered
<1>17. \A j \in DoorRequests : req'[j] = req[j] \/ (j = i /\ j \in peers[p].waiting /\ req'[j] = r)
  BY <1>13, <1>14
<1>18. req' \in [DoorRequests -> Task]
  <2>1. \A j \in DoorRequests : req'[j] \in Task
    BY <1>0, <1>15, <1>17
  <2>2. \E g : req' = [j \in DoorRequests |-> g[j]]
    <3>1. req' = [j \in DoorRequests |-> req'[j]]
      BY DEF NodeAnswers
    <3> QED
      BY <3>1
  <2> QED
    BY <2>1, <2>2
<1>19. CmdsAreAsked' /\ CmdsAreOnce'
  <2>1. \A j \in DoorRequests : req[j].at = "asked" => req'[j].at = "asked"
    BY <1>11, <1>17
  <2> QED
    BY <1>0, <2>1, QueueIsLeft
<1>20. \A j \in w : req'[j].at = "waiting" /\ req'[j].peer = p
  BY <1>7, <1>11, <1>17
<1>21. peers' \in Seq(PeerRow) /\ WaitersWait'
  BY <1>0, <1>1, <1>9, <1>10, <1>11, <1>17, <1>20, PeerChanges
<1> QED
  BY <1>0, <1>16, <1>17, <1>18, <1>19, <1>21, ManyMove

\* Peer::close(): everybody who waits on the connection is told.
LEMMA NodeDropsKeeps ==
  ASSUME DoorInv, NEW p \in DOMAIN peers, NodeDrops(p) PROVE DoorInv'
<1>0. /\ UNCHANGED <<door, actor, dworld>> /\ peers \in Seq(PeerRow)
      /\ req \in [DoorRequests -> Task] /\ actor \in ActorRow
      /\ door \in Connection /\ cmds \in Seq(QueuedCmd)
  BY DoorFacts DEF NodeDrops
<1>1. p \in 1 .. Len(peers) /\ p \in Nat
  BY <1>0, LenProperties
<1>2. peers[p] \in PeerRow
  BY <1>0, <1>1, ElementOfSeq
<1>3. PICK v : v = [up |-> FALSE, waiting |-> {}, wire |-> <<>>]
  OBVIOUS
<1>4. v \in PeerRow /\ v.waiting = {} /\ peers' = [peers EXCEPT ![p] = v]
  <2>1. v \in PeerRow /\ v.waiting = {}
    BY <1>3 DEF PeerRow
  <2>2. peers' = [peers EXCEPT ![p] = v]
    BY <1>3 DEF NodeDrops
  <2> QED
    BY <2>1, <2>2
<1>5. \A j \in peers[p].waiting : j \in DoorRequests /\ req[j].at = "waiting" /\ req[j].peer = p
  BY <1>1, <1>2 DEF DoorInv, WaitersWait, PeerRow
<1>6. PICK o \in Outcome, n \in Nat : o = "disconnected" /\ n = 0
  BY DEF Outcome
<1>7. \A j \in DoorRequests : req'[j] = IF j \in peers[p].waiting THEN Answered(req[j], o, n)
      ELSE req[j]
  BY <1>6 DEF NodeDrops, Answered
<1>8. \A j \in DoorRequests : Answered(req[j], o, n) \in Task
  BY <1>0, TaskIsAnswered
<1>9. ASSUME NEW j \in DoorRequests, j \in peers[p].waiting PROVE Moves(j, req'[j])
  <2>1. PICK r : r = Answered(req[j], o, n)
    OBVIOUS
  <2>2. r \in Task /\ r.at = "answered" /\ r.env = req[j].env /\ r.got = <<o, n>>
    BY <1>0, <2>1, TaskIsAnswered
  <2>3. Moves(j, r)
    BY <1>5, <1>6, <1>9, <2>2, IsAnswered
  <2> QED
    BY <1>7, <1>9, <2>1, <2>3
<1>10. \A j \in DoorRequests : req'[j] = req[j] \/ Moves(j, req'[j])
  BY <1>7, <1>9
<1>11. req' \in [DoorRequests -> Task]
  <2>1. \A j \in DoorRequests : req'[j] \in Task
    BY <1>0, <1>7, <1>8
  <2>2. req' = [j \in DoorRequests |-> req'[j]]
    BY DEF NodeDrops
  <2> QED
    BY <2>1, <2>2
<1>12. PICK c : c = [t |-> "exited", i |-> p]
  OBVIOUS
<1>13. c \in QueuedCmd /\ c.t = "exited" /\ ~OfTask(c)
  BY <1>1, <1>12 DEF QueuedCmd, CmdName, OfTask
<1>14. cmds' = Append(cmds, c)
  BY <1>12 DEF NodeDrops, Sent, ActorCmd
<1>15. \A j \in DoorRequests : req[j].at = "asked" => req'[j].at = "asked"
  BY <1>5, <1>7
<1>16. cmds' \in Seq(QueuedCmd) /\ CmdsAreAsked' /\ CmdsAreOnce'
  BY <1>0, <1>13, <1>14, <1>15, QueueGrows
<1>17. peers' \in Seq(PeerRow) /\ WaitersWait'
  <2>1. \A j \in DoorRequests : req[j].at = "waiting" => req'[j] = req[j] \/ req[j].peer = p
    BY <1>5, <1>7
  <2> QED
    BY <1>0, <1>1, <1>4, <2>1, PeerChanges
<1> QED
  BY <1>0, <1>10, <1>11, <1>16, <1>17, ManyMove

---------------------------------------------------------------------------
\* DoorInv is inductive: each step of the door keeps it.
LEMMA DoorNextKeeps ==
  ASSUME DoorInv, [DoorNext]_doorVars PROVE DoorInv'
<1>1. CASE UNCHANGED doorVars
  <2>1. UNCHANGED <<door, req, cmds, actor, peers, dworld>>
    BY <1>1 DEF doorVars
  <2>2. /\ req \in [DoorRequests -> Task] /\ actor \in ActorRow /\ peers \in Seq(PeerRow)
        /\ door \in Connection /\ cmds \in Seq(QueuedCmd)
    BY DoorFacts
  <2>3. CmdsAreAsked' /\ CmdsAreOnce'
    BY <2>1, QueueIsLeft
  <2>4. WaitersWait'
    BY <2>1, WaitersAreLeft
  <2> QED
    BY <2>1, <2>2, <2>3, <2>4, ManyMove
<1>2. CASE ActorStep
  BY <1>2, OnPeerOfKeeps, OnStatusKeeps, OnRuntimeKeeps, OnPromptKeeps, OnScopeKeeps,
     OnRecordsKeeps, OnStopKeeps, OnProbedKeeps, ActorAloneKeeps
  DEF ActorStep
<1>3. CASE ClientGone \/ PumpEnds \/ NodeConnects
  BY <1>3, ClientGoneKeeps, PumpEndsKeeps, NodeConnectsKeeps
<1>4. ASSUME NEW i \in DoorRequests, ClientSends(i) \/ TaskStep(i) PROVE DoorInv'
  BY <1>4, ClientSendsKeeps, GuardKeeps, AskActorKeeps, LocalKeeps, BindKeeps, SubscribeKeeps,
     RequestKeeps,
     TimesOutKeeps, FinishKeeps
  DEF TaskStep
<1>5. ASSUME NEW p \in DOMAIN peers,
             NodeDrops(p) \/ \E k \in DOMAIN peers[p].wire : NodeAnswers(p, k)
      PROVE  DoorInv'
  BY <1>5, NodeDropsKeeps, NodeAnswersKeeps
<1> QED
  BY <1>1, <1>2, <1>3, <1>4, <1>5 DEF DoorNext

\* DoorInv says what DoorIsSound does.
LEMMA DoorInvIsEnough == DoorInv => DoorIsSound
<1> SUFFICES ASSUME DoorInv PROVE DoorIsSound
  OBVIOUS
<1>1. peers \in Seq(PeerRow)
  BY DoorFacts
<1>2. DOMAIN peers = 1 .. Len(peers)
  BY <1>1, LenProperties
<1>3. AnswersFindTheirTask
  BY <1>2 DEF DoorInv, GotIsOwn, WaitersWait, AnswersFindTheirTask, At
<1> QED
  BY <1>3 DEF DoorInv, DoorIsSound

\* For any requests of a client: an answer goes to the request it is for, whatever is
\* dropped, late or reconnected; and what a bound connection does stays in its environment,
\* with the methods that look at no environment left out (server.rs guard and scoped_env,
\* facaderpc.rs, peer.rs request and resolve).
THEOREM DoorHolds == DoorSpec => []DoorIsSound
<1>1. DoorInit => DoorInv
  BY DoorInitHolds
<1>2. DoorInv /\ [DoorNext]_doorVars => DoorInv'
  BY DoorNextKeeps
<1>3. DoorInv => DoorIsSound
  BY DoorInvIsEnough
<1> QED
  BY <1>1, <1>2, <1>3, PTL DEF DoorSpec

-----------------------------------------------------------------------------
(***************************************************************************)
(* The link of a node and its guardian.  Numbers tie a call to its letter, *)
(* its request at base and its reply; the invariant says that whatever     *)
(* bears the number of a call that waits is of that call's method.         *)
(***************************************************************************)

\* What base may ask, what a probe asks, and the method of any letter.
AskName == UNION {w.asks : w \in LinkWorlds}
ProbeMethod == {"status", "health", "tree", "log.query", "svc", "reset"}
MethodName == {"none"} \cup ProbeMethod \cup AskName

\* A world, with what is left of its budgets; a letter of the mailbox; a call.
LinkWorldNow == [asks : SUBSET AskName, core : Seq(Probe), loads : BOOLEAN, broken : BOOLEAN,
                 drops : Nat, dies : Nat, faults : Nat, lates : Nat, passes : Int]
Letter == [kind : {"call", "rep", "ask", "closed"}, method : MethodName, nr : Nat,
            value : Nat \cup Caller]
LinkCall == [is : {"idle", "waits", "got"}, nr : Nat, method : MethodName, ok : BOOLEAN,
             of : MethodName, value : Nat]

\* A table of what is under way, by number.
Table(f, S) == f \in [DOMAIN f -> S] /\ DOMAIN f \subseteq Nat /\ IsFiniteSet(DOMAIN f)

\* The state of the link, and the counters of the guardian.
LinkTypes ==
  /\ linked \in LinkWorldNow
  /\ mail \in Seq(Letter) /\ calls \in [Caller -> LinkCall]
  /\ Table(pending, Caller) /\ Table(atBase, MethodName) /\ Table(asked, MethodName)
  /\ tasks \subseteq Nat /\ IsFiniteSet(tasks)
  /\ trouble \in Nat /\ seen \in Nat /\ blamed \in Nat /\ strikes \in Nat

\* A letter of the mailbox is of the call that has its number.
Fits(l, cs, t) ==
  /\ l.kind = "call" => l.value \in Caller
  /\ l.kind = "rep" => l.value \in Nat /\ (l.method = "log.query" => l.value <= t)
  /\ l.kind \in {"call", "rep"} =>
       \A c \in Caller : cs[c].is = "waits" /\ cs[c].nr = l.nr => l.method = cs[c].method

LettersAreGood == \A k \in 1 .. Len(mail) : Fits(mail[k], calls, trouble)

\* What base has not answered is the request of the call that has its number.
BaseHasTheirs ==
  \A n \in DOMAIN atBase : \A c \in Caller :
    calls[c].is = "waits" /\ calls[c].nr = n => atBase[n] = calls[c].method

\* A call that waits has no result; one with a result has that of its own method, and a
\* result of the log is not ahead of the log.
CallIsGood(c) ==
  /\ calls[c].is = "waits" => ~calls[c].ok
  /\ calls[c].is = "got" /\ calls[c].ok =>
       /\ calls[c].of = calls[c].method
       /\ calls[c].of = "log.query" => calls[c].value <= trouble

CallsAreGood == \A c \in Caller : CallIsGood(c)

\* What the guardian's call is for.
CallIsOfPass ==
  calls["guardian"].is # "idle" =>
    \/ pass = <<"reset">>
    \/ /\ pass # << >> /\ Head(pass) \notin {"extra", "reset"} /\ Owed(Head(pass))
       /\ calls["guardian"].method = Method(Head(pass))

\* A pass is made of probes; after it there may be a reset.
PassIsProbes == pass \in Seq(Probe) \/ pass = <<"reset">>

\* The passes that failed for a violation are no more than the violations seen, one less
\* while such a failure is not scored yet.
BlameIsSeen ==
  /\ blamed <= seen /\ seen <= trouble
  /\ pass # << >> /\ pass # <<"reset">> /\ "violations" \in failed => blamed + 1 <= seen

\* The inductive invariant of the link and the guardian.
LinkInv ==
  /\ LinkTypes /\ LettersAreGood /\ BaseHasTheirs /\ CallsAreGood /\ CallIsOfPass
  /\ PassIsProbes /\ BlameIsSeen

---------------------------------------------------------------------------
\* A world has its whole budgets at first.
LEMMA LinkWorldsAreTyped ==
  ASSUME NEW w \in LinkWorlds PROVE w \in LinkWorldNow
<1>1. w.asks \subseteq AskName
  BY DEF AskName
<1> QED
  BY <1>1, LinkAssumption DEF LinkWorldNow

\* Map.delete.
LEMMA WithoutTable ==
  ASSUME NEW S, NEW f, Table(f, S), NEW n
  PROVE  /\ Table(Without(f, n), S) /\ DOMAIN Without(f, n) = DOMAIN f \ {n}
         /\ \A k \in DOMAIN f \ {n} : Without(f, n)[k] = f[k]
<1>1. IsFiniteSet(DOMAIN f \ {n})
  BY FS_RemoveElement DEF Table
<1> QED
  BY <1>1 DEF Table, Without

\* Map.put.
LEMMA WithTable ==
  ASSUME NEW S, NEW f, Table(f, S), NEW n \in Nat, NEW v \in S
  PROVE  /\ Table(With(f, n, v), S) /\ DOMAIN With(f, n, v) = DOMAIN f \cup {n}
         /\ With(f, n, v)[n] = v /\ \A k \in DOMAIN f \ {n} : With(f, n, v)[k] = f[k]
<1>1. IsFiniteSet(DOMAIN f \cup {n})
  BY FS_AddElement DEF Table
<1> QED
  BY <1>1 DEF Table, With

\* %{}.
LEMMA EmptyTable ==
  ASSUME NEW S PROVE Table(<< >>, S) /\ DOMAIN << >> = {}
  BY FS_EmptySet DEF Table

\* A number is new: somebody holds finitely many.
LEMMA FreshIsFree ==
  ASSUME LinkTypes
  PROVE  Fresh \in Nat /\ Fresh # 0 /\ Fresh \notin Held
<1>1. IsFiniteSet({calls[c].nr : c \in Caller})
  <2>1. PICK a, b : a = calls["guardian"].nr /\ b = calls["plugin"].nr
    OBVIOUS
  <2>2. {calls[c].nr : c \in Caller} = {a} \cup {b}
    BY <2>1 DEF Caller
  <2>3. IsFiniteSet({a})
    BY FS_Singleton
  <2>4. IsFiniteSet({a} \cup {b})
    BY <2>3, FS_AddElement
  <2> QED
    BY <2>2, <2>4
<1>2. IsFiniteSet({mail[i].nr : i \in DOMAIN mail})
  <2>1. DOMAIN mail = 1 .. Len(mail) /\ Len(mail) \in Nat
    BY LenProperties DEF LinkTypes
  <2>2. IsFiniteSet(DOMAIN mail)
    BY <2>1, FS_Interval
  <2>3. [i \in DOMAIN mail |-> mail[i].nr] \in Surjection(DOMAIN mail,
          {mail[i].nr : i \in DOMAIN mail})
    BY DEF Surjection
  <2> QED
    BY <2>2, <2>3, FS_Surjection
<1>3. IsFiniteSet(DOMAIN pending \cup DOMAIN atBase)
  BY FS_Union DEF LinkTypes, Table
<1>4. IsFiniteSet(DOMAIN pending \cup DOMAIN atBase \cup DOMAIN asked)
  BY <1>3, FS_Union DEF LinkTypes, Table
<1>5. IsFiniteSet(DOMAIN pending \cup DOMAIN atBase \cup DOMAIN asked \cup tasks)
  BY <1>4, FS_Union DEF LinkTypes
<1>6. IsFiniteSet(DOMAIN pending \cup DOMAIN atBase \cup DOMAIN asked \cup tasks
                  \cup {calls[c].nr : c \in Caller})
  BY <1>5, <1>1, FS_Union
<1>7. IsFiniteSet(Held)
  BY <1>6, <1>2, FS_Union DEF Held
<1>8. PICK k \in Nat : k = Cardinality(Held)
  BY <1>7, FS_CardinalityType
<1>9. ~((1 .. k + 1) \subseteq Held)
  <2>1. Cardinality(1 .. k + 1) = k + 1
    BY FS_Interval
  <2>2. SUFFICES ASSUME (1 .. k + 1) \subseteq Held PROVE FALSE
    OBVIOUS
  <2>3. Cardinality(1 .. k + 1) <= Cardinality(Held)
    BY <2>2, <1>7, FS_Subset
  <2> QED
    BY <2>1, <2>3, <1>8
<1>10. \E n \in 1 .. k + 1 : n \notin Held
  BY <1>9
<1>11. Fresh \in 1 .. k + 1 /\ Fresh \notin Held
  BY <1>8, <1>10 DEF Fresh
<1> QED
  BY <1>11

---------------------------------------------------------------------------
\* What a step may do to the callers: it ends calls, and begins some under a new number.
CallsGoOn ==
  \A c \in Caller : calls'[c].is = "waits" =>
    \/ calls[c].is = "waits" /\ calls'[c].nr = calls[c].nr /\ calls'[c].method = calls[c].method
    \/ calls'[c].nr \notin Held

\* Where calls end or begin under new numbers, letters and requests stay theirs.
LEMMA LettersStay ==
  ASSUME LinkInv, CallsGoOn, trouble' \in Nat, trouble' >= trouble
  PROVE  /\ \A k \in 1 .. Len(mail) : Fits(mail[k], calls', trouble')
         /\ \A n \in DOMAIN atBase : \A c \in Caller :
              calls'[c].is = "waits" /\ calls'[c].nr = n => atBase[n] = calls'[c].method
<1>1. mail \in Seq(Letter) /\ trouble \in Nat /\ DOMAIN mail = 1 .. Len(mail)
  BY LenProperties DEF LinkInv, LinkTypes
<1>2. ASSUME NEW k \in 1 .. Len(mail) PROVE Fits(mail[k], calls', trouble')
  <2>1. Fits(mail[k], calls, trouble) /\ mail[k] \in Letter
    BY <1>1, ElementOfSeq DEF LinkInv, LettersAreGood
  <2>2. mail[k].nr \in Held
    BY <1>1 DEF Held
  <2>3. PICK l \in Letter : l = mail[k]
    BY <2>1
  <2>4. \A c \in Caller : calls'[c].is = "waits" /\ calls'[c].nr = l.nr =>
          calls[c].is = "waits" /\ calls'[c].nr = calls[c].nr /\ calls'[c].method = calls[c].method
    BY <2>2, <2>3 DEF CallsGoOn
  <2>5. l.kind = "rep" /\ l.method = "log.query" => l.value \in Nat /\ l.value <= trouble'
    BY <2>1, <2>3, <1>1 DEF Fits
  <2> QED
    BY <2>1, <2>3, <2>4, <2>5 DEF Fits
<1>3. ASSUME NEW n \in DOMAIN atBase, NEW c \in Caller, calls'[c].is = "waits", calls'[c].nr = n
      PROVE  atBase[n] = calls'[c].method
  <2>1. n \in Held
    BY DEF Held
  <2> QED
    BY <2>1, <1>3 DEF CallsGoOn, LinkInv, BaseHasTheirs
<1> QED
  BY <1>2, <1>3

\* A letter is put into the mailbox.
LEMMA MailGrows ==
  ASSUME LinkInv, NEW l \in Letter, mail' = Append(mail, l), Fits(l, calls', trouble'),
         CallsGoOn, trouble' \in Nat, trouble' >= trouble
  PROVE  mail' \in Seq(Letter) /\ LettersAreGood'
<1>1. mail \in Seq(Letter) /\ Len(mail) \in Nat
  BY LenProperties DEF LinkInv, LinkTypes
<1>2. /\ mail' \in Seq(Letter) /\ Len(mail') = Len(mail) + 1 /\ mail'[Len(mail) + 1] = l
      /\ \A k \in 1 .. Len(mail) : mail'[k] = mail[k]
  BY <1>1, AppendProperties
<1>3. \A k \in 1 .. Len(mail) : Fits(mail[k], calls', trouble')
  BY LettersStay
<1>4. \A k \in 1 .. Len(mail') : Fits(mail'[k], calls', trouble')
  BY <1>1, <1>2, <1>3
<1> QED
  BY <1>2, <1>4 DEF LettersAreGood

\* The oldest letter is taken.
LEMMA MailShrinks ==
  ASSUME LinkInv, mail # << >>, mail' = Tail(mail), CallsGoOn, trouble' \in Nat, trouble' >= trouble
  PROVE  mail' \in Seq(Letter) /\ LettersAreGood' /\ Head(mail) \in Letter
         /\ Fits(Head(mail), calls, trouble)
<1>1. mail \in Seq(Letter) /\ Len(mail) \in Nat
  BY LenProperties DEF LinkInv, LinkTypes
<1>2. /\ mail' \in Seq(Letter) /\ Head(mail) \in Letter /\ Head(mail) = mail[1]
      /\ Len(mail') = Len(mail) - 1 /\ Len(mail) # 0
      /\ \A k \in 1 .. Len(mail') : mail'[k] = mail[k + 1]
  BY <1>1, HeadTailProperties, EmptySeq
<1>3. \A k \in 1 .. Len(mail) : Fits(mail[k], calls', trouble')
  BY LettersStay
<1>4. \A k \in 1 .. Len(mail') : k + 1 \in 1 .. Len(mail)
  BY <1>1, <1>2
<1>5. \A k \in 1 .. Len(mail') : Fits(mail'[k], calls', trouble')
  BY <1>2, <1>3, <1>4
<1>6. 1 \in 1 .. Len(mail)
  BY <1>1, <1>2
<1> QED
  BY <1>2, <1>5, <1>6 DEF LettersAreGood, LinkInv

\* The mailbox is left alone.
LEMMA MailStays ==
  ASSUME LinkInv, mail' = mail, CallsGoOn, trouble' \in Nat, trouble' >= trouble
  PROVE  mail' \in Seq(Letter) /\ LettersAreGood'
<1>1. \A k \in 1 .. Len(mail) : Fits(mail[k], calls', trouble')
  BY LettersStay
<1> QED
  BY <1>1 DEF LettersAreGood, LinkInv, LinkTypes

\* Base has no request it did not have.
LEMMA BaseStays ==
  ASSUME LinkInv, CallsGoOn, trouble' \in Nat, trouble' >= trouble,
         DOMAIN atBase' \subseteq DOMAIN atBase, \A n \in DOMAIN atBase' : atBase'[n] = atBase[n]
  PROVE  BaseHasTheirs'
  BY LettersStay DEF BaseHasTheirs

\* Nothing happens to the guardian's pass.
LEMMA PassStays ==
  ASSUME LinkInv, UNCHANGED guardianVars, trouble' \in Nat, trouble' >= trouble
  PROVE  PassIsProbes' /\ BlameIsSeen' /\ seen' \in Nat /\ blamed' \in Nat /\ strikes' \in Nat
  BY DEF LinkInv, LinkTypes, guardianVars, PassIsProbes, BlameIsSeen

\* The types, for use in the steps.
LEMMA LinkFacts ==
  ASSUME LinkInv
  PROVE  /\ LinkTypes /\ linked \in LinkWorldNow /\ mail \in Seq(Letter)
            /\ calls \in [Caller -> LinkCall]
         /\ Table(pending, Caller) /\ Table(atBase, MethodName) /\ Table(asked, MethodName)
         /\ tasks \subseteq Nat /\ IsFiniteSet(tasks)
         /\ trouble \in Nat /\ seen \in Nat /\ blamed \in Nat /\ strikes \in Nat
         /\ \A c \in Caller : calls[c] \in LinkCall /\ calls[c].ok \in BOOLEAN
         /\ "guardian" \in Caller /\ "plugin" \in Caller
  BY DEF LinkInv, LinkTypes, Caller, LinkCall

\* No call changes.
LEMMA CallsStay ==
  ASSUME LinkInv, calls' = calls, trouble' \in Nat, trouble' >= trouble
  PROVE  CallsGoOn /\ CallsAreGood' /\ (UNCHANGED guardianVars => CallIsOfPass')
<1>1. CallsGoOn
  BY DEF CallsGoOn
<1>2. CallsAreGood'
  <2> SUFFICES ASSUME NEW c \in Caller PROVE CallIsGood(c)'
    BY DEF CallsAreGood
  <2>1. CallIsGood(c) /\ trouble \in Nat /\ calls[c].value \in Nat
    BY LinkFacts DEF LinkInv, CallsAreGood, LinkCall
  <2> QED
    BY <2>1 DEF CallIsGood
<1>3. UNCHANGED guardianVars => CallIsOfPass'
  BY DEF LinkInv, CallIsOfPass, guardianVars, Owed
<1> QED
  BY <1>1, <1>2, <1>3

\* A step of the link that no caller and no probe notices.
LEMMA LinkAlone ==
  ASSUME LinkInv, UNCHANGED <<calls, guardianVars>>, trouble' \in Nat, trouble' >= trouble,
         linked' \in LinkWorldNow, Table(pending', Caller), Table(atBase', MethodName),
         Table(asked', MethodName), tasks' \subseteq Nat, IsFiniteSet(tasks'),
         mail' \in Seq(Letter), LettersAreGood', BaseHasTheirs'
  PROVE  LinkInv'
<1>1. CallsGoOn /\ CallsAreGood' /\ CallIsOfPass'
  BY CallsStay
<1>2. PassIsProbes' /\ BlameIsSeen' /\ seen' \in Nat /\ blamed' \in Nat /\ strikes' \in Nat
  BY PassStays
<1>3. calls' \in [Caller -> LinkCall]
  BY LinkFacts
<1> QED
  BY <1>1, <1>2, <1>3 DEF LinkInv, LinkTypes

\* A node that is connected, with an idle guardian.
LEMMA LinkInitHolds == LinkInit => LinkInv
<1> SUFFICES ASSUME LinkInit PROVE LinkInv
  OBVIOUS
<1>1. linked \in LinkWorldNow
  BY LinkWorldsAreTyped DEF LinkInit
<1>2. Idle \in LinkCall /\ Idle.is = "idle"
  BY DEF Idle, LinkCall, MethodName
<1>3. calls \in [Caller -> LinkCall] /\ \A c \in Caller : calls[c].is = "idle"
  BY <1>2 DEF LinkInit
<1>4. mail \in Seq(Letter) /\ Len(mail) = 0
  BY DEF LinkInit
<1>5. Table(pending, Caller) /\ Table(atBase, MethodName) /\ Table(asked, MethodName)
      /\ DOMAIN atBase = {}
  BY EmptyTable DEF LinkInit
<1>6. tasks \subseteq Nat /\ IsFiniteSet(tasks)
  BY FS_EmptySet DEF LinkInit
<1>7. LinkTypes
  BY <1>1, <1>3, <1>4, <1>5, <1>6 DEF LinkInit, LinkTypes
<1>8. LettersAreGood
  BY <1>4 DEF LettersAreGood
<1>9. BaseHasTheirs
  BY <1>5 DEF BaseHasTheirs
<1>10. CallsAreGood /\ CallIsOfPass
  BY <1>3 DEF CallsAreGood, CallIsGood, CallIsOfPass, Caller
<1>11. PassIsProbes /\ BlameIsSeen
  BY DEF LinkInit, PassIsProbes, BlameIsSeen
<1> QED
  BY <1>7, <1>8, <1>9, <1>10, <1>11 DEF LinkInv

\* Base answers a request with what it knows then.
LEMMA BaseAnswersKeeps ==
  ASSUME LinkInv, BaseAnswers PROVE LinkInv'
<1>0. UNCHANGED <<linked, pending, calls, asked, tasks, trouble, guardianVars>>
  BY DEF BaseAnswers
<1>1. PICK n \in DOMAIN atBase : /\ mail' = Append(mail, Mail("rep", atBase[n], n, Knows(atBase[n])))
                                 /\ atBase' = Without(atBase, n)
  BY DEF BaseAnswers
<1>2. PICK m \in MethodName : m = atBase[n]
  BY LinkFacts DEF Table
<1>3. PICK v \in Nat : v = Knows(m) /\ (m = "log.query" => v = trouble)
  BY LinkFacts DEF Knows
<1>4. PICK l : l = Mail("rep", m, n, v)
  OBVIOUS
<1>5. n \in Nat
  BY LinkFacts DEF Table
<1>6. l \in Letter /\ l.kind = "rep" /\ l.method = m /\ l.nr = n /\ l.value = v
  BY <1>4, <1>5 DEF Letter, Mail
<1>7. mail' = Append(mail, l)
  BY <1>1, <1>2, <1>3, <1>4
<1>8. trouble' \in Nat /\ trouble' >= trouble /\ CallsGoOn
  BY <1>0, LinkFacts, CallsStay
<1>9. Fits(l, calls', trouble')
  <2>1. \A c \in Caller : calls[c].is = "waits" /\ calls[c].nr = n => m = calls[c].method
    BY <1>2 DEF LinkInv, BaseHasTheirs
  <2> QED
    BY <2>1, <1>0, <1>3, <1>6, <1>8 DEF Fits
<1>10. mail' \in Seq(Letter) /\ LettersAreGood'
  BY <1>6, <1>7, <1>8, <1>9, MailGrows
<1>11. /\ Table(atBase', MethodName) /\ DOMAIN atBase' \subseteq DOMAIN atBase
       /\ \A k \in DOMAIN atBase' : atBase'[k] = atBase[k]
  <2>1. Table(atBase, MethodName)
    BY LinkFacts
  <2>2. /\ Table(Without(atBase, n), MethodName) /\ DOMAIN Without(atBase, n) = DOMAIN atBase \ {n}
        /\ \A k \in DOMAIN atBase \ {n} : Without(atBase, n)[k] = atBase[k]
    BY <2>1, WithoutTable
  <2> QED
    BY <1>1, <2>2
<1>12. BaseHasTheirs'
  BY <1>8, <1>11, BaseStays
<1> QED
  BY <1>0, <1>8, <1>10, <1>11, <1>12, LinkFacts, LinkAlone

\* Base asks the node, under a number of its own.
LEMMA BaseAsksKeeps ==
  ASSUME LinkInv, BaseAsks PROVE LinkInv'
<1>0. UNCHANGED <<pending, calls, atBase, tasks, trouble, guardianVars>>
  BY DEF BaseAsks
<1>1. PICK m \in linked.asks : /\ linked' = [linked EXCEPT !.asks = @ \ {m}]
                               /\ asked' = With(asked, Fresh, m)
                               /\ mail' = Append(mail, Mail("ask", m, Fresh, 0))
  BY DEF BaseAsks
<1>2. PICK n \in Nat : n = Fresh
  BY LinkFacts, FreshIsFree
<1>3. linked \in LinkWorldNow /\ m \in MethodName
  BY LinkFacts DEF LinkWorldNow, MethodName
<1>4. linked' \in LinkWorldNow
  BY <1>1, <1>3 DEF LinkWorldNow
<1>5. Table(asked', MethodName)
  <2>1. Table(asked, MethodName)
    BY LinkFacts
  <2> QED
    BY <1>1, <1>2, <1>3, <2>1, WithTable
<1>6. PICK l : l = Mail("ask", m, n, 0)
  OBVIOUS
<1>7. l \in Letter /\ l.kind = "ask"
  BY <1>3, <1>6 DEF Letter, Mail
<1>8. mail' = Append(mail, l)
  BY <1>1, <1>2, <1>6
<1>9. trouble' \in Nat /\ trouble' >= trouble /\ CallsGoOn
  BY <1>0, LinkFacts, CallsStay
<1>10. mail' \in Seq(Letter) /\ LettersAreGood'
  BY <1>7, <1>8, <1>9, MailGrows DEF Fits
<1>11. BaseHasTheirs'
  BY <1>0, <1>9, BaseStays
<1> QED
  BY <1>0, <1>4, <1>5, <1>9, <1>10, <1>11, LinkFacts, LinkAlone

\* The socket closes: base forgets.
LEMMA BaseClosesKeeps ==
  ASSUME LinkInv, BaseCloses PROVE LinkInv'
<1>0. UNCHANGED <<pending, calls, tasks, trouble, guardianVars>> /\ atBase' = << >> /\ asked' = << >>
  BY DEF BaseCloses
<1>1. linked' \in LinkWorldNow
  <2>1. linked \in LinkWorldNow
    BY LinkFacts
  <2>2. PICK k \in Nat : k = linked.drops - 1
    BY <2>1 DEF LinkWorldNow, BaseCloses
  <2>3. linked' = [linked EXCEPT !.drops = k]
    BY <2>2 DEF BaseCloses
  <2> QED
    BY <2>1, <2>3 DEF LinkWorldNow
<1>2. PICK l : l = Mail("closed", "none", 0, 0)
  OBVIOUS
<1>3. l \in Letter /\ l.kind = "closed" /\ mail' = Append(mail, l)
  BY <1>2 DEF Letter, Mail, MethodName, BaseCloses
<1>4. trouble' \in Nat /\ trouble' >= trouble /\ CallsGoOn
  BY <1>0, LinkFacts, CallsStay
<1>5. mail' \in Seq(Letter) /\ LettersAreGood'
  BY <1>3, <1>4, MailGrows DEF Fits
<1>6. Table(atBase', MethodName) /\ Table(asked', MethodName) /\ DOMAIN atBase' = {}
  BY <1>0, EmptyTable
<1>7. BaseHasTheirs'
  BY <1>6 DEF BaseHasTheirs
<1> QED
  BY <1>0, <1>1, <1>4, <1>5, <1>6, <1>7, LinkFacts, LinkAlone

\* The environment dies, or its log gets a violation.
LEMMA EnvTurnsKeeps ==
  ASSUME LinkInv, EnvTurns PROVE LinkInv'
<1>0. UNCHANGED <<mail, pending, calls, atBase, asked, tasks, guardianVars>>
  BY DEF EnvTurns
<1>1. linked' \in LinkWorldNow
  <2>1. linked \in LinkWorldNow
    BY LinkFacts
  <2>2. CASE linked.dies > 0 /\ linked' = [linked EXCEPT !.dies = @ - 1]
    <3>1. PICK k \in Nat : k = linked.dies - 1
      BY <2>1, <2>2 DEF LinkWorldNow
    <3>2. linked' = [linked EXCEPT !.dies = k]
      BY <2>2, <3>1
    <3> QED
      BY <2>1, <3>2 DEF LinkWorldNow
  <2>3. CASE linked.faults > 0 /\ linked' = [linked EXCEPT !.faults = @ - 1]
    <3>1. PICK k \in Nat : k = linked.faults - 1
      BY <2>1, <2>3 DEF LinkWorldNow
    <3>2. linked' = [linked EXCEPT !.faults = k]
      BY <2>3, <3>1
    <3> QED
      BY <2>1, <3>2 DEF LinkWorldNow
  <2> QED
    BY <2>2, <2>3 DEF EnvTurns
<1>2. trouble' \in Nat /\ trouble' >= trouble
  BY LinkFacts DEF EnvTurns
<1>3. CallsGoOn
  BY <1>0, <1>2, CallsStay
<1>4. mail' \in Seq(Letter) /\ LettersAreGood'
  BY <1>0, <1>2, <1>3, MailStays
<1>5. BaseHasTheirs'
  BY <1>0, <1>2, <1>3, BaseStays
<1> QED
  BY <1>0, <1>1, <1>2, <1>4, <1>5, LinkFacts, LinkAlone

\* A detached request, or a reload, is answered.
LEMMA DetachedKeeps ==
  ASSUME LinkInv, Detached \/ ReloadEnds PROVE LinkInv'
<1>0. UNCHANGED <<linked, mail, pending, calls, atBase, trouble, guardianVars>>
  BY DEF Detached, ReloadEnds
<1>1. Table(asked, MethodName) /\ tasks \subseteq Nat /\ IsFiniteSet(tasks)
  BY LinkFacts
<1>2. Table(asked', MethodName) /\ tasks' \subseteq Nat /\ IsFiniteSet(tasks')
  <2>1. CASE Detached
    <3>1. PICK n \in tasks : tasks' = tasks \ {n} /\ asked' = Without(asked, n)
      BY <2>1 DEF Detached
    <3>2. IsFiniteSet(tasks')
      BY <1>1, <3>1, FS_RemoveElement
    <3>3. Table(asked', MethodName)
      BY <1>1, <3>1, WithoutTable
    <3> QED
      BY <1>1, <3>1, <3>2, <3>3
  <2>2. CASE ReloadEnds
    <3>1. PICK D \in SUBSET DOMAIN asked : asked' = [n \in D |-> asked[n]]
      <4>1. CASE linked.broken
        <5>1. asked' = asked
          BY <2>2, <4>1 DEF ReloadEnds
        <5>2. asked = [n \in DOMAIN asked |-> asked[n]]
          BY <1>1 DEF Table
        <5> QED
          BY <5>1, <5>2
      <4>2. CASE ~linked.broken
        BY <2>2, <4>2 DEF ReloadEnds
      <4> QED
        BY <4>1, <4>2
    <3>2. IsFiniteSet(D)
      BY <1>1, FS_Subset DEF Table
    <3>3. Table(asked', MethodName)
      BY <1>1, <3>1, <3>2 DEF Table
    <3> QED
      BY <1>1, <2>2, <3>3 DEF ReloadEnds
  <2> QED
    BY <2>1, <2>2
<1>3. trouble' \in Nat /\ trouble' >= trouble /\ CallsGoOn
  BY <1>0, LinkFacts, CallsStay
<1>4. mail' \in Seq(Letter) /\ LettersAreGood'
  BY <1>0, <1>3, MailStays
<1>5. BaseHasTheirs'
  BY <1>0, <1>3, BaseStays
<1> QED
  BY <1>0, <1>2, <1>3, <1>4, <1>5, LinkFacts, LinkAlone

---------------------------------------------------------------------------
\* One caller's call changes, and nothing of the guardian's pass.
LEMMA OneCallChanges ==
  ASSUME LinkInv, NEW c \in Caller, NEW r \in LinkCall, calls' = [calls EXCEPT ![c] = r],
         r.is = "waits" => ~r.ok /\ r.nr \notin Held,
         r.is = "got" /\ r.ok => r.of = r.method /\ (r.of = "log.query" => r.value <= trouble),
         trouble' = trouble
  PROVE  calls' \in [Caller -> LinkCall] /\ CallsGoOn /\ CallsAreGood'
<1>1. calls \in [Caller -> LinkCall]
  BY LinkFacts
<1>2. calls' \in [Caller -> LinkCall] /\ calls'[c] = r
      /\ \A d \in Caller : d # c => calls'[d] = calls[d]
  BY <1>1
<1>3. CallsGoOn
  BY <1>2 DEF CallsGoOn
<1>4. CallsAreGood'
  BY <1>2 DEF LinkInv, CallsAreGood, CallIsGood
<1> QED
  BY <1>2, <1>3, <1>4

\* The rest of a step that changes calls and leaves the guardian's pass.
LEMMA LinkAndCalls ==
  ASSUME LinkInv, UNCHANGED guardianVars, trouble' = trouble,
         linked' \in LinkWorldNow, Table(pending', Caller), Table(atBase', MethodName),
         Table(asked', MethodName), tasks' \subseteq Nat, IsFiniteSet(tasks'),
         mail' \in Seq(Letter), LettersAreGood', BaseHasTheirs',
         calls' \in [Caller -> LinkCall], CallsAreGood', CallIsOfPass'
  PROVE  LinkInv'
<1>1. trouble' \in Nat /\ trouble' >= trouble
  BY LinkFacts
<1>2. PassIsProbes' /\ BlameIsSeen' /\ seen' \in Nat /\ blamed' \in Nat /\ strikes' \in Nat
  BY <1>1, PassStays
<1> QED
  BY <1>1, <1>2 DEF LinkInv, LinkTypes

\* A call that exits has no result.
LEMMA CallExitsKeeps ==
  ASSUME LinkInv, CallExits PROVE LinkInv'
<1>0. UNCHANGED <<linked, mail, pending, atBase, asked, tasks, trouble, guardianVars>>
  BY DEF CallExits
<1>1. PICK c \in Caller : calls[c].is = "waits" /\ calls' = [calls EXCEPT ![c].is = "got"]
  BY DEF CallExits
<1>2. calls[c] \in LinkCall /\ ~calls[c].ok /\ calls \in [Caller -> LinkCall]
  BY <1>1, LinkFacts DEF LinkInv, CallsAreGood, CallIsGood
<1>3. PICK r : r = [calls[c] EXCEPT !.is = "got"]
  OBVIOUS
<1>4. r \in LinkCall /\ r.is = "got" /\ ~r.ok /\ r.method = calls[c].method
  BY <1>2, <1>3 DEF LinkCall
<1>5. calls' = [calls EXCEPT ![c] = r]
  BY <1>1, <1>2, <1>3
<1>6. calls' \in [Caller -> LinkCall] /\ CallsGoOn /\ CallsAreGood'
  BY <1>0, <1>4, <1>5, OneCallChanges
<1>7. trouble' \in Nat /\ trouble' >= trouble
  BY <1>0, LinkFacts
<1>8. mail' \in Seq(Letter) /\ LettersAreGood'
  BY <1>0, <1>6, <1>7, MailStays
<1>9. BaseHasTheirs'
  BY <1>0, <1>6, <1>7, BaseStays
<1>10. CallIsOfPass'
  <2>1. calls'["guardian"].is # "idle" =>
          calls["guardian"].is # "idle" /\ calls'["guardian"].method = calls["guardian"].method
    BY <1>1, <1>2, <1>4, <1>5, LinkFacts
  <2> QED
    BY <2>1, <1>0 DEF LinkInv, CallIsOfPass, guardianVars, Owed
<1> QED
  BY <1>0, <1>6, <1>8, <1>9, <1>10, LinkFacts, LinkAndCalls

\* GenServer.reply() with what belongs to the call of that number.
LEMMA RepliedKeeps ==
  ASSUME LinkInv, NEW c \in Caller, NEW n \in Nat, NEW ok \in BOOLEAN, NEW of \in MethodName,
         NEW v \in Nat,
         calls' = Replied(c, n, ok, of, v), trouble' = trouble, UNCHANGED guardianVars,
         ok /\ calls[c].is = "waits" /\ calls[c].nr = n =>
           of = calls[c].method /\ (of = "log.query" => v <= trouble)
  PROVE  calls' \in [Caller -> LinkCall] /\ CallsGoOn /\ CallsAreGood' /\ CallIsOfPass'
<1>1. calls \in [Caller -> LinkCall] /\ calls[c] \in LinkCall /\ trouble' \in Nat
      /\ trouble' >= trouble
  BY LinkFacts
<1>2. CASE ~(calls[c].is = "waits" /\ calls[c].nr = n)
  <2>1. calls' = calls
    BY <1>2 DEF Replied
  <2> QED
    BY <1>1, <2>1, CallsStay
<1>3. CASE calls[c].is = "waits" /\ calls[c].nr = n
  <2>1. PICK r : r = [calls[c] EXCEPT !.is = "got", !.ok = ok, !.of = of, !.value = v]
    OBVIOUS
  <2>2. r \in LinkCall /\ r.is = "got" /\ r.ok = ok /\ r.of = of /\ r.value = v
        /\ r.method = calls[c].method
    BY <1>1, <2>1 DEF LinkCall
  <2>3. calls' = [calls EXCEPT ![c] = r]
    BY <1>1, <1>3, <2>1 DEF Replied
  <2>4. calls' \in [Caller -> LinkCall] /\ CallsGoOn /\ CallsAreGood'
    BY <1>3, <2>2, <2>3, OneCallChanges
  <2>5. CallIsOfPass'
    <3>1. calls'["guardian"].is # "idle" =>
            calls["guardian"].is # "idle" /\ calls'["guardian"].method = calls["guardian"].method
      BY <1>1, <1>3, <2>2, <2>3, LinkFacts
    <3> QED
      BY <3>1 DEF LinkInv, CallIsOfPass, guardianVars, Owed
  <2> QED
    BY <2>4, <2>5
<1> QED
  BY <1>2, <1>3

\* handle_call: the request goes to base under the number of its call.
LEMMA ServeCallKeeps ==
  ASSUME LinkInv, mail # << >>, mail' = Tail(mail), Head(mail).kind = "call", Requests(Head(mail)),
         UNCHANGED <<linked, trouble, guardianVars>>
  PROVE  LinkInv'
<1>0. UNCHANGED <<calls, asked, tasks>>
  BY DEF Requests
<1>1. trouble' \in Nat /\ trouble' >= trouble /\ CallsGoOn
  BY <1>0, LinkFacts, CallsStay
<1>2. mail' \in Seq(Letter) /\ LettersAreGood' /\ Head(mail) \in Letter
      /\ Fits(Head(mail), calls, trouble)
  BY <1>1, MailShrinks
<1>3. PICK l \in Letter : l = Head(mail)
  BY <1>2
<1>4. l.nr \in Nat /\ l.value \in Caller /\ l.method \in MethodName
  BY <1>2, <1>3 DEF Fits, Letter
<1>5. pending' = With(pending, l.nr, l.value) /\ atBase' = With(atBase, l.nr, l.method)
  BY <1>3 DEF Requests
<1>6. Table(pending, Caller) /\ Table(atBase, MethodName)
  BY LinkFacts
<1>7. Table(pending', Caller)
  BY <1>4, <1>5, <1>6, WithTable
<1>8. /\ Table(atBase', MethodName) /\ DOMAIN atBase' = DOMAIN atBase \cup {l.nr}
      /\ atBase'[l.nr] = l.method /\ \A k \in DOMAIN atBase \ {l.nr} : atBase'[k] = atBase[k]
  <2>1. PICK n \in Nat, m \in MethodName : n = l.nr /\ m = l.method
    BY <1>4
  <2>2. /\ Table(With(atBase, n, m), MethodName)
        /\ DOMAIN With(atBase, n, m) = DOMAIN atBase \cup {n}
        /\ With(atBase, n, m)[n] = m
        /\ \A k \in DOMAIN atBase \ {n} : With(atBase, n, m)[k] = atBase[k]
    <3>1. PICK S : S = MethodName
      OBVIOUS
    <3>2. Table(atBase, S) /\ m \in S
      BY <1>6, <3>1
    <3>3. Table(With(atBase, n, m), S)
      BY <3>2, WithTable
    <3>4. DOMAIN With(atBase, n, m) = DOMAIN atBase \cup {n}
      BY DEF With
    <3>5. With(atBase, n, m)[n] = m
      BY DEF With
    <3>6. \A k \in DOMAIN atBase \ {n} : With(atBase, n, m)[k] = atBase[k]
      BY DEF With
    <3> QED
      BY <3>1, <3>3, <3>4, <3>5, <3>6
  <2> QED
    BY <1>5, <2>1, <2>2
<1>9. BaseHasTheirs'
  <2> SUFFICES ASSUME NEW n \in DOMAIN atBase', NEW c \in Caller, calls[c].is = "waits",
                      calls[c].nr = n
               PROVE  atBase'[n] = calls[c].method
    BY <1>0 DEF BaseHasTheirs
  <2>1. CASE n = l.nr
    BY <2>1, <1>2, <1>3, <1>8 DEF Fits
  <2>2. CASE n # l.nr
    <3>1. n \in DOMAIN atBase /\ atBase'[n] = atBase[n]
      BY <2>2, <1>8
    <3> QED
      BY <3>1 DEF LinkInv, BaseHasTheirs
  <2> QED
    BY <2>1, <2>2
<1> QED
  BY <1>0, <1>1, <1>2, <1>7, <1>8, <1>9, LinkFacts, LinkAlone

\* A reply goes to who is pending under its number; a late one to nobody.
LEMMA ServeReplyKeeps ==
  ASSUME LinkInv, mail # << >>, mail' = Tail(mail), Head(mail).kind = "rep",
         Answer(Head(mail).nr, TRUE, Head(mail).method, Head(mail).value),
         UNCHANGED <<linked, trouble, guardianVars>>
  PROVE  LinkInv'
<1>0. UNCHANGED <<atBase, asked, tasks>> /\ trouble' \in Nat /\ trouble' >= trouble
  BY LinkFacts DEF Answer
<1>1. Table(pending, Caller)
  BY LinkFacts
<1>2. mail \in Seq(Letter) /\ Len(mail) \in Nat
  BY LinkFacts, LenProperties
<1>3. Head(mail) = mail[1] /\ Len(mail) # 0
  BY <1>2, HeadTailProperties, EmptySeq
<1>4. 1 \in 1 .. Len(mail)
  BY <1>2, <1>3
<1>5. Head(mail) \in Letter /\ Fits(Head(mail), calls, trouble)
  BY <1>2, <1>3, <1>4, ElementOfSeq DEF LinkInv, LettersAreGood
<1>6. PICK n \in Nat, m \in MethodName, v \in Nat :
        n = Head(mail).nr /\ m = Head(mail).method /\ v = Head(mail).value
  BY <1>5 DEF Fits, Letter
<1>7. /\ m = "log.query" => v <= trouble
      /\ \A c \in Caller : calls[c].is = "waits" /\ calls[c].nr = n => m = calls[c].method
  BY <1>5, <1>6 DEF Fits
<1>8. CASE n \notin DOMAIN pending
  <2>1. UNCHANGED <<pending, calls>>
    BY <1>6, <1>8 DEF Answer
  <2>2. CallsGoOn
    BY <1>0, <2>1, CallsStay
  <2>3. mail' \in Seq(Letter) /\ LettersAreGood'
    BY <1>0, <2>2, MailShrinks
  <2>4. BaseHasTheirs'
    BY <1>0, <2>2, BaseStays
  <2> QED
    BY <1>0, <2>1, <2>3, <2>4, LinkFacts, LinkAlone
<1>9. CASE n \in DOMAIN pending
  <2>1. PICK c \in Caller : c = pending[n]
    BY <1>1, <1>9 DEF Table
  <2>2. calls' = Replied(c, n, TRUE, m, v) /\ pending' = Without(pending, n)
    BY <1>6, <1>9, <2>1 DEF Answer
  <2>3. calls' \in [Caller -> LinkCall] /\ CallsGoOn /\ CallsAreGood' /\ CallIsOfPass'
    BY <1>7, <2>2, RepliedKeeps
  <2>4. Table(pending', Caller)
    BY <1>1, <2>2, WithoutTable
  <2>5. mail' \in Seq(Letter) /\ LettersAreGood'
    BY <1>0, <2>3, MailShrinks
  <2>6. BaseHasTheirs'
    BY <1>0, <2>3, BaseStays
  <2> QED
    BY <1>0, <2>3, <2>4, <2>5, <2>6, LinkFacts, LinkAndCalls
<1> QED
  BY <1>8, <1>9

\* A request of base is answered, detached or begins a reload.
LEMMA ServeAskKeeps ==
  ASSUME LinkInv, mail # << >>, mail' = Tail(mail), Incoming(Head(mail)),
         UNCHANGED <<linked, trouble, guardianVars>>
  PROVE  LinkInv'
<1>0. UNCHANGED <<calls, pending, atBase>>
  BY DEF Incoming
<1>1. trouble' \in Nat /\ trouble' >= trouble /\ CallsGoOn
  BY <1>0, LinkFacts, CallsStay
<1>2. mail' \in Seq(Letter) /\ LettersAreGood' /\ Head(mail) \in Letter
  BY <1>1, MailShrinks
<1>3. PICK n \in Nat : n = Head(mail).nr
  BY <1>2 DEF Letter
<1>4. Table(asked, MethodName) /\ tasks \subseteq Nat /\ IsFiniteSet(tasks)
  BY LinkFacts
<1>5. Table(asked', MethodName)
  <2>1. asked' = asked \/ asked' = Without(asked, n)
    BY <1>3 DEF Incoming
  <2>2. Table(Without(asked, n), MethodName)
    BY <1>4, WithoutTable
  <2> QED
    BY <2>1, <2>2, <1>4
<1>6. tasks' \subseteq Nat /\ IsFiniteSet(tasks')
  <2>1. tasks' = tasks \/ tasks' = tasks \cup {n}
    BY <1>3 DEF Incoming
  <2>2. IsFiniteSet(tasks \cup {n})
    BY <1>4, FS_AddElement
  <2> QED
    BY <2>1, <2>2, <1>4
<1>7. BaseHasTheirs'
  BY <1>0, <1>1, BaseStays
<1> QED
  BY <1>0, <1>1, <1>2, <1>5, <1>6, <1>7, LinkFacts, LinkAlone

\* Every letter.
LEMMA ServeKeeps ==
  ASSUME LinkInv, Serve PROVE LinkInv'
<1>0. mail # << >> /\ mail' = Tail(mail) /\ UNCHANGED <<linked, trouble, guardianVars>>
  BY DEF Serve
<1>1. Head(mail).kind \in {"call", "rep", "ask", "closed"}
  <2>1. mail \in Seq(Letter)
    BY LinkFacts
  <2>2. Head(mail) \in Letter
    BY <2>1, <1>0, HeadTailProperties
  <2> QED
    BY <2>2 DEF Letter
<1>2. CASE Head(mail).kind = "call"
  <2>1. Requests(Head(mail))
    BY <1>2 DEF Serve
  <2> QED
    BY <1>0, <1>2, <2>1, ServeCallKeeps
<1>3. CASE Head(mail).kind = "rep"
  <2>1. Answer(Head(mail).nr, TRUE, Head(mail).method, Head(mail).value)
    BY <1>3 DEF Serve
  <2> QED
    BY <1>0, <1>3, <2>1, ServeReplyKeeps
<1>4. CASE Head(mail).kind = "ask"
  <2>1. Incoming(Head(mail))
    BY <1>4 DEF Serve
  <2> QED
    BY <1>0, <2>1, ServeAskKeeps
<1>5. CASE Head(mail).kind = "closed"
  <2>1. UNCHANGED <<pending, calls, atBase, asked, tasks>>
    BY <1>5 DEF Serve
  <2>2. trouble' \in Nat /\ trouble' >= trouble /\ CallsGoOn
    BY <1>0, <2>1, LinkFacts, CallsStay
  <2>3. mail' \in Seq(Letter) /\ LettersAreGood'
    BY <1>0, <2>2, MailShrinks
  <2>4. BaseHasTheirs'
    BY <2>1, <2>2, BaseStays
  <2> QED
    BY <1>0, <2>1, <2>2, <2>3, <2>4, LinkFacts, LinkAlone
<1> QED
  BY <1>1, <1>2, <1>3, <1>4, <1>5

\* The timer of a request: its caller gets an error, a late reply will find nobody.
LEMMA ExpireKeeps ==
  ASSUME LinkInv, Expire PROVE LinkInv'
<1>0. UNCHANGED <<mail, asked, tasks, trouble, guardianVars>> /\ trouble' \in Nat
      /\ trouble' >= trouble
  BY LinkFacts DEF Expire
<1>1. PICK n \in DOMAIN pending, late \in BOOLEAN :
        /\ late => n \in DOMAIN atBase /\ linked.lates > 0
        /\ linked' = IF late THEN [linked EXCEPT !.lates = @ - 1] ELSE linked
        /\ atBase' = IF late THEN atBase ELSE Without(atBase, n)
        /\ calls' = Replied(pending[n], n, FALSE, "none", 0)
        /\ pending' = Without(pending, n)
  BY DEF Expire
<1>2. Table(pending, Caller) /\ Table(atBase, MethodName) /\ linked \in LinkWorldNow
  BY LinkFacts
<1>3. PICK c \in Caller : c = pending[n]
  BY <1>2 DEF Table
<1>4. PICK of \in MethodName, v \in Nat, ok \in BOOLEAN : of = "none" /\ v = 0 /\ ~ok /\ ok = FALSE
  BY DEF MethodName
<1>5. n \in Nat /\ calls' = Replied(c, n, ok, of, v)
  BY <1>1, <1>2, <1>3, <1>4 DEF Table
<1>6. calls' \in [Caller -> LinkCall] /\ CallsGoOn /\ CallsAreGood' /\ CallIsOfPass'
  BY <1>0, <1>4, <1>5, RepliedKeeps
<1>7. Table(pending', Caller)
  BY <1>1, <1>2, WithoutTable
<1>8. /\ Table(atBase', MethodName) /\ DOMAIN atBase' \subseteq DOMAIN atBase
      /\ \A k \in DOMAIN atBase' : atBase'[k] = atBase[k]
  <2>1. /\ Table(Without(atBase, n), MethodName) /\ DOMAIN Without(atBase, n) = DOMAIN atBase \ {n}
        /\ \A k \in DOMAIN atBase \ {n} : Without(atBase, n)[k] = atBase[k]
    BY <1>2, WithoutTable
  <2> QED
    BY <1>1, <1>2, <2>1
<1>9. linked' \in LinkWorldNow
  <2>1. CASE late
    <3>1. PICK k \in Nat : k = linked.lates - 1
      BY <1>1, <1>2, <2>1 DEF LinkWorldNow
    <3>2. linked' = [linked EXCEPT !.lates = k]
      BY <1>1, <2>1, <3>1
    <3> QED
      BY <1>2, <3>2 DEF LinkWorldNow
  <2>2. CASE ~late
    BY <1>1, <1>2, <2>2
  <2> QED
    BY <2>1, <2>2
<1>10. mail' \in Seq(Letter) /\ LettersAreGood'
  BY <1>0, <1>6, MailStays
<1>11. BaseHasTheirs'
  BY <1>0, <1>6, <1>8, BaseStays
<1> QED
  BY <1>0, <1>6, <1>7, <1>8, <1>9, <1>10, <1>11, LinkFacts, LinkAndCalls

---------------------------------------------------------------------------
\* A call begins: its number is nobody's, and its letter says what it asks.
LEMMA CallBegins ==
  ASSUME LinkInv, NEW c \in Caller, NEW m \in MethodName, Calls(c, m), trouble' = trouble,
         atBase' = atBase
  PROVE  /\ calls' \in [Caller -> LinkCall] /\ CallsGoOn /\ CallsAreGood'
         /\ mail' \in Seq(Letter) /\ LettersAreGood' /\ BaseHasTheirs'
         /\ calls'[c].is = "waits" /\ calls'[c].method = m
         /\ \A d \in Caller : d # c => calls'[d] = calls[d]
<1>1. PICK n \in Nat : n = Fresh /\ n \notin Held
  BY LinkFacts, FreshIsFree
<1>2. PICK r : r = [Idle EXCEPT !.is = "waits", !.nr = n, !.method = m]
  OBVIOUS
<1>3. r \in LinkCall /\ r.is = "waits" /\ r.nr = n /\ r.method = m /\ ~r.ok
  BY <1>2 DEF Idle, LinkCall, MethodName
<1>4. calls' = [calls EXCEPT ![c] = r]
  BY <1>1, <1>2 DEF Calls
<1>5. calls' \in [Caller -> LinkCall] /\ CallsGoOn /\ CallsAreGood'
  BY <1>1, <1>3, <1>4, OneCallChanges
<1>6. calls'[c] = r /\ \A d \in Caller : d # c => calls'[d] = calls[d]
  BY <1>4, LinkFacts
<1>7. trouble' \in Nat /\ trouble' >= trouble
  BY LinkFacts
<1>8. mail' \in Seq(Letter) /\ LettersAreGood'
  <2>1. CASE mail' = mail
    BY <1>5, <1>7, <2>1, MailStays
  <2>2. CASE mail' # mail
    <3>1. PICK l : l = Mail("call", m, n, c)
      OBVIOUS
    <3>2. l \in Letter /\ l.kind = "call" /\ l.method = m /\ l.nr = n /\ l.value = c
      BY <3>1 DEF Mail, Letter
    <3>3. mail' = Append(mail, l)
      BY <2>2, <3>1, <1>1 DEF Calls
    <3>4. \A d \in Caller : d # c => calls[d].nr # n
      BY <1>1 DEF Held
    <3>5. Fits(l, calls', trouble')
      BY <1>3, <1>6, <3>2, <3>4 DEF Fits
    <3> QED
      BY <1>5, <1>7, <3>2, <3>3, <3>5, MailGrows
  <2> QED
    BY <2>1, <2>2
<1>9. BaseHasTheirs'
  BY <1>5, <1>7, BaseStays
<1> QED
  BY <1>3, <1>5, <1>6, <1>8, <1>9

\* The call of a caller is over: it may call again.
LEMMA CallIsTaken ==
  ASSUME LinkInv, NEW c \in Caller, calls' = [calls EXCEPT ![c] = Idle], trouble' = trouble,
         mail' = mail, atBase' = atBase
  PROVE  /\ calls' \in [Caller -> LinkCall] /\ CallsGoOn /\ CallsAreGood'
         /\ mail' \in Seq(Letter) /\ LettersAreGood' /\ BaseHasTheirs'
         /\ calls'[c].is = "idle" /\ \A d \in Caller : d # c => calls'[d] = calls[d]
<1>1. Idle \in LinkCall /\ Idle.is = "idle"
  BY DEF Idle, LinkCall, MethodName
<1>2. calls' \in [Caller -> LinkCall] /\ CallsGoOn /\ CallsAreGood'
  BY <1>1, OneCallChanges
<1>3. calls'[c].is = "idle" /\ \A d \in Caller : d # c => calls'[d] = calls[d]
  BY <1>1, LinkFacts
<1>4. trouble' \in Nat /\ trouble' >= trouble
  BY LinkFacts
<1>5. mail' \in Seq(Letter) /\ LettersAreGood'
  BY <1>2, <1>4, MailStays
<1>6. BaseHasTheirs'
  BY <1>2, <1>4, BaseStays
<1> QED
  BY <1>2, <1>3, <1>5, <1>6

\* The plugin that is loaded calls the link.
LEMMA PluginKeeps ==
  ASSUME LinkInv, PluginCalls \/ PluginGoesOn PROVE LinkInv'
<1>0. UNCHANGED <<linked, pending, atBase, asked, tasks, trouble, guardianVars>>
  BY DEF PluginCalls, PluginGoesOn
<1>1. PICK m \in MethodName, c \in Caller : m = "status" /\ c = "plugin"
  BY DEF MethodName, ProbeMethod, Caller
<1>2. /\ calls' \in [Caller -> LinkCall] /\ CallsAreGood' /\ mail' \in Seq(Letter)
      /\ LettersAreGood' /\ BaseHasTheirs' /\ calls'["guardian"] = calls["guardian"]
  <2>1. CASE PluginCalls
    <3>1. Calls(c, m)
      BY <1>1, <2>1 DEF PluginCalls
    <3> QED
      BY <1>0, <1>1, <3>1, CallBegins, LinkFacts
  <2>2. CASE PluginGoesOn
    <3>1. calls' = [calls EXCEPT ![c] = Idle] /\ mail' = mail
      BY <1>1, <2>2 DEF PluginGoesOn
    <3> QED
      BY <1>0, <1>1, <3>1, CallIsTaken, LinkFacts
  <2> QED
    BY <2>1, <2>2
<1>3. CallIsOfPass'
  BY <1>0, <1>2 DEF LinkInv, CallIsOfPass, guardianVars, Owed
<1> QED
  BY <1>0, <1>2, <1>3, LinkFacts, LinkAndCalls

\* The guardian calls for its next probe, or for the reset.
LEMMA GuardianAsksKeeps ==
  ASSUME LinkInv, ProbeAsks \/ ResetAsks PROVE LinkInv'
<1>0. UNCHANGED <<linked, pending, atBase, asked, tasks, trouble, guardianVars>>
  BY DEF ProbeAsks, ResetAsks
<1>1. PICK m \in MethodName, c \in Caller :
        /\ c = "guardian" /\ Calls(c, m)
        /\ \/ pass = <<"reset">>
           \/ /\ pass # << >> /\ Head(pass) \notin {"extra", "reset"} /\ Owed(Head(pass))
              /\ m = Method(Head(pass))
  <2>1. CASE ResetAsks
    BY <2>1 DEF ResetAsks, MethodName, ProbeMethod, Caller
  <2>2. CASE ProbeAsks
    <3>1. Method(Head(pass)) \in MethodName
      BY DEF Method, MethodName, ProbeMethod
    <3> QED
      BY <2>2, <3>1 DEF ProbeAsks, Owed, Caller
  <2> QED
    BY <2>1, <2>2
<1>2. /\ calls' \in [Caller -> LinkCall] /\ CallsAreGood' /\ mail' \in Seq(Letter)
      /\ LettersAreGood' /\ BaseHasTheirs' /\ calls'["guardian"].method = m
  BY <1>0, <1>1, CallBegins
<1>3. CallIsOfPass'
  BY <1>0, <1>1, <1>2 DEF CallIsOfPass, guardianVars, Owed
<1> QED
  BY <1>0, <1>2, <1>3, LinkFacts, LinkAndCalls

\* A probe is over: the pass goes on, or it is scored.
LEMMA OverKeeps ==
  ASSUME LinkInv, pass # << >>, Head(pass) # "reset", trouble' = trouble,
         NEW probe, NEW fails, NEW cached, NEW place \in Nat, Over(probe, fails, cached, place),
         place >= seen, place <= trouble, "violations" \in fails => blamed + 1 <= place
  PROVE  PassIsProbes' /\ BlameIsSeen' /\ seen' \in Nat /\ blamed' \in Nat /\ strikes' \in Nat
<1>1. pass \in Seq(Probe)
  <2>1. Head(<<"reset">>) = "reset"
    OBVIOUS
  <2> QED
    BY <2>1 DEF LinkInv, PassIsProbes
<1>2. Tail(pass) \in Seq(Probe)
  BY <1>1, HeadTailProperties
<1>3. PassIsProbes'
  BY <1>2 DEF Over, PassIsProbes
<1>4. seen' = place /\ failed' = fails /\ trouble \in Nat /\ blamed \in Nat /\ strikes \in Nat
      /\ seen \in Nat
  BY LinkFacts DEF Over
<1>5. strikes' \in Nat
  BY <1>4 DEF Over, Scored
<1>6. blamed \in Nat /\ blamed <= seen
  BY <1>4 DEF LinkInv, BlameIsSeen
<1>7. CASE Tail(pass) = << >>
  <2>1. pass' = << >> \/ pass' = <<"reset">>
    BY <1>7 DEF Over
  <2>2. blamed' = IF fails = {"violations"} THEN blamed + 1 ELSE blamed
    BY <1>7 DEF Over
  <2>3. blamed' \in Nat /\ blamed' <= place
    BY <2>2, <1>4, <1>6
  <2> QED
    BY <1>3, <1>4, <1>5, <2>1, <2>3 DEF BlameIsSeen
<1>8. CASE Tail(pass) # << >>
  <2>1. blamed' = blamed
    BY <1>8 DEF Over
  <2> QED
    BY <1>3, <1>4, <1>5, <1>6, <2>1 DEF BlameIsSeen
<1> QED
  BY <1>7, <1>8

\* A pass begins with nothing failed.
LEMMA PassBeginsKeeps ==
  ASSUME LinkInv, PassBegins PROVE LinkInv'
<1>0. UNCHANGED <<mail, pending, calls, atBase, asked, tasks, trouble, status, seen, strikes, blamed>>
  BY DEF PassBegins
<1>1. linked \in LinkWorldNow /\ linked.core \in Seq(Probe) /\ linked.passes \in Int
  BY LinkFacts DEF LinkWorldNow
<1>2. linked' \in LinkWorldNow
  <2>1. PICK k \in Int : k = linked.passes - 1
    BY <1>1
  <2>2. linked' = [linked EXCEPT !.passes = k] \/ linked' = linked
    BY <2>1 DEF PassBegins
  <2> QED
    BY <1>1, <2>2 DEF LinkWorldNow
<1>3. trouble' \in Nat /\ trouble' >= trouble
  BY <1>0, LinkFacts
<1>4. CallsGoOn /\ CallsAreGood'
  BY <1>0, <1>3, CallsStay
<1>5. LettersAreGood' /\ BaseHasTheirs'
  BY <1>0, <1>3, <1>4, MailStays, BaseStays
<1>6. CallIsOfPass'
  BY <1>0 DEF PassBegins, CallIsOfPass
<1>7. PassIsProbes'
  BY <1>1 DEF PassBegins, PassIsProbes
<1>8. BlameIsSeen'
  <2>1. failed' = {} /\ blamed <= seen /\ seen <= trouble
    BY DEF PassBegins, LinkInv, BlameIsSeen
  <2> QED
    BY <1>0, <2>1 DEF BlameIsSeen
<1>9. LinkTypes'
  BY <1>0, <1>2, LinkFacts DEF LinkTypes
<1> QED
  BY <1>4, <1>5, <1>6, <1>7, <1>8, <1>9 DEF LinkInv

\* A probe without a call says nothing of violations.
LEMMA ProbeAloneKeeps ==
  ASSUME LinkInv, ProbeAlone PROVE LinkInv'
<1>0. UNCHANGED <<linked, mail, pending, calls, atBase, asked, tasks, trouble>>
      /\ pass # << >> /\ Head(pass) # "reset"
  BY DEF ProbeAlone
<1>1. trouble' \in Nat /\ trouble' >= trouble /\ seen \in Nat /\ blamed \in Nat
  BY <1>0, LinkFacts
<1>2. CallsGoOn /\ CallsAreGood'
  BY <1>0, <1>1, CallsStay
<1>3. LettersAreGood' /\ BaseHasTheirs'
  BY <1>0, <1>1, <1>2, MailStays, BaseStays
<1>4. pass # <<"reset">>
  <2>1. Head(<<"reset">>) = "reset"
    OBVIOUS
  <2> QED
    BY <1>0, <2>1
<1>5. CallIsOfPass'
  <2>1. ~Owed(Head(pass))
    BY DEF ProbeAlone
  <2>2. calls["guardian"].is = "idle"
    BY <1>4, <2>1 DEF LinkInv, CallIsOfPass
  <2> QED
    BY <1>0, <2>2 DEF CallIsOfPass
<1>6. seen <= trouble /\ ("violations" \in failed => blamed + 1 <= seen)
  BY <1>0, <1>4 DEF LinkInv, BlameIsSeen
<1>7. PICK k \in Nat : k = seen /\ k >= seen /\ k <= trouble
  BY <1>1, <1>6
<1>8. PICK p, f : Over(p, f, status, k) /\ f \subseteq failed \cup {p} /\ p # "violations"
  <2>1. Head(pass) # "violations"
    BY DEF ProbeAlone, Owed
  <2>2. \E f : Over(Head(pass), f, status, seen) /\ f \subseteq failed \cup {Head(pass)}
    BY DEF ProbeAlone
  <2> QED
    BY <1>7, <2>1, <2>2
<1>9. "violations" \in f => blamed + 1 <= k
  BY <1>6, <1>7, <1>8
<1>10. PassIsProbes' /\ BlameIsSeen' /\ seen' \in Nat /\ blamed' \in Nat /\ strikes' \in Nat
  BY <1>0, <1>7, <1>8, <1>9, OverKeeps
<1>11. LinkTypes'
  BY <1>0, <1>10, LinkFacts DEF LinkTypes
<1> QED
  BY <1>2, <1>3, <1>5, <1>10, <1>11 DEF LinkInv

\* violations fails on what is newer than state.after, and state.after goes on to it.
LEMMA ProbeEndsKeeps ==
  ASSUME LinkInv, ProbeEnds PROVE LinkInv'
<1>0. UNCHANGED <<linked, mail, pending, atBase, asked, tasks, trouble>>
      /\ pass # << >> /\ Head(pass) # "reset" /\ calls' = [calls EXCEPT !["guardian"] = Idle]
      /\ calls["guardian"].is = "got"
  BY DEF ProbeEnds
<1>1. PICK c \in Caller : c = "guardian"
  BY DEF Caller
<1>2. /\ calls' \in [Caller -> LinkCall] /\ CallsAreGood' /\ LettersAreGood' /\ BaseHasTheirs'
      /\ calls'[c].is = "idle"
  BY <1>0, <1>1, CallIsTaken
<1>3. CallIsOfPass'
  BY <1>1, <1>2 DEF CallIsOfPass
<1>4. pass # <<"reset">>
  <2>1. Head(<<"reset">>) = "reset"
    OBVIOUS
  <2> QED
    BY <1>0, <2>1
<1>5. PICK got \in LinkCall : got = calls["guardian"]
  BY LinkFacts
<1>6. PICK probe : probe = Head(pass)
  OBVIOUS
<1>7. seen \in Nat /\ trouble \in Nat /\ blamed \in Nat /\ got.value \in Nat /\ got.ok \in BOOLEAN
  BY LinkFacts, <1>5 DEF LinkCall
<1>8. probe = "violations" /\ got.ok => got.value <= trouble
  <2>1. SUFFICES ASSUME probe = "violations", got.ok PROVE got.value <= trouble
    OBVIOUS
  <2>2. got.method = "log.query"
    BY <1>0, <1>4, <1>5, <1>6, <2>1 DEF LinkInv, CallIsOfPass, Method
  <2>3. CallIsGood(c)
    BY DEF LinkInv, CallsAreGood
  <2> QED
    BY <1>0, <1>1, <1>5, <2>1, <2>2, <2>3 DEF CallIsGood
<1>9. PICK fails, cached :
        /\ Over(probe, fails, cached, Advanced(probe, got))
        /\ fails = IF ~Failing(probe, got) THEN failed
           ELSE failed \cup {IF got.ok THEN probe ELSE "call"}
  BY <1>5, <1>6 DEF ProbeEnds
<1>10. PICK place \in Nat : place = Advanced(probe, got)
  BY <1>7 DEF Advanced
<1>11. seen <= trouble /\ blamed <= seen /\ ("violations" \in failed => blamed + 1 <= seen)
  BY <1>0, <1>4 DEF LinkInv, BlameIsSeen
<1>12. place >= seen /\ place <= trouble
  BY <1>7, <1>8, <1>10, <1>11 DEF Advanced
<1>13. "violations" \in fails => blamed + 1 <= place
  <2>1. CASE "violations" \in failed
    BY <2>1, <1>7, <1>11, <1>12
  <2>2. CASE "violations" \notin failed
    <3>1. SUFFICES ASSUME "violations" \in fails PROVE blamed + 1 <= place
      OBVIOUS
    <3>2. Failing(probe, got) /\ got.ok /\ probe = "violations"
      BY <3>1, <2>2, <1>9
    <3>3. got.value > seen
      BY <3>2 DEF Failing
    <3>4. place = got.value
      BY <3>2, <3>3, <1>10 DEF Advanced
    <3> QED
      BY <3>3, <3>4, <1>7, <1>11
  <2> QED
    BY <2>1, <2>2
<1>14. PassIsProbes' /\ BlameIsSeen' /\ seen' \in Nat /\ blamed' \in Nat /\ strikes' \in Nat
  BY <1>0, <1>9, <1>10, <1>12, <1>13, OverKeeps
<1>15. LinkTypes'
  BY <1>0, <1>2, <1>14, LinkFacts DEF LinkTypes
<1> QED
  BY <1>2, <1>3, <1>14, <1>15 DEF LinkInv

\* The reset was asked for.
LEMMA ResetEndsKeeps ==
  ASSUME LinkInv, ResetEnds PROVE LinkInv'
<1>0. UNCHANGED <<linked, mail, pending, atBase, asked, tasks, trouble, failed, status, seen,
        strikes, blamed>>
      /\ calls' = [calls EXCEPT !["guardian"] = Idle] /\ pass' = << >>
  BY DEF ResetEnds
<1>1. PICK c \in Caller : c = "guardian"
  BY DEF Caller
<1>2. /\ calls' \in [Caller -> LinkCall] /\ CallsAreGood' /\ LettersAreGood' /\ BaseHasTheirs'
      /\ calls'[c].is = "idle"
  BY <1>0, <1>1, CallIsTaken
<1>3. CallIsOfPass' /\ PassIsProbes' /\ BlameIsSeen'
  <2>1. CallIsOfPass'
    BY <1>1, <1>2 DEF CallIsOfPass
  <2>2. PassIsProbes'
    BY <1>0 DEF PassIsProbes
  <2>3. BlameIsSeen'
    BY <1>0 DEF BlameIsSeen, LinkInv
  <2> QED
    BY <2>1, <2>2, <2>3
<1>4. LinkTypes'
  BY <1>0, <1>2, LinkFacts DEF LinkTypes
<1> QED
  BY <1>2, <1>3, <1>4 DEF LinkInv

\* LinkInv is inductive: each step of the link, of base and of the guardian keeps it.
LEMMA LinkInvIsInductive == LinkInv /\ [LinkNext]_linkVars => LinkInv'
<1> SUFFICES ASSUME LinkInv, [LinkNext]_linkVars PROVE LinkInv'
  OBVIOUS
<1>1. CASE UNCHANGED linkVars
  <2>1. UNCHANGED <<linked, mail, pending, calls, atBase, asked, tasks, trouble, guardianVars>>
    BY <1>1 DEF linkVars, guardianVars
  <2>2. trouble' \in Nat /\ trouble' >= trouble /\ CallsGoOn
    BY <2>1, LinkFacts, CallsStay
  <2>3. mail' \in Seq(Letter) /\ LettersAreGood' /\ BaseHasTheirs'
    BY <2>1, <2>2, MailStays, BaseStays
  <2> QED
    BY <2>1, <2>2, <2>3, LinkFacts, LinkAlone
<1>2. CASE BaseAnswers \/ BaseAsks \/ BaseCloses \/ EnvTurns \/ CallExits
  BY <1>2, BaseAnswersKeeps, BaseAsksKeeps, BaseClosesKeeps, EnvTurnsKeeps, CallExitsKeeps
<1>3. CASE Serve \/ Expire \/ Detached \/ PluginCalls \/ PluginGoesOn \/ ReloadEnds
  BY <1>3, ServeKeeps, ExpireKeeps, DetachedKeeps, PluginKeeps
<1>4. CASE Guardian
  BY <1>4, PassBeginsKeeps, GuardianAsksKeeps, ProbeEndsKeeps, ProbeAloneKeeps, ResetEndsKeeps
     DEF Guardian
<1> QED
  BY <1>1, <1>2, <1>3, <1>4 DEF LinkNext

\* LinkInv says what LinkIsSound does.
LEMMA LinkInvIsEnough == LinkInv => LinkIsSound
<1> SUFFICES ASSUME LinkInv PROVE LinkIsSound
  OBVIOUS
<1>1. CallersGetTheirs
  BY DEF LinkInv, CallsAreGood, CallIsGood, CallersGetTheirs
<1>2. blamed <= trouble
  BY LinkFacts DEF LinkInv, BlameIsSeen
<1> QED
  BY <1>1, <1>2 DEF LinkIsSound, ViolationFailsOnce

\* For any probes, any limit of failures, any worlds and mailboxes of any length: a caller
\* gets the result of the request it waits for, and a violation fails no more than one pass
\* (link/server.ex answer and expire, guardian/probes.ex violations).
THEOREM LinkHolds == LinkSpec => []LinkIsSound
<1>1. LinkInit => LinkInv
  BY LinkInitHolds
<1>2. LinkInv /\ [LinkNext]_linkVars => LinkInv'
  BY LinkInvIsInductive
<1>3. LinkInv => LinkIsSound
  BY LinkInvIsEnough
<1> QED
  BY <1>1, <1>2, <1>3, PTL DEF LinkSpec

-----------------------------------------------------------------------------
(***************************************************************************)
(* Upgrades: the drivers, base's command queue, the names and the node.    *)
(***************************************************************************)

\* Statuses, and where a driver can be.
Status == {"new", "awaiting_approval", "proposed", "snapshot", "canary", "verify", "promoted",
            "rolled_back"}
PhaseWord == {"snapshot", "canary", "verify", "promoted", "rolled_back"}
Pc == {"off", "gate", "waiting", "snapshot", "baseline", "baselined", "canary", "conformance",
        "verify",
       "guarded", "compared", "promote", "swap", "mount", "patched", "staged", "polling", "health",
       "switched", "rollback", "done"}
Holder == Proposal \cup {"old", "none"}
UpNode == Proposal \cup {"old"}

\* Commands; those of Asking are answered, or were awaited at the gate.
Asking == {"approved", "baseline", "guard", "bench", "patch", "switch", "ready"}
CmdOp == Asking \cup {"phase", "fallback", "drain"}
CmdWord == BOOLEAN \cup (0 .. 1) \cup PhaseWord \cup {"ok", "err"}
CmdSet == [op : CmdOp, u : Proposal, v : CmdWord]
Awaits(op, pc) ==
  \/ op = "approved" /\ pc = "waiting"
  \/ op = "baseline" /\ pc = "baselined"
  \/ op = "guard" /\ pc = "guarded"
  \/ op = "bench" /\ pc = "compared"
  \/ op = "patch" /\ pc = "patched"
  \/ op = "switch" /\ pc = "staged"
  \/ op = "ready" /\ pc = "switched"
WaitPc == {"baselined", "guarded", "compared", "patched", "staged", "switched"}
Undriven == {"off", "gate", "waiting", "done"}
Before == {"off", "gate", "waiting"}

QueueTypes ==
  /\ ustatus \in [Proposal -> Status] /\ upc \in [Proposal -> Pc]
  /\ uans \in [Proposal -> {"none", "ok", "err", "worse"}] /\ ucmds \in Seq(CmdSet)

\* Whoever asked waits, and for one answer.
AsksAreAwaited ==
  \A i \in 1 .. Len(ucmds) : ucmds[i].op \in Asking =>
    /\ Awaits(ucmds[i].op, upc[ucmds[i].u]) /\ uans[ucmds[i].u] = "none"
    /\ ucmds[i].op = "ready" => ucmds[i].v \in {"ok", "err"}
AsksAreOne ==
  \A i, j \in 1 .. Len(ucmds) :
    ucmds[i].op \in Asking /\ ucmds[j].op \in Asking /\ ucmds[i].u = ucmds[j].u => i = j
AnswersAreAwaited == \A u \in Proposal : uans[u] # "none" => upc[u] \in WaitPc

\* A phase is on its way only from a driver that began, and the last one is the end.
PhasesAreDriven ==
  \A i \in 1 .. Len(ucmds) : ucmds[i].op = "phase" =>
    /\ ucmds[i].v \in PhaseWord /\ upc[ucmds[i].u] \notin Before
    /\ ustatus[ucmds[i].u] \notin Terminal
    /\ ucmds[i].v \in Terminal =>
         /\ upc[ucmds[i].u] = "done"
         /\ \A j \in 1 .. Len(ucmds) : j > i => ~(ucmds[j].op = "phase" /\ ucmds[j].u = ucmds[i].u)
EndedAreDone == \A u \in Proposal : ustatus[u] \in Terminal => upc[u] = "done"
NewAreOff == \A u \in Proposal : ustatus[u] = "new" <=> upc[u] = "off"

QueueInv ==
  QueueTypes /\ AsksAreAwaited /\ AsksAreOne /\ AnswersAreAwaited /\ PhasesAreDriven /\ EndedAreDone
  /\ NewAreOff

\* From here on a driver has passed verify().
AfterVerify == {"promote", "swap", "mount", "patched", "switched", "staged", "polling", "health"}

HoldTypes ==
  /\ uworld.target \in [Proposal -> Target] /\ usnap \in [Proposal -> Holder]
  /\ slot \in [Names -> Holder] /\ canary \in [{"plugin", "worker"} -> Holder]
  /\ silent \subseteq Proposal \X {"canary", "worker"}
  /\ blue \in UpNode /\ green \in Holder /\ regs \subseteq UpNode /\ procs \subseteq UpNode
  /\ exits \subseteq UpNode /\ verified \subseteq Proposal

\* What a proposal is at, by its target.
PcsFit ==
  \A u \in Proposal :
    /\ upc[u] \in {"swap", "mount"} => target(u) \in {"plugin", "worker"}
    /\ upc[u] = "patched" => target(u) = "config"
    /\ upc[u] \in {"staged", "polling", "health", "switched"} => target(u) = "kernel"

VerifiedFirst == \A u \in Proposal : upc[u] \in AfterVerify => u \in verified
GreenIsVerified == green \in verified \cup {"none"}
SnapIsVerified ==
  \A u \in Proposal : target(u) = "config" => usnap[u] \in {"none", "old"} \cup verified

SilentIsVerified == \A s \in silent : s[2] = "worker" => s[1] \in verified

VerifyInv ==
  HoldTypes /\ PcsFit /\ VerifiedFirst /\ GreenIsVerified /\ SnapIsVerified /\ SilentIsVerified
  /\ OldServesUntilVerified

CmdsFit ==
  \A i \in 1 .. Len(ucmds) :
    ucmds[i].op = "fallback" => target(ucmds[i].u) = "worker"
    /\ upc[ucmds[i].u] \in {"rollback", "done"}

\* A proposal that ended so, or is about to be told to have.
EndsAs(u, w) == ustatus[u] = w \/ \E i \in 1 .. Len(ucmds) : ucmds[i].op = "phase"
/\ ucmds[i].u = u /\ ucmds[i].v = w

FallsBack(u) == \E i \in 1 .. Len(ucmds) : ucmds[i].op = "fallback" /\ ucmds[i].u = u
\* Why the name is not with the old artifact.
Took(u) ==
  \/ upc[u] = "mount" /\ slot[target(u)] = "none"
  \/ target(u) = "worker" /\ slot["worker"] = "none" /\ FallsBack(u)
  \/ target(u) = "config" /\ slot["config"] = u /\ upc[u] = "patched" /\ uans[u] = "ok"
  \/ slot[target(u)] = u /\ upc[u] = "done" /\ EndsAs(u, "promoted")
NameGood(t) == t \in broken \/ slot[t] = "old" \/ \E u \in Proposal : target(u) = t /\ Took(u)

\* What a proposal found and holds.
OneGood(u) ==
  /\ target(u) \in Names /\ EndsAs(u, "promoted") => target(u) \in broken \/ slot[target(u)] = u
  /\ upc[u] = "mount" => target(u) \in broken \/ slot[target(u)] \in {"none", "old"}
  /\ upc[u] = "patched" /\ uans[u] = "ok" => slot["config"] = u
  /\ target(u) \in {"plugin", "config"} =>
       /\ usnap[u] \in {"none", "old"}
       /\ upc[u] \in Undriven \cup {"snapshot", "rollback"} \/ usnap[u] = "old"
  /\ target(u) = "plugin" /\ "plugin" \in broken => upc[u] \in {"rollback", "done"}

\* A canary is one of a driver that will end it.
CanaryPc == {"conformance", "verify", "guarded", "compared", "promote", "rollback"}
Canaries == {"plugin", "worker"}
CanaryGood(t) ==
  t \in stranded \/ canary[t] = "none" \/ \E u \in Proposal : target(u) = t /\ upc[u] \in CanaryPc

SlotGood ==
  /\ CmdsFit /\ broken \subseteq Canaries
  /\ (\A u \in Proposal : OneGood(u)) /\ (\A t \in Names : NameGood(t))
  /\ \A t \in Canaries : CanaryGood(t)
SlotInv == Solo => SlotGood

\* The green node is of the proposal that switches.
GreenIsSwitched ==
  green # "none" => /\ green \in Proposal /\ target(green) = "kernel"
                    /\ \/ upc[green] = "staged" /\ uans[green] = "ok"
                       \/ upc[green] \in {"polling", "health"}
                       \/ upc[green] = "switched" /\ uans[green] = "none"
DrainedOnce ==
  draining # {} => \A u \in Proposal : target(u) = "kernel" =>
                     (upc[u] = "switched" /\ uans[u] = "ok") \/ upc[u] = "done"
HealthIsGreens == \A u \in Proposal : upc[u] = "health" => usnap[u] = u
ReadyIsChecked ==
  \A i \in 1 .. Len(ucmds) : ucmds[i].op = "ready" /\ ucmds[i].v = "ok" => ucmds[i].u \in checked
BlueIsChecked ==
  blue \in {"old"} \cup checked /\ procs \subseteq {blue, green} \cup draining \cup dropping
OneKernel == \A u, w \in Proposal : target(u) = "kernel" /\ target(w) = "kernel" => u = w
NodeGood == GreenIsSwitched /\ DrainedOnce /\ HealthIsGreens /\ ReadyIsChecked /\ BlueIsChecked
NodeInv == OneKernel => NodeGood

-----------------------------------------------------------------------------
(* The queue. *)

\* A command a driver may send when it goes to p.
SentRight(c, p) ==
  \/ c.op = "phase" /\ c.v \in PhaseWord /\ (c.v \in Terminal => p = "done")
  \/ c.op \in Asking /\ Awaits(c.op, p) /\ (c.op = "ready" => c.v \in {"ok", "err"})
  \/ c.op = "fallback"

\* A driver that waits for nothing goes on to p, and sends at most one command.
Advances(u, p) ==
  /\ upc[u] \notin Undriven /\ (upc[u] \in WaitPc => uans[u] # "none")
  /\ p \in Pc \ Before
  /\ uworld' = uworld /\ ustatus' = ustatus /\ upc' = [upc EXCEPT ![u] = p]
  /\ uans' = [uans EXCEPT ![u] = "none"]
Sends(u, p, c) == c \in CmdSet /\ c.u = u /\ SentRight(c, p) /\ ucmds' = Append(ucmds, c)
DriverStep(u) ==
  \E p \in Pc : Advances(u, p) /\ (ucmds' = ucmds \/ \E c \in CmdSet : Sends(u, p, c))

\* Who waits for nothing has asked nothing (upgrade.rs, drive.rs: a driver awaits each
\* answer of base before it goes on).
LEMMA FreeDriversAskedNothing ==
  ASSUME NEW u \in Proposal, QueueInv, upc[u] \notin Before, upc[u] \in WaitPc => uans[u] # "none"
  PROVE  \A i \in 1 .. Len(ucmds) : ucmds[i].op \in Asking => ucmds[i].u # u
<1> SUFFICES ASSUME NEW i \in 1 .. Len(ucmds), ucmds[i].op \in Asking, ucmds[i].u = u PROVE FALSE
  OBVIOUS
<1>1. Awaits(ucmds[i].op, upc[u]) /\ uans[u] = "none" BY DEF QueueInv, AsksAreAwaited
<1> QED BY <1>1 DEF Awaits, WaitPc, Before

\* What a command appended to the queue leaves in it.
LEMMA QueueAppend ==
  ASSUME NEW q \in Seq(CmdSet), NEW c \in CmdSet, NEW r, r = Append(q, c)
  PROVE  /\ r \in Seq(CmdSet) /\ Len(r) = Len(q) + 1 /\ r[Len(q) + 1] = c
         /\ \A i \in 1 .. Len(q) : r[i] = q[i]
         /\ \A i \in 1 .. Len(r) : i \in 1 .. Len(q) \/ i = Len(q) + 1
BY AppendProperties

\* And what taking the first one leaves.
LEMMA QueueTail ==
  ASSUME NEW q \in Seq(CmdSet), q # <<>>, NEW r, r = Tail(q)
  PROVE  /\ Head(q) \in CmdSet /\ Head(q) = q[1] /\ 1 \in 1 .. Len(q)
         /\ r \in Seq(CmdSet) /\ Len(r) = Len(q) - 1 /\ Len(q) \in Nat
         /\ \A i \in 1 .. Len(r) : r[i] = q[i + 1] /\ i + 1 \in 1 .. Len(q)
<1>1. Head(q) \in CmdSet /\ Tail(q) \in Seq(CmdSet) /\ Len(Tail(q)) = Len(q) - 1
      /\ \A i \in 1 .. Len(Tail(q)) : Tail(q)[i] = q[i + 1]
  BY HeadTailProperties
<1>2. Head(q) = q[1] BY HeadTailProperties
<1>3. Len(q) \in Nat /\ Len(q) # 0 BY EmptySeq, LenProperties
<1> QED BY <1>1, <1>2, <1>3

\* The queue stays as it is when a driver goes on (drive.rs).
LEMMA DriverStepKeepsQueue ==
  ASSUME NEW u \in Proposal, QueueInv, DriverStep(u)
  PROVE  QueueInv'
<1> PICK p \in Pc : Advances(u, p) /\ (ucmds' = ucmds \/ \E c \in CmdSet : Sends(u, p, c))
  BY DEF DriverStep
<1>1. /\ upc[u] \notin Before /\ upc[u] # "done" /\ p \notin Before /\ ustatus' = ustatus
      /\ upc' \in [Proposal -> Pc] /\ upc'[u] = p /\ \A w \in Proposal : w # u => upc'[w] = upc[w]
      /\ uans' \in [Proposal -> {"none", "ok", "err", "worse"}] /\ uans'[u] = "none"
      /\ \A w \in Proposal : w # u => uans'[w] = uans[w]
  BY DEF Advances, QueueInv, QueueTypes, Undriven, Before
<1>2. \A i \in 1 .. Len(ucmds) : ucmds[i].op \in Asking => ucmds[i].u # u
  BY FreeDriversAskedNothing DEF Advances, Undriven, Before
<1>3. ucmds \in Seq(CmdSet) /\ (\A i \in 1 .. Len(ucmds) : ucmds[i] \in CmdSet
        /\ ucmds[i].u \in Proposal)
  <2>1. ucmds \in Seq(CmdSet) BY DEF QueueInv, QueueTypes
  <2>2. \A i \in 1 .. Len(ucmds) : ucmds[i] \in CmdSet BY <2>1, ElementOfSeq
  <2>3. \A c \in CmdSet : c.u \in Proposal BY DEF CmdSet
  <2> QED BY <2>1, <2>2, <2>3
<1>4. PICK q : q = ucmds' OBVIOUS
<1>5. /\ q \in Seq(CmdSet) /\ Len(ucmds) \in Nat /\ Len(q) \in Nat
      /\ \A i \in 1 .. Len(ucmds) : i \in 1 .. Len(q) /\ q[i] = ucmds[i]
      /\ \A i \in 1 .. Len(q) : i \in 1 .. Len(ucmds)
           \/ (i = Len(ucmds) + 1 /\ q[i].u = u /\ SentRight(q[i], p))
  <2>0. Len(ucmds) \in Nat BY <1>3, LenProperties
  <2>1. CASE ucmds' = ucmds BY <2>0, <2>1, <1>3, <1>4
  <2>2. CASE \E c \in CmdSet : Sends(u, p, c)
    <3> PICK c \in CmdSet : Sends(u, p, c) BY <2>2
    <3>1. q = Append(ucmds, c) /\ c.u = u /\ SentRight(c, p) BY <1>4 DEF Sends
    <3>2. /\ q \in Seq(CmdSet) /\ Len(q) = Len(ucmds) + 1 /\ q[Len(ucmds) + 1] = c
          /\ \A i \in 1 .. Len(ucmds) : q[i] = ucmds[i]
      BY <3>1, <1>3, QueueAppend
    <3> QED BY <2>0, <3>1, <3>2
  <2> QED BY <2>1, <2>2
<1>6. ustatus[u] \notin Terminal BY <1>1 DEF QueueInv, EndedAreDone
<1>7. QueueTypes' BY <1>1, <1>4, <1>5 DEF QueueInv, QueueTypes
<1>8. AsksAreAwaited'
  <2> SUFFICES ASSUME NEW i \in 1 .. Len(q), q[i].op \in Asking
               PROVE  /\ Awaits(q[i].op, upc'[q[i].u]) /\ uans'[q[i].u] = "none"
                      /\ q[i].op = "ready" => q[i].v \in {"ok", "err"}
    BY <1>4 DEF AsksAreAwaited
  <2>1. CASE i \in 1 .. Len(ucmds)
    <3>1. q[i] = ucmds[i] /\ ucmds[i].u # u /\ ucmds[i].u \in Proposal BY <2>1, <1>2, <1>3, <1>5
    <3>2. upc'[ucmds[i].u] = upc[ucmds[i].u] /\ uans'[ucmds[i].u] = uans[ucmds[i].u] BY <3>1, <1>1
    <3> QED BY <2>1, <3>1, <3>2 DEF QueueInv, AsksAreAwaited
  <2>2. CASE i \notin 1 .. Len(ucmds)
    <3>1. q[i].u = u /\ SentRight(q[i], p) BY <2>2, <1>5
    <3> QED BY <3>1, <1>1 DEF SentRight, Asking
  <2> QED BY <2>1, <2>2
<1>9. AsksAreOne'
  <2> SUFFICES ASSUME NEW i \in 1 .. Len(q), NEW j \in 1 .. Len(q), q[i].op \in Asking,
                      q[j].op \in Asking, q[i].u = q[j].u
               PROVE  i = j
    BY <1>4 DEF AsksAreOne
  <2>1. CASE i \in 1 .. Len(ucmds) /\ j \in 1 .. Len(ucmds)
    BY <2>1, <1>5 DEF QueueInv, AsksAreOne
  <2>2. CASE ~(i \in 1 .. Len(ucmds) /\ j \in 1 .. Len(ucmds))
    BY <2>2, <1>2, <1>5
  <2> QED BY <2>1, <2>2
<1>10. AnswersAreAwaited' BY <1>1 DEF QueueInv, AnswersAreAwaited
<1>11. PhasesAreDriven'
  <2> SUFFICES ASSUME NEW i \in 1 .. Len(q), q[i].op = "phase"
               PROVE  /\ q[i].v \in PhaseWord /\ upc'[q[i].u] \notin Before
                      /\ ustatus[q[i].u] \notin Terminal
                      /\ q[i].v \in Terminal =>
                           /\ upc'[q[i].u] = "done"
                           /\ \A j \in 1 .. Len(q) : j > i => ~(q[j].op = "phase" /\ q[j].u = q[i].u)
    BY <1>1, <1>4 DEF PhasesAreDriven
  <2>1. CASE i \in 1 .. Len(ucmds)
    <3>1. q[i] = ucmds[i] /\ ucmds[i].u \in Proposal BY <2>1, <1>3, <1>5
    <3>2. /\ ucmds[i].v \in PhaseWord /\ upc[ucmds[i].u] \notin Before
          /\ ustatus[ucmds[i].u] \notin Terminal
          /\ ucmds[i].v \in Terminal =>
               /\ upc[ucmds[i].u] = "done"
               /\ \A j \in 1 .. Len(ucmds) : j > i
                  => ~(ucmds[j].op = "phase" /\ ucmds[j].u = ucmds[i].u)
      BY <2>1, <3>1 DEF QueueInv, PhasesAreDriven
    <3>3. CASE ucmds[i].u = u BY <3>1, <3>2, <3>3, <1>1
    <3>4. CASE ucmds[i].u # u
      <4>1. upc'[ucmds[i].u] = upc[ucmds[i].u] BY <3>1, <3>4, <1>1
      <4>2. \A j \in 1 .. Len(q) : j \in 1 .. Len(ucmds) \/ q[j].u # ucmds[i].u BY <3>4, <1>5
      <4> QED BY <3>1, <3>2, <4>1, <4>2, <1>5
    <3> QED BY <3>3, <3>4
  <2>2. CASE i \notin 1 .. Len(ucmds)
    <3>1. q[i].u = u /\ SentRight(q[i], p) /\ i = Len(ucmds) + 1 BY <2>2, <1>5
    <3>2. \A j \in 1 .. Len(q) : ~(j > i) BY <3>1, <1>5
    <3> QED BY <3>1, <3>2, <1>1, <1>6 DEF SentRight, Asking
  <2> QED BY <2>1, <2>2
<1>12. EndedAreDone' BY <1>1, <1>6 DEF QueueInv, EndedAreDone
<1>13. NewAreOff' BY <1>1 DEF QueueInv, NewAreOff, Before
<1> QED BY <1>7, <1>8, <1>9, <1>10, <1>11, <1>12, <1>13 DEF QueueInv

\* What is left of the queue once base took its first command: the rest as it was, and at
\* most the drain of a node behind it.
LEMMA QueueRest ==
  ASSUME QueueInv, Base
  PROVE  /\ ucmds \in Seq(CmdSet) /\ ucmds # <<>> /\ Head(ucmds) = ucmds[1] /\ 1 \in 1 .. Len(ucmds)
         /\ Head(ucmds) \in CmdSet /\ Head(ucmds).u \in Proposal
         /\ ucmds' \in Seq(CmdSet) /\ Len(ucmds) \in Nat /\ Len(ucmds') \in Nat
         /\ \A i \in 1 .. Len(ucmds') : i + 1 \in 1 .. Len(ucmds) \/ i + 1 > Len(ucmds)
         /\ \A i \in 1 .. Len(ucmds') : i + 1 \in 1 .. Len(ucmds) => ucmds'[i] = ucmds[i + 1]
         /\ \A i \in 1 .. Len(ucmds') : i + 1 > Len(ucmds) => ucmds'[i].op = "drain"
         /\ \A i \in 1 .. Len(ucmds) : i # 1 => i - 1 \in 1 .. Len(ucmds') /\ ucmds'[i - 1] = ucmds[i]
<1>1. ucmds \in Seq(CmdSet) /\ ucmds # <<>> BY DEF QueueInv, QueueTypes, Base
<1>2. PICK r : r = Tail(ucmds) OBVIOUS
<1>3. PICK c : c = Head(ucmds) OBVIOUS
<1>4. /\ c \in CmdSet /\ c = ucmds[1] /\ 1 \in 1 .. Len(ucmds)
      /\ r \in Seq(CmdSet) /\ Len(r) = Len(ucmds) - 1 /\ Len(ucmds) \in Nat
      /\ \A i \in 1 .. Len(r) : r[i] = ucmds[i + 1] /\ i + 1 \in 1 .. Len(ucmds)
  BY <1>1, <1>2, <1>3, QueueTail
<1>5. c.u \in Proposal BY <1>4 DEF CmdSet
<1>6. ucmds' = r \/ ucmds' = Append(r, Cmd("drain", c.u, 0)) BY <1>2, <1>3 DEF Base
<1>7. CASE ucmds' = r BY <1>1, <1>3, <1>4, <1>5, <1>7
<1>8. CASE ucmds' = Append(r, Cmd("drain", c.u, 0))
  <2>1. PICK d : d = Cmd("drain", c.u, 0) OBVIOUS
  <2>2. d \in CmdSet /\ d.op = "drain" BY <2>1, <1>5 DEF Cmd, CmdWord, CmdSet, CmdOp
  <2>3. PICK q : q = ucmds' OBVIOUS
  <2>4. q = Append(r, d) BY <2>1, <2>3, <1>8
  <2>5. /\ q \in Seq(CmdSet) /\ Len(q) = Len(r) + 1 /\ q[Len(r) + 1] = d
        /\ \A i \in 1 .. Len(r) : q[i] = r[i]
    BY <2>2, <2>4, <1>4, QueueAppend
  <2>6. \A i \in 1 .. Len(q) : i + 1 \in 1 .. Len(ucmds) \/ i + 1 > Len(ucmds) BY <2>5, <1>4
  <2>7. ASSUME NEW i \in 1 .. Len(q), i + 1 \in 1 .. Len(ucmds) PROVE q[i] = ucmds[i + 1]
    <3>1. i \in 1 .. Len(r) BY <2>5, <2>7, <1>4
    <3> QED BY <3>1, <2>5, <1>4
  <2>8. \A i \in 1 .. Len(q) : i + 1 > Len(ucmds) => q[i].op = "drain" BY <2>2, <2>5, <1>4
  <2>9. \A i \in 1 .. Len(ucmds) : i # 1 => i - 1 \in 1 .. Len(q) /\ q[i - 1] = ucmds[i] BY <2>5, <1>4
  <2> QED BY <1>1, <1>3, <1>4, <1>5, <2>3, <2>5, <2>6, <2>7, <2>8, <2>9
<1> QED BY <1>6, <1>7, <1>8

\* The asks that are left when base answers one are of other drivers (upgrade.rs: base's
\* loop answers the commands of upgrades one at a time).
LEMMA OthersAsked ==
  ASSUME QueueInv, Base, Head(ucmds).op \in Asking
  PROVE  \A i \in 1 .. Len(ucmds') : ucmds'[i].op \in Asking => ucmds'[i].u # Head(ucmds).u
<1> SUFFICES ASSUME NEW i \in 1 .. Len(ucmds'), ucmds'[i].op \in Asking, ucmds'[i].u = Head(ucmds).u
             PROVE  FALSE
  OBVIOUS
<1>1. i + 1 \in 1 .. Len(ucmds) /\ ucmds'[i] = ucmds[i + 1] BY QueueRest DEF Asking
<1>2. Head(ucmds) = ucmds[1] /\ 1 \in 1 .. Len(ucmds) BY QueueRest
<1> QED BY <1>1, <1>2 DEF QueueInv, AsksAreOne

\* What the queue holds after base took a command, for the drivers whose place and answer
\* base left alone.
LEMMA RestIsAwaited ==
  ASSUME QueueInv, Base, upc' \in [Proposal -> Pc],
         uans' \in [Proposal -> {"none", "ok", "err", "worse"}],
         \A w \in Proposal : w # Head(ucmds).u => upc'[w] = upc[w] /\ uans'[w] = uans[w],
         Head(ucmds).op \notin Asking => upc' = upc /\ uans' = uans
  PROVE  AsksAreAwaited' /\ AsksAreOne'
<1>0. \A i \in 1 .. Len(ucmds') : ucmds'[i] \in CmdSet /\ ucmds'[i].u \in Proposal
  <2>1. ucmds' \in Seq(CmdSet) BY QueueRest
  <2>2. \A i \in 1 .. Len(ucmds') : ucmds'[i] \in CmdSet BY <2>1, ElementOfSeq
  <2>3. \A c \in CmdSet : c.u \in Proposal BY DEF CmdSet
  <2> QED BY <2>2, <2>3
<1>1. AsksAreAwaited'
  <2> SUFFICES ASSUME NEW i \in 1 .. Len(ucmds'), ucmds'[i].op \in Asking
               PROVE  /\ Awaits(ucmds'[i].op, upc'[ucmds'[i].u]) /\ uans'[ucmds'[i].u] = "none"
                      /\ ucmds'[i].op = "ready" => ucmds'[i].v \in {"ok", "err"}
    BY DEF AsksAreAwaited
  <2>1. i + 1 \in 1 .. Len(ucmds) /\ ucmds'[i] = ucmds[i + 1] BY QueueRest DEF Asking
  <2>2. upc'[ucmds'[i].u] = upc[ucmds'[i].u] /\ uans'[ucmds'[i].u] = uans[ucmds'[i].u]
    BY <1>0, OthersAsked
  <2> QED BY <2>1, <2>2 DEF QueueInv, AsksAreAwaited
<1>2. AsksAreOne'
  <2> SUFFICES ASSUME NEW i \in 1 .. Len(ucmds'), NEW j \in 1 .. Len(ucmds'), ucmds'[i].op \in Asking,
                      ucmds'[j].op \in Asking, ucmds'[i].u = ucmds'[j].u
               PROVE  i = j
    BY DEF AsksAreOne
  <2>1. i + 1 \in 1 .. Len(ucmds) /\ ucmds'[i] = ucmds[i + 1] BY QueueRest DEF Asking
  <2>2. j + 1 \in 1 .. Len(ucmds) /\ ucmds'[j] = ucmds[j + 1] BY QueueRest DEF Asking
  <2>3. i + 1 = j + 1 BY <2>1, <2>2 DEF QueueInv, AsksAreOne
  <2> QED BY <2>3
<1> QED BY <1>1, <1>2

\* The same of the phases that are left.
LEMMA RestIsDriven ==
  ASSUME QueueInv, Base, upc' \in [Proposal -> Pc], ustatus' \in [Proposal -> Status],
         \A w \in Proposal : upc[w] \notin Before => upc'[w] = upc[w],
         \A w \in Proposal : upc[w] \notin Before =>
           \/ ustatus'[w] = ustatus[w]
           \/ ustatus'[w] \notin Terminal
           \/ /\ Head(ucmds).op = "phase" /\ Head(ucmds).v \in Terminal /\ Head(ucmds).u = w
  PROVE  PhasesAreDriven'
<1>0. \A i \in 1 .. Len(ucmds') : ucmds'[i] \in CmdSet /\ ucmds'[i].u \in Proposal
  <2>1. ucmds' \in Seq(CmdSet) BY QueueRest
  <2>2. \A i \in 1 .. Len(ucmds') : ucmds'[i] \in CmdSet BY <2>1, ElementOfSeq
  <2>3. \A c \in CmdSet : c.u \in Proposal BY DEF CmdSet
  <2> QED BY <2>2, <2>3
<1> SUFFICES ASSUME NEW i \in 1 .. Len(ucmds'), ucmds'[i].op = "phase"
             PROVE  /\ ucmds'[i].v \in PhaseWord /\ upc'[ucmds'[i].u] \notin Before
                    /\ ustatus'[ucmds'[i].u] \notin Terminal
                    /\ ucmds'[i].v \in Terminal =>
                         /\ upc'[ucmds'[i].u] = "done"
                         /\ \A j \in 1 .. Len(ucmds') : j > i =>
                              ~(ucmds'[j].op = "phase" /\ ucmds'[j].u = ucmds'[i].u)
  BY DEF PhasesAreDriven
<1>1. i + 1 \in 1 .. Len(ucmds) /\ ucmds'[i] = ucmds[i + 1] BY QueueRest
<1>2. /\ ucmds'[i].v \in PhaseWord /\ upc[ucmds'[i].u] \notin Before
      /\ ustatus[ucmds'[i].u] \notin Terminal
      /\ ucmds'[i].v \in Terminal =>
           /\ upc[ucmds'[i].u] = "done"
           /\ \A j \in 1 .. Len(ucmds) : j > i + 1
              => ~(ucmds[j].op = "phase" /\ ucmds[j].u = ucmds'[i].u)
  BY <1>1 DEF QueueInv, PhasesAreDriven
<1>3. upc'[ucmds'[i].u] = upc[ucmds'[i].u] BY <1>0, <1>2
<1>4. ~(Head(ucmds).op = "phase" /\ Head(ucmds).v \in Terminal /\ Head(ucmds).u = ucmds'[i].u)
  <2>1. Head(ucmds) = ucmds[1] /\ 1 \in 1 .. Len(ucmds) /\ i + 1 > 1 BY QueueRest
  <2> QED BY <2>1, <1>1 DEF QueueInv, PhasesAreDriven
<1>5. ustatus'[ucmds'[i].u] \notin Terminal BY <1>0, <1>2, <1>4
<1>6. ASSUME NEW j \in 1 .. Len(ucmds'), j > i, ucmds'[i].v \in Terminal,
             ucmds'[j].op = "phase", ucmds'[j].u = ucmds'[i].u
      PROVE  FALSE
  <2>1. j + 1 \in 1 .. Len(ucmds) /\ ucmds'[j] = ucmds[j + 1] /\ j + 1 > i + 1 BY <1>6, QueueRest
  <2> QED BY <1>2, <1>6, <2>1
<1> QED BY <1>2, <1>3, <1>5, <1>6

\* The queue stays as it is when base takes a command (upgrade.rs, bluegreen.rs).
LEMMA BaseKeepsQueue ==
  ASSUME QueueInv, Base
  PROVE  QueueInv'
<1>0. PICK c \in CmdSet : c = Head(ucmds) BY QueueRest
<1>00. /\ c.u \in Proposal /\ c = ucmds[1] /\ 1 \in 1 .. Len(ucmds) /\ ucmds' \in Seq(CmdSet)
       /\ upc \in [Proposal -> Pc] /\ ustatus \in [Proposal -> Status]
       /\ uans \in [Proposal -> {"none", "ok", "err", "worse"}]
  BY <1>0, QueueRest DEF QueueInv, QueueTypes
<1>1. CASE /\ c.op \in Asking \ {"approved"} /\ upc' = upc /\ ustatus' = ustatus
           /\ \E a \in {"ok", "err", "worse"} : uans' = [uans EXCEPT ![c.u] = a]
  <2>1. upc[c.u] \in WaitPc BY <1>1, <1>00 DEF QueueInv, AsksAreAwaited, Awaits, WaitPc, Asking
  <2>2. /\ uans' \in [Proposal -> {"none", "ok", "err", "worse"}]
        /\ \A w \in Proposal : w # c.u => uans'[w] = uans[w]
    BY <1>1, <1>00
  <2>3. AsksAreAwaited' /\ AsksAreOne' BY <1>0, <1>1, <1>00, <2>2, RestIsAwaited
  <2>4. PhasesAreDriven' BY <1>1, <1>00, RestIsDriven
  <2>5. QueueTypes' BY <1>1, <1>00, <2>2 DEF QueueTypes
  <2>6. AnswersAreAwaited' BY <1>1, <2>1, <2>2 DEF QueueInv, AnswersAreAwaited
  <2>7. EndedAreDone' /\ NewAreOff' BY <1>1 DEF QueueInv, EndedAreDone, NewAreOff
  <2> QED BY <2>3, <2>4, <2>5, <2>6, <2>7 DEF QueueInv
<1>2. CASE c.op = "phase" /\ ustatus' = [ustatus EXCEPT ![c.u] = c.v] /\ upc' = upc /\ uans' = uans
  <2>1. /\ c.v \in PhaseWord /\ upc[c.u] \notin Before /\ ustatus[c.u] \notin Terminal
        /\ c.v \in Terminal => upc[c.u] = "done"
    BY <1>2, <1>00 DEF QueueInv, PhasesAreDriven
  <2>2. ustatus' \in [Proposal -> Status] /\ ustatus'[c.u] = c.v
        /\ \A w \in Proposal : w # c.u => ustatus'[w] = ustatus[w]
    BY <1>2, <1>00, <2>1 DEF Status, PhaseWord
  <2>3. AsksAreAwaited' /\ AsksAreOne' BY <1>0, <1>2, <1>00, RestIsAwaited
  <2>4. PhasesAreDriven' BY <1>0, <1>2, <1>00, <2>1, <2>2, RestIsDriven
  <2>5. QueueTypes' BY <1>2, <1>00, <2>2 DEF QueueTypes
  <2>6. AnswersAreAwaited' BY <1>2 DEF QueueInv, AnswersAreAwaited
  <2>7. EndedAreDone' BY <1>2, <2>1, <2>2 DEF QueueInv, EndedAreDone
  <2>8. NewAreOff' BY <1>2, <2>1, <2>2 DEF QueueInv, NewAreOff, PhaseWord, Before
  <2> QED BY <2>3, <2>4, <2>5, <2>6, <2>7, <2>8 DEF QueueInv
<1>3. CASE c.op = "approved" /\ Approved(c.u, c.v) /\ uans' = uans
  <2>1. upc[c.u] = "waiting" /\ uans[c.u] = "none"
    BY <1>3, <1>00 DEF QueueInv, AsksAreAwaited, Awaits, Asking
  <2>2. ustatus[c.u] \notin Terminal /\ ustatus[c.u] # "new"
    BY <2>1, <1>00 DEF QueueInv, EndedAreDone, NewAreOff
  <2>3. \/ /\ upc' = [upc EXCEPT ![c.u] = "snapshot"]
           /\ ustatus' = [ustatus EXCEPT ![c.u] = ustatus[c.u]]
        \/ /\ upc' = [upc EXCEPT ![c.u] = "done"]
           /\ ustatus' = [ustatus EXCEPT ![c.u] = "rolled_back"]
    BY <1>3 DEF Approved, Start
  <2>4. /\ upc' \in [Proposal -> Pc] /\ ustatus' \in [Proposal -> Status]
        /\ upc'[c.u] \in {"snapshot", "done"} /\ ustatus'[c.u] # "new"
        /\ (ustatus'[c.u] \in Terminal => upc'[c.u] = "done")
        /\ \A w \in Proposal : w # c.u => upc'[w] = upc[w] /\ ustatus'[w] = ustatus[w]
    BY <2>2, <2>3, <1>00 DEF Pc, Status
  <2>5. AsksAreAwaited' /\ AsksAreOne' BY <1>0, <1>3, <1>00, <2>4, RestIsAwaited DEF Asking
  <2>6. PhasesAreDriven' BY <1>0, <1>00, <2>1, <2>4, RestIsDriven DEF Before
  <2>7. QueueTypes' BY <1>3, <1>00, <2>4 DEF QueueTypes
  <2>8. AnswersAreAwaited' BY <1>3, <1>00, <2>1, <2>4 DEF QueueInv, AnswersAreAwaited
  <2>9. EndedAreDone' BY <2>4 DEF QueueInv, EndedAreDone
  <2>10. NewAreOff' BY <2>4 DEF QueueInv, NewAreOff
  <2> QED BY <2>5, <2>6, <2>7, <2>8, <2>9, <2>10 DEF QueueInv
<1>4. CASE c.op \in {"fallback", "drain"} /\ UNCHANGED <<ustatus, upc, uans>>
  <2>1. AsksAreAwaited' /\ AsksAreOne' BY <1>0, <1>4, <1>00, RestIsAwaited
  <2>2. PhasesAreDriven' BY <1>4, <1>00, RestIsDriven
  <2>3. QueueTypes' BY <1>4, <1>00 DEF QueueTypes
  <2>4. AnswersAreAwaited' /\ EndedAreDone' /\ NewAreOff'
    BY <1>4 DEF QueueInv, AnswersAreAwaited, EndedAreDone, NewAreOff
  <2> QED BY <2>1, <2>2, <2>3, <2>4 DEF QueueInv
<1> QED BY <1>0, <1>1, <1>2, <1>3, <1>4
      DEF Base, Reply, PutLkg, Bench, Update, Asking

\* Nobody of before the driver has sent a phase (upgrade_propose(), upgrade_approved()).
LEMMA NothingIsSentBefore ==
  ASSUME NEW u \in Proposal, QueueInv, upc[u] \in {"off", "gate"}
  PROVE  /\ \A i \in 1 .. Len(ucmds) : ucmds[i].op \in Asking => ucmds[i].u # u
         /\ \A i \in 1 .. Len(ucmds) : ucmds[i].op = "phase" => ucmds[i].u # u
         /\ uans[u] = "none" /\ ustatus[u] \notin Terminal
<1>1. \A i \in 1 .. Len(ucmds) : ucmds[i].op \in Asking => ucmds[i].u # u
  BY DEF QueueInv, AsksAreAwaited, Awaits
<1>2. \A i \in 1 .. Len(ucmds) : ucmds[i].op = "phase" => ucmds[i].u # u
  BY DEF QueueInv, PhasesAreDriven, Before
<1>3. uans[u] = "none" BY DEF QueueInv, AnswersAreAwaited, WaitPc
<1>4. ustatus[u] \notin Terminal BY DEF QueueInv, EndedAreDone
<1> QED BY <1>1, <1>2, <1>3, <1>4

\* The commands of the queue are commands, of proposals.
LEMMA CmdsAreCmds ==
  ASSUME QueueInv
  PROVE  \A i \in 1 .. Len(ucmds) : ucmds[i] \in CmdSet /\ ucmds[i].u \in Proposal
<1>1. ucmds \in Seq(CmdSet) BY DEF QueueInv, QueueTypes
<1>2. \A i \in 1 .. Len(ucmds) : ucmds[i] \in CmdSet BY <1>1, ElementOfSeq
<1>3. \A c \in CmdSet : c.u \in Proposal BY DEF CmdSet
<1> QED BY <1>2, <1>3

\* upgrade_propose() sends nothing, and starts or asks.
LEMMA ProposeKeepsQueue ==
  ASSUME NEW u \in Proposal, QueueInv, Propose(u)
  PROVE  QueueInv'
<1>0. /\ upc \in [Proposal -> Pc] /\ ustatus \in [Proposal -> Status] /\ ucmds' = ucmds
         /\ uans' = uans
      /\ ustatus[u] = "new"
  BY DEF QueueInv, QueueTypes, Propose
<1>1. upc[u] = "off" BY <1>0 DEF QueueInv, NewAreOff
<1>2. \E p \in {"snapshot", "done", "gate"}, s \in {"proposed", "rolled_back", "awaiting_approval"} :
        upc' = [upc EXCEPT ![u] = p] /\ ustatus' = [ustatus EXCEPT ![u] = s]
        /\ (s = "rolled_back" => p = "done")
  BY DEF Propose, Start
<1>3. /\ upc' \in [Proposal -> Pc] /\ ustatus' \in [Proposal -> Status]
      /\ upc'[u] # "off" /\ ustatus'[u] # "new" /\ (ustatus'[u] \in Terminal => upc'[u] = "done")
      /\ \A w \in Proposal : w # u => upc'[w] = upc[w] /\ ustatus'[w] = ustatus[w]
  BY <1>0, <1>2 DEF Pc, Status, Terminal
<1>4. /\ \A i \in 1 .. Len(ucmds) : ucmds[i].op \in Asking => ucmds[i].u # u
      /\ \A i \in 1 .. Len(ucmds) : ucmds[i].op = "phase" => ucmds[i].u # u
      /\ uans[u] = "none"
  BY <1>1, NothingIsSentBefore
<1>5. AsksAreAwaited' /\ AsksAreOne'
  BY <1>0, <1>3, <1>4, CmdsAreCmds DEF QueueInv, AsksAreAwaited, AsksAreOne
<1>6. PhasesAreDriven' BY <1>0, <1>3, <1>4, CmdsAreCmds DEF QueueInv, PhasesAreDriven
<1>7. QueueTypes' BY <1>0, <1>3 DEF QueueInv, QueueTypes
<1>8. AnswersAreAwaited' /\ EndedAreDone' /\ NewAreOff'
  BY <1>0, <1>3, <1>4 DEF QueueInv, AnswersAreAwaited, EndedAreDone, NewAreOff
<1> QED BY <1>5, <1>6, <1>7, <1>8 DEF QueueInv

\* The verdict of the gate is the proposal's first command (upgrade_ask()).
LEMMA VerdictKeepsQueue ==
  ASSUME NEW u \in Proposal, NEW a \in BOOLEAN, QueueInv, Verdict(u, a)
  PROVE  QueueInv'
<1>0. /\ upc \in [Proposal -> Pc] /\ upc[u] = "gate" /\ ustatus' = ustatus /\ uans' = uans
      /\ ucmds \in Seq(CmdSet) /\ upc' = [upc EXCEPT ![u] = "waiting"]
  BY DEF QueueInv, QueueTypes, Verdict
<1>1. PICK c : c = Cmd("approved", u, a) OBVIOUS
<1>2. c \in CmdSet /\ c.op = "approved" /\ c.u = u BY <1>1 DEF Cmd, CmdWord, CmdSet, CmdOp, Asking
<1>3. PICK q : q = ucmds' OBVIOUS
<1>4. q = Append(ucmds, c) BY <1>1, <1>3 DEF Verdict
<1>5. /\ q \in Seq(CmdSet) /\ Len(q) = Len(ucmds) + 1 /\ q[Len(ucmds) + 1] = c /\ Len(ucmds) \in Nat
      /\ \A i \in 1 .. Len(ucmds) : q[i] = ucmds[i]
      /\ \A i \in 1 .. Len(q) : i \in 1 .. Len(ucmds) \/ i = Len(ucmds) + 1
  BY <1>0, <1>2, <1>4, QueueAppend, LenProperties
<1>6. /\ upc' \in [Proposal -> Pc] /\ upc'[u] = "waiting"
      /\ \A w \in Proposal : w # u => upc'[w] = upc[w]
  BY <1>0 DEF Pc
<1>7. /\ \A i \in 1 .. Len(ucmds) : ucmds[i].op \in Asking => ucmds[i].u # u
      /\ \A i \in 1 .. Len(ucmds) : ucmds[i].op = "phase" => ucmds[i].u # u
      /\ uans[u] = "none" /\ ustatus[u] \notin Terminal
  BY <1>0, NothingIsSentBefore
<1>8. AsksAreAwaited'
  <2> SUFFICES ASSUME NEW i \in 1 .. Len(q), q[i].op \in Asking
               PROVE  /\ Awaits(q[i].op, upc'[q[i].u]) /\ uans'[q[i].u] = "none"
                      /\ q[i].op = "ready" => q[i].v \in {"ok", "err"}
    BY <1>3 DEF AsksAreAwaited
  <2>1. CASE i \in 1 .. Len(ucmds)
    BY <2>1, <1>0, <1>5, <1>6, <1>7, CmdsAreCmds DEF QueueInv, AsksAreAwaited
  <2>2. CASE i = Len(ucmds) + 1 BY <2>2, <1>0, <1>2, <1>5, <1>6, <1>7 DEF Awaits
  <2> QED BY <2>1, <2>2, <1>5
<1>9. AsksAreOne'
  <2> SUFFICES ASSUME NEW i \in 1 .. Len(q), NEW j \in 1 .. Len(q), q[i].op \in Asking,
                      q[j].op \in Asking, q[i].u = q[j].u
               PROVE  i = j
    BY <1>3 DEF AsksAreOne
  <2>1. CASE i \in 1 .. Len(ucmds) /\ j \in 1 .. Len(ucmds) BY <2>1, <1>5 DEF QueueInv, AsksAreOne
  <2>2. CASE ~(i \in 1 .. Len(ucmds) /\ j \in 1 .. Len(ucmds)) BY <2>2, <1>2, <1>5, <1>7
  <2> QED BY <2>1, <2>2
<1>10. PhasesAreDriven'
  <2>1. \A i \in 1 .. Len(q) : q[i].op = "phase" => i \in 1 .. Len(ucmds) /\ q[i] = ucmds[i]
        /\ ucmds[i].u # u
    BY <1>2, <1>5, <1>7
  <2>2. \A i \in 1 .. Len(q) : q[i].op = "phase" =>
          upc'[ucmds[i].u] = upc[ucmds[i].u]
    BY <2>1, <1>6, CmdsAreCmds
  <2> QED BY <2>1, <2>2, <1>0, <1>3 DEF QueueInv, PhasesAreDriven
<1>11. QueueTypes' BY <1>0, <1>3, <1>5, <1>6 DEF QueueInv, QueueTypes
<1>12. AnswersAreAwaited' /\ EndedAreDone' /\ NewAreOff'
  BY <1>0, <1>6, <1>7 DEF QueueInv, AnswersAreAwaited, EndedAreDone, NewAreOff
<1> QED BY <1>8, <1>9, <1>10, <1>11, <1>12 DEF QueueInv

\* What a driver sends and where it goes, in the words of drive.rs.
LEMMA Telling ==
  ASSUME NEW u \in Proposal, NEW w \in PhaseWord, NEW p \in Pc, Tell(u, w), w \in Terminal
         => p = "done"
  PROVE  \E c \in CmdSet : Sends(u, p, c)
<1>1. PICK c : c = Cmd("phase", u, w) OBVIOUS
<1>2. c \in CmdSet /\ c.op = "phase" /\ c.u = u /\ c.v = w BY <1>1 DEF Cmd, CmdWord, CmdSet, CmdOp
<1>3. ucmds' = Append(ucmds, c) BY <1>1 DEF Tell
<1> QED BY <1>2, <1>3 DEF Sends, SentRight

\* The same of what it asks.
LEMMA AskingWell ==
  ASSUME NEW u \in Proposal, NEW p \in Pc, NEW op \in CmdOp, NEW v \in (0 .. 1) \cup {"ok", "err"},
         Ask(op, u, v, p), op = "ready" => v \in {"ok", "err"},
         op = "fallback" \/ (op \in Asking /\ Awaits(op, p))
  PROVE  upc' = [upc EXCEPT ![u] = p] /\ \E c \in CmdSet : Sends(u, p, c)
<1>1. PICK c : c = Cmd(op, u, v) OBVIOUS
<1>2. c \in CmdSet /\ c.op = op /\ c.u = u /\ c.v = v BY <1>1 DEF Cmd, CmdWord, CmdSet
<1>3. ucmds' = Append(ucmds, c) /\ upc' = [upc EXCEPT ![u] = p] BY <1>1 DEF Ask, Go
<1> QED BY <1>2, <1>3 DEF Sends, SentRight

\* A driver that takes its answer, or waits for none.
LEMMA DriverMoves ==
  ASSUME NEW u \in Proposal, NEW p \in Pc \ Before, QueueInv, upc[u] \notin Undriven,
         Quiet, upc' = [upc EXCEPT ![u] = p],
         \/ upc[u] \notin WaitPc /\ uans' = uans
         \/ uans[u] # "none" /\ uans' = [uans EXCEPT ![u] = "none"],
         ucmds' = ucmds \/ \E c \in CmdSet : Sends(u, p, c)
  PROVE  DriverStep(u)
<1>1. uans \in [Proposal -> {"none", "ok", "err", "worse"}] BY DEF QueueInv, QueueTypes
<1>2. uans' = [uans EXCEPT ![u] = "none"]
  <2>1. CASE upc[u] \notin WaitPc /\ uans' = uans
    <3>1. uans[u] = "none" BY <2>1 DEF QueueInv, AnswersAreAwaited
    <3> QED BY <1>1, <2>1, <3>1
  <2> QED BY <2>1
<1>3. upc[u] \in WaitPc => uans[u] # "none" OBVIOUS
<1> QED BY <1>2, <1>3 DEF DriverStep, Advances, Quiet

\* Every step of a driver is one (drive.rs, candidate.rs, bluegreen.rs).
LEMMA DrivingIsDriverStep ==
  ASSUME NEW u \in Proposal, QueueInv, Driving(u)
  PROVE  DriverStep(u)
<1> USE DEF Pc, Before, Undriven, WaitPc
<1>1. CASE Snapshot(u)
  <2>1. CASE Go(u, "rollback") /\ ucmds' = ucmds
    BY <1>1, <2>1, DriverMoves DEF Snapshot, Go
  <2>2. CASE Tell(u, "snapshot") /\ Go(u, "baseline")
    <3>1. \E c \in CmdSet : Sends(u, "baseline", c) BY <2>2, Telling DEF PhaseWord, Terminal
    <3> QED BY <1>1, <2>2, <3>1, DriverMoves DEF Snapshot, Go
  <2> QED BY <1>1, <2>1, <2>2
        DEF Snapshot, Snap, PluginSnapshot, WorkerSnapshot, KernelSnapshot, ConfigSnapshot
<1>2. ASSUME NEW r \in 0 .. 1, Baseline(u, r) PROVE DriverStep(u)
  <2>1. upc' = [upc EXCEPT ![u] = "baselined"] /\ \E c \in CmdSet : Sends(u, "baselined", c)
    BY <1>2, AskingWell DEF Baseline, CmdOp, Asking, Awaits
  <2> QED BY <1>2, <2>1, DriverMoves DEF Baseline
<1>3. CASE Baselined(u)
  <2>1. \E c \in CmdSet : Sends(u, "canary", c) BY <1>3, Telling DEF Baselined, PhaseWord, Terminal
  <2> QED BY <1>3, <2>1, DriverMoves DEF Baselined, Go
<1>4. CASE CanaryUp(u)
  <2>1. ucmds' = ucmds /\ (Go(u, "rollback") \/ Go(u, "conformance"))
    BY <1>4 DEF CanaryUp, PluginCanary, WorkerCanary, KernelCanary, ConfigCanary
  <2>2. CASE Go(u, "rollback") BY <1>4, <2>1, <2>2, DriverMoves DEF CanaryUp, Go
  <2>3. CASE Go(u, "conformance") BY <1>4, <2>1, <2>3, DriverMoves DEF CanaryUp, Go
  <2> QED BY <2>1, <2>2, <2>3
<1>5. CASE Conformance(u)
  <2>1. CASE Go(u, "rollback") /\ ucmds' = ucmds BY <1>5, <2>1, DriverMoves DEF Conformance, Go
  <2>2. CASE Tell(u, "canary") /\ Go(u, "verify")
    <3>1. \E c \in CmdSet : Sends(u, "verify", c) BY <2>2, Telling DEF PhaseWord, Terminal
    <3> QED BY <1>5, <2>2, <3>1, DriverMoves DEF Conformance, Go
  <2> QED BY <1>5, <2>1, <2>2 DEF Conformance
<1>6. CASE Verify(u)
  <2>1. upc' = [upc EXCEPT ![u] = "guarded"] /\ \E c \in CmdSet : Sends(u, "guarded", c)
    BY <1>6, AskingWell DEF Verify, CmdOp, Asking, Awaits
  <2> QED BY <1>6, <2>1, DriverMoves DEF Verify
<1>7. ASSUME NEW r \in 0 .. 1, Guarded(u, r) PROVE DriverStep(u)
  <2>1. CASE Ask("bench", u, r, "compared")
    <3>1. upc' = [upc EXCEPT ![u] = "compared"] /\ \E c \in CmdSet : Sends(u, "compared", c)
      BY <2>1, AskingWell DEF CmdOp, Asking, Awaits
    <3> QED BY <1>7, <3>1, DriverMoves DEF Guarded
  <2>2. CASE Go(u, "rollback") /\ ucmds' = ucmds BY <1>7, <2>2, DriverMoves DEF Guarded, Go
  <2> QED BY <1>7, <2>1, <2>2 DEF Guarded
<1>8. CASE Compared(u)
  <2>1. CASE Go(u, "rollback") /\ ucmds' = ucmds BY <1>8, <2>1, DriverMoves DEF Compared, Go
  <2>2. CASE Tell(u, "verify") /\ Go(u, "promote")
    <3>1. \E c \in CmdSet : Sends(u, "promote", c) BY <2>2, Telling DEF PhaseWord, Terminal
    <3> QED BY <1>8, <2>2, <3>1, DriverMoves DEF Compared, Go
  <2> QED BY <1>8, <2>1, <2>2 DEF Compared
<1>9. CASE DropCanary(u) BY <1>9, DriverMoves DEF DropCanary, Go
<1>10. CASE DropOld(u) BY <1>10, DriverMoves DEF DropOld, Go
<1>11. CASE Mount(u)
  <2>1. CASE Go(u, "rollback") /\ ucmds' = ucmds BY <1>11, <2>1, DriverMoves DEF Mount, Go
  <2>2. CASE Tell(u, "promoted") /\ Go(u, "done")
    <3>1. \E c \in CmdSet : Sends(u, "done", c) BY <2>2, Telling DEF PhaseWord, Terminal
    <3> QED BY <1>11, <2>2, <3>1, DriverMoves DEF Mount, Go
  <2>3. CASE Ask("fallback", u, 0, "rollback")
    <3>1. upc' = [upc EXCEPT ![u] = "rollback"] /\ \E c \in CmdSet : Sends(u, "rollback", c)
      BY <2>3, AskingWell DEF CmdOp, Asking, Awaits
    <3> QED BY <1>11, <3>1, DriverMoves DEF Mount
  <2> QED BY <1>11, <2>1, <2>2, <2>3 DEF Mount, PluginMount, WorkerMount
<1>12. CASE Patch(u)
  <2>1. upc' = [upc EXCEPT ![u] = "patched"] /\ \E c \in CmdSet : Sends(u, "patched", c)
    BY <1>12, AskingWell DEF Patch, CmdOp, Asking, Awaits
  <2> QED BY <1>12, <2>1, DriverMoves DEF Patch
<1>13. CASE Patched(u)
  <2>1. CASE Go(u, "rollback") /\ ucmds' = ucmds BY <1>13, <2>1, DriverMoves DEF Patched, Go
  <2>2. CASE Tell(u, "promoted") /\ Go(u, "done")
    <3>1. \E c \in CmdSet : Sends(u, "done", c) BY <2>2, Telling DEF PhaseWord, Terminal
    <3> QED BY <1>13, <2>2, <3>1, DriverMoves DEF Patched, Go
  <2> QED BY <1>13, <2>1, <2>2 DEF Patched
<1>14. CASE Rollback(u)
  <2>1. \E c \in CmdSet : Sends(u, "done", c) BY <1>14, Telling DEF Rollback, PhaseWord, Terminal
  <2> QED BY <1>14, <2>1, DriverMoves DEF Rollback, Go
<1>15. CASE Stage(u)
  <2>1. CASE Go(u, "rollback") /\ ucmds' = ucmds BY <1>15, <2>1, DriverMoves DEF Stage, Go
  <2>2. CASE Ask("switch", u, 0, "staged")
    <3>1. upc' = [upc EXCEPT ![u] = "staged"] /\ \E c \in CmdSet : Sends(u, "staged", c)
      BY <2>2, AskingWell DEF CmdOp, Asking, Awaits
    <3> QED BY <1>15, <3>1, DriverMoves DEF Stage
  <2> QED BY <1>15, <2>1, <2>2 DEF Stage
<1>16. CASE Staged(u)
  <2>1. CASE uans[u] = "ok"
    <3>1. upc' = [upc EXCEPT ![u] = "polling"] BY <1>16, <2>1 DEF Staged, Go
    <3> QED BY <1>16, <3>1, DriverMoves DEF Staged
  <2>2. CASE uans[u] # "ok"
    <3>1. upc' = [upc EXCEPT ![u] = "rollback"] BY <1>16, <2>2 DEF Staged, Go
    <3> QED BY <1>16, <3>1, DriverMoves DEF Staged
  <2> QED BY <2>1, <2>2
<1>17. CASE AwaitGreen(u)
  <2>1. CASE Go(u, "health") /\ ucmds' = ucmds BY <1>17, <2>1, DriverMoves DEF AwaitGreen, Go
  <2>2. CASE Ask("ready", u, "err", "switched")
    <3>1. upc' = [upc EXCEPT ![u] = "switched"] /\ \E c \in CmdSet : Sends(u, "switched", c)
      BY <2>2, AskingWell DEF CmdOp, Asking, Awaits
    <3> QED BY <1>17, <3>1, DriverMoves DEF AwaitGreen
  <2> QED BY <1>17, <2>1, <2>2 DEF AwaitGreen
<1>18. CASE Healthy(u)
  <2>1. PICK w \in {"ok", "err"} : Ask("ready", u, w, "switched") BY <1>18 DEF Healthy
  <2>2. upc' = [upc EXCEPT ![u] = "switched"] /\ \E c \in CmdSet : Sends(u, "switched", c)
    BY <2>1, AskingWell DEF CmdOp, Asking, Awaits
  <2> QED BY <1>18, <2>2, DriverMoves DEF Healthy
<1> QED
  BY <1>1, <1>2, <1>3, <1>4, <1>5, <1>6, <1>7, <1>8, <1>9, <1>10, <1>11, <1>12, <1>13, <1>14, <1>15,
     <1>16, <1>17, <1>18 DEF Driving

\* The queue begins empty.
LEMMA QueueInitHolds == UpInit => QueueInv
<1> SUFFICES ASSUME UpInit PROVE QueueInv OBVIOUS
<1>1. ucmds \in Seq(CmdSet) /\ Len(ucmds) = 0 BY EmptySeq DEF UpInit
<1>2. QueueTypes BY <1>1 DEF UpInit, QueueTypes, Status, Pc
<1>3. AsksAreAwaited /\ AsksAreOne
      /\ PhasesAreDriven BY <1>1 DEF AsksAreAwaited, AsksAreOne, PhasesAreDriven
<1>4. AnswersAreAwaited /\ EndedAreDone /\ NewAreOff
  BY DEF UpInit, AnswersAreAwaited, EndedAreDone, NewAreOff, Terminal
<1> QED BY <1>2, <1>3, <1>4 DEF QueueInv

\* What steps of nodes and of late workers leave alone.
QueueLeft == UNCHANGED <<uworld, ustatus, upc, uans, ucmds>>

\* A step is of the gate, of a driver, of base, or one of those (node.rs, candidate.rs).
LEMMA NodesLeaveQueue ==
  ASSUME UpNext
  PROVE  \/ \E u \in Proposal : Propose(u) \/ (\E a \in BOOLEAN : Verdict(u, a)) \/ Driving(u)
         \/ Base \/ QueueLeft
BY DEF UpNext, Nodes, Terminate, OnExit, Register, NodeDies, SpeaksLate, QueueLeft

\* The queue is kept by every step.
LEMMA QueueNextKeeps == QueueInv /\ [UpNext]_upVars => QueueInv'
<1> SUFFICES ASSUME QueueInv, [UpNext]_upVars PROVE QueueInv' OBVIOUS
<1>1. CASE QueueLeft \/ UNCHANGED upVars
  BY <1>1 DEF QueueLeft, upVars, QueueInv, QueueTypes, AsksAreAwaited, AsksAreOne, AnswersAreAwaited,
              PhasesAreDriven, EndedAreDone, NewAreOff
<1>2. ASSUME NEW u \in Proposal, Propose(u) PROVE QueueInv' BY <1>2, ProposeKeepsQueue
<1>3. ASSUME NEW u \in Proposal, NEW a \in BOOLEAN, Verdict(u, a) PROVE QueueInv' BY <1>3,
             VerdictKeepsQueue
<1>4. ASSUME NEW u \in Proposal, Driving(u) PROVE QueueInv'
  BY <1>4, DrivingIsDriverStep, DriverStepKeepsQueue
<1>5. CASE Base BY <1>5, BaseKeepsQueue
<1> QED BY <1>1, <1>2, <1>3, <1>4, <1>5, NodesLeaveQueue

\* A row that says promoted or rolled back is never written again (upgrade.rs: the end
\* comes from the driver once, and after everything else it sent).
LEMMA EndedStays ==
  ASSUME QueueInv, UpNext, NEW u \in Proposal, ustatus[u] \in Terminal
  PROVE  ustatus'[u] = ustatus[u]
<1>0. ustatus \in [Proposal -> Status] /\ upc[u] = "done" /\ ustatus[u] # "new"
  BY DEF QueueInv, QueueTypes, EndedAreDone, Terminal
<1>1. CASE QueueLeft BY <1>1 DEF QueueLeft
<1>2. ASSUME NEW w \in Proposal, Propose(w) PROVE ustatus'[u] = ustatus[u]
  <2>1. \E s \in Status : ustatus' = [ustatus EXCEPT ![w] = s] /\ w # u
    BY <1>0, <1>2 DEF Propose, Start, Status
  <2> QED BY <1>0, <2>1
<1>3. ASSUME NEW w \in Proposal, NEW a \in BOOLEAN, Verdict(w, a) PROVE ustatus'[u] = ustatus[u]
  BY <1>3 DEF Verdict
<1>4. ASSUME NEW w \in Proposal, Driving(w) PROVE ustatus'[u] = ustatus[u]
  BY <1>4, DrivingIsDriverStep DEF DriverStep, Advances
<1>5. CASE Base
  <2>1. PICK c \in CmdSet : c = Head(ucmds) BY <1>5, QueueRest
  <2>2. c.u \in Proposal /\ c = ucmds[1] /\ 1 \in 1 .. Len(ucmds) BY <1>5, <2>1, QueueRest
  <2>3. CASE c.op = "approved" /\ Approved(c.u, c.v)
    <3>1. upc[c.u] = "waiting" BY <2>2, <2>3 DEF QueueInv, AsksAreAwaited, Awaits, Asking
    <3>2. c.u # u BY <3>1, <1>0
    <3> QED BY <2>3, <3>2, <1>0 DEF Approved, Start
  <2>4. CASE c.op = "phase" /\ Update(c.u, c.v)
    <3>1. ustatus[c.u] \notin Terminal BY <2>2, <2>4 DEF QueueInv, PhasesAreDriven
    <3>2. c.u # u BY <3>1
    <3> QED BY <2>4, <3>2, <1>0 DEF Update
  <2>5. CASE ustatus' = ustatus BY <2>5
  <2> QED BY <1>5, <2>1, <2>3, <2>4, <2>5 DEF Base
<1> QED BY <1>1, <1>2, <1>3, <1>4, <1>5, NodesLeaveQueue

\* A proposal that ended stays as it ended, whatever is still on its way to base and
\* whoever else is driven (upgrade.rs, set_upgrade()).
THEOREM ProposalsStayEnded == UpSpec => EndsAreFinal
<1>1. UpInit => QueueInv BY QueueInitHolds
<1>2. QueueInv /\ [UpNext]_upVars => QueueInv' BY QueueNextKeeps
<1>3. QueueInv /\ [UpNext]_upVars =>
        [\A u \in Proposal : ustatus[u] \in Terminal => ustatus'[u] = ustatus[u]]_upVars
  BY EndedStays
<1> QED BY <1>1, <1>2, <1>3, PTL DEF UpSpec, EndsAreFinal

-----------------------------------------------------------------------------
(* The names, whoever else is driven. *)

\* The proposal u may be at p.
MayBeAt(u, p) ==
  /\ p \in {"swap", "mount"} => target(u) \in {"plugin", "worker"}
  /\ p = "patched" => target(u) = "config"
  /\ p \in {"staged", "polling", "health", "switched"} => target(u) = "kernel"

\* A driver goes on to where its target has something to do, and past verify() only with a
\* comparison that was passed (drive.rs).
LEMMA DriverFits ==
  ASSUME NEW u \in Proposal, QueueInv, VerifyInv, Driving(u)
  PROVE  /\ uworld' = uworld /\ verified \subseteq verified' /\ verified' \subseteq Proposal
         /\ \E p \in Pc : upc' = [upc EXCEPT ![u] = p] /\ MayBeAt(u, p)
            /\ (p \in AfterVerify => u \in verified')
<1>0. /\ MayBeAt(u, upc[u]) /\ (upc[u] \in AfterVerify => u \in verified)
         /\ verified \subseteq Proposal
      /\ DOMAIN canary = {"plugin", "worker"}
  BY DEF VerifyInv, PcsFit, MayBeAt, VerifiedFirst, HoldTypes
<1> USE <1>0 DEF Pc, MayBeAt, AfterVerify, Quiet
<1>1. CASE Snapshot(u)
  BY <1>1 DEF Snapshot, Snap, PluginSnapshot, WorkerSnapshot, KernelSnapshot, ConfigSnapshot, Go
<1>2. ASSUME NEW r \in 0 .. 1, Baseline(u, r)
      PROVE  /\ uworld' = uworld /\ verified \subseteq verified' /\ verified' \subseteq Proposal
             /\ \E p \in Pc : upc' = [upc EXCEPT ![u] = p] /\ MayBeAt(u, p)
                /\ (p \in AfterVerify => u \in verified')
  BY <1>2 DEF Baseline, Ask, Go
<1>3. CASE Baselined(u) BY <1>3 DEF Baselined, Go
<1>4. CASE CanaryUp(u) BY <1>4 DEF CanaryUp, PluginCanary, WorkerCanary, KernelCanary, ConfigCanary,
      Go
<1>5. CASE Conformance(u) BY <1>5 DEF Conformance, Go
<1>6. CASE Verify(u) BY <1>6 DEF Verify, Ask, Go
<1>7. ASSUME NEW r \in 0 .. 1, Guarded(u, r)
      PROVE  /\ uworld' = uworld /\ verified \subseteq verified' /\ verified' \subseteq Proposal
             /\ \E p \in Pc : upc' = [upc EXCEPT ![u] = p] /\ MayBeAt(u, p)
                /\ (p \in AfterVerify => u \in verified')
  BY <1>7 DEF Guarded, Ask, Go
<1>8. CASE Compared(u) BY <1>8 DEF Compared, Go
<1>9. CASE DropCanary(u) BY <1>9 DEF DropCanary, Go
<1>10. CASE DropOld(u) BY <1>10 DEF DropOld, Go
<1>11. CASE Mount(u) BY <1>11 DEF Mount, PluginMount, WorkerMount, Ask, Go
<1>12. CASE Patch(u) BY <1>12 DEF Patch, Ask, Go
<1>13. CASE Patched(u) BY <1>13 DEF Patched, Go
<1>14. CASE Rollback(u) BY <1>14 DEF Rollback, Go
<1>15. CASE Stage(u) BY <1>15 DEF Stage, Ask, Go
<1>16. CASE Staged(u) BY <1>16 DEF Staged, Go
<1>17. CASE AwaitGreen(u) BY <1>17 DEF AwaitGreen, Ask, Go
<1>18. CASE Healthy(u) BY <1>18 DEF Healthy, Ask, Go
<1> QED
  BY <1>1, <1>2, <1>3, <1>4, <1>5, <1>6, <1>7, <1>8, <1>9, <1>10, <1>11, <1>12, <1>13, <1>14, <1>15,
     <1>16, <1>17, <1>18 DEF Driving

\* And so every driver is still where it may be.
LEMMA DriversFit ==
  ASSUME NEW u \in Proposal, QueueInv, VerifyInv, Driving(u)
  PROVE  PcsFit' /\ VerifiedFirst'
<1>1. uworld' = uworld /\ verified \subseteq verified' /\ upc \in [Proposal -> Pc]
  BY DriverFits DEF QueueInv, QueueTypes
<1>2. PICK p \in Pc : upc' = [upc EXCEPT ![u] = p] /\ MayBeAt(u, p)
                      /\ (p \in AfterVerify => u \in verified')
  BY DriverFits
<1>3. upc'[u] = p /\ \A w \in Proposal : w # u => upc'[w] = upc[w] BY <1>1, <1>2
<1>4. PcsFit' BY <1>1, <1>2, <1>3 DEF VerifyInv, PcsFit, MayBeAt, target
<1>5. VerifiedFirst' BY <1>1, <1>2, <1>3 DEF VerifyInv, VerifiedFirst
<1> QED BY <1>4, <1>5

\* Names that are left alone serve as before.
LEMMA OldServesLeft ==
  ASSUME VerifyInv, slot' = slot, blue' = blue, uworld' = uworld, verified \subseteq verified'
  PROVE  OldServesUntilVerified'
BY DEF VerifyInv, OldServesUntilVerified, Of, target

\* One name changes hands.
LEMMA OldServesAt ==
  ASSUME VerifyInv, NEW t \in Names, NEW h \in Holder, slot' = [slot EXCEPT ![t] = h],
         blue' = blue, uworld' = uworld, verified \subseteq verified',
         \/ h = "old" \/ h \in verified'
         \/ (h = "none" /\ \E w \in Proposal : target(w) = t /\ w \in verified')
  PROVE  OldServesUntilVerified' /\ slot' \in [Names -> Holder]
<1>1. slot \in [Names -> Holder] BY DEF VerifyInv, HoldTypes
<1>2. slot' \in [Names -> Holder] /\ slot'[t] = h
      /\ \A n \in Names : n # t => slot'[n] = slot[n] BY <1>1
<1>3. ASSUME NEW n \in Target
      PROVE  LET holder == IF n = "kernel" THEN blue' ELSE slot'[n] IN
             holder # "old" => \/ holder \in verified'
                               \/ holder = "none" /\ Of(n) \cap verified' # {}
  <2>1. CASE n = t
    <3>1. n # "kernel" /\ slot'[n] = h BY <2>1, <1>2 DEF Names
    <3>2. CASE h = "none" /\ \E w \in Proposal : target(w) = t /\ w \in verified'
      BY <2>1, <3>1, <3>2 DEF Of
    <3> QED BY <2>1, <3>1, <3>2
  <2>2. CASE n # t
    <3>1. n = "kernel" \/ (n \in Names /\ slot'[n] = slot[n]) BY <2>2, <1>2 DEF Target, Names
    <3>2. LET holder == IF n = "kernel" THEN blue ELSE slot[n] IN
          holder # "old" => \/ holder \in verified
                            \/ holder = "none" /\ Of(n) \cap verified # {}
      BY DEF VerifyInv, OldServesUntilVerified
    <3> QED BY <3>1, <3>2
  <2> QED BY <2>1, <2>2
<1> QED BY <1>2, <1>3 DEF OldServesUntilVerified, Of, target

\* What was taken aside of a configuration was verified, or was there before.
LEMMA SnapLeft ==
  ASSUME VerifyInv, uworld' = uworld, verified \subseteq verified', NEW u \in Proposal,
         NEW h \in Holder,
         usnap' = usnap \/ usnap' = [usnap EXCEPT ![u] = h],
         target(u) = "config" => h \in {"none", "old"} \cup verified' \/ usnap' = usnap
  PROVE  SnapIsVerified' /\ usnap' \in [Proposal -> Holder]
<1>1. usnap \in [Proposal -> Holder] BY DEF VerifyInv, HoldTypes
<1>2. CASE usnap' = usnap BY <1>1, <1>2 DEF VerifyInv, SnapIsVerified, target
<1>3. CASE usnap' = [usnap EXCEPT ![u] = h]
  <2>1. usnap' \in [Proposal -> Holder] /\ usnap'[u] = h
        /\ \A w \in Proposal : w # u => usnap'[w] = usnap[w]
    BY <1>1, <1>3
  <2>2. target(u) = "config" => usnap'[u] \in {"none", "old"} \cup verified'
    BY <2>1 DEF VerifyInv, SnapIsVerified
  <2> QED BY <2>1, <2>2 DEF VerifyInv, SnapIsVerified, target
<1> QED BY <1>2, <1>3

\* Names and nodes as they were.
NodesLeft == UNCHANGED <<blue, green, procs, regs, exits>>

\* A step that leaves them so, and verifies no less, keeps what is known of them.
LEMMA NamesLeft ==
  ASSUME VerifyInv, uworld' = uworld, verified \subseteq verified', verified' \subseteq Proposal,
         UNCHANGED <<usnap, slot, canary, silent>>, NodesLeft
  PROVE  HoldTypes' /\ GreenIsVerified' /\ SnapIsVerified' /\ SilentIsVerified'
         /\ OldServesUntilVerified'
<1>1. HoldTypes' BY DEF VerifyInv, HoldTypes, NodesLeft
<1>2. GreenIsVerified' BY DEF VerifyInv, GreenIsVerified, NodesLeft
<1>3. SnapIsVerified' /\ SilentIsVerified' BY DEF VerifyInv, SnapIsVerified, SilentIsVerified, target
<1>4. OldServesUntilVerified' BY OldServesLeft DEF NodesLeft
<1> QED BY <1>1, <1>2, <1>3, <1>4

\* A driver takes a name over only with what was verified, and gives it back only to what
\* was there before it or was verified itself (drive.rs, candidate.rs).
LEMMA DrivingKeepsNames ==
  ASSUME NEW u \in Proposal, QueueInv, VerifyInv, Driving(u)
  PROVE  HoldTypes' /\ GreenIsVerified' /\ SnapIsVerified' /\ SilentIsVerified'
         /\ OldServesUntilVerified'
<1>0. /\ uworld' = uworld /\ verified \subseteq verified' /\ verified' \subseteq Proposal
      /\ usnap \in [Proposal -> Holder] /\ slot \in [Names -> Holder]
      /\ canary \in [{"plugin", "worker"} -> Holder]
         /\ silent \subseteq Proposal \X {"canary", "worker"}
      /\ uworld.target \in [Proposal -> Target] /\ target(u) \in Target
      /\ blue \in UpNode /\ green \in Holder /\ regs \subseteq UpNode /\ procs \subseteq UpNode
      /\ exits \subseteq UpNode /\ SilentIsVerified
  BY DriverFits DEF VerifyInv, HoldTypes, target
<1>1. CASE UNCHANGED <<usnap, slot, canary, silent>> /\ NodesLeft BY <1>0, <1>1, NamesLeft
<1>2. CASE Snapshot(u)
  <2>1. UNCHANGED <<slot, canary, silent>> /\ NodesLeft
    BY <1>2 DEF Snapshot, NodesLeft, nodeVars, holdVars
  <2>2. PICK h \in Holder : /\ usnap' = usnap \/ usnap' = [usnap EXCEPT ![u] = h]
                            /\ usnap' = usnap \/ (target(u) = "config" => h = slot["config"])
    BY <1>2, <1>0 DEF Snapshot, Snap, PluginSnapshot, WorkerSnapshot, KernelSnapshot,
    ConfigSnapshot, Names,
                      Holder, UpNode
  <2>3. slot["config"] \in {"none", "old"} \cup verified BY DEF VerifyInv, OldServesUntilVerified,
        Target
  <2>4. SnapIsVerified' /\ usnap' \in [Proposal -> Holder] BY <1>0, <2>2, <2>3, SnapLeft
  <2>5. OldServesUntilVerified' BY <1>0, <2>1, OldServesLeft DEF NodesLeft
  <2> QED BY <1>0, <2>1, <2>4, <2>5
        DEF VerifyInv, HoldTypes, GreenIsVerified, SilentIsVerified, NodesLeft
<1>3. CASE AwaitGreen(u)
  <2>1. UNCHANGED <<slot, canary, silent>> /\ NodesLeft
    BY <1>3 DEF AwaitGreen, NodesLeft, nodeVars, holdVars
  <2>2. target(u) = "kernel" BY <1>3 DEF AwaitGreen, VerifyInv, PcsFit
  <2>3. usnap' = usnap \/ usnap' = [usnap EXCEPT ![u] = green] BY <1>3 DEF AwaitGreen
  <2>4. PICK h \in Holder : h = green BY <1>0
  <2>5. SnapIsVerified' /\ usnap' \in [Proposal -> Holder] BY <1>0, <2>2, <2>3, <2>4, SnapLeft
  <2>6. OldServesUntilVerified' BY <1>0, <2>1, OldServesLeft DEF NodesLeft
  <2> QED BY <1>0, <2>1, <2>5, <2>6
        DEF VerifyInv, HoldTypes, GreenIsVerified, SilentIsVerified, NodesLeft
<1>4. CASE CanaryUp(u) \/ DropCanary(u)
  <2>1. UNCHANGED <<usnap, slot>> /\ NodesLeft
    BY <1>4 DEF CanaryUp, DropCanary, NodesLeft, nodeVars
  <2>2. canary' \in [{"plugin", "worker"} -> Holder]
    BY <1>4, <1>0 DEF CanaryUp, DropCanary, Uncanary, PluginCanary, WorkerCanary, KernelCanary,
    ConfigCanary, Holder
  <2>3. silent' = silent \/ silent' = silent \cup {<<u, "canary">>}
    BY <1>4 DEF CanaryUp, DropCanary, PluginCanary, WorkerCanary, KernelCanary, ConfigCanary
  <2>5. silent' \subseteq Proposal \X {"canary", "worker"} /\ SilentIsVerified'
    BY <1>0, <2>3 DEF SilentIsVerified
  <2>4. OldServesUntilVerified' BY <1>0, <2>1, OldServesLeft DEF NodesLeft
  <2> QED BY <1>0, <2>1, <2>2, <2>4, <2>5
        DEF VerifyInv, HoldTypes, GreenIsVerified, NodesLeft, SnapIsVerified, target
<1>5. CASE DropOld(u) \/ Mount(u) \/ Rollback(u)
  <2>1. UNCHANGED usnap /\ NodesLeft
    BY <1>5 DEF DropOld, Mount, Rollback, NodesLeft, nodeVars
  <2>3. canary' \in [{"plugin", "worker"} -> Holder]
    BY <1>5, <1>0 DEF DropOld, Mount, Rollback, Uncanary, Holder
  <2>2. silent' = silent \/ (silent' = silent \cup {<<u, "worker">>} /\ upc[u] = "mount")
    BY <1>5 DEF DropOld, Mount, Rollback, PluginMount, WorkerMount
  <2>4. silent' \subseteq Proposal \X {"canary", "worker"} /\ SilentIsVerified'
    <3>1. upc[u] = "mount" => u \in verified' BY <1>0 DEF VerifyInv, VerifiedFirst, AfterVerify
    <3> QED BY <1>0, <2>2, <3>1 DEF SilentIsVerified
  <2>5. OldServesUntilVerified' /\ slot' \in [Names -> Holder]
    <3>1. CASE slot' = slot BY <3>1, <1>0, <2>1, OldServesLeft DEF NodesLeft
    <3>2. CASE DropOld(u)
      <4>1. u \in verified /\ target(u) \in Names
        BY <3>2 DEF DropOld, VerifyInv, VerifiedFirst, PcsFit, AfterVerify, Names
      <4>2. slot' = slot \/ slot' = [slot EXCEPT ![target(u)] = "none"]
        BY <1>0, <3>2, <4>1 DEF DropOld
      <4>3. PICK t \in Names : t = target(u) BY <4>1
      <4>4. PICK h \in Holder : h = "none" BY DEF Holder
      <4> QED BY <1>0, <2>1, <3>1, <4>1, <4>2, <4>3, <4>4, OldServesAt DEF NodesLeft
    <3>3. CASE Mount(u)
      <4>1. u \in verified /\ target(u) \in Names
        BY <3>3 DEF Mount, VerifyInv, VerifiedFirst, PcsFit, AfterVerify, Names
      <4>2. slot' = slot \/ slot' = [slot EXCEPT ![target(u)] = u]
        BY <3>3 DEF Mount, PluginMount, WorkerMount
      <4>3. PICK t \in Names : t = target(u) BY <4>1
      <4>4. PICK h \in Holder : h = u BY DEF Holder
      <4> QED BY <1>0, <2>1, <3>1, <4>1, <4>2, <4>3, <4>4, OldServesAt DEF NodesLeft
    <3>4. CASE Rollback(u)
      <4>1. slot' = slot \/ (slot' = [slot EXCEPT !["config"] = usnap[u]] /\ usnap[u] # "none"
                             /\ target(u) = "config")
        BY <3>4 DEF Rollback, Restored
      <4>2. target(u) = "config" => usnap[u] \in {"none", "old"} \cup verified
        BY DEF VerifyInv, SnapIsVerified
      <4>3. PICK t \in Names : t = "config" BY DEF Names
      <4>4. PICK h \in Holder : h = usnap[u] BY <1>0
      <4> QED BY <1>0, <2>1, <3>1, <4>1, <4>2, <4>3, <4>4, OldServesAt DEF NodesLeft
    <3> QED BY <1>5, <3>2, <3>3, <3>4
  <2> QED BY <1>0, <2>1, <2>3, <2>4, <2>5
        DEF VerifyInv, HoldTypes, GreenIsVerified, NodesLeft, SnapIsVerified, target
<1> QED
  <2>1. CASE \E r \in 0 .. 1 : Baseline(u, r) \/ Guarded(u, r)
    BY <2>1, <1>1 DEF Baseline, Guarded, NodesLeft, nodeVars, holdVars
  <2>2. CASE Baselined(u) \/ Conformance(u) \/ Verify(u) \/ Compared(u)
    BY <2>2, <1>1 DEF Baselined, Conformance, Verify, Compared, NodesLeft, nodeVars, holdVars
  <2>3. CASE Patch(u) \/ Patched(u) \/ Stage(u) \/ Staged(u) \/ Healthy(u)
    BY <2>3, <1>1 DEF Patch, Patched, Stage, Staged, Healthy, NodesLeft, nodeVars, holdVars
  <2> QED BY <1>2, <1>3, <1>4, <1>5, <2>1, <2>2, <2>3 DEF Driving

\* Base patches and switches only for who was verified (upgrade.rs, bluegreen.rs).
LEMMA BaseKeepsNames ==
  ASSUME QueueInv, VerifyInv, Base
  PROVE  VerifyInv'
<1>0. PICK c \in CmdSet : c = Head(ucmds) BY QueueRest
<1>00. /\ c.u \in Proposal /\ c = ucmds[1] /\ 1 \in 1 .. Len(ucmds)
       /\ uworld' = uworld /\ verified' = verified /\ UNCHANGED <<usnap, canary, silent>>
       /\ slot \in [Names -> Holder] /\ verified \subseteq Proposal
       /\ blue \in UpNode /\ green \in Holder /\ regs \subseteq UpNode /\ procs \subseteq UpNode
       /\ upc \in [Proposal -> Pc]
  BY <1>0, QueueRest DEF Base, VerifyInv, HoldTypes, QueueInv, QueueTypes
<1>1. c.op \in {"patch", "switch"} => c.u \in verified
  BY <1>00 DEF QueueInv, AsksAreAwaited, Asking, Awaits, VerifyInv, VerifiedFirst, AfterVerify
<1>2. \A w \in Proposal : upc'[w] # upc[w] => upc'[w] \in {"snapshot", "done"}
  <2>1. CASE upc' = upc BY <2>1
  <2>2. CASE Approved(c.u, c.v) BY <2>2, <1>00 DEF Approved, Start
  <2> QED BY <1>0, <2>1, <2>2 DEF Base
<1>3. PcsFit' BY <1>2, <1>00 DEF VerifyInv, PcsFit, target
<1>4. VerifiedFirst' BY <1>2, <1>00 DEF VerifyInv, VerifiedFirst, AfterVerify
<1>5. CASE UNCHANGED <<slot, blue, green, procs, regs, exits>>
  BY <1>00, <1>3, <1>4, <1>5, NamesLeft DEF NodesLeft, VerifyInv
<1>6. CASE NodesStay /\ slot' # slot
  <2>1. ASSUME c.op = "patch", slot' = [slot EXCEPT !["config"] = c.u]
        PROVE  OldServesUntilVerified' /\ slot' \in [Names -> Holder]
    <3>1. PICK t \in Names : t = "config" BY DEF Names
    <3>2. PICK h \in Holder : h = c.u BY <1>00 DEF Holder
    <3> QED BY <1>00, <1>1, <1>6, <2>1, <3>1, <3>2, OldServesAt DEF NodesStay
  <2>2. ASSUME Fallback PROVE OldServesUntilVerified' /\ slot' \in [Names -> Holder]
    <3>1. slot' = [slot EXCEPT !["worker"] = "old"] BY <1>6, <1>00, <2>2 DEF Fallback, Names
    <3>2. PICK t \in Names : t = "worker" BY DEF Names
    <3>3. PICK h \in Holder : h = "old" BY DEF Holder
    <3> QED BY <1>00, <1>6, <3>1, <3>2, <3>3, OldServesAt DEF NodesStay
  <2>3. OldServesUntilVerified' /\ slot' \in [Names -> Holder] BY <1>0, <1>6, <2>1, <2>2 DEF Base
  <2> QED BY <1>00, <1>3, <1>4, <1>6, <2>3
        DEF NodesStay, VerifyInv, HoldTypes, GreenIsVerified, SnapIsVerified, SilentIsVerified, target
<1>7. CASE slot' = slot /\ exits' = exits
           /\ ((c.op = "switch" /\ Switch(c.u)) \/ DropGreen \/ (green # "none" /\ Ready) \/ Drain)
  <2>1. green' \in verified \cup {"none"} /\ green' \in Holder
    BY <1>00, <1>1, <1>7 DEF Switch, DropGreen, Ready, Drain, VerifyInv, GreenIsVerified, Holder
  <2>2. blue' = blue \/ blue' \in verified
    BY <1>7 DEF Switch, DropGreen, Ready, Drain, VerifyInv, GreenIsVerified
  <2>3. blue' \in UpNode /\ procs' \subseteq UpNode /\ regs' \subseteq UpNode
    BY <1>7, <1>00, <2>2 DEF Switch, DropGreen, Ready, Drain, UpNode
  <2>4. OldServesUntilVerified'
    <3>1. CASE blue' = blue BY <3>1, <1>7, <1>00, OldServesLeft
    <3>2. CASE blue' \in verified
      BY <3>2, <1>7, <1>00 DEF VerifyInv, OldServesUntilVerified, Of, target
    <3> QED BY <2>2, <3>1, <3>2
  <2> QED BY <1>00, <1>3, <1>4, <1>7, <2>1, <2>3, <2>4
        DEF VerifyInv, HoldTypes, GreenIsVerified, SnapIsVerified, SilentIsVerified, target
<1>8. \/ UNCHANGED <<slot, blue, green, procs, regs, exits>>
      \/ NodesStay
      \/ slot' = slot /\ exits' = exits
           /\ ((c.op = "switch" /\ Switch(c.u)) \/ DropGreen \/ (green # "none" /\ Ready) \/ Drain)
  BY <1>0 DEF Base, NodesStay, Switch, DropGreen, Ready, Drain
<1> QED BY <1>5, <1>6, <1>7, <1>8 DEF NodesStay

\* Proposals and verdicts are before every driver (upgrade_propose(), upgrade_ask()).
LEMMA GateKeepsNames ==
  ASSUME NEW u \in Proposal, QueueInv, VerifyInv, Propose(u) \/ \E a \in BOOLEAN : Verdict(u, a)
  PROVE  VerifyInv'
<1>1. /\ UNCHANGED <<uworld, usnap, slot, canary, silent, verified>> /\ NodesLeft
      /\ upc \in [Proposal -> Pc]
  BY DEF Propose, Verdict, NodesLeft, nodeVars, holdVars, QueueInv, QueueTypes
<1>2. \E p \in {"snapshot", "done", "gate", "waiting"} : upc' = [upc EXCEPT ![u] = p]
  BY DEF Propose, Verdict, Start
<1>3. \A w \in Proposal : upc'[w] # upc[w] => upc'[w] \in {"snapshot", "done", "gate", "waiting"}
  BY <1>1, <1>2
<1>4. PcsFit' /\ VerifiedFirst'
  BY <1>1, <1>3 DEF VerifyInv, PcsFit, target, VerifiedFirst, AfterVerify
<1>5. verified' \subseteq Proposal BY <1>1 DEF VerifyInv, HoldTypes
<1> QED BY <1>1, <1>4, <1>5, NamesLeft DEF VerifyInv

\* A step of a node.
NodeStep == Terminate \/ (\E n \in exits : OnExit(n)) \/ (\E n \in procs : Register(n) \/ NodeDies(n))

\* Nodes come and go under the names base knows (node.rs, bluegreen.rs).
LEMMA NodesKeepNames ==
  ASSUME VerifyInv, NodeStep
  PROVE  VerifyInv'
<1>1. UNCHANGED <<uworld, upc, usnap, slot, canary, silent, verified, blue, green>>
  BY DEF NodeStep, Terminate, OnExit, Register, NodeDies, holdVars
<1>2. regs' \subseteq UpNode /\ procs' \subseteq UpNode /\ exits' \subseteq UpNode
  BY DEF NodeStep, Terminate, OnExit, Register, NodeDies, VerifyInv, HoldTypes, UpNode
<1>3. HoldTypes' BY <1>1, <1>2 DEF VerifyInv, HoldTypes
<1>4. OldServesUntilVerified' BY <1>1, OldServesLeft
<1> QED BY <1>1, <1>3, <1>4
      DEF VerifyInv, PcsFit, VerifiedFirst, GreenIsVerified, SnapIsVerified, SilentIsVerified, target

\* A worker that answers late may take a free name, which it was verified for (candidate.rs,
\* ready()).
LEMMA LateKeepsNames ==
  ASSUME VerifyInv, NEW s \in silent, SpeaksLate(s)
  PROVE  VerifyInv'
<1>1. UNCHANGED <<uworld, upc, usnap, verified>> /\ NodesLeft /\ silent' \subseteq silent
  BY DEF SpeaksLate, NodesLeft, nodeVars
<1>2. s[1] \in Proposal /\ s[2] \in {"canary", "worker"} BY DEF VerifyInv, HoldTypes
<1>3. canary' \in [{"plugin", "worker"} -> Holder]
  BY <1>2 DEF VerifyInv, HoldTypes, SpeaksLate, Holder
<1>4. OldServesUntilVerified' /\ slot' \in [Names -> Holder]
  <2>1. slot \in [Names -> Holder] BY DEF VerifyInv, HoldTypes
  <2>2. CASE slot' = slot BY <1>1, <2>1, <2>2, OldServesLeft DEF NodesLeft
  <2>3. CASE slot' # slot
    <3>1. s[2] = "worker" /\ slot' = [slot EXCEPT !["worker"] = s[1]]
      BY <1>2, <2>1, <2>3 DEF SpeaksLate, Names
    <3>2. PICK h \in Holder : h = s[1] BY <1>2 DEF Holder
    <3>3. h \in verified' BY <1>1, <3>1, <3>2 DEF VerifyInv, SilentIsVerified
    <3>4. PICK t \in Names : t = "worker" BY DEF Names
    <3> QED BY <1>1, <3>1, <3>2, <3>3, <3>4, OldServesAt DEF NodesLeft
  <2> QED BY <2>2, <2>3
<1> QED BY <1>1, <1>3, <1>4
      DEF VerifyInv, HoldTypes, PcsFit, VerifiedFirst, GreenIsVerified, SnapIsVerified,
          SilentIsVerified, target, NodesLeft

\* What UpNext is made of.
LEMMA UpStep ==
  ASSUME UpNext
  PROVE  \/ \E u \in Proposal : Propose(u) \/ \E a \in BOOLEAN : Verdict(u, a)
         \/ \E u \in Proposal : Driving(u)
         \/ Base \/ NodeStep \/ \E s \in silent : SpeaksLate(s)
BY DEF UpNext, Nodes, NodeStep

\* At first every name is with what was there.
LEMMA VerifyInitHolds == UpInit => VerifyInv
<1> SUFFICES ASSUME UpInit PROVE VerifyInv OBVIOUS
<1>1. HoldTypes BY UpgradeAssumption DEF UpInit, HoldTypes, Holder, UpNode, Names
<1>2. PcsFit /\ VerifiedFirst BY DEF UpInit, PcsFit, VerifiedFirst, AfterVerify
<1>3. GreenIsVerified /\ SnapIsVerified /\ SilentIsVerified
  BY DEF UpInit, GreenIsVerified, SnapIsVerified, SilentIsVerified
<1>4. OldServesUntilVerified BY DEF UpInit, OldServesUntilVerified, Target, Names
<1> QED BY <1>1, <1>2, <1>3, <1>4 DEF VerifyInv

\* Every step keeps what is known of names.
LEMMA VerifyNextKeeps == QueueInv /\ VerifyInv /\ [UpNext]_upVars => VerifyInv'
<1> SUFFICES ASSUME QueueInv, VerifyInv, [UpNext]_upVars PROVE VerifyInv' OBVIOUS
<1>1. CASE UNCHANGED upVars
  BY <1>1 DEF upVars, VerifyInv, HoldTypes, PcsFit, VerifiedFirst, GreenIsVerified, SnapIsVerified,
              SilentIsVerified, target, OldServesUntilVerified, Of
<1>2. ASSUME NEW u \in Proposal, Propose(u) \/ \E a \in BOOLEAN : Verdict(u, a) PROVE VerifyInv'
  BY <1>2, GateKeepsNames
<1>3. ASSUME NEW u \in Proposal, Driving(u) PROVE VerifyInv'
  BY <1>3, DriversFit, DrivingKeepsNames DEF VerifyInv
<1>4. CASE Base BY <1>4, BaseKeepsNames
<1>5. CASE NodeStep BY <1>5, NodesKeepNames
<1>6. ASSUME NEW s \in silent, SpeaksLate(s) PROVE VerifyInv' BY <1>6, LateKeepsNames
<1> QED BY <1>1, <1>2, <1>3, <1>4, <1>5, <1>6, UpStep

\* With any number of proposals for the same name driven at once, killed nodes and late
\* workers, failed mounts and unmounts, what serves is what was there before or what passed
\* verify() (drive.rs, candidate.rs, bluegreen.rs).
THEOREM NamesNeedVerification == UpSpec => []OldServesUntilVerified
<1>1. UpInit => QueueInv /\ VerifyInv BY QueueInitHolds, VerifyInitHolds
<1>2. QueueInv /\ VerifyInv /\ [UpNext]_upVars
      => (QueueInv /\ VerifyInv)' BY QueueNextKeeps, VerifyNextKeeps
<1>3. VerifyInv => OldServesUntilVerified BY DEF VerifyInv
<1> QED BY <1>1, <1>2, <1>3, PTL DEF UpSpec

-----------------------------------------------------------------------------
(* The node, with one kernel upgrade. *)

KernelPc == {"staged", "polling", "health", "switched"}

\* What is known of a driver that moves: its own place, and that of the others.
LEMMA MovesFacts ==
  ASSUME NEW u \in Proposal, QueueInv, DriverStep(u)
  PROVE  /\ upc'[u] \in Pc \ Before /\ uans'[u] = "none" /\ uworld' = uworld /\ ustatus' = ustatus
         /\ \A w \in Proposal : w # u => upc'[w] = upc[w] /\ uans'[w] = uans[w]
         /\ upc[u] \notin Undriven /\ (upc[u] \in WaitPc => uans[u] # "none")
BY DEF DriverStep, Advances, QueueInv, QueueTypes

\* Of the queue: what was there is there, and what is new is the driver's and right.
LEMMA MovesQueue ==
  ASSUME NEW u \in Proposal, QueueInv, DriverStep(u)
  PROVE  /\ Len(ucmds) \in Nat /\ Len(ucmds') \in Nat
         /\ \A i \in 1 .. Len(ucmds) : i \in 1 .. Len(ucmds') /\ ucmds'[i] = ucmds[i]
         /\ \A i \in 1 .. Len(ucmds') : i \in 1 .. Len(ucmds) \/
              (i = Len(ucmds) + 1 /\ ucmds'[i].u = u /\ SentRight(ucmds'[i], upc'[u]))
<1>0. ucmds \in Seq(CmdSet) /\ upc \in [Proposal -> Pc] /\ Len(ucmds) \in Nat
  BY LenProperties DEF QueueInv, QueueTypes
<1> PICK p \in Pc : Advances(u, p) /\ (ucmds' = ucmds \/ \E c \in CmdSet : Sends(u, p, c))
  BY DEF DriverStep
<1>1. upc'[u] = p BY <1>0 DEF Advances
<1>2. CASE ucmds' = ucmds BY <1>0, <1>2
<1>3. CASE \E c \in CmdSet : Sends(u, p, c)
  <2> PICK c \in CmdSet : Sends(u, p, c) BY <1>3
  <2>1. PICK q : q = ucmds' OBVIOUS
  <2>2. q = Append(ucmds, c) /\ c.u = u /\ SentRight(c, p) BY <2>1 DEF Sends
  <2>3. /\ q \in Seq(CmdSet) /\ Len(q) = Len(ucmds) + 1 /\ q[Len(ucmds) + 1] = c
        /\ \A i \in 1 .. Len(ucmds) : q[i] = ucmds[i]
    BY <1>0, <2>2, QueueAppend
  <2> QED BY <1>0, <1>1, <2>1, <2>2, <2>3
<1> QED BY <1>2, <1>3

\* Whatever a driver that is not at its switch does, the node is left alone.
LEMMA OthersKeepNode ==
  ASSUME NEW u \in Proposal, QueueInv, OneKernel, NodeGood, DriverStep(u),
         upc[u] \notin KernelPc, upc'[u] \notin {"health", "switched"}, UNCHANGED nodeVars,
         \A w \in Proposal : w # u => usnap'[w] = usnap[w]
  PROVE  NodeGood'
<1>1. /\ upc'[u] \in Pc \ Before /\ uans'[u] = "none" /\ uworld' = uworld
      /\ \A w \in Proposal : w # u => upc'[w] = upc[w] /\ uans'[w] = uans[w]
      /\ upc[u] \notin Undriven
  BY MovesFacts
<1>2. UNCHANGED <<blue, green, procs, draining, dropping, checked>> BY DEF nodeVars
<1>3. GreenIsSwitched' BY <1>1, <1>2 DEF NodeGood, GreenIsSwitched, KernelPc, target
<1>4. DrainedOnce' BY <1>1, <1>2 DEF NodeGood, DrainedOnce, KernelPc, Undriven, target
<1>5. HealthIsGreens' BY <1>1 DEF NodeGood, HealthIsGreens
<1>6. ReadyIsChecked'
  <2>1. \A i \in 1 .. Len(ucmds') : ucmds'[i].op = "ready" => i \in 1 .. Len(ucmds)
        /\ ucmds'[i] = ucmds[i]
    BY MovesQueue DEF SentRight, Asking, Awaits
  <2> QED BY <1>2, <2>1 DEF NodeGood, ReadyIsChecked
<1>7. BlueIsChecked' BY <1>2 DEF NodeGood, BlueIsChecked
<1> QED BY <1>3, <1>4, <1>5, <1>6, <1>7 DEF NodeGood

\* A driver at its switch: it learns the answer, finds the green node, checks it, ends
\* (bluegreen.rs).
LEMMA SwitchersKeepNode ==
  ASSUME NEW u \in Proposal, QueueInv, VerifyInv, OneKernel, NodeGood, DriverStep(u),
         Staged(u) \/ AwaitGreen(u) \/ Healthy(u) \/ Patched(u)
  PROVE  NodeGood'
<1>1. /\ upc'[u] \in Pc \ Before /\ uans'[u] = "none" /\ uworld' = uworld
      /\ \A w \in Proposal : w # u => upc'[w] = upc[w] /\ uans'[w] = uans[w]
      /\ (upc[u] \in WaitPc => uans[u] # "none") /\ upc \in [Proposal -> Pc]
  BY MovesFacts DEF QueueInv, QueueTypes
<1>2. UNCHANGED <<blue, green, procs, draining, dropping>> /\ checked \subseteq checked'
  BY DEF Staged, AwaitGreen, Healthy, Patched, nodeVars
<1>3. \A w \in Proposal : w # u => usnap'[w] = usnap[w]
  BY DEF Staged, AwaitGreen, Healthy, Patched, VerifyInv, HoldTypes
<1>4. BlueIsChecked' BY <1>2 DEF NodeGood, BlueIsChecked
<1>5. green # "none" => green \in Proposal /\ target(green) = "kernel"
  BY DEF NodeGood, GreenIsSwitched
<1>6. CASE Staged(u)
  <2>1. upc[u] = "staged" /\ upc'[u] = (IF uans[u] = "ok" THEN "polling" ELSE "rollback")
    BY <1>6, <1>1 DEF Staged, Go
  <2>2. GreenIsSwitched' BY <1>1, <1>2, <2>1 DEF NodeGood, GreenIsSwitched, target
  <2>3. target(u) = "kernel" BY <2>1 DEF VerifyInv, PcsFit
  <2>4. DrainedOnce' BY <1>1, <1>2, <2>1, <2>3 DEF NodeGood, DrainedOnce, target
  <2>5. HealthIsGreens' BY <1>1, <1>3, <2>1 DEF NodeGood, HealthIsGreens
  <2>6. ReadyIsChecked' BY <1>2, <1>6 DEF NodeGood, ReadyIsChecked, Staged
  <2> QED BY <1>4, <2>2, <2>4, <2>5, <2>6 DEF NodeGood
<1>7. CASE AwaitGreen(u)
  <2>1. upc[u] = "polling" /\ target(u) = "kernel" BY <1>7 DEF AwaitGreen, VerifyInv, PcsFit
  <2>2. upc'[u] = (IF green \in regs THEN "health" ELSE "switched") BY <1>1, <1>7 DEF AwaitGreen,
        Go, Ask
  <2>3. GreenIsSwitched' BY <1>1, <1>2, <2>2 DEF NodeGood, GreenIsSwitched, target
  <2>4. DrainedOnce' BY <1>1, <1>2, <2>1 DEF NodeGood, DrainedOnce, target
  <2>5. HealthIsGreens'
    <3>1. CASE green \in regs
      <4>1. green # "none" BY <3>1, UpgradeAssumption DEF VerifyInv, HoldTypes, UpNode
      <4>2. green = u BY <4>1, <1>5, <2>1 DEF OneKernel
      <4>3. usnap'[u] = green BY <1>7, <3>1 DEF AwaitGreen, VerifyInv, HoldTypes
      <4> QED BY <1>1, <1>3, <4>2, <4>3 DEF NodeGood, HealthIsGreens
    <3>2. CASE green \notin regs BY <3>2, <1>1, <1>3, <2>2 DEF NodeGood, HealthIsGreens
    <3> QED BY <3>1, <3>2
  <2>6. ReadyIsChecked'
    <3>1. CASE ucmds' = ucmds BY <3>1, <1>2 DEF NodeGood, ReadyIsChecked
    <3>2. CASE ucmds' = Append(ucmds, Cmd("ready", u, "err"))
      <4>1. ucmds \in Seq(CmdSet) /\ Cmd("ready", u, "err") \in CmdSet
        BY DEF QueueInv, QueueTypes, Cmd, CmdWord, CmdSet, CmdOp, Asking
      <4>2. PICK q : q = ucmds' OBVIOUS
      <4>3. PICK d \in CmdSet : d = Cmd("ready", u, "err") BY <4>1
      <4>4. d.v = "err" BY <4>3 DEF Cmd
      <4>5. /\ \A i \in 1 .. Len(ucmds) : q[i] = ucmds[i]
            /\ \A i \in 1 .. Len(q) : i \in 1 .. Len(ucmds) \/ i = Len(ucmds) + 1
            /\ q[Len(ucmds) + 1] = d
        BY <3>2, <4>1, <4>2, <4>3, QueueAppend
      <4> QED BY <1>2, <4>2, <4>4, <4>5 DEF NodeGood, ReadyIsChecked
    <3> QED BY <1>7, <3>1, <3>2 DEF AwaitGreen, Ask
  <2> QED BY <1>4, <2>3, <2>4, <2>5, <2>6 DEF NodeGood
<1>8. CASE Healthy(u)
  <2>1. upc[u] = "health" /\ target(u) = "kernel" BY <1>8 DEF Healthy, VerifyInv, PcsFit
  <2>2. upc'[u] = "switched" BY <1>1, <1>8 DEF Healthy, Go, Ask
  <2>3. GreenIsSwitched' BY <1>1, <1>2, <2>2 DEF NodeGood, GreenIsSwitched, target
  <2>4. DrainedOnce' BY <1>1, <1>2, <2>1 DEF NodeGood, DrainedOnce, target
  <2>5. HealthIsGreens' BY <1>1, <1>3, <2>2 DEF NodeGood, HealthIsGreens
  <2>6. ReadyIsChecked'
    <3>1. PICK w \in {"ok", "err"} : ucmds' = Append(ucmds, Cmd("ready", u, w))
                                     /\ (w = "ok" => usnap[u] \in checked')
      BY <1>8 DEF Healthy, Ask
    <3>2. w = "ok" => u \in checked' BY <2>1, <3>1 DEF NodeGood, HealthIsGreens
    <3>3. ucmds \in Seq(CmdSet) /\ Cmd("ready", u, w) \in CmdSet
      BY DEF QueueInv, QueueTypes, Cmd, CmdWord, CmdSet, CmdOp, Asking
    <3>4. PICK q : q = ucmds' OBVIOUS
    <3>5. PICK d \in CmdSet : d = Cmd("ready", u, w) BY <3>3
    <3>6. d.v = w /\ d.u = u BY <3>5 DEF Cmd
    <3>7. /\ \A i \in 1 .. Len(ucmds) : q[i] = ucmds[i]
          /\ \A i \in 1 .. Len(q) : i \in 1 .. Len(ucmds) \/ i = Len(ucmds) + 1
          /\ q[Len(ucmds) + 1] = d
      BY <3>1, <3>3, <3>4, <3>5, QueueAppend
    <3> QED BY <1>2, <3>2, <3>4, <3>6, <3>7 DEF NodeGood, ReadyIsChecked
  <2> QED BY <1>4, <2>3, <2>4, <2>5, <2>6 DEF NodeGood
<1>9. CASE Patched(u)
  <2>1. upc[u] \in {"patched", "switched"}
        /\ upc'[u] = (IF uans[u] = "ok" THEN "done" ELSE "rollback")
        /\ uans[u] # "none"
    BY <1>1, <1>9 DEF Patched, Go
  <2>2. GreenIsSwitched' BY <1>1, <1>2, <2>1 DEF NodeGood, GreenIsSwitched, target
  <2>3. upc[u] = "patched" => target(u) = "config" BY DEF VerifyInv, PcsFit
  <2>4. DrainedOnce' BY <1>1, <1>2, <2>1, <2>3 DEF NodeGood, DrainedOnce, target
  <2>5. HealthIsGreens' BY <1>1, <1>3, <2>1 DEF NodeGood, HealthIsGreens
  <2>6. ReadyIsChecked'
    <3>1. \A i \in 1 .. Len(ucmds') : ucmds'[i].op = "ready" => i \in 1 .. Len(ucmds)
          /\ ucmds'[i] = ucmds[i]
      BY <2>1, MovesQueue DEF SentRight, Asking, Awaits
    <3> QED BY <1>2, <3>1 DEF NodeGood, ReadyIsChecked
  <2> QED BY <1>4, <2>2, <2>4, <2>5, <2>6 DEF NodeGood
<1> QED BY <1>6, <1>7, <1>8, <1>9

\* So every step of a driver keeps what is known of the node.
LEMMA DrivingKeepsNode ==
  ASSUME NEW u \in Proposal, QueueInv, VerifyInv, OneKernel, NodeGood, Driving(u)
  PROVE  NodeGood'
<1>0. DriverStep(u) /\ upc \in [Proposal -> Pc] /\ usnap \in [Proposal -> Holder]
  BY DrivingIsDriverStep DEF QueueInv, QueueTypes, VerifyInv, HoldTypes
<1>1. CASE Staged(u) \/ AwaitGreen(u) \/ Healthy(u) \/ Patched(u) BY <1>0, <1>1, SwitchersKeepNode
<1>2. CASE Snapshot(u)
  BY <1>0, <1>2, OthersKeepNode
     DEF Snapshot, Snap, PluginSnapshot, WorkerSnapshot, KernelSnapshot, ConfigSnapshot, Go, KernelPc
<1>3. ASSUME NEW r \in 0 .. 1, Baseline(u, r) \/ Guarded(u, r) PROVE NodeGood'
  BY <1>0, <1>3, OthersKeepNode DEF Baseline, Guarded, Ask, Go, KernelPc
<1>4. CASE Baselined(u) \/ Conformance(u) \/ Verify(u) \/ Compared(u)
  BY <1>0, <1>4, OthersKeepNode DEF Baselined, Conformance, Verify, Compared, Ask, Go, KernelPc
<1>5. CASE CanaryUp(u)
  BY <1>0, <1>5, OthersKeepNode
     DEF CanaryUp, PluginCanary, WorkerCanary, KernelCanary, ConfigCanary, Go, KernelPc
<1>6. CASE DropCanary(u) \/ DropOld(u) \/ Rollback(u)
  BY <1>0, <1>6, OthersKeepNode DEF DropCanary, DropOld, Rollback, Go, KernelPc
<1>7. CASE Mount(u)
  BY <1>0, <1>7, OthersKeepNode DEF Mount, PluginMount, WorkerMount, Ask, Go, KernelPc
<1>8. CASE Patch(u) \/ Stage(u)
  BY <1>0, <1>8, OthersKeepNode DEF Patch, Stage, Ask, Go, KernelPc
<1> QED BY <1>1, <1>2, <1>3, <1>4, <1>5, <1>6, <1>7, <1>8 DEF Driving

\* Base inserts a green record only where there is none, and makes it the environment's
\* only once it was checked (kernel_switch(), kernel_ready(), drop_green(), kernel_drain()).
LEMMA BaseKeepsNode ==
  ASSUME QueueInv, VerifyInv, OneKernel, NodeGood, Base
  PROVE  NodeGood'
<1>0. PICK c \in CmdSet : c = Head(ucmds) BY QueueRest
<1>00. /\ c.u \in Proposal /\ c = ucmds[1] /\ 1 \in 1 .. Len(ucmds) /\ uworld' = uworld
          /\ usnap' = usnap
       /\ upc \in [Proposal -> Pc] /\ uans \in [Proposal -> {"none", "ok", "err", "worse"}]
       /\ green \in Holder /\ procs \subseteq UpNode
  BY <1>0, QueueRest DEF Base, QueueInv, QueueTypes, VerifyInv, HoldTypes
<1>1. c.op \in Asking => Awaits(c.op, upc[c.u]) /\ uans[c.u] = "none"
      /\ (c.op = "ready" => c.v \in {"ok", "err"})
  BY <1>00 DEF QueueInv, AsksAreAwaited
<1>2. ASSUME checked \subseteq checked' PROVE ReadyIsChecked'
  <2>1. \A i \in 1 .. Len(ucmds') : ucmds'[i].op = "ready" =>
          i + 1 \in 1 .. Len(ucmds) /\ ucmds'[i] = ucmds[i + 1]
    BY QueueRest
  <2> QED BY <1>2, <2>1 DEF NodeGood, ReadyIsChecked
<1>3. CASE NodesStay /\ upc' = upc
      /\ (uans' = uans \/ (c.op \in {"baseline", "guard", "bench", "patch", "switch"}
                                  /\ \E a \in {"ok", "err", "worse"} : a # "none"
                                     /\ uans' = [uans EXCEPT ![c.u] = a]))
  <2>1. \A w \in Proposal : uans'[w] = uans[w] \/
          (w = c.u /\ upc[w] \in {"baselined", "guarded", "compared", "patched", "staged"}
            /\ uans[w] = "none")
    BY <1>1, <1>3, <1>00 DEF Asking, Awaits
  <2>2. GreenIsSwitched' BY <1>3, <1>00, <2>1 DEF NodesStay, NodeGood, GreenIsSwitched, target
  <2>3. DrainedOnce' BY <1>3, <1>00, <2>1 DEF NodesStay, NodeGood, DrainedOnce, target
  <2>4. HealthIsGreens' /\ BlueIsChecked' BY <1>3, <1>00 DEF NodesStay, NodeGood, HealthIsGreens,
        BlueIsChecked
  <2> QED BY <1>2, <1>3, <2>2, <2>3, <2>4 DEF NodesStay, NodeGood
<1>4. CASE c.op = "approved" /\ Approved(c.u, c.v) /\ NodesStay /\ uans' = uans
  <2>1. upc[c.u] = "waiting" BY <1>1, <1>4 DEF Asking, Awaits
  <2>2. \E p \in {"snapshot", "done"} : upc' = [upc EXCEPT ![c.u] = p] BY <1>4 DEF Approved, Start
  <2>3. upc'[c.u] \in {"snapshot", "done"}
        /\ \A w \in Proposal : w # c.u => upc'[w] = upc[w] BY <1>00, <2>2
  <2>4. GreenIsSwitched' BY <1>4, <1>00, <2>1, <2>3 DEF NodesStay, NodeGood, GreenIsSwitched, target
  <2>5. DrainedOnce' BY <1>4, <1>00, <2>1, <2>3 DEF NodesStay, NodeGood, DrainedOnce, target
  <2>6. HealthIsGreens' /\ BlueIsChecked'
    BY <1>4, <1>00, <2>3 DEF NodesStay, NodeGood, HealthIsGreens, BlueIsChecked
  <2> QED BY <1>2, <1>4, <2>4, <2>5, <2>6 DEF NodesStay, NodeGood
<1>5. CASE c.op = "switch" /\ upc' = upc /\ Switch(c.u) /\ Reply(c.u, "ok")
  <2>1. upc[c.u] = "staged" /\ uans[c.u] = "none" BY <1>1, <1>5 DEF Asking, Awaits
  <2>2. target(c.u) = "kernel" BY <1>00, <2>1 DEF VerifyInv, PcsFit
  <2>3. green = "none" BY <1>00, <2>1, <2>2 DEF NodeGood, GreenIsSwitched, OneKernel
  <2>4. draining = {} BY <1>00, <2>1, <2>2 DEF NodeGood, DrainedOnce
  <2>5. uans'[c.u] = "ok" /\ green' = c.u /\ draining' = {} BY <1>00, <1>5, <2>4 DEF Reply, Switch
  <2>6. GreenIsSwitched' BY <1>00, <1>5, <2>1, <2>2, <2>5 DEF GreenIsSwitched, target
  <2>7. DrainedOnce' BY <2>5 DEF DrainedOnce
  <2>8. HealthIsGreens' BY <1>00, <1>5 DEF NodeGood, HealthIsGreens
  <2>9. "none" \notin procs BY <1>00, UpgradeAssumption DEF UpNode
  <2>10. BlueIsChecked' BY <1>5, <2>3, <2>9 DEF NodeGood, BlueIsChecked, Switch
  <2> QED BY <1>2, <1>5, <2>6, <2>7, <2>8, <2>10 DEF Switch, NodeGood
<1>6. CASE c.op = "ready" /\ upc' = upc
  <2>1. upc[c.u] = "switched" /\ uans[c.u] = "none"
        /\ c.v \in {"ok", "err"} BY <1>1, <1>6 DEF Asking, Awaits
  <2>2. target(c.u) = "kernel" BY <1>00, <2>1 DEF VerifyInv, PcsFit
  <2>3. green # "none" => green = c.u BY <1>00, <2>2 DEF NodeGood, GreenIsSwitched, OneKernel
  <2>4. draining = {} BY <1>00, <2>1, <2>2 DEF NodeGood, DrainedOnce
  <2>5. green' = "none" /\ checked' = checked
    BY <1>0, <1>6 DEF Base, DropGreen, Ready, NodesStay
  <2>6. GreenIsSwitched' BY <2>5 DEF GreenIsSwitched
  <2>7. HealthIsGreens' BY <1>00, <1>6 DEF NodeGood, HealthIsGreens
  <2>8. DrainedOnce' /\ BlueIsChecked'
    <3>1. CASE DropGreen \/ NodesStay
      BY <2>4, <2>5, <3>1 DEF DropGreen, NodesStay, DrainedOnce, NodeGood, BlueIsChecked
    <3>2. CASE c.v = "ok" /\ green # "none" /\ Ready /\ Reply(c.u, "ok")
      <4>1. uans'[c.u] = "ok" BY <1>00, <3>2 DEF Reply
      <4>2. DrainedOnce' BY <1>00, <1>6, <2>1, <2>2, <4>1 DEF DrainedOnce, OneKernel, target
      <4>3. c.u \in checked BY <1>00, <1>6, <3>2 DEF NodeGood, ReadyIsChecked
      <4>4. BlueIsChecked' BY <2>3, <2>4, <2>5, <3>2, <4>3 DEF Ready, NodeGood, BlueIsChecked
      <4> QED BY <4>2, <4>4
    <3> QED BY <1>0, <1>6, <2>1, <3>1, <3>2 DEF Base
  <2> QED BY <1>2, <2>5, <2>6, <2>7, <2>8 DEF NodeGood
<1>7. CASE Drain /\ upc' = upc /\ uans' = uans
  BY <1>00, <1>2, <1>7
     DEF Drain, NodeGood, GreenIsSwitched, target, DrainedOnce, HealthIsGreens, BlueIsChecked
<1> QED BY <1>0, <1>3, <1>4, <1>5, <1>6, <1>7 DEF Base, Reply, PutLkg, Bench

\* Proposals and verdicts: nobody at the gate has a green node.
LEMMA GateKeepsNode ==
  ASSUME NEW u \in Proposal, QueueInv, VerifyInv, OneKernel, NodeGood,
         Propose(u) \/ \E a \in BOOLEAN : Verdict(u, a)
  PROVE  NodeGood'
<1>1. /\ UNCHANGED <<uworld, usnap, uans, blue, green, procs, draining, dropping, checked>>
      /\ upc \in [Proposal -> Pc] /\ upc[u] \in {"off", "gate"}
  BY DEF Propose, Verdict, nodeVars, QueueInv, QueueTypes, NewAreOff
<1>2. \E p \in {"snapshot", "done", "gate", "waiting"} : upc' = [upc EXCEPT ![u] = p]
  BY DEF Propose, Verdict, Start
<1>3. upc'[u] \in {"snapshot", "done", "gate", "waiting"}
      /\ \A w \in Proposal : w # u => upc'[w] = upc[w]
  BY <1>1, <1>2
<1>4. GreenIsSwitched' BY <1>1, <1>3 DEF NodeGood, GreenIsSwitched, target
<1>5. DrainedOnce' BY <1>1, <1>3 DEF NodeGood, DrainedOnce, target
<1>6. HealthIsGreens' /\ BlueIsChecked' BY <1>1, <1>3 DEF NodeGood, HealthIsGreens, BlueIsChecked
<1>7. ReadyIsChecked'
  <2>1. CASE Propose(u) BY <1>1, <2>1 DEF Propose, NodeGood, ReadyIsChecked
  <2>2. ASSUME NEW a \in BOOLEAN, Verdict(u, a) PROVE ReadyIsChecked'
    <3>1. PICK d : d = Cmd("approved", u, a) OBVIOUS
    <3>2. ucmds \in Seq(CmdSet) /\ d \in CmdSet /\ d.op = "approved"
      BY <3>1 DEF QueueInv, QueueTypes, Cmd, CmdWord, CmdSet, CmdOp, Asking
    <3>3. PICK q : q = ucmds' OBVIOUS
    <3>4. q = Append(ucmds, d) BY <2>2, <3>1, <3>3 DEF Verdict
    <3>5. /\ \A i \in 1 .. Len(ucmds) : q[i] = ucmds[i]
          /\ \A i \in 1 .. Len(q) : i \in 1 .. Len(ucmds) \/ i = Len(ucmds) + 1
          /\ q[Len(ucmds) + 1] = d
      BY <3>2, <3>4, QueueAppend
    <3> QED BY <1>1, <3>2, <3>3, <3>5 DEF NodeGood, ReadyIsChecked
  <2> QED BY <2>1, <2>2
<1> QED BY <1>4, <1>5, <1>6, <1>7 DEF NodeGood

\* Nodes that register, die, are restarted or terminated; workers that speak late.
LEMMA NodesKeepNode ==
  ASSUME OneKernel, NodeGood, NodeStep \/ \E s \in silent : SpeaksLate(s)
  PROVE  NodeGood'
<1>1. UNCHANGED <<uworld, upc, uans, usnap, ucmds, blue, green, draining, checked>>
  BY DEF NodeStep, Terminate, OnExit, Register, NodeDies, SpeaksLate, nodeVars
<1>2. procs' \subseteq {blue, green} \cup draining \cup dropping'
  BY DEF NodeStep, Terminate, OnExit, Register, NodeDies, SpeaksLate, nodeVars, NodeGood,
  BlueIsChecked
<1> QED BY <1>1, <1>2
      DEF NodeGood, GreenIsSwitched, DrainedOnce, HealthIsGreens, ReadyIsChecked, BlueIsChecked,
          target

\* At first there is one node, base's own.
LEMMA NodeInitHolds == UpInit => NodeInv
<1> SUFFICES ASSUME UpInit PROVE NodeGood BY DEF NodeInv
<1>1. Len(ucmds) = 0 BY EmptySeq DEF UpInit
<1> QED BY <1>1
      DEF UpInit, NodeGood, GreenIsSwitched, DrainedOnce, HealthIsGreens, ReadyIsChecked,
          BlueIsChecked

\* Every step keeps what is known of the node.
LEMMA NodeNextKeeps == QueueInv /\ VerifyInv /\ NodeInv /\ [UpNext]_upVars => NodeInv'
<1> SUFFICES ASSUME QueueInv, VerifyInv, NodeInv, [UpNext]_upVars,
                    OneKernel' PROVE NodeGood' BY DEF NodeInv
<1>0. uworld' = uworld
  <2>1. ASSUME NEW u \in Proposal, Driving(u) PROVE uworld' = uworld BY <2>1, DriverFits
  <2> QED BY <2>1, UpStep DEF Propose, Verdict, Base, NodeStep, Terminate, OnExit, Register, NodeDies,
                              SpeaksLate, upVars
<1>1. OneKernel BY <1>0 DEF OneKernel, target
<1>2. NodeGood BY <1>1 DEF NodeInv
<1>3. CASE UNCHANGED upVars
  BY <1>2, <1>3 DEF upVars, NodeGood, GreenIsSwitched, DrainedOnce, HealthIsGreens, ReadyIsChecked,
                    BlueIsChecked, target
<1>4. ASSUME NEW u \in Proposal, Propose(u) \/ \E a \in BOOLEAN : Verdict(u, a) PROVE NodeGood'
  BY <1>1, <1>2, <1>4, GateKeepsNode
<1>5. ASSUME NEW u \in Proposal, Driving(u) PROVE NodeGood' BY <1>1, <1>2, <1>5, DrivingKeepsNode
<1>6. CASE Base BY <1>1, <1>2, <1>6, BaseKeepsNode
<1>7. CASE NodeStep \/ \E s \in silent : SpeaksLate(s) BY <1>1, <1>2, <1>7, NodesKeepNode
<1> QED BY <1>3, <1>4, <1>5, <1>6, <1>7, UpStep

\* With no two elements in it, a set of proposals is of one at most.
LEMMA FewKernels ==
  ASSUME Cardinality(Of("kernel")) <= 1
  PROVE  OneKernel
<1> SUFFICES ASSUME NEW u \in Proposal, NEW w \in Proposal, target(u) = "kernel",
                    target(w) = "kernel", u # w
             PROVE  FALSE
  BY DEF OneKernel
<1>1. IsFiniteSet(Of("kernel")) BY UpgradeAssumption, FS_Subset DEF Of
<1>2. {u, w} \subseteq Of("kernel") BY DEF Of
<1>3. IsFiniteSet({u}) /\ Cardinality({u}) = 1 BY FS_Singleton
<1>4. Cardinality({u} \cup {w}) = 2 BY <1>3, FS_AddElement
<1>5. {u} \cup {w} = {u, w} OBVIOUS
<1>6. Cardinality({u, w}) <= Cardinality(Of("kernel")) BY <1>1, <1>2, FS_Subset
<1>7. Cardinality(Of("kernel")) \in Nat BY <1>1, FS_CardinalityType
<1> QED BY <1>4, <1>5, <1>6, <1>7

\* With one kernel upgrade of the environment, and whatever else is upgraded, the
\* environment's node is the one before it or one that answered its health check, and every
\* node process is one base knows or is about to end (bluegreen.rs).
THEOREM NodesAreCheckedFirst == UpSpec => []FrontDoorIsChecked
<1>1. UpInit => QueueInv /\ VerifyInv /\ NodeInv BY QueueInitHolds, VerifyInitHolds, NodeInitHolds
<1>2. QueueInv /\ VerifyInv /\ NodeInv /\ [UpNext]_upVars => (QueueInv /\ VerifyInv /\ NodeInv)'
  BY QueueNextKeeps, VerifyNextKeeps, NodeNextKeeps
<1>3. NodeInv => FrontDoorIsChecked
  BY FewKernels DEF NodeInv, NodeGood, BlueIsChecked, FrontDoorIsChecked
<1> QED BY <1>1, <1>2, <1>3, PTL DEF UpSpec

-----------------------------------------------------------------------------
(* The names at the end, with one proposal for each target. *)

\* The command a driver sent last, when it sent one.
LEMMA SentIs ==
  ASSUME NEW u \in Proposal, NEW op \in CmdOp, NEW v \in CmdWord, QueueInv,
         ucmds' = Append(ucmds, Cmd(op, u, v))
  PROVE  /\ Len(ucmds) \in Nat /\ Len(ucmds') = Len(ucmds) + 1
         /\ \A i \in 1 .. Len(ucmds) : i \in 1 .. Len(ucmds') /\ ucmds'[i] = ucmds[i]
         /\ \A i \in 1 .. Len(ucmds') : i \in 1 .. Len(ucmds) \/ i = Len(ucmds) + 1
         /\ Len(ucmds) + 1 \in 1 .. Len(ucmds')
         /\ ucmds'[Len(ucmds) + 1].op = op /\ ucmds'[Len(ucmds) + 1].u = u
            /\ ucmds'[Len(ucmds) + 1].v = v
<1>1. PICK c : c = Cmd(op, u, v) OBVIOUS
<1>2. c \in CmdSet /\ c.op = op /\ c.u = u /\ c.v = v BY <1>1 DEF Cmd, CmdSet
<1>3. ucmds \in Seq(CmdSet) /\ Len(ucmds) \in Nat BY LenProperties DEF QueueInv, QueueTypes
<1>4. PICK q : q = ucmds' OBVIOUS
<1>5. q = Append(ucmds, c) BY <1>1, <1>4
<1>6. /\ q \in Seq(CmdSet) /\ Len(q) = Len(ucmds) + 1 /\ q[Len(ucmds) + 1] = c
      /\ \A i \in 1 .. Len(ucmds) : q[i] = ucmds[i]
  BY <1>2, <1>3, <1>5, QueueAppend
<1> QED BY <1>2, <1>3, <1>4, <1>6

\* A driver that sends neither a fallback nor, unless it is a kernel's, that it was promoted.
SendsLittle(u) ==
  \/ ucmds' = ucmds
  \/ \E op \in CmdOp \ {"fallback"}, v \in CmdWord :
       ucmds' = Append(ucmds, Cmd(op, u, v))
       /\ (op = "phase" /\ v = "promoted" => target(u) = "kernel")

\* So the queue has the fallbacks and the ends it had.
LEMMA LittleIsSent ==
  ASSUME NEW u \in Proposal, QueueInv, SendsLittle(u)
  PROVE  /\ \A i \in 1 .. Len(ucmds') : ucmds'[i].op = "fallback" =>
              i \in 1 .. Len(ucmds) /\ ucmds'[i] = ucmds[i]
         /\ target(u) # "kernel" => \A i \in 1 .. Len(ucmds') : ucmds'[i].op = "phase"
            /\ ucmds'[i].v = "promoted" =>
              i \in 1 .. Len(ucmds) /\ ucmds'[i] = ucmds[i]
<1>1. CASE ucmds' = ucmds BY <1>1
<1>2. ASSUME NEW op \in CmdOp \ {"fallback"}, NEW v \in CmdWord,
             ucmds' = Append(ucmds, Cmd(op, u, v)),
             op = "phase" /\ v = "promoted" => target(u) = "kernel"
      PROVE  /\ \A i \in 1 .. Len(ucmds') : ucmds'[i].op = "fallback" =>
                  i \in 1 .. Len(ucmds) /\ ucmds'[i] = ucmds[i]
             /\ target(u) # "kernel" => \A i \in 1 .. Len(ucmds') : ucmds'[i].op = "phase"
                /\ ucmds'[i].v = "promoted" =>
                  i \in 1 .. Len(ucmds) /\ ucmds'[i] = ucmds[i]
  BY <1>2, SentIs
<1> QED BY <1>1, <1>2 DEF SendsLittle

\* Who is told to have been promoted is done (drive.rs: the last message).
LEMMA EndsAreDone ==
  ASSUME QueueInv, NEW w \in Proposal, EndsAs(w, "promoted")
  PROVE  upc[w] = "done"
BY DEF QueueInv, EndedAreDone, PhasesAreDriven, EndsAs, Terminal

\* What a driver's step leaves of the others: their places, their fallbacks, their ends.
LEMMA BystandersStay ==
  ASSUME NEW u \in Proposal, QueueInv, DriverStep(u), NEW w \in Proposal
  PROVE  /\ EndsAs(w, "promoted") => EndsAs(w, "promoted")'
         /\ FallsBack(w) => FallsBack(w)'
         /\ w # u => (EndsAs(w, "promoted")' => EndsAs(w, "promoted"))
<1>1. ustatus' = ustatus BY MovesFacts
<1>2. /\ \A i \in 1 .. Len(ucmds) : i \in 1 .. Len(ucmds') /\ ucmds'[i] = ucmds[i]
      /\ \A i \in 1 .. Len(ucmds') : i \in 1 .. Len(ucmds) \/ ucmds'[i].u = u
  BY MovesQueue
<1>3. EndsAs(w, "promoted") => EndsAs(w, "promoted")' BY <1>1, <1>2 DEF EndsAs
<1>4. FallsBack(w) => FallsBack(w)' BY <1>2 DEF FallsBack
<1>5. w # u => (EndsAs(w, "promoted")' => EndsAs(w, "promoted")) BY <1>1, <1>2 DEF EndsAs
<1> QED BY <1>3, <1>4, <1>5

\* The names and the proposals that are not the driver's are as they were.
OthersGood(u) ==
  /\ \A w \in Proposal \ {u} : OneGood(w)
  /\ \A t \in Names \ {target(u)} : NameGood(t)
  /\ \A t \in Canaries \ {target(u)} : CanaryGood(t)

\* A driver that changes its own name and canary only leaves them so (drive.rs).
LEMMA OthersStayGood ==
  ASSUME NEW u \in Proposal, QueueInv, VerifyInv, Solo, SlotGood, DriverStep(u),
         \A t \in Names \ {target(u)} : slot'[t] = slot[t],
         \A t \in Target \ {target(u)} : t \in broken' <=> t \in broken,
         \A t \in Canaries \ {target(u)} : canary'[t] = canary[t]
         /\ (t \in stranded' <=> t \in stranded),
         \A w \in Proposal \ {u} : usnap'[w] = usnap[w]
  PROVE  OthersGood(u)'
<1>1. uworld' = uworld /\ \A w \in Proposal : w # u => upc'[w] = upc[w]
      /\ uans'[w] = uans[w] BY MovesFacts
<1>2. \A w \in Proposal : w # u => target(w) # target(u) BY DEF Solo
<1>3. \A w \in Proposal : target(w) \in Target /\ target(w)' = target(w)
  BY <1>1 DEF target, VerifyInv, HoldTypes
<1>4. ASSUME NEW w \in Proposal \ {u} PROVE OneGood(w)'
  <2>1. OneGood(w) BY DEF SlotGood
  <2>2. EndsAs(w, "promoted")' => EndsAs(w, "promoted") BY BystandersStay
  <2>3. target(w) \in Names => slot'[target(w)] = slot[target(w)] BY <1>2
  <2>4. target(w) \in broken' <=> target(w) \in broken BY <1>2, <1>3
  <2>5. upc[w] = "patched" => target(w) = "config" BY DEF VerifyInv, PcsFit
  <2>6. upc[w] = "mount" => target(w) \in Names BY DEF VerifyInv, PcsFit, Names
  <2>7. target(w) = "plugin" => ("plugin" \in broken' <=> "plugin" \in broken) BY <2>4
  <2>8. upc'[w] = upc[w] /\ uans'[w] = uans[w] /\ usnap'[w] = usnap[w]
        /\ target(w)' = target(w) BY <1>1, <1>3
  <2>9. (target(w) \in Names /\ EndsAs(w, "promoted") => target(w) \in broken \/ slot[target(w)] = w)'
    BY <2>1, <2>2, <2>3, <2>4, <2>8 DEF OneGood
  <2>10. (upc[w] = "mount" => target(w) \in broken \/ slot[target(w)] \in {"none", "old"})'
    BY <2>1, <2>3, <2>4, <2>6, <2>8 DEF OneGood
  <2>11. (upc[w] = "patched" /\ uans[w] = "ok" => slot["config"] = w)'
    BY <2>1, <2>3, <2>5, <2>8 DEF OneGood, Names
  <2>12. (target(w) \in {"plugin", "config"} =>
            /\ usnap[w] \in {"none", "old"}
            /\ upc[w] \in Undriven \cup {"snapshot", "rollback"} \/ usnap[w] = "old")'
    BY <2>1, <2>8 DEF OneGood
  <2>13. (target(w) = "plugin" /\ "plugin" \in broken => upc[w] \in {"rollback", "done"})'
    BY <2>1, <2>7, <2>8 DEF OneGood
  <2> QED BY <2>9, <2>10, <2>11, <2>12, <2>13 DEF OneGood
<1>5. ASSUME NEW t \in Names \ {target(u)} PROVE NameGood(t)'
  <2>0. t \in Target /\ slot'[t] = slot[t] /\ (t \in broken' <=> t \in broken) BY DEF Names, Target
  <2>1. CASE t \in broken \/ slot[t] = "old" BY <2>0, <2>1 DEF NameGood
  <2>2. CASE \E w \in Proposal : target(w) = t /\ Took(w)
    <3>1. PICK w \in Proposal : target(w) = t /\ Took(w) BY <2>2
    <3>2. w # u BY <3>1
    <3>3. /\ upc'[w] = upc[w] /\ uans'[w] = uans[w] /\ target(w)' = t
          /\ slot'[t] = slot[t] /\ (t = "worker" => slot'["worker"] = slot["worker"])
          /\ (t = "config" => slot'["config"] = slot["config"])
          /\ (FallsBack(w) => FallsBack(w)') /\ (EndsAs(w, "promoted") => EndsAs(w, "promoted")')
      BY <1>1, <1>3, <2>0, <3>1, <3>2, BystandersStay
    <3>4. Took(w)' BY <3>1, <3>3 DEF Took
    <3> QED BY <3>3, <3>4 DEF NameGood
  <2>3. NameGood(t) BY DEF SlotGood
  <2> QED BY <2>1, <2>2, <2>3 DEF NameGood
<1>6. ASSUME NEW t \in Canaries \ {target(u)} PROVE CanaryGood(t)'
  <2>0. canary'[t] = canary[t] /\ (t \in stranded' <=> t \in stranded) OBVIOUS
  <2>1. CASE t \in stranded \/ canary[t] = "none" BY <2>0, <2>1 DEF CanaryGood
  <2>2. CASE \E w \in Proposal : target(w) = t /\ upc[w] \in CanaryPc
    <3>1. PICK w \in Proposal : target(w) = t /\ upc[w] \in CanaryPc BY <2>2
    <3>2. w # u BY <3>1
    <3> QED BY <1>1, <1>3, <3>1, <3>2 DEF CanaryGood
  <2>3. CanaryGood(t) BY DEF SlotGood
  <2> QED BY <2>1, <2>2, <2>3 DEF CanaryGood
<1>7. target(u)' = target(u) BY <1>3
<1> QED BY <1>4, <1>5, <1>6, <1>7 DEF OthersGood

\* The driver's own proposal and name complete the picture.
LEMMA ActorCompletes ==
  ASSUME NEW u \in Proposal, OthersGood(u)', OneGood(u)', CmdsFit', broken' \subseteq Canaries,
         target(u)' \in Names => NameGood(target(u))',
         target(u)' \in Canaries => CanaryGood(target(u))'
  PROVE  SlotGood'
BY DEF OthersGood, SlotGood

\* The fallbacks are of workers that were not mounted, also after a step that sends none.
LEMMA FallbacksFit ==
  ASSUME NEW u \in Proposal, QueueInv, SlotGood, DriverStep(u), SendsLittle(u),
         upc[u] = "rollback" => upc'[u] = "done"
  PROVE  CmdsFit'
<1>1. /\ uworld' = uworld /\ upc[u] # "done"
      /\ \A w \in Proposal : w # u => upc'[w] = upc[w]
  BY MovesFacts DEF Undriven
<1>2. \A i \in 1 .. Len(ucmds') : ucmds'[i].op = "fallback" =>
        i \in 1 .. Len(ucmds) /\ ucmds'[i] = ucmds[i] /\ ucmds[i].u \in Proposal
  BY LittleIsSent, CmdsAreCmds
<1> QED BY <1>1, <1>2 DEF SlotGood, CmdsFit, target

\* A name that is left alone by a driver that neither mounts nor was patched.
LEMMA NameIsLeft ==
  ASSUME NEW u \in Proposal, QueueInv, Solo, SlotGood, DriverStep(u), target(u) \in Names,
         slot' = slot, broken \subseteq broken',
         upc[u] # "mount", upc[u] = "patched" => uans[u] # "ok"
  PROVE  NameGood(target(u))'
<1>1. uworld' = uworld /\ upc[u] # "done" BY MovesFacts DEF Undriven
<1>2. target(u)' = target(u) BY <1>1 DEF target
<1>3. NameGood(target(u)) BY DEF SlotGood
<1>4. CASE target(u) \in broken \/ slot[target(u)] = "old" BY <1>2, <1>4 DEF NameGood
<1>5. CASE \E w \in Proposal : target(w) = target(u) /\ Took(w)
  <2>1. Took(u) BY <1>5 DEF Solo
  <2>2. target(u) = "worker" /\ slot["worker"] = "none" /\ FallsBack(u) BY <1>1, <2>1 DEF Took
  <2>3. FallsBack(u)' BY <2>2, BystandersStay
  <2>4. Took(u)' BY <1>2, <2>2, <2>3 DEF Took
  <2> QED BY <1>2, <2>4 DEF NameGood
<1> QED BY <1>3, <1>4, <1>5 DEF NameGood

\* A proposal whose driver takes no name.
LEMMA OneIsLeft ==
  ASSUME NEW u \in Proposal, QueueInv, VerifyInv, SlotGood, DriverStep(u), SendsLittle(u),
         upc'[u] # "mount", upc[u] = "rollback" => upc'[u] = "done",
         "plugin" \in broken' /\ target(u) = "plugin" => "plugin" \in broken,
         target(u) \in {"plugin", "config"} =>
           \/ usnap'[u] = usnap[u] /\ (upc[u] = "snapshot" => upc'[u] = "rollback")
           \/ usnap'[u] = "old"
  PROVE  OneGood(u)'
<1>1. uworld' = uworld /\ upc[u] \notin Undriven /\ uans'[u] = "none"
      /\ ustatus' = ustatus BY MovesFacts
<1>2. target(u)' = target(u) BY <1>1 DEF target
<1>3. OneGood(u) BY DEF SlotGood
<1>4. ~EndsAs(u, "promoted") BY <1>1, EndsAreDone DEF Undriven
<1>5. target(u) \in Names => ~EndsAs(u, "promoted")'
  BY <1>1, <1>4, LittleIsSent DEF EndsAs, Names
<1>6. (target(u) \in {"plugin", "config"} =>
         /\ usnap[u] \in {"none", "old"}
         /\ upc[u] \in Undriven \cup {"snapshot", "rollback"} \/ usnap[u] = "old")'
  BY <1>1, <1>2, <1>3 DEF OneGood, Undriven
<1>7. (target(u) = "plugin" /\ "plugin" \in broken => upc[u] \in {"rollback", "done"})'
  BY <1>1, <1>2, <1>3 DEF OneGood, Undriven
<1> QED BY <1>1, <1>2, <1>5, <1>6, <1>7 DEF OneGood

\* A canary that is left alone stays one of a driver that will end it.
LEMMA CanaryIsLeft ==
  ASSUME NEW u \in Proposal, QueueInv, SlotGood, Solo, DriverStep(u), target(u) \in Canaries,
         canary' = canary, stranded \subseteq stranded', upc[u] \in CanaryPc => upc'[u] \in CanaryPc
  PROVE  CanaryGood(target(u))'
<1>1. uworld' = uworld BY MovesFacts
<1>2. target(u)' = target(u) BY <1>1 DEF target
<1>3. CanaryGood(target(u)) BY DEF SlotGood
<1> QED BY <1>2, <1>3 DEF CanaryGood, Solo

\* The steps of a driver that touch no name and no canary (drive.rs, bluegreen.rs).
LEMMA QuietStepsKeepNames ==
  ASSUME NEW u \in Proposal, QueueInv, VerifyInv, Solo, SlotGood, DriverStep(u), SendsLittle(u),
         UNCHANGED <<slot, broken, canary, stranded>>, \A w \in Proposal \ {u} : usnap'[w] = usnap[w],
         upc[u] \notin {"mount", "rollback"}, upc[u] = "patched" => uans[u] # "ok", upc'[u] # "mount",
         target(u) \in {"plugin", "config"} =>
           usnap'[u] = usnap[u] /\ (upc[u] = "snapshot" => upc'[u] = "rollback"),
         target(u) \in Canaries => (upc[u] \in CanaryPc => upc'[u] \in CanaryPc)
  PROVE  SlotGood'
<1>1. OthersGood(u)' BY OthersStayGood
<1>2. OneGood(u)' BY OneIsLeft
<1>3. CmdsFit' BY FallbacksFit
<1>4. uworld' = uworld BY MovesFacts
<1>5. target(u)' = target(u) BY <1>4 DEF target
<1>6. target(u) \in Names => NameGood(target(u))' BY NameIsLeft
<1>7. target(u) \in Canaries => CanaryGood(target(u))' BY CanaryIsLeft
<1>8. broken' \subseteq Canaries BY DEF SlotGood
<1> QED BY <1>1, <1>2, <1>3, <1>5, <1>6, <1>7, <1>8, ActorCompletes

\* Which of a driver's steps these are.
LEMMA QuietDriving ==
  ASSUME NEW u \in Proposal, QueueInv, VerifyInv, Solo, SlotGood, Driving(u),
         \/ \E r \in 0 .. 1 : Baseline(u, r) \/ Guarded(u, r)
         \/ Baselined(u) \/ Conformance(u) \/ Verify(u) \/ Compared(u)
         \/ Patch(u) \/ (Patched(u) /\ ~(target(u) = "config" /\ uans[u] = "ok"))
         \/ Stage(u) \/ Staged(u) \/ AwaitGreen(u) \/ Healthy(u)
  PROVE  SlotGood'
<1>0. DriverStep(u) /\ upc \in [Proposal -> Pc] /\ usnap \in [Proposal -> Holder]
  BY DrivingIsDriverStep DEF QueueInv, QueueTypes, VerifyInv, HoldTypes
<1>00. /\ upc[u] = "patched" => target(u) = "config"
       /\ upc[u] \in {"staged", "polling", "health", "switched"} => target(u) = "kernel"
  BY DEF VerifyInv, PcsFit
<1> USE DEF holdVars, CmdOp, CmdWord, Asking, PhaseWord, CanaryPc, Canaries
<1>1. ASSUME NEW r \in 0 .. 1, Baseline(u, r) PROVE SlotGood'
  <2>1. SendsLittle(u) BY <1>1 DEF Baseline, Ask, SendsLittle
  <2> QED BY <1>0, <1>1, <2>1, QuietStepsKeepNames DEF Baseline, Ask, Go
<1>2. ASSUME NEW r \in 0 .. 1, Guarded(u, r) PROVE SlotGood'
  <2>1. SendsLittle(u) BY <1>2 DEF Guarded, Ask, SendsLittle
  <2> QED BY <1>0, <1>2, <2>1, QuietStepsKeepNames DEF Guarded, Ask, Go
<1>3. CASE Baselined(u)
  <2>1. SendsLittle(u) BY <1>3 DEF Baselined, Tell, SendsLittle
  <2> QED BY <1>0, <1>3, <2>1, QuietStepsKeepNames DEF Baselined, Go
<1>4. CASE Conformance(u)
  <2>1. SendsLittle(u) BY <1>4 DEF Conformance, Tell, SendsLittle
  <2> QED BY <1>0, <1>4, <2>1, QuietStepsKeepNames DEF Conformance, Go
<1>5. CASE Verify(u)
  <2>1. SendsLittle(u) BY <1>5 DEF Verify, Ask, SendsLittle
  <2> QED BY <1>0, <1>5, <2>1, QuietStepsKeepNames DEF Verify, Ask, Go
<1>6. CASE Compared(u)
  <2>1. SendsLittle(u) BY <1>6 DEF Compared, Tell, SendsLittle
  <2> QED BY <1>0, <1>6, <2>1, QuietStepsKeepNames DEF Compared, Go
<1>7. CASE Patch(u)
  <2>1. SendsLittle(u) BY <1>7 DEF Patch, Ask, SendsLittle
  <2> QED BY <1>0, <1>7, <2>1, QuietStepsKeepNames DEF Patch, Ask, Go
<1>8. CASE Patched(u) /\ ~(target(u) = "config" /\ uans[u] = "ok")
  <2>0. upc[u] = "switched" \/ uans[u] # "ok" BY <1>8, <1>00 DEF Patched
  <2>1. SendsLittle(u) BY <1>8, <2>0, <1>00 DEF Patched, Tell, SendsLittle
  <2> QED BY <1>0, <1>00, <1>8, <2>0, <2>1, QuietStepsKeepNames DEF Patched, Go
<1>9. CASE Stage(u)
  <2>1. SendsLittle(u) BY <1>9 DEF Stage, Ask, SendsLittle
  <2> QED BY <1>0, <1>9, <2>1, QuietStepsKeepNames DEF Stage, Ask, Go
<1>10. CASE Staged(u)
  <2>1. SendsLittle(u) BY <1>10 DEF Staged, SendsLittle
  <2> QED BY <1>0, <1>00, <1>10, <2>1, QuietStepsKeepNames DEF Staged, Go
<1>11. CASE AwaitGreen(u)
  <2>1. SendsLittle(u) BY <1>11 DEF AwaitGreen, Ask, SendsLittle
  <2> QED BY <1>0, <1>00, <1>11, <2>1, QuietStepsKeepNames DEF AwaitGreen, Ask, Go
<1>12. CASE Healthy(u)
  <2>1. SendsLittle(u) BY <1>12 DEF Healthy, Ask, SendsLittle
  <2> QED BY <1>0, <1>00, <1>12, <2>1, QuietStepsKeepNames DEF Healthy, Ask, Go
<1> QED BY <1>1, <1>2, <1>3, <1>4, <1>5, <1>6, <1>7, <1>8, <1>9, <1>10, <1>11, <1>12

\* A snapshot of a plugin or of the configuration finds what was there before: the only
\* proposal for that name is at its snapshot (plugin_snapshot(), config_snapshot()).
LEMMA SnapshotFindsOld ==
  ASSUME NEW u \in Proposal, QueueInv, VerifyInv, Solo, SlotGood, upc[u] = "snapshot",
         target(u) \in {"plugin", "config"}
  PROVE  slot[target(u)] = "old"
<1>1. NameGood(target(u)) /\ OneGood(u) /\ broken \subseteq Canaries BY DEF SlotGood, Names
<1>2. target(u) \notin broken BY <1>1 DEF OneGood, Canaries
<1>3. ~Took(u)
  <2>1. CASE target(u) = "worker" /\ FallsBack(u) BY <2>1
  <2> QED BY <2>1 DEF Took
<1> QED BY <1>1, <1>2, <1>3 DEF NameGood, Solo

\* So a snapshot leaves the names good (drive.rs).
LEMMA SnapshotKeepsNames ==
  ASSUME NEW u \in Proposal, QueueInv, VerifyInv, Solo, SlotGood, Snapshot(u)
  PROVE  SlotGood'
<1>0. DriverStep(u) /\ upc \in [Proposal -> Pc] /\ usnap \in [Proposal -> Holder]
  BY DrivingIsDriverStep DEF QueueInv, QueueTypes, VerifyInv, HoldTypes, Driving
<1>1. /\ UNCHANGED <<slot, broken, canary, stranded>> /\ upc[u] = "snapshot"
         /\ upc'[u] \in {"baseline", "rollback"}
      /\ \A w \in Proposal \ {u} : usnap'[w] = usnap[w]
  BY <1>0 DEF Snapshot, Snap, PluginSnapshot, WorkerSnapshot, KernelSnapshot, ConfigSnapshot, Go,
  holdVars
<1>2. SendsLittle(u)
  BY DEF Snapshot, Snap, PluginSnapshot, WorkerSnapshot, KernelSnapshot, ConfigSnapshot, Tell,
  SendsLittle,
         CmdOp, CmdWord, PhaseWord
<1>3. target(u) \in {"plugin", "config"} =>
        \/ usnap'[u] = usnap[u] /\ upc'[u] = "rollback"
        \/ usnap'[u] = slot[target(u)]
  BY <1>0 DEF Snapshot, Snap, PluginSnapshot, WorkerSnapshot, KernelSnapshot, ConfigSnapshot, Go
<1>4. OneGood(u)' BY <1>0, <1>1, <1>2, <1>3, SnapshotFindsOld, OneIsLeft
<1>5. OthersGood(u)' BY <1>0, <1>1, OthersStayGood
<1>6. CmdsFit' BY <1>0, <1>1, <1>2, FallbacksFit
<1>7. uworld' = uworld BY <1>0, MovesFacts
<1>8. target(u)' = target(u) BY <1>7 DEF target
<1>9. target(u) \in Names => NameGood(target(u))' BY <1>0, <1>1, NameIsLeft
<1>10. target(u) \in Canaries => CanaryGood(target(u))' BY <1>0, <1>1, CanaryIsLeft DEF CanaryPc
<1>11. broken' \subseteq Canaries BY <1>1 DEF SlotGood
<1> QED BY <1>4, <1>5, <1>6, <1>8, <1>9, <1>10, <1>11, ActorCompletes

\* A canary comes with its driver and goes with it (plugin_canary(), launch(), drop of the
\* canary at promotion).
LEMMA CanaryStepsKeepNames ==
  ASSUME NEW u \in Proposal, QueueInv, VerifyInv, Solo, SlotGood, CanaryUp(u) \/ DropCanary(u)
  PROVE  SlotGood'
<1>0. /\ DriverStep(u) /\ upc \in [Proposal -> Pc] /\ usnap \in [Proposal -> Holder]
      /\ canary \in [{"plugin", "worker"} -> Holder]
  BY DrivingIsDriverStep DEF QueueInv, QueueTypes, VerifyInv, HoldTypes, Driving
<1>1. /\ UNCHANGED <<slot, broken, usnap, ucmds>> /\ upc[u] \in {"canary", "promote"}
      /\ upc'[u] \in {"conformance", "rollback", "swap"}
  BY <1>0 DEF CanaryUp, DropCanary, PluginCanary, WorkerCanary, KernelCanary, ConfigCanary, Go
<1>2. SendsLittle(u) BY <1>1 DEF SendsLittle
<1>3. OneGood(u)' BY <1>0, <1>1, <1>2, OneIsLeft
<1>4. /\ \A t \in Canaries \ {target(u)} : canary'[t] = canary[t]
         /\ (t \in stranded' <=> t \in stranded)
      /\ stranded \subseteq stranded'
  BY <1>0 DEF CanaryUp, DropCanary, Uncanary, PluginCanary, WorkerCanary, KernelCanary, ConfigCanary,
              Canaries
<1>5. OthersGood(u)' BY <1>0, <1>1, <1>4, OthersStayGood
<1>6. CmdsFit' BY <1>0, <1>1, <1>2, FallbacksFit
<1>7. uworld' = uworld BY <1>0, MovesFacts
<1>8. target(u)' = target(u) BY <1>7 DEF target
<1>9. target(u) \in Names => NameGood(target(u))' BY <1>0, <1>1, NameIsLeft
<1>10. ASSUME target(u) \in Canaries PROVE CanaryGood(target(u))'
  <2>1. CASE DropCanary(u)
    <3>1. canary'[target(u)] = "none" \/ target(u) \in stranded'
      BY <1>0, <1>10, <2>1 DEF DropCanary, Uncanary, Canaries
    <3> QED BY <1>8, <3>1 DEF CanaryGood
  <2>2. CASE CanaryUp(u)
    <3>1. upc'[u] \in CanaryPc
      BY <1>0, <2>2 DEF CanaryUp, PluginCanary, WorkerCanary, KernelCanary, ConfigCanary, Go, CanaryPc
    <3> QED BY <1>8, <3>1 DEF CanaryGood
  <2> QED BY <2>1, <2>2
<1>11. broken' \subseteq Canaries BY <1>1 DEF SlotGood
<1> QED BY <1>3, <1>5, <1>6, <1>8, <1>9, <1>10, <1>11, ActorCompletes

\* The old one goes, or could not be unmounted: the name is free or still its own, for the
\* driver that is about to mount.
LEMMA DropOldKeepsNames ==
  ASSUME NEW u \in Proposal, QueueInv, VerifyInv, Solo, SlotGood, DropOld(u)
  PROVE  SlotGood'
<1>0. /\ DriverStep(u) /\ upc \in [Proposal -> Pc] /\ slot \in [Names -> Holder]
      /\ upc[u] = "swap" /\ target(u) \in {"plugin", "worker"}
  BY DrivingIsDriverStep DEF QueueInv, QueueTypes, VerifyInv, HoldTypes, Driving, DropOld, PcsFit
<1>1. UNCHANGED <<broken, usnap, ucmds, canary, stranded>>
      /\ upc'[u] = "mount" BY <1>0 DEF DropOld, Go
<1>2. SendsLittle(u) BY <1>1 DEF SendsLittle
<1>3. target(u) = "worker" \/ usnap[u] # "none" BY <1>0 DEF SlotGood, OneGood, Undriven
<1>4. slot' = [slot EXCEPT ![target(u)] = "none"] \/ slot' = slot BY <1>3 DEF DropOld
<1>15. target(u) \in broken \/ slot[target(u)] = "old"
  <2>1. NameGood(target(u)) BY <1>0 DEF SlotGood, Names
  <2>2. ~FallsBack(u) BY <1>0 DEF SlotGood, CmdsFit, FallsBack
  <2>3. ~Took(u) BY <1>0, <2>2 DEF Took
  <2> QED BY <2>1, <2>3 DEF NameGood, Solo
<1>5. /\ slot'[target(u)] = "none" \/ slot'[target(u)] = "old" \/ target(u) \in broken
      /\ \A t \in Names \ {target(u)} : slot'[t] = slot[t]
  BY <1>0, <1>4, <1>15 DEF Names
<1>6. OthersGood(u)' BY <1>0, <1>1, <1>5, OthersStayGood
<1>7. CmdsFit' BY <1>0, <1>1, <1>2, FallbacksFit
<1>8. uworld' = uworld /\ ustatus' = ustatus /\ uans'[u] = "none" BY <1>0, MovesFacts
<1>9. target(u)' = target(u) BY <1>8 DEF target
<1>10. slot'[target(u)] = "none" => Took(u)' BY <1>1, <1>9 DEF Took
<1>11. NameGood(target(u))' BY <1>1, <1>5, <1>9, <1>10 DEF NameGood
<1>12. CanaryGood(target(u))'
  <2>1. CanaryGood(target(u)) BY <1>0 DEF SlotGood, Canaries
  <2>2. target(u) \in stranded \/ canary[target(u)] = "none"
    BY <1>0, <2>1 DEF CanaryGood, CanaryPc, Solo
  <2> QED BY <1>1, <1>9, <2>2 DEF CanaryGood
<1>13. OneGood(u)'
  <2>1. OneGood(u) BY DEF SlotGood
  <2>2. ~EndsAs(u, "promoted") BY <1>0, EndsAreDone
  <2>3. ~EndsAs(u, "promoted")' BY <1>1, <1>8, <2>2 DEF EndsAs
  <2>4. target(u) = "plugin" => "plugin" \notin broken BY <1>0, <2>1 DEF OneGood
  <2>5. target(u) = "plugin" => usnap[u] = "old" BY <1>0, <2>1 DEF OneGood, Undriven
  <2> QED BY <1>0, <1>1, <1>5, <1>8, <1>9, <2>3, <2>4, <2>5 DEF OneGood
<1>14. broken' \subseteq Canaries BY <1>1 DEF SlotGood
<1> QED BY <1>6, <1>7, <1>9, <1>11, <1>12, <1>13, <1>14, ActorCompletes

\* What is sent when a candidate took its name.
LEMMA PromotedIsSent ==
  ASSUME NEW u \in Proposal, QueueInv, Tell(u, "promoted")
  PROVE  /\ EndsAs(u, "promoted")'
         /\ \A i \in 1 .. Len(ucmds') : ucmds'[i].op = "fallback" =>
              i \in 1 .. Len(ucmds) /\ ucmds'[i] = ucmds[i]
<1>1. ucmds' = Append(ucmds, Cmd("phase", u, "promoted")) BY DEF Tell
<1>2. /\ \A i \in 1 .. Len(ucmds) : i \in 1 .. Len(ucmds') /\ ucmds'[i] = ucmds[i]
      /\ \A i \in 1 .. Len(ucmds') : i \in 1 .. Len(ucmds) \/ i = Len(ucmds) + 1
      /\ Len(ucmds) + 1 \in 1 .. Len(ucmds')
      /\ ucmds'[Len(ucmds) + 1].op = "phase" /\ ucmds'[Len(ucmds) + 1].u = u
      /\ ucmds'[Len(ucmds) + 1].v = "promoted"
  BY <1>1, SentIs DEF CmdOp, CmdWord, PhaseWord
<1> QED BY <1>2 DEF EndsAs

\* The candidate takes the name, or another answers for it, and its end is on its way
\* (plugin_promote(), worker_promote(), config_promote()).
LEMMA TakingKeepsNames ==
  ASSUME NEW u \in Proposal, QueueInv, VerifyInv, Solo, SlotGood, DriverStep(u),
         Tell(u, "promoted"), upc'[u] = "done", upc[u] \notin {"rollback"} \cup CanaryPc,
         target(u) \in Names, slot'[target(u)] = u \/ target(u) \in broken',
         \A t \in Names \ {target(u)} : slot'[t] = slot[t],
         broken \subseteq broken', broken' \subseteq Canaries,
         \A t \in Target \ {target(u)} : t \in broken' <=> t \in broken,
         UNCHANGED <<usnap, canary, stranded>>
  PROVE  SlotGood'
<1>1. uworld' = uworld /\ uans'[u] = "none" /\ \A w \in Proposal : w # u => upc'[w] = upc[w]
      /\ upc[u] # "done"
  BY MovesFacts DEF Undriven
<1>2. target(u)' = target(u) BY <1>1 DEF target
<1>3. EndsAs(u, "promoted")' BY PromotedIsSent
<1>4. OthersGood(u)' BY OthersStayGood
<1>5. slot'[target(u)] = u => Took(u)' BY <1>2, <1>3 DEF Took
<1>6. NameGood(target(u))' BY <1>2, <1>5 DEF NameGood
<1>7. CmdsFit'
  <2>1. \A i \in 1 .. Len(ucmds') : ucmds'[i].op = "fallback" =>
          i \in 1 .. Len(ucmds) /\ ucmds'[i] = ucmds[i] /\ ucmds[i].u \in Proposal
    BY PromotedIsSent, CmdsAreCmds
  <2> QED BY <1>1, <2>1 DEF SlotGood, CmdsFit, target
<1>8. target(u) \in Canaries => CanaryGood(target(u))' BY CanaryIsLeft
<1>9. OneGood(u)'
  <2>1. OneGood(u) BY DEF SlotGood
  <2> QED BY <1>1, <1>2, <2>1 DEF OneGood, Undriven
<1> QED BY <1>2, <1>4, <1>6, <1>7, <1>8, <1>9, ActorCompletes

\* A mount that fails: a plugin's leaves the name to nobody, to what could not be unmounted,
\* or to the candidate that could not be installed; a worker's asks for the built-in one
\* (plugin_promote(), install(), worker_promote()).
LEMMA FailingKeepsNames ==
  ASSUME NEW u \in Proposal, QueueInv, VerifyInv, Solo, SlotGood, Mount(u), upc'[u] = "rollback"
  PROVE  SlotGood'
<1>0. /\ DriverStep(u) /\ upc \in [Proposal -> Pc] /\ upc[u] = "mount"
         /\ target(u) \in {"plugin", "worker"}
      /\ UNCHANGED <<usnap, canary, stranded>> /\ slot \in [Names -> Holder]
  BY DrivingIsDriverStep DEF QueueInv, QueueTypes, VerifyInv, HoldTypes, Driving, Mount, PcsFit
<1>1. /\ uworld' = uworld /\ uans'[u] = "none" /\ ustatus' = ustatus
      /\ \A w \in Proposal : w # u => upc'[w] = upc[w]
  BY <1>0, MovesFacts
<1>2. target(u)' = target(u) BY <1>1 DEF target
<1>3. OneGood(u) /\ NameGood(target(u)) /\ broken \subseteq Canaries BY <1>0 DEF SlotGood, Names
<1>4. /\ broken \subseteq broken' /\ broken' \subseteq Canaries
      /\ \A t \in Target \ {target(u)} : t \in broken' <=> t \in broken
      /\ \A t \in Names \ {target(u)} : slot'[t] = slot[t]
  BY <1>0, <1>3 DEF Mount, PluginMount, WorkerMount, Canaries
<1>5. OthersGood(u)' BY <1>0, <1>4, OthersStayGood
<1>6. CanaryGood(target(u))' BY <1>0, <1>4, CanaryIsLeft DEF CanaryPc, Canaries
<1>7. ~EndsAs(u, "promoted") BY <1>0, EndsAreDone
<1>8. CASE target(u) = "plugin"
  <2>1. ucmds' = ucmds /\ ("plugin" \in broken' \/ (slot' = slot /\ slot["plugin"] # "none"))
    BY <1>0, <1>8 DEF Mount, PluginMount, WorkerMount, Go
  <2>2. "plugin" \in broken' \/ slot'["plugin"] = "old" BY <1>0, <1>3, <1>4, <1>8, <2>1 DEF OneGood
  <2>3. NameGood(target(u))' BY <1>2, <1>8, <2>2 DEF NameGood
  <2>4. SendsLittle(u) BY <2>1 DEF SendsLittle
  <2>5. CmdsFit' BY <1>0, <2>4, FallbacksFit
  <2>6. ~EndsAs(u, "promoted")' BY <1>1, <1>7, <2>1 DEF EndsAs
  <2>7. OneGood(u)' BY <1>0, <1>1, <1>2, <1>3, <1>8, <2>6 DEF OneGood, Undriven
  <2> QED BY <1>0, <1>2, <1>4, <1>5, <1>6, <2>3, <2>5, <2>7, ActorCompletes
<1>9. CASE target(u) = "worker"
  <2>1. ucmds' = Append(ucmds, Cmd("fallback", u, 0)) /\ broken' = broken /\ slot' = slot
    <3>1. CASE Ask("fallback", u, 0, "rollback") /\ broken' = broken /\ slot' = slot BY <3>1 DEF Ask
    <3>2. CASE Go(u, "done") BY <1>0, <3>2 DEF Go
    <3> QED BY <1>9, <3>1, <3>2 DEF Mount, PluginMount, WorkerMount
  <2>2. /\ \A i \in 1 .. Len(ucmds) : i \in 1 .. Len(ucmds') /\ ucmds'[i] = ucmds[i]
        /\ \A i \in 1 .. Len(ucmds') : i \in 1 .. Len(ucmds) \/ i = Len(ucmds) + 1
        /\ Len(ucmds) + 1 \in 1 .. Len(ucmds')
        /\ ucmds'[Len(ucmds) + 1].op = "fallback" /\ ucmds'[Len(ucmds) + 1].u = u
    <3>1. PICK z : z = 0 OBVIOUS
    <3>2. z \in CmdWord BY <3>1 DEF CmdWord
    <3>3. PICK op \in CmdOp : op = "fallback" BY DEF CmdOp
    <3>4. ucmds' = Append(ucmds, Cmd(op, u, z)) BY <2>1, <3>1, <3>3
    <3> QED BY <3>2, <3>3, <3>4, SentIs
  <2>3. FallsBack(u)' BY <2>2 DEF FallsBack
  <2>4. "worker" \in broken \/ slot["worker"] = "none" \/ slot["worker"] = "old"
    BY <1>0, <1>3, <1>9 DEF OneGood
  <2>5. NameGood(target(u))' BY <1>2, <1>9, <2>1, <2>3, <2>4 DEF NameGood, Took
  <2>6. CmdsFit'
    <3>1. ASSUME NEW i \in 1 .. Len(ucmds'), ucmds'[i].op = "fallback"
          PROVE  target(ucmds'[i].u) = "worker" /\ upc'[ucmds'[i].u] \in {"rollback", "done"}
      <4>1. CASE i \in 1 .. Len(ucmds)
        <5>1. ucmds'[i] = ucmds[i] /\ ucmds[i].u \in Proposal BY <4>1, <2>2, CmdsAreCmds
        <5>2. target(ucmds[i].u) = "worker" /\ upc[ucmds[i].u] \in {"rollback", "done"}
          BY <3>1, <4>1, <5>1 DEF SlotGood, CmdsFit
        <5>3. ucmds[i].u # u BY <1>0, <5>2
        <5> QED BY <1>1, <5>1, <5>2, <5>3 DEF target
      <4>2. CASE i = Len(ucmds) + 1 BY <1>9, <2>2, <4>2
      <4> QED BY <2>2, <4>1, <4>2
    <3> QED BY <1>1, <3>1 DEF CmdsFit, target
  <2>7. ~EndsAs(u, "promoted")' BY <1>1, <1>7, <2>2 DEF EndsAs
  <2>8. OneGood(u)' BY <1>1, <1>2, <1>9, <2>7 DEF OneGood
  <2> QED BY <1>0, <1>2, <1>4, <1>5, <1>6, <2>5, <2>6, <2>8, ActorCompletes
<1> QED BY <1>0, <1>8, <1>9

\* Mounting under the real name, either way.
LEMMA MountKeepsNames ==
  ASSUME NEW u \in Proposal, QueueInv, VerifyInv, Solo, SlotGood, Mount(u)
  PROVE  SlotGood'
<1>0. /\ DriverStep(u) /\ upc \in [Proposal -> Pc] /\ upc[u] = "mount"
         /\ target(u) \in {"plugin", "worker"}
      /\ UNCHANGED <<usnap, canary, stranded>> /\ slot \in [Names -> Holder]
      /\ broken \subseteq Canaries
  BY DrivingIsDriverStep DEF QueueInv, QueueTypes, VerifyInv, HoldTypes, Driving, Mount, PcsFit,
  SlotGood
<1>1. CASE Go(u, "done")
  <2>1. /\ Tell(u, "promoted")
        /\ \/ slot' = [slot EXCEPT ![target(u)] = u] /\ broken' = broken
           \/ slot' = slot /\ broken' = broken \cup {target(u)}
    <3>1. ~Go(u, "rollback") BY <1>0, <1>1 DEF Go
    <3> QED BY <1>0, <3>1 DEF Mount, PluginMount, WorkerMount, Ask
  <2>2. /\ slot'[target(u)] = u \/ target(u) \in broken'
        /\ \A t \in Names \ {target(u)} : slot'[t] = slot[t]
    BY <1>0, <2>1 DEF Names
  <2>3. /\ broken \subseteq broken' /\ broken' \subseteq Canaries
        /\ \A t \in Target \ {target(u)} : t \in broken' <=> t \in broken
    BY <1>0, <2>1 DEF Canaries
  <2>4. upc'[u] = "done" BY <1>0, <1>1 DEF Go
  <2>5. target(u) \in Names /\ upc[u] \notin {"rollback"} \cup CanaryPc BY <1>0 DEF Names, CanaryPc
  <2> QED BY <1>0, <2>1, <2>2, <2>3, <2>4, <2>5, TakingKeepsNames
<1>2. CASE Go(u, "rollback")
  <2>1. upc'[u] = "rollback" BY <1>0, <1>2 DEF Go
  <2> QED BY <2>1, FailingKeepsNames
<1> QED BY <1>1, <1>2 DEF Mount, PluginMount, WorkerMount, Ask

\* The patched configuration is promoted (config_promote()).
LEMMA PatchedKeepsNames ==
  ASSUME NEW u \in Proposal, QueueInv, VerifyInv, Solo, SlotGood, Patched(u), target(u) = "config",
         uans[u] = "ok"
  PROVE  SlotGood'
<1>0. DriverStep(u) /\ upc \in [Proposal -> Pc] /\ UNCHANGED <<usnap, canary, slot, broken, stranded>>
      /\ broken \subseteq Canaries
  BY DrivingIsDriverStep DEF QueueInv, QueueTypes, Driving, Patched, holdVars, SlotGood
<1>1. upc[u] = "patched" BY DEF VerifyInv, PcsFit, Patched
<1>2. slot["config"] = u BY <1>1 DEF SlotGood, OneGood
<1>3. Tell(u, "promoted") /\ upc'[u] = "done" BY <1>0 DEF Patched, Go
<1>4. target(u) \in Names /\ upc[u] \notin {"rollback"} \cup CanaryPc BY <1>1 DEF Names, CanaryPc
<1> QED BY <1>0, <1>2, <1>3, <1>4, TakingKeepsNames

\* A rollback ends the canary, or strands it, and copies back a configuration that nobody else changed
\* (plugin_rollback(), worker_rollback(), config_rollback()).
LEMMA RollbackKeepsNames ==
  ASSUME NEW u \in Proposal, QueueInv, VerifyInv, Solo, SlotGood, Rollback(u)
  PROVE  SlotGood'
<1>0. /\ DriverStep(u) /\ upc \in [Proposal -> Pc] /\ UNCHANGED <<usnap, broken>>
         /\ upc[u] = "rollback"
      /\ slot \in [Names -> Holder] /\ canary \in [{"plugin", "worker"} -> Holder] /\ upc'[u] = "done"
  BY DrivingIsDriverStep DEF QueueInv, QueueTypes, Driving, Rollback, VerifyInv, HoldTypes, Go
<1>1. SendsLittle(u)
  <2>1. ucmds' = Append(ucmds, Cmd("phase", u, "rolled_back")) BY DEF Rollback, Tell
  <2>2. "phase" \in CmdOp \ {"fallback"} /\ "rolled_back" \in CmdWord BY DEF CmdOp, CmdWord, PhaseWord
  <2> QED BY <2>1, <2>2 DEF SendsLittle
<1>2. slot' = slot
  <2>1. CASE target(u) = "config" /\ usnap[u] # "none"
    <3>1. NameGood("config") /\ OneGood(u) /\ broken \subseteq Canaries BY DEF SlotGood, Names
    <3>2. ~Took(u) BY <1>0, <2>1 DEF Took
    <3>3. slot["config"] = "old" BY <2>1, <3>1, <3>2 DEF NameGood, Canaries, Solo
    <3>4. usnap[u] = "old" BY <2>1, <3>1 DEF OneGood
    <3>5. slot' = [slot EXCEPT !["config"] = "old"] BY <2>1, <3>4 DEF Rollback, Restored
    <3> QED BY <1>0, <3>3, <3>5
  <2>2. CASE ~(target(u) = "config" /\ usnap[u] # "none") BY <2>2 DEF Rollback, Restored
  <2> QED BY <2>1, <2>2
<1>3. OneGood(u)' BY <1>0, <1>1, OneIsLeft
<1>4. /\ \A t \in Canaries \ {target(u)} : canary'[t] = canary[t]
         /\ (t \in stranded' <=> t \in stranded)
      /\ target(u) \in Canaries => canary'[target(u)] = "none" \/ target(u) \in stranded'
  BY <1>0 DEF Rollback, Uncanary, Canaries
<1>5. OthersGood(u)' BY <1>0, <1>2, <1>4, OthersStayGood
<1>6. CmdsFit' BY <1>0, <1>1, FallbacksFit
<1>7. uworld' = uworld BY <1>0, MovesFacts
<1>8. target(u)' = target(u) BY <1>7 DEF target
<1>9. target(u) \in Names => NameGood(target(u))' BY <1>0, <1>2, NameIsLeft
<1>10. target(u) \in Canaries => CanaryGood(target(u))' BY <1>4, <1>8 DEF CanaryGood
<1>11. broken' \subseteq Canaries BY <1>0 DEF SlotGood
<1> QED BY <1>3, <1>5, <1>6, <1>8, <1>9, <1>10, <1>11, ActorCompletes

\* So every step of a driver keeps the names.
LEMMA DrivingKeepsSlots ==
  ASSUME NEW u \in Proposal, QueueInv, VerifyInv, Solo, SlotGood, Driving(u)
  PROVE  SlotGood'
<1>1. CASE Snapshot(u) BY <1>1, SnapshotKeepsNames
<1>2. CASE CanaryUp(u) \/ DropCanary(u) BY <1>2, CanaryStepsKeepNames
<1>3. CASE DropOld(u) BY <1>3, DropOldKeepsNames
<1>4. CASE Mount(u) BY <1>4, MountKeepsNames
<1>5. CASE Patched(u) /\ target(u) = "config" /\ uans[u] = "ok" BY <1>5, PatchedKeepsNames
<1>6. CASE Rollback(u) BY <1>6, RollbackKeepsNames
<1> QED BY <1>1, <1>2, <1>3, <1>4, <1>5, <1>6, QuietDriving DEF Driving

\* What base's step leaves of the ends and the fallbacks: an end is in the queue or in the
\* row, a fallback in the queue until it is taken (upgrade_update(), fallback()).
LEMMA BaseLeavesEnds ==
  ASSUME QueueInv, Base, NEW w \in Proposal
  PROVE  /\ EndsAs(w, "promoted") <=> EndsAs(w, "promoted")'
         /\ FallsBack(w) /\ ~(Head(ucmds).op = "fallback" /\ Head(ucmds).u = w) => FallsBack(w)'
<1>0. PICK c \in CmdSet : c = Head(ucmds) BY QueueRest
<1>00. /\ c.u \in Proposal /\ c = ucmds[1] /\ 1 \in 1 .. Len(ucmds)
          /\ ustatus \in [Proposal -> Status]
  BY <1>0, QueueRest DEF QueueInv, QueueTypes
<1>1. /\ \A i \in 1 .. Len(ucmds) : i = 1 \/ (i - 1 \in 1 .. Len(ucmds') /\ ucmds'[i - 1] = ucmds[i])
      /\ \A i \in 1 .. Len(ucmds') : ucmds'[i].op = "phase" =>
           i + 1 \in 1 .. Len(ucmds) /\ ucmds'[i] = ucmds[i + 1]
  BY QueueRest
<1>2. \/ ustatus' = ustatus /\ c.op # "phase"
      \/ c.op = "phase" /\ ustatus' = [ustatus EXCEPT ![c.u] = c.v]
      \/ c.op = "approved" /\ \E s \in {ustatus[c.u],
        "rolled_back"} : ustatus' = [ustatus EXCEPT ![c.u] = s]
  BY <1>0 DEF Base, Approved, Start, Update
<1>3. ASSUME EndsAs(w, "promoted") PROVE EndsAs(w, "promoted")'
  <2>1. CASE ustatus[w] = "promoted"
    <3>1. ustatus'[w] = ustatus[w] BY <2>1, EndedStays DEF UpNext, Terminal
    <3> QED BY <2>1, <3>1 DEF EndsAs
  <2>2. ASSUME NEW i \in 1 .. Len(ucmds), ucmds[i].op = "phase", ucmds[i].u = w,
               ucmds[i].v = "promoted"
        PROVE  EndsAs(w, "promoted")'
    <3>1. CASE i = 1
      <4>1. c.op = "phase" /\ c.u = w /\ c.v = "promoted" BY <1>00, <2>2, <3>1
      <4>2. ustatus' = [ustatus EXCEPT ![c.u] = c.v] BY <1>2, <4>1
      <4>3. ustatus'[w] = "promoted" BY <1>00, <4>1, <4>2
      <4> QED BY <4>3 DEF EndsAs
    <3>2. CASE i # 1 BY <1>1, <2>2, <3>2 DEF EndsAs
    <3> QED BY <3>1, <3>2
  <2> QED BY <1>3, <2>1, <2>2 DEF EndsAs
<1>4. ASSUME EndsAs(w, "promoted")' PROVE EndsAs(w, "promoted")
  <2>1. CASE ustatus'[w] = "promoted"
    <3>1. ustatus[w] = "promoted" \/ (c.op = "phase" /\ c.u = w /\ c.v = "promoted")
      BY <1>00, <1>2, <2>1
    <3> QED BY <1>00, <3>1 DEF EndsAs
  <2>2. CASE \E i \in 1 .. Len(ucmds') : ucmds'[i].op = "phase" /\ ucmds'[i].u = w
        /\ ucmds'[i].v = "promoted"
    BY <1>1, <2>2 DEF EndsAs
  <2> QED BY <1>4, <2>1, <2>2 DEF EndsAs
<1>5. ASSUME FallsBack(w), ~(c.op = "fallback" /\ c.u = w) PROVE FallsBack(w)'
  <2>1. PICK i \in 1 .. Len(ucmds) : ucmds[i].op = "fallback" /\ ucmds[i].u = w BY <1>5 DEF FallsBack
  <2>2. i # 1 BY <1>00, <1>5, <2>1
  <2> QED BY <1>1, <2>1, <2>2 DEF FallsBack
<1> QED BY <1>0, <1>3, <1>4, <1>5

\* The fallbacks that are left fit, and so do the canaries.
LEMMA BaseLeavesCmds ==
  ASSUME QueueInv, SlotGood, Base
  PROVE  /\ CmdsFit' /\ broken' \subseteq Canaries /\ \A t \in Canaries : CanaryGood(t)'
         /\ \A w \in Proposal : upc'[w] = upc[w] \/ (upc[w] = "waiting"
              /\ upc'[w] \in {"snapshot", "done"})
<1>0. PICK c \in CmdSet : c = Head(ucmds) BY QueueRest
<1>00. /\ c.u \in Proposal /\ c = ucmds[1] /\ 1 \in 1 .. Len(ucmds) /\ upc \in [Proposal -> Pc]
       /\ UNCHANGED <<uworld, canary, stranded>> /\ broken' \subseteq broken \cup {"worker"}
  BY <1>0, QueueRest DEF QueueInv, QueueTypes, Base, Fallback
<1>1. \A w \in Proposal : upc'[w] = upc[w] \/ (upc[w] = "waiting" /\ upc'[w] \in {"snapshot", "done"})
  <2>1. CASE upc' = upc BY <2>1
  <2>2. CASE c.op = "approved" /\ Approved(c.u, c.v)
    <3>1. upc[c.u] = "waiting" BY <1>00, <2>2 DEF QueueInv, AsksAreAwaited, Awaits, Asking
    <3> QED BY <1>00, <2>2, <3>1 DEF Approved, Start
  <2> QED BY <1>0, <2>1, <2>2 DEF Base
<1>2. CmdsFit'
  <2>1. \A i \in 1 .. Len(ucmds') : ucmds'[i].op = "fallback" =>
          i + 1 \in 1 .. Len(ucmds) /\ ucmds'[i] = ucmds[i + 1] /\ ucmds[i + 1].u \in Proposal
    BY QueueRest, CmdsAreCmds
  <2> QED BY <1>00, <1>1, <2>1 DEF SlotGood, CmdsFit, target
<1>3. ASSUME NEW t \in Canaries PROVE CanaryGood(t)'
  <2>1. CanaryGood(t) BY DEF SlotGood
  <2> QED BY <1>00, <1>1, <2>1 DEF CanaryGood, CanaryPc, target
<1>4. broken' \subseteq Canaries BY <1>00 DEF SlotGood, Canaries
<1> QED BY <1>1, <1>2, <1>3, <1>4

\* A proposal whose name base leaves alone.
LEMMA BaseLeavesOne ==
  ASSUME QueueInv, VerifyInv, SlotGood, Base, NEW w \in Proposal,
         target(w) \in Names => slot'[target(w)] = slot[target(w)],
         upc[w] = "patched" => uans'[w] # "ok" \/ uans'[w] = uans[w]
  PROVE  OneGood(w)'
<1>1. /\ UNCHANGED <<uworld, usnap>> /\ broken \subseteq broken'
         /\ broken' \subseteq broken \cup {"worker"}
  BY DEF Base, Fallback
<1>2. target(w)' = target(w) BY <1>1 DEF target
<1>3. OneGood(w) BY DEF SlotGood
<1>4. upc'[w] = upc[w] \/ (upc[w] = "waiting" /\ upc'[w] \in {"snapshot", "done"}) BY BaseLeavesCmds
<1>5. EndsAs(w, "promoted")' => EndsAs(w, "promoted") BY BaseLeavesEnds
<1>6. /\ upc[w] = "patched" => target(w) = "config"
      /\ upc[w] = "mount" => target(w) \in Names
  BY DEF VerifyInv, PcsFit, Names
<1>7. (target(w) \in Names /\ EndsAs(w, "promoted") => target(w) \in broken \/ slot[target(w)] = w)'
  BY <1>1, <1>2, <1>3, <1>5 DEF OneGood
<1>8. (upc[w] = "mount" => target(w) \in broken \/ slot[target(w)] \in {"none", "old"})'
  BY <1>1, <1>2, <1>3, <1>4, <1>6 DEF OneGood
<1>9. (upc[w] = "patched" /\ uans[w] = "ok" => slot["config"] = w)'
  BY <1>3, <1>4, <1>6 DEF OneGood, Names
<1>10. (target(w) \in {"plugin", "config"} =>
          /\ usnap[w] \in {"none", "old"}
          /\ upc[w] \in Undriven \cup {"snapshot", "rollback"} \/ usnap[w] = "old")'
  BY <1>1, <1>2, <1>3, <1>4 DEF OneGood, Undriven
<1>11. (target(w) = "plugin" /\ "plugin" \in broken => upc[w] \in {"rollback", "done"})'
  BY <1>1, <1>2, <1>3, <1>4 DEF OneGood
<1> QED BY <1>7, <1>8, <1>9, <1>10, <1>11 DEF OneGood

\* A name base leaves alone.
LEMMA BaseLeavesName ==
  ASSUME QueueInv, VerifyInv, SlotGood, Base, NEW t \in Names, slot'[t] = slot[t],
         t = "worker" /\ slot["worker"] = "none" => Head(ucmds).op # "fallback" \/ t \in broken',
         \A w \in Proposal : uans[w] # "none" => uans'[w] = uans[w]
  PROVE  NameGood(t)'
<1>1. uworld' = uworld /\ broken \subseteq broken' BY DEF Base, Fallback
<1>2. NameGood(t) BY DEF SlotGood
<1>3. CASE t \in broken' \/ slot[t] = "old" BY <1>1, <1>3 DEF NameGood
<1>4. CASE t \notin broken' /\ \E w \in Proposal : target(w) = t /\ Took(w)
  <2>1. PICK w \in Proposal : target(w) = t /\ Took(w) BY <1>4
  <2>2. target(w)' = t BY <1>1, <2>1 DEF target
  <2>3. upc'[w] = upc[w] \/ upc[w] = "waiting" BY BaseLeavesCmds
  <2>4. EndsAs(w, "promoted") => EndsAs(w, "promoted")' BY BaseLeavesEnds
  <2>5. FallsBack(w) /\ t = "worker" /\ slot["worker"] = "none" => FallsBack(w)'
    BY <1>4, BaseLeavesEnds
  <2>6. Took(w)'
    <3>1. CASE upc[w] = "mount" /\ slot[target(w)] = "none" BY <2>1, <2>2, <2>3, <3>1 DEF Took
    <3>2. CASE target(w) = "worker" /\ slot["worker"] = "none" /\ FallsBack(w)
      BY <2>1, <2>2, <2>5, <3>2 DEF Took
    <3>3. CASE target(w) = "config" /\ slot["config"] = w /\ upc[w] = "patched" /\ uans[w] = "ok"
      BY <2>1, <2>2, <2>3, <3>3 DEF Took
    <3>4. CASE slot[target(w)] = w /\ upc[w] = "done" /\ EndsAs(w, "promoted")
      BY <2>1, <2>2, <2>3, <2>4, <3>4 DEF Took
    <3> QED BY <2>1, <3>1, <3>2, <3>3, <3>4 DEF Took
  <2> QED BY <2>2, <2>6 DEF NameGood
<1> QED BY <1>1, <1>2, <1>3, <1>4 DEF NameGood

\* Base's commands keep the names: a patch gives the configuration to who asked and waits
\* for it, a fallback brings the built-in worker back to a free name, or fails to.
LEMMA BaseKeepsSlots ==
  ASSUME QueueInv, VerifyInv, Solo, SlotGood, Base
  PROVE  SlotGood'
<1>0. PICK c \in CmdSet : c = Head(ucmds) BY QueueRest
<1>00. /\ c.u \in Proposal /\ c = ucmds[1] /\ 1 \in 1 .. Len(ucmds) /\ slot \in [Names -> Holder]
       /\ uans \in [Proposal -> {"none", "ok", "err", "worse"}] /\ uworld' = uworld
       /\ broken \subseteq broken'
  BY <1>0, QueueRest DEF QueueInv, QueueTypes, VerifyInv, HoldTypes, Base, Fallback
<1>1. c.op \in Asking => Awaits(c.op, upc[c.u])
      /\ uans[c.u] = "none" BY <1>00 DEF QueueInv, AsksAreAwaited
<1>2. /\ \A w \in Proposal : uans'[w] = uans[w] \/ (w = c.u /\ c.op \in Asking)
      /\ \A w \in Proposal : uans[w] # "none" => uans'[w] = uans[w]
  <2>1. uans' = uans \/ (c.op \in Asking
          /\ \E a \in {"ok", "err", "worse"} : uans' = [uans EXCEPT ![c.u] = a])
    BY <1>0 DEF Base, Reply, PutLkg, Bench, Asking
  <2> QED BY <1>00, <1>1, <2>1
<1>3. SUFFICES (\A w \in Proposal : OneGood(w)') /\ (\A t \in Names : NameGood(t)')
  BY BaseLeavesCmds DEF SlotGood
<1>4. CASE slot' = slot /\ c.op # "fallback" /\ (c.op = "patch" => uans'[c.u] # "ok")
  <2>1. ASSUME NEW w \in Proposal PROVE OneGood(w)'
    <3>1. upc[w] = "patched" => uans'[w] # "ok" \/ uans'[w] = uans[w]
      BY <1>1, <1>2, <1>4 DEF Awaits
    <3> QED BY <1>4, <3>1, BaseLeavesOne
  <2>2. ASSUME NEW t \in Names PROVE NameGood(t)' BY <1>0, <1>2, <1>4, BaseLeavesName
  <2> QED BY <2>1, <2>2
<1>5. CASE c.op = "patch" /\ slot' = [slot EXCEPT !["config"] = c.u] /\ Reply(c.u, "ok") /\ upc' = upc
  <2>1. upc[c.u] = "patched" /\ target(c.u) = "config"
    BY <1>00, <1>1, <1>5 DEF Asking, Awaits, VerifyInv, PcsFit
  <2>2. slot'["config"] = c.u /\ uans'[c.u] = "ok" /\ \A t \in Names \ {"config"} : slot'[t] = slot[t]
    BY <1>00, <1>5 DEF Names, Reply
  <2>3. \A w \in Proposal : w # c.u => target(w) # "config" BY <1>00, <2>1 DEF Solo
  <2>4. ASSUME NEW w \in Proposal, w # c.u PROVE OneGood(w)'
    <3>1. target(w) \in Names => slot'[target(w)] = slot[target(w)] BY <2>2, <2>3, <2>4
    <3>2. upc[w] # "patched" BY <2>3, <2>4 DEF VerifyInv, PcsFit
    <3> QED BY <3>1, <3>2, BaseLeavesOne
  <2>5. OneGood(c.u)'
    <3>1. target(c.u)' = "config" /\ usnap' = usnap BY <1>00, <2>1 DEF target, Base
    <3>2. OneGood(c.u) BY <1>00 DEF SlotGood
    <3> QED BY <1>5, <2>1, <2>2, <3>1, <3>2 DEF OneGood
  <2>6. ASSUME NEW t \in Names, t # "config" PROVE NameGood(t)'
    BY <1>0, <1>2, <1>5, <2>2, <2>6, BaseLeavesName
  <2>7. NameGood("config")'
    <3>1. target(c.u)' = "config" BY <1>00, <2>1 DEF target
    <3>2. Took(c.u)' BY <1>5, <2>1, <2>2, <3>1 DEF Took
    <3> QED BY <1>00, <3>1, <3>2 DEF NameGood
  <2> QED BY <2>4, <2>5, <2>6, <2>7
<1>6. CASE c.op = "fallback" /\ Fallback /\ upc' = upc /\ uans' = uans
  <2>1. target(c.u) = "worker" /\ upc[c.u] \in {"rollback", "done"}
    BY <1>00, <1>6 DEF SlotGood, CmdsFit
  <2>2. /\ \A t \in Names \ {"worker"} : slot'[t] = slot[t]
        /\ slot["worker"] = "none" => slot'["worker"] = "old" \/ "worker" \in broken'
        /\ slot["worker"] # "none" => slot'["worker"] = slot["worker"]
    BY <1>00, <1>6 DEF Fallback, Names
  <2>3. ASSUME NEW t \in Names PROVE NameGood(t)'
    <3>1. CASE t = "worker" /\ slot["worker"] = "none" BY <2>2, <3>1 DEF NameGood
    <3>2. CASE ~(t = "worker" /\ slot["worker"] = "none")
      <4>1. slot'[t] = slot[t] BY <2>2, <3>2
      <4> QED BY <1>6, <3>2, <4>1, BaseLeavesName
    <3> QED BY <3>1, <3>2
  <2>4. ASSUME NEW w \in Proposal PROVE OneGood(w)'
    <3>1. CASE target(w) = "worker" /\ slot["worker"] = "none"
      <4>1. w = c.u BY <1>00, <2>1, <3>1 DEF Solo
      <4>2. "none" # w BY UpgradeAssumption
      <4>3. OneGood(w) BY DEF SlotGood
      <4>4. target(w)' = "worker" BY <1>00, <3>1 DEF target
      <4>5. EndsAs(w, "promoted")' => "worker" \in broken'
        BY <1>00, <3>1, <4>2, <4>3, BaseLeavesEnds DEF OneGood, Names
      <4> QED BY <1>6, <2>1, <4>1, <4>4, <4>5 DEF OneGood
    <3>2. CASE ~(target(w) = "worker" /\ slot["worker"] = "none")
      <4>1. target(w) \in Names => slot'[target(w)] = slot[target(w)] BY <2>2, <3>2
      <4> QED BY <1>6, <4>1, BaseLeavesOne
    <3> QED BY <3>1, <3>2
  <2> QED BY <2>3, <2>4
<1>7. \/ slot' = slot /\ c.op # "fallback" /\ (c.op = "patch" => uans'[c.u] # "ok")
      \/ c.op = "patch" /\ slot' = [slot EXCEPT !["config"] = c.u] /\ Reply(c.u, "ok") /\ upc' = upc
      \/ c.op = "fallback" /\ Fallback /\ upc' = upc /\ uans' = uans
  BY <1>0, <1>00 DEF Base, Reply
<1> QED BY <1>4, <1>5, <1>6, <1>7

\* The gate comes before every name (upgrade_propose(), upgrade_ask()).
LEMMA GateKeepsSlots ==
  ASSUME NEW u \in Proposal, QueueInv, VerifyInv, SlotGood,
         Propose(u) \/ \E a \in BOOLEAN : Verdict(u, a)
  PROVE  SlotGood'
<1>1. /\ UNCHANGED <<uworld, usnap, uans, slot, canary, broken, stranded>>
      /\ upc \in [Proposal -> Pc] /\ ustatus \in [Proposal -> Status] /\ upc[u] \in {"off", "gate"}
  BY DEF Propose, Verdict, holdVars, QueueInv, QueueTypes, NewAreOff
<1>2. \E p \in {"snapshot", "done", "gate", "waiting"} : upc' = [upc EXCEPT ![u] = p]
  BY DEF Propose, Verdict, Start
<1>3. upc'[u] \in {"snapshot", "done", "gate", "waiting"}
      /\ \A w \in Proposal : w # u => upc'[w] = upc[w]
  BY <1>1, <1>2
<1>4. /\ ustatus'[u] # "promoted" /\ \A w \in Proposal : w # u => ustatus'[w] = ustatus[w]
  <2>1. CASE Propose(u) BY <1>1, <2>1 DEF Propose, Start
  <2>2. CASE \E a \in BOOLEAN : Verdict(u, a)
    <3>1. ustatus' = ustatus BY <2>2 DEF Verdict
    <3> QED BY <1>1, <3>1, NothingIsSentBefore DEF Terminal
  <2> QED BY <2>1, <2>2
<1>5. /\ \A i \in 1 .. Len(ucmds) : i \in 1 .. Len(ucmds') /\ ucmds'[i] = ucmds[i]
      /\ \A i \in 1 .. Len(ucmds') : i \in 1 .. Len(ucmds) \/ ucmds'[i].op = "approved"
  <2>1. CASE Propose(u) BY <2>1 DEF Propose
  <2>2. ASSUME NEW a \in BOOLEAN, Verdict(u, a)
        PROVE  /\ \A i \in 1 .. Len(ucmds) : i \in 1 .. Len(ucmds') /\ ucmds'[i] = ucmds[i]
               /\ \A i \in 1 .. Len(ucmds') : i \in 1 .. Len(ucmds) \/ ucmds'[i].op = "approved"
    <3>1. a \in CmdWord BY DEF CmdWord
    <3>2. ucmds' = Append(ucmds, Cmd("approved", u, a)) BY <2>2 DEF Verdict
    <3> QED BY <3>1, <3>2, SentIs DEF CmdOp, Asking
  <2> QED BY <2>1, <2>2
<1>6. \A w \in Proposal : target(w)' = target(w) BY <1>1 DEF target
<1>7. ASSUME NEW w \in Proposal PROVE EndsAs(w, "promoted")' <=> EndsAs(w, "promoted")
  <2>1. CASE w = u
    <3>1. \A i \in 1 .. Len(ucmds) : ucmds[i].op = "phase"
          => ucmds[i].u # u BY <1>1, NothingIsSentBefore
    <3>2. ustatus[u] # "promoted" BY <1>1, NothingIsSentBefore DEF Terminal
    <3> QED BY <1>4, <1>5, <2>1, <3>1, <3>2 DEF EndsAs
  <2>2. CASE w # u BY <1>4, <1>5, <2>2 DEF EndsAs
  <2> QED BY <2>1, <2>2
<1>8. ASSUME NEW w \in Proposal PROVE FallsBack(w) => FallsBack(w)' BY <1>5 DEF FallsBack
<1>9. CmdsFit'
  <2>1. \A i \in 1 .. Len(ucmds') : ucmds'[i].op = "fallback" =>
          i \in 1 .. Len(ucmds) /\ ucmds'[i] = ucmds[i] /\ ucmds[i].u \in Proposal
    BY <1>5, CmdsAreCmds
  <2> QED BY <1>1, <1>3, <2>1 DEF SlotGood, CmdsFit, target
<1>10. ASSUME NEW w \in Proposal PROVE OneGood(w)'
  <2>1. OneGood(w) BY DEF SlotGood
  <2>2. CASE w = u
    BY <1>1, <1>3, <1>6, <1>7, <2>1, <2>2 DEF OneGood, Undriven
  <2>3. CASE w # u BY <1>1, <1>3, <1>6, <1>7, <2>1, <2>3 DEF OneGood
  <2> QED BY <2>2, <2>3
<1>11. ASSUME NEW t \in Names PROVE NameGood(t)'
  <2>1. NameGood(t) BY DEF SlotGood
  <2>2. CASE t \in broken \/ slot[t] = "old" BY <1>1, <2>2 DEF NameGood
  <2>3. CASE \E w \in Proposal : target(w) = t /\ Took(w)
    <3>1. PICK w \in Proposal : target(w) = t /\ Took(w) BY <2>3
    <3>2. target(w)' = t BY <1>6, <3>1
    <3>3. upc'[w] = upc[w] \/ upc[w] \in {"off", "gate"} BY <1>1, <1>3
    <3>4. Took(w)' BY <1>1, <1>7, <1>8, <3>1, <3>2, <3>3 DEF Took
    <3> QED BY <3>2, <3>4 DEF NameGood
  <2> QED BY <2>1, <2>2, <2>3 DEF NameGood
<1>12. ASSUME NEW t \in Canaries PROVE CanaryGood(t)'
  <2>1. CanaryGood(t) BY DEF SlotGood
  <2> QED BY <1>1, <1>3, <1>6, <2>1 DEF CanaryGood, CanaryPc
<1> QED BY <1>1, <1>9, <1>10, <1>11, <1>12 DEF SlotGood

\* Nodes hold no name of these.
LEMMA NodesKeepSlots ==
  ASSUME SlotGood, NodeStep
  PROVE  SlotGood'
<1>1. UNCHANGED <<uworld, ustatus, upc, uans, usnap, ucmds, slot, canary, broken, stranded>>
  BY DEF NodeStep, Terminate, OnExit, Register, NodeDies, holdVars
<1> QED BY <1>1 DEF SlotGood, CmdsFit, OneGood, NameGood, CanaryGood, Took, EndsAs, FallsBack, target

\* A worker that speaks late spoils its name, and no other (ready()).
LEMMA LateKeepsSlots ==
  ASSUME VerifyInv, SlotGood, NEW s \in silent, SpeaksLate(s)
  PROVE  SlotGood'
<1>1. /\ UNCHANGED <<uworld, ustatus, upc, uans, usnap, ucmds>>
      /\ broken \subseteq broken' /\ broken' \subseteq broken \cup {"worker"}
      /\ stranded \subseteq stranded'
      /\ \A t \in Names : slot'[t] = slot[t] \/ (t = "worker" /\ t \in broken')
      /\ \A t \in Canaries : canary'[t] = canary[t] \/ t \in stranded'
  BY DEF SpeaksLate, VerifyInv, HoldTypes, Names, Canaries
<1>2. \A w \in Proposal : target(w)' = target(w) BY <1>1 DEF target
<1>3. CmdsFit' BY <1>1 DEF SlotGood, CmdsFit, target
<1>4. ASSUME NEW w \in Proposal PROVE OneGood(w)'
  <2>1. OneGood(w) BY DEF SlotGood
  <2>2. EndsAs(w, "promoted")' <=> EndsAs(w, "promoted") BY <1>1 DEF EndsAs
  <2>3. /\ upc[w] = "patched" => target(w) = "config"
        /\ upc[w] = "mount" => target(w) \in Names
    BY DEF VerifyInv, PcsFit, Names
  <2>4. target(w) \in Names => slot'[target(w)] = slot[target(w)] \/ target(w) \in broken' BY <1>1
  <2>5. (target(w) \in Names /\ EndsAs(w, "promoted") => target(w) \in broken \/ slot[target(w)] = w)'
    BY <1>1, <1>2, <2>1, <2>2, <2>4 DEF OneGood
  <2>6. (upc[w] = "mount" => target(w) \in broken \/ slot[target(w)] \in {"none", "old"})'
    BY <1>1, <1>2, <2>1, <2>3, <2>4 DEF OneGood
  <2>7. (upc[w] = "patched" /\ uans[w] = "ok" => slot["config"] = w)'
    BY <1>1, <2>1, <2>3 DEF OneGood, Names
  <2>8. (target(w) \in {"plugin", "config"} =>
           /\ usnap[w] \in {"none", "old"}
           /\ upc[w] \in Undriven \cup {"snapshot", "rollback"} \/ usnap[w] = "old")'
    BY <1>1, <1>2, <2>1 DEF OneGood
  <2>9. (target(w) = "plugin" /\ "plugin" \in broken => upc[w] \in {"rollback", "done"})'
    BY <1>1, <1>2, <2>1 DEF OneGood
  <2> QED BY <2>5, <2>6, <2>7, <2>8, <2>9 DEF OneGood
<1>5. ASSUME NEW t \in Names PROVE NameGood(t)'
  <2>1. NameGood(t) BY DEF SlotGood
  <2>2. CASE t \in broken' BY <2>2 DEF NameGood
  <2>3. CASE t \notin broken'
    <3>1. slot'[t] = slot[t] BY <1>1, <2>3
    <3>2. ASSUME NEW w \in Proposal, target(w) = t, Took(w) PROVE target(w)' = t /\ Took(w)'
      <4>1. target(w)' = t BY <1>2, <3>2
      <4>2. (EndsAs(w, "promoted")' <=> EndsAs(w, "promoted")) /\ (FallsBack(w)' <=> FallsBack(w))
        BY <1>1 DEF EndsAs, FallsBack
      <4> QED BY <1>1, <3>1, <3>2, <4>1, <4>2 DEF Took
    <3> QED BY <1>1, <2>1, <3>1, <3>2 DEF NameGood
  <2> QED BY <2>2, <2>3
<1>6. ASSUME NEW t \in Canaries PROVE CanaryGood(t)'
  <2>1. CanaryGood(t) BY DEF SlotGood
  <2> QED BY <1>1, <1>2, <2>1 DEF CanaryGood
<1>7. broken' \subseteq Canaries BY <1>1 DEF SlotGood, Canaries
<1> QED BY <1>3, <1>4, <1>5, <1>6, <1>7 DEF SlotGood

\* At first nothing is told, taken or mounted.
LEMMA SlotInitHolds == UpInit => SlotInv
<1> SUFFICES ASSUME UpInit PROVE SlotGood BY DEF SlotInv
<1>1. Len(ucmds) = 0 BY EmptySeq DEF UpInit
<1>2. \A w \in Proposal : OneGood(w) BY <1>1 DEF UpInit, OneGood, EndsAs, Undriven
<1>3. \A t \in Names : NameGood(t) BY DEF UpInit, NameGood
<1>4. \A t \in Canaries : CanaryGood(t) BY DEF UpInit, CanaryGood, Canaries
<1> QED BY <1>1, <1>2, <1>3, <1>4 DEF SlotGood, CmdsFit, UpInit

\* Every step keeps what is known of the names, with one proposal for each target.
LEMMA SlotNextKeeps == QueueInv /\ VerifyInv /\ SlotInv /\ [UpNext]_upVars => SlotInv'
<1> SUFFICES ASSUME QueueInv, VerifyInv, SlotInv, [UpNext]_upVars,
                    Solo' PROVE SlotGood' BY DEF SlotInv
<1>0. uworld' = uworld
  <2>1. ASSUME NEW u \in Proposal, Driving(u) PROVE uworld' = uworld BY <2>1, DriverFits
  <2> QED BY <2>1, UpStep DEF Propose, Verdict, Base, NodeStep, Terminate, OnExit, Register, NodeDies,
                              SpeaksLate, upVars
<1>1. Solo BY <1>0 DEF Solo, target
<1>2. SlotGood BY <1>1 DEF SlotInv
<1>3. CASE UNCHANGED upVars
  BY <1>2, <1>3 DEF upVars, SlotGood, CmdsFit, OneGood, NameGood, CanaryGood, Took, EndsAs,
  FallsBack, target
<1>4. ASSUME NEW u \in Proposal, Propose(u) \/ \E a \in BOOLEAN : Verdict(u, a) PROVE SlotGood'
  BY <1>2, <1>4, GateKeepsSlots
<1>5. ASSUME NEW u \in Proposal, Driving(u) PROVE SlotGood' BY <1>1, <1>2, <1>5, DrivingKeepsSlots
<1>6. CASE Base BY <1>1, <1>2, <1>6, BaseKeepsSlots
<1>7. CASE NodeStep BY <1>2, <1>7, NodesKeepSlots
<1>8. ASSUME NEW s \in silent, SpeaksLate(s) PROVE SlotGood' BY <1>2, <1>8, LateKeepsSlots
<1> QED BY <1>3, <1>4, <1>5, <1>6, <1>7, <1>8, UpStep

\* What the invariant says once every driver ended and base took every command.
LEMMA RestIsClean ==
  ASSUME Solo, VerifyInv, SlotInv
  PROVE  EndIsClean
<1> SUFFICES ASSUME UpRest, NEW t \in Names
             PROVE  /\ t \in DOMAIN canary => canary[t] = "none" \/ t \in stranded
                    /\ \/ t \in broken
                       \/ IF \E u \in Of(t) : ustatus[u] = "promoted"
                          THEN slot[t] \in Proposal /\ ustatus[slot[t]] = "promoted"
                          ELSE slot[t] = "old"
  BY DEF EndIsClean
<1>1. SlotGood BY DEF SlotInv
<1>2. Len(ucmds) = 0 /\ \A u \in Proposal : upc[u] \in {"off", "done"} BY EmptySeq DEF UpRest
<1>3. t \in Canaries => canary[t] = "none" \/ t \in stranded BY <1>1, <1>2 DEF SlotGood, CanaryGood,
      CanaryPc
<1>4. ASSUME t \notin broken, NEW u \in Of(t), ustatus[u] = "promoted"
      PROVE  slot[t] \in Proposal /\ ustatus[slot[t]] = "promoted"
  <2>1. u \in Proposal /\ target(u) = t /\ OneGood(u) BY <1>1 DEF Of, SlotGood
  <2>2. EndsAs(u, "promoted") BY <1>4 DEF EndsAs
  <2> QED BY <1>4, <2>1, <2>2 DEF OneGood
<1>5. ASSUME t \notin broken, \A u \in Of(t) : ustatus[u] # "promoted" PROVE slot[t] = "old"
  <2>1. NameGood(t) BY <1>1 DEF SlotGood
  <2>2. ASSUME NEW w \in Proposal, target(w) = t, Took(w) PROVE FALSE
    <3>1. ~FallsBack(w) BY <1>2 DEF FallsBack
    <3>2. ~EndsAs(w, "promoted") BY <1>2, <1>5, <2>2 DEF EndsAs, Of
    <3> QED BY <1>2, <2>2, <3>1, <3>2 DEF Took
  <2> QED BY <1>5, <2>1, <2>2 DEF NameGood
<1>6. DOMAIN canary = Canaries BY DEF VerifyInv, HoldTypes, Canaries
<1> QED BY <1>3, <1>4, <1>5, <1>6

\* With one proposal for each target, in any mix of targets, tiers, crashes of nodes, failed
\* mounts, unmounts, installs and boots, and late workers: nothing that was not verified
\* serves, the environment's node was checked, a name whose promotion or fallback did not
\* fail half-way ends with what was promoted or else with what was there before, and no
\* canary is left but one whose unmount failed or that spoke late (upgrade.rs, drive.rs,
\* candidate.rs, bluegreen.rs).
THEOREM SoloUpgradesAreSafe == SoloSpec => []UpgradeIsSafe
<1> DEFINE UpInv == QueueInv /\ VerifyInv /\ NodeInv /\ SlotInv /\ Solo
<1>1. UpInit /\ Solo => UpInv BY QueueInitHolds, VerifyInitHolds, NodeInitHolds, SlotInitHolds
<1>2. UpInv /\ [UpNext]_upVars => UpInv'
  <2> SUFFICES ASSUME UpInv, [UpNext]_upVars PROVE UpInv' OBVIOUS
  <2>1. QueueInv' /\ VerifyInv' /\ NodeInv' /\ SlotInv'
    BY QueueNextKeeps, VerifyNextKeeps, NodeNextKeeps, SlotNextKeeps
  <2>2. uworld' = uworld
    <3>1. ASSUME NEW u \in Proposal, Driving(u) PROVE uworld' = uworld BY <3>1, DriverFits
    <3> QED BY <3>1, UpStep DEF Propose, Verdict, Base, NodeStep, Terminate, OnExit, Register,
        NodeDies,
                                SpeaksLate, upVars
  <2> QED BY <2>1, <2>2 DEF Solo, target
<1>3. UpInv => UpgradeIsSafe
  <2> SUFFICES ASSUME UpInv PROVE UpgradeIsSafe OBVIOUS
  <2>1. OldServesUntilVerified BY DEF VerifyInv
  <2>2. EndIsClean BY RestIsClean
  <2>3. FrontDoorIsChecked BY FewKernels DEF NodeInv, NodeGood, BlueIsChecked, FrontDoorIsChecked
  <2> QED BY <2>1, <2>2, <2>3 DEF UpgradeIsSafe
<1> QED BY <1>1, <1>2, <1>3, PTL DEF SoloSpec, UpSpec
=============================================================================
