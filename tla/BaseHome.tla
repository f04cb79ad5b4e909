------------------------------ MODULE BaseHome ------------------------------
(***************************************************************************)
(* One home directory and the commands that work on it: `tenon start` in   *)
(* the foreground or as a daemon (rs/base/src/lib.rs), the flock of        *)
(* lock.rs, the socket and the ready file, the promotion of the last known *)
(* good copies (home.rs, manifest.rs, base.rs), the check of the state     *)
(* file at boot (integrity.rs), and the local commands `tenon rollback`    *)
(* (manifest.rs), `tenon backup` and `tenon restore` (backup.rs).          *)
(*                                                                         *)
(* A base process is two tasks: the main task of `foreground` and the      *)
(* actor of `Base::run`; either may be ahead of the other, and SIGKILL may *)
(* fall between any two steps.  A file is its version number: 0 is absent, *)
(* a hash is the version itself, and a copy of one file is one step.  The  *)
(* nodes are a choice: they register or they do not.                       *)
(***************************************************************************)
EXTENDS Naturals, Sequences, FiniteSets, Focus

CONSTANTS
    Starter,        \* the `tenon start` commands
    NoOne,          \* no process: a free lock, an absent file
    HomeWorlds      \* the cases, each a bounded script of outside events

(***************************************************************************)
(* A world: `daemon` and `fore` are the starts that daemonize or stay in   *)
(* the foreground, `tools` the local commands in the order a human types   *)
(* them, `alone` says that the human waits for a boot or for a command to  *)
(* end before the next, `force` is `--force`, and the numbers bound the    *)
(* SIGKILLs, the signals, the `stop` frames, the edits of files, the       *)
(* corruptions of the state file, the daemons that run out of time and the *)
(* copies of a promotion that fail.                                        *)
(***************************************************************************)
HomeWorld ==
    [daemon : SUBSET Starter, fore : SUBSET Starter,
     tools : Seq({"backup", "restore", "rollback"}), alone : BOOLEAN, force : BOOLEAN,
     kills : Nat, signals : Nat, stops : Nat, edits : Nat, rots : Nat, lates : Nat, fails : Nat]

ASSUME HomeWorldsAreWorlds ==
    /\ NoOne \notin Starter
    /\ \A w \in HomeWorlds : w \in HomeWorld /\ w.daemon \cap w.fore = {}

VARIABLES
    hw,             \* what is left of the world
    hlock,          \* who holds the flock of run/base.lock
    hready, hsock,  \* whose pid run/base.ready holds, who is bound to run/base.sock
    hcmd,            \* the `start` command of a daemon, from lock probe to answer
    hmain, hactor,    \* the two tasks of a base process
    promo,          \* how far the actor's promotion came
    hasked,          \* base processes with a Stop or AbortBoot in the actor's channel
    hsignal,         \* base processes with an unread SIGTERM or SIGINT
    hdisk,           \* the home: config.yml, profiles/, state.sqlite
    hlkg, pinned,    \* the copies in lkg/ and what lkg/manifest.json pins
    hdir, listed,    \* the copies in a backup directory and what backup.json lists
    dirpin, listpin, \* the same of the backup's copy of lkg/manifest.json
    htool,           \* the local command at work
    saved,          \* history: every promotion pinned and every backup listed
    early,          \* history: actors that ended before their ready file was written
    hwrites, heard   \* history: ready files written, and how many when a start began

procVars == <<hlock, hready, hsock, hcmd, hmain, hactor, promo, hasked, hsignal>>
fileVars == <<hdisk, hlkg, pinned, hdir, listed, dirpin, listpin>>
histVars == <<saved, early, hwrites, heard>>
homeVars == <<hw, procVars, fileVars, htool, histVars>>

Part == {"config", "state", "profiles"}
Ended == {"refused", "failed", "exit", "dead"}
Starting == {"locked", "cleared", "booting", "up", "failing"}
Rotten == 99
Absent == [p \in Part |-> 0]
IdleTool == [op |-> "none", at |-> "idle", todo |-> <<>>, put |-> Absent]

\* The actor takes no message while it promotes: the copies are in its handler.
Listens(s) == hactor[s] = "running" /\ promo[s] \in {0, 5}

\* The human waits: no local command during a boot, no start during a command.
NoBoot == \A s \in Starter : hmain[s] \notin Starting /\ hcmd[s] # "probing"
NoTool == htool.at \in {"idle", "refused", "done", "killed"}

HomeInit ==
    /\ hw \in HomeWorlds
    /\ hlock = NoOne /\ hready = NoOne /\ hsock = NoOne
    /\ hcmd = [s \in Starter |-> IF s \in hw.daemon THEN "new" ELSE "none"]
    /\ hmain = [s \in Starter |-> IF s \in hw.fore THEN "new" ELSE "none"]
    /\ hactor = [s \in Starter |-> "none"]
    /\ promo = [s \in Starter |-> 0]
    /\ hasked = {} /\ hsignal = {}
    /\ hdisk = [p \in Part |-> 1]
    /\ hlkg = Absent /\ pinned = Absent
    /\ hdir = Absent /\ listed = Absent /\ dirpin = Absent /\ listpin = Absent
    /\ htool = IdleTool
    /\ saved = {} /\ early = {} /\ hwrites = 0
    /\ heard = [s \in Starter |-> 0]

SpendHome(f) == hw[f] > 0 /\ hw' = [hw EXCEPT ![f] = @ - 1]

(***************************************************************************)
(* `tenon start` as a daemon: probe the lock, clear what a dead base left, *)
(* let the lock go, spawn the foreground process, poll for its ready file. *)
(***************************************************************************)
DaemonProbe(s) ==
    /\ hcmd[s] = "new"
    /\ hw.alone => NoTool
    /\ heard' = [heard EXCEPT ![s] = hwrites]
    /\ \/ /\ hlock = NoOne
          /\ hlock' = s
          /\ hcmd' = [hcmd EXCEPT ![s] = "probing"]
       \/ /\ hlock # NoOne
          /\ hcmd' = [hcmd EXCEPT ![s] = "refused"]
          /\ UNCHANGED hlock
    /\ UNCHANGED <<hw, hready, hsock, hmain, hactor, promo, hasked, hsignal, fileVars, htool,
                   saved, early, hwrites>>

DaemonSpawnStale(s) ==
    /\ hcmd[s] = "probing"
    /\ hlock' = NoOne
    /\ hcmd' = [hcmd EXCEPT ![s] = "waiting"]
    /\ hmain' = [hmain EXCEPT ![s] = "new"]
    /\ UNCHANGED <<hw, hready, hsock, hactor, promo, hasked, hsignal, fileVars,
                   htool, histVars>>

DaemonSpawn(s) ==
    /\ hcmd[s] = "probing"
    /\ hready' = NoOne /\ hsock' = NoOne
    /\ hlock' = NoOne
    /\ hcmd' = [hcmd EXCEPT ![s] = "waiting"]
    /\ hmain' = [hmain EXCEPT ![s] = "new"]
    /\ UNCHANGED <<hw, hactor, promo, hasked, hsignal, fileVars,
                   htool, histVars>>

DaemonAnswers(s) ==
    /\ hcmd[s] = "waiting"
    /\ \/ hready # NoOne /\ hcmd' = [hcmd EXCEPT ![s] = "up"]
       \/ hready = NoOne /\ hmain[s] \in Ended /\ hcmd' = [hcmd EXCEPT ![s] = "failed"]
    /\ UNCHANGED <<hw, hlock, hready, hsock, hmain, hactor, promo, hasked, hsignal, fileVars,
                   htool, histVars>>

\* The process is gone: the system frees its flock, its files stay as they are.
BaseDies(s) ==
    /\ hmain' = [hmain EXCEPT ![s] = "dead"]
    /\ hactor' = [hactor EXCEPT ![s] = "dead"]
    /\ hlock' = IF hlock = s THEN NoOne ELSE hlock
    /\ hasked' = hasked \ {s} /\ hsignal' = hsignal \ {s}

\* The minute is over: `child.kill()`, with no second look at the ready file,
\* which the base may have written since the last poll.
DaemonGivesUp(s) ==
    /\ hcmd[s] = "waiting" /\ hmain[s] \notin Ended
    /\ SpendHome("lates")
    /\ hcmd' = [hcmd EXCEPT ![s] = "failed"]
    /\ BaseDies(s)
    /\ UNCHANGED <<hready, hsock, promo, fileVars, htool, histVars>>

(***************************************************************************)
(* The main task of the foreground process.                                *)
(***************************************************************************)
TakeLock(s) ==
    /\ hmain[s] = "new"
    /\ hw.alone => NoTool
    /\ \/ /\ hlock = NoOne
          /\ hlock' = s
          /\ hmain' = [hmain EXCEPT ![s] = "locked"]
       \/ /\ hlock # NoOne
          /\ hmain' = [hmain EXCEPT ![s] = "refused"]
          /\ UNCHANGED hlock
    /\ UNCHANGED <<hw, hready, hsock, hcmd, hactor, promo, hasked, hsignal, fileVars,
                   htool, histVars>>

\* The stale socket and ready file go, and from here on signals are caught.
ClearStale(s) ==
    /\ hmain[s] = "locked"
    /\ hready' = NoOne /\ hsock' = NoOne
    /\ hmain' = [hmain EXCEPT ![s] = "cleared"]
    /\ UNCHANGED <<hw, hlock, hcmd, hactor, promo, hasked, hsignal, fileVars,
                   htool, histVars>>

\* A rotten state file is replaced by the last known good copy, or by a new one.
RestoreIfCorrupt ==
    hdisk' = IF hdisk["state"] # Rotten THEN hdisk
            ELSE [hdisk EXCEPT !["state"] = IF hlkg["state"] # 0 THEN hlkg["state"] ELSE 1]

\* The config does not parse, or there is no release: the process ends.
OpenFails(s) ==
    /\ hmain[s] = "cleared"
    /\ hmain' = [hmain EXCEPT ![s] = "failed"]
    /\ hlock' = NoOne
    /\ hsignal' = hsignal \ {s}
    /\ UNCHANGED <<hw, hready, hsock, hcmd, hactor, promo, hasked, fileVars,
                   htool, histVars>>

OpenHome(s) ==
    /\ hmain[s] = "cleared"
    /\ RestoreIfCorrupt
    /\ hsock' = s
    /\ hactor' = [hactor EXCEPT ![s] = "running"]
    /\ hmain' = [hmain EXCEPT ![s] = "booting"]
    /\ UNCHANGED <<hw, hlock, hready, hcmd, promo, hasked, hsignal, hlkg, pinned, hdir, listed,
                   dirpin, listpin, htool, histVars>>

BootReady(s) ==
    /\ hmain[s] = "booting" /\ hactor[s] = "running" /\ promo[s] = 5
    /\ hmain' = [hmain EXCEPT ![s] = "up"]
    /\ UNCHANGED <<hw, hlock, hready, hsock, hcmd, hactor, promo, hasked, hsignal, fileVars,
                   htool, histVars>>

\* The nodes did not register in time, or the actor is gone.
BootFails(s) ==
    /\ hmain[s] = "booting"
    /\ hmain' = [hmain EXCEPT ![s] = "failing"]
    /\ hasked' = hasked \cup {s}
    /\ UNCHANGED <<hw, hlock, hready, hsock, hcmd, hactor, promo, hsignal, fileVars,
                   htool, histVars>>

BootSignal(s) ==
    /\ hmain[s] = "booting" /\ s \in hsignal
    /\ hsignal' = hsignal \ {s}
    /\ hasked' = hasked \cup {s}
    /\ hmain' = [hmain EXCEPT ![s] = "failing"]
    /\ UNCHANGED <<hw, hlock, hready, hsock, hcmd, hactor, promo, fileVars, htool, histVars>>

WriteReady(s) ==
    /\ hmain[s] = "up"
    /\ hready' = s
    /\ hwrites' = hwrites + 1
    /\ hmain' = [hmain EXCEPT ![s] = "serving"]
    /\ UNCHANGED <<hw, hlock, hsock, hcmd, hactor, promo, hasked, hsignal, fileVars, htool,
                   saved, early, heard>>

\* The task spawned last: a signal becomes a Stop.
ServeSignal(s) ==
    /\ hmain[s] = "serving" /\ s \in hsignal
    /\ hsignal' = hsignal \ {s}
    /\ hasked' = hasked \cup {s}
    /\ UNCHANGED <<hw, hlock, hready, hsock, hcmd, hmain, hactor, promo, fileVars, htool, histVars>>

MainEnds(s) ==
    /\ hmain[s] \in {"serving", "failing"} /\ hactor[s] = "over"
    /\ hmain' = [hmain EXCEPT ![s] = IF @ = "serving" THEN "exit" ELSE "failed"]
    /\ hlock' = NoOne
    /\ hsignal' = hsignal \ {s} /\ hasked' = hasked \ {s}
    /\ UNCHANGED <<hw, hready, hsock, hcmd, hactor, promo, fileVars, htool, histVars>>

(***************************************************************************)
(* The actor: it promotes when the nodes have registered, writes the state *)
(* file, and ends on Stop or AbortBoot, removing its two files last.       *)
(***************************************************************************)
NodesRegister(s) ==
    /\ Listens(s) /\ promo[s] = 0 /\ s \notin hasked
    /\ promo' = [promo EXCEPT ![s] = 1]
    /\ UNCHANGED <<hw, hlock, hready, hsock, hcmd, hmain, hactor, hasked, hsignal, fileVars, htool,
                   histVars>>

PromoteOrder == <<"config", "state", "profiles">>

Promote(s) ==
    /\ hactor[s] = "running" /\ promo[s] \in 1..4
    /\ promo' = [promo EXCEPT ![s] = @ + 1]
    /\ \/ /\ promo[s] < 4
          /\ hlkg' = [hlkg EXCEPT ![PromoteOrder[promo[s]]] = hdisk[PromoteOrder[promo[s]]]]
          /\ UNCHANGED <<pinned, saved>>
       \/ /\ promo[s] = 4
          /\ pinned' = hlkg
          /\ saved' = saved \cup {hlkg}
          /\ UNCHANGED hlkg
    /\ UNCHANGED <<hw, hlock, hready, hsock, hcmd, hmain, hactor, hasked, hsignal,
                   hdisk, hdir, listed, dirpin, listpin, htool, early, hwrites, heard>>

\* A copy fails and may be torn, or the manifest is not written whole, which is
\* as none: the error is an event of the log, and base is ready all the same.
PromoteFails(s) ==
    /\ hactor[s] = "running" /\ promo[s] \in 1..4
    /\ SpendHome("fails")
    /\ promo' = [promo EXCEPT ![s] = 5]
    /\ IF promo[s] < 4
       THEN /\ \E v \in {hlkg[PromoteOrder[promo[s]]], Rotten} :
                  hlkg' = [hlkg EXCEPT ![PromoteOrder[promo[s]]] = v]
            /\ UNCHANGED pinned
       ELSE pinned' \in {pinned, Absent} /\ UNCHANGED hlkg
    /\ UNCHANGED <<hlock, hready, hsock, hcmd, hmain, hactor, hasked, hsignal,
                   hdisk, hdir, listed, dirpin, listpin, htool, histVars>>

ActorEnds(s) ==
    /\ Listens(s) /\ s \in hasked
    /\ hasked' = hasked \ {s}
    /\ hactor' = [hactor EXCEPT ![s] = "over"]
    /\ hready' = NoOne /\ hsock' = NoOne
    /\ early' = IF hmain[s] = "up" THEN early \cup {s} ELSE early
    /\ UNCHANGED <<hw, hlock, hcmd, hmain, promo, hsignal, fileVars, htool, saved, hwrites, heard>>

(***************************************************************************)
(* The world around: signals, SIGKILL, a `stop` frame on the socket, edits *)
(* of the files, a disk that spoils the state file of a stopped home.      *)
(***************************************************************************)
Signal(s) ==
    /\ hmain[s] \in {"cleared", "booting", "up", "serving"} /\ s \notin hsignal
    /\ SpendHome("signals")
    /\ hsignal' = hsignal \cup {s}
    /\ UNCHANGED <<hlock, hready, hsock, hcmd, hmain, hactor, promo, hasked, fileVars,
                   htool, histVars>>

StopFrame(s) ==
    /\ hsock = s /\ hactor[s] = "running" /\ s \notin hasked
    /\ SpendHome("stops")
    /\ hasked' = hasked \cup {s}
    /\ UNCHANGED <<hlock, hready, hsock, hcmd, hmain, hactor, promo, hsignal, fileVars,
                   htool, histVars>>

BaseKilled(s) ==
    /\ hmain[s] \notin Ended \cup {"none", "new"}
    /\ SpendHome("kills")
    /\ BaseDies(s)
    /\ UNCHANGED <<hready, hsock, hcmd, promo, fileVars, htool, histVars>>

EditFile(p) ==
    /\ NoTool
    /\ SpendHome("edits")
    /\ hdisk' = [hdisk EXCEPT ![p] = hw.edits + 1]
    /\ UNCHANGED <<procVars, hlkg, pinned, hdir, listed, dirpin, listpin, htool, histVars>>

Rot ==
    /\ hlock = NoOne
    /\ SpendHome("rots")
    /\ hdisk' = [hdisk EXCEPT !["state"] = Rotten]
    /\ UNCHANGED <<procVars, hlkg, pinned, hdir, listed, dirpin, listpin, htool, histVars>>

(***************************************************************************)
(* The local commands.  `rollback` and `restore` look for the ready file,  *)
(* not for the lock; then they compare hashes, and then copy file by file. *)
(***************************************************************************)
Begins(op, at, files) ==
    /\ NoTool /\ hw.tools # <<>> /\ Head(hw.tools) = op
    /\ hw.alone => NoBoot
    /\ hw' = [hw EXCEPT !.tools = Tail(@)]
    /\ htool' = [op |-> op, at |-> at, todo |-> files, put |-> Absent]
    /\ UNCHANGED <<procVars, fileVars, histVars>>

BackupBegin == Begins("backup", "copy", <<"state", "config", "profiles">>)

RestoreBegin ==
    Begins("restore", IF hready # NoOne THEN "refused" ELSE "verify", <<"config", "profiles", "state">>)

RollbackBegin ==
    Begins("rollback", IF hready # NoOne THEN "refused" ELSE "verify", <<"config", "state", "profiles">>)

\* The backup's files still hash to what backup.json lists.
SameListed == listed # Absent /\ listed = hdir /\ listpin = dirpin

\* The copies in lkg/ still hash to what lkg/manifest.json pins.
SamePinned == pinned # Absent /\ pinned = hlkg

RestoreVerify ==
    /\ htool.op = "restore" /\ htool.at = "verify"
    /\ htool' = [htool EXCEPT !.at = IF SameListed THEN "save" ELSE "refused"]
    /\ UNCHANGED <<hw, procVars, fileVars, histVars>>

RollbackVerify ==
    /\ htool.op = "rollback" /\ htool.at = "verify"
    /\ htool' = [htool EXCEPT !.at = IF SamePinned \/ (hw.force /\ pinned # Absent)
                                    THEN "copy" ELSE "refused"]
    /\ UNCHANGED <<hw, procVars, fileVars, histVars>>

\* The home as it is was copied aside, its logs and its profiles are removed.
RestoreSave ==
    /\ htool.at = "save"
    /\ htool' = [htool EXCEPT !.at = "copy"]
    /\ hdisk' = [hdisk EXCEPT !["profiles"] = 0]
    /\ UNCHANGED <<hw, procVars, hlkg, pinned, hdir, listed, dirpin, listpin, histVars>>

\* The next file of the command at work.  A restore copies in the order of the
\* paths, so that lkg/manifest.json comes after config.yml.
Puts(op, from) ==
    /\ htool.op = op /\ htool.at = "copy" /\ htool.todo # <<>>
    /\ htool' = [htool EXCEPT !.todo = Tail(@),
                              !.put = [@ EXCEPT ![Head(htool.todo)] = from[Head(htool.todo)]],
                              !.at = IF op = "restore" /\ Head(htool.todo) = "config"
                                     THEN "pins" ELSE "copy"]
    /\ UNCHANGED <<hw, procVars, hlkg, pinned, listed, dirpin, listpin, histVars>>

BackupCopy ==
    /\ Puts("backup", hdisk)
    /\ hdir' = [hdir EXCEPT ![Head(htool.todo)] = hdisk[Head(htool.todo)]]
    /\ UNCHANGED hdisk

RestoreCopy ==
    /\ Puts("restore", hdir)
    /\ hdisk' = [hdisk EXCEPT ![Head(htool.todo)] = hdir[Head(htool.todo)]]
    /\ UNCHANGED hdir

RollbackCopy ==
    /\ Puts("rollback", hlkg)
    /\ hdisk' = [hdisk EXCEPT ![Head(htool.todo)] = hlkg[Head(htool.todo)]]
    /\ UNCHANGED hdir

\* `backup` copies lkg/manifest.json after the files, if there is one.
BackupPin ==
    /\ htool.op = "backup" /\ htool.at = "copy" /\ htool.todo = <<>>
    /\ htool' = [htool EXCEPT !.at = "pins"]
    /\ dirpin' = IF pinned = Absent THEN dirpin ELSE pinned
    /\ UNCHANGED <<hw, procVars, hdisk, hlkg, pinned, hdir, listed, listpin, histVars>>

\* `restore` puts the manifest back over the one that pins the copies in lkg/,
\* which it leaves as they are.
RestorePin ==
    /\ htool.op = "restore" /\ htool.at = "pins"
    /\ htool' = [htool EXCEPT !.at = "copy"]
    /\ pinned' = IF dirpin = Absent THEN pinned ELSE dirpin
    /\ UNCHANGED <<hw, procVars, hdisk, hlkg, hdir, listed, dirpin, listpin, histVars>>

\* `backup` lists last what its directory holds.
BackupEnd ==
    /\ htool.op = "backup" /\ htool.at = "pins"
    /\ htool' = [htool EXCEPT !.at = "done"]
    /\ listed' = hdir /\ listpin' = dirpin
    /\ saved' = saved \cup {hdir}
    /\ UNCHANGED <<hw, procVars, hdisk, hlkg, pinned, hdir, dirpin, early, hwrites, heard>>

RestoreEnd ==
    /\ htool.op # "backup" /\ htool.at = "copy" /\ htool.todo = <<>>
    /\ htool' = [htool EXCEPT !.at = "done"]
    /\ UNCHANGED <<hw, procVars, fileVars, histVars>>

ToolKilled ==
    /\ htool.at \in {"verify", "save", "copy", "pins"}
    /\ SpendHome("kills")
    /\ htool' = [htool EXCEPT !.at = "killed"]
    /\ UNCHANGED <<procVars, fileVars, histVars>>

HomeNext ==
    \/ \E s \in Starter :
          \/ DaemonProbe(s) \/ DaemonSpawn(s) \/ DaemonAnswers(s) \/ DaemonGivesUp(s)
          \/ TakeLock(s) \/ ClearStale(s) \/ OpenFails(s) \/ OpenHome(s)
          \/ BootReady(s) \/ BootFails(s) \/ BootSignal(s) \/ WriteReady(s)
          \/ ServeSignal(s) \/ MainEnds(s)
          \/ NodesRegister(s) \/ Promote(s) \/ PromoteFails(s) \/ ActorEnds(s)
          \/ Signal(s) \/ StopFrame(s) \/ BaseKilled(s)
    \/ \E p \in Part : EditFile(p)
    \/ Rot \/ ToolKilled
    \/ BackupBegin \/ BackupCopy \/ BackupPin \/ BackupEnd
    \/ RestoreBegin \/ RestoreVerify \/ RestoreSave \/ RestoreCopy \/ RestorePin \/ RestoreEnd
    \/ RollbackBegin \/ RollbackVerify \/ RollbackCopy

\* A home, and one whose human waits for a boot or a command to end.
HomeSpec == HomeInit /\ [][HomeNext]_homeVars
QuietSpec == HomeSpec /\ hw.alone

(***************************************************************************)
(* The processes run.  Nothing obliges the nodes to register, nor the      *)
(* world to act.                                                           *)
(***************************************************************************)
HomeFairness ==
    \A s \in Starter :
        /\ WF_homeVars(focus = "home" /\ (DaemonProbe(s) \/ DaemonSpawn(s) \/ DaemonAnswers(s)))
        /\ WF_homeVars(focus = "home" /\ (TakeLock(s) \/ ClearStale(s) \/ OpenFails(s) \/ OpenHome(s)
                                \/ BootReady(s) \/ BootFails(s) \/ BootSignal(s)
                                \/ WriteReady(s) \/ MainEnds(s)))
        /\ WF_homeVars(focus = "home" /\ ServeSignal(s))
        /\ WF_homeVars(focus = "home" /\ (Promote(s) \/ ActorEnds(s)))

-----------------------------------------------------------------------------
(***************************************************************************)
(* One base per home, and nobody takes its door away: a base that serves   *)
(* holds the lock, and the socket and the ready file are its own, whatever *)
(* other starts, daemons and dead bases do.  (lib.rs:112-121, 449-460,     *)
(* rs/README.md:143-148)                                                   *)
(***************************************************************************)
ServingBaseKeepsItsDoor ==
    \A s \in Starter : hactor[s] = "running" =>
        /\ hlock = s /\ hsock = s
        /\ hmain[s] = "serving" => hready = s

(***************************************************************************)
(* A daemonizing start that says the base is up has seen a ready file      *)
(* written after it began, never one left by a base that was killed.       *)
(* (lib.rs:451-454, 491)                                                   *)
(***************************************************************************)
UpMeansReady ==
    \A s \in Starter : hcmd[s] = "up" => hwrites > heard[s]

(***************************************************************************)
(* A base that ended by itself leaves no ready file, unless it was stopped *)
(* over its socket after the nodes registered and before the main task     *)
(* wrote the file: the actor then removes it too early.  (base.rs:118,     *)
(* lib.rs:190-195)                                                         *)
(***************************************************************************)
LeftoversAreRaced ==
    \A s \in Starter : hready = s /\ hmain[s] \in {"exit", "failed"} => s \in early

(***************************************************************************)
(* What a `rollback` not forced or a `restore` puts into the home is one   *)
(* promotion or one backup, all of it: a promotion, a backup or an earlier *)
(* command killed half-way is noticed by the hashes.  (manifest.rs:189-225,*)
(* backup.rs:61-83)                                                        *)
(***************************************************************************)
WhatComesBackWasSaved ==
    htool.at = "done" /\ htool.op # "backup" /\ ~(htool.op = "rollback" /\ hw.force)
        => htool.put \in saved

(***************************************************************************)
(* All four: the lock, the socket, the ready file and the copies mean what *)
(* the commands take them to mean.                                         *)
(***************************************************************************)
HomeIsSound ==
    /\ ServingBaseKeepsItsDoor /\ UpMeansReady
    /\ LeftoversAreRaced /\ WhatComesBackWasSaved

(***************************************************************************)
(* A start command answers, and a base that was signalled or asked to stop *)
(* ends, in whichever phase of the boot it was caught.  (lib.rs:171-203,   *)
(* 232-241, 490-508)                                                       *)
(***************************************************************************)
StartsAndStopsEnd ==
    <>[](\A s \in Starter :
            /\ hcmd[s] # "waiting"
            /\ s \in hsignal \cup hasked => hmain[s] \in Ended)

(***************************************************************************)
(* `rollback` and `restore` write no file of a home whose state file a     *)
(* base has open.  (manifest.rs:190-197, rs/README.md:882-883)             *)
(***************************************************************************)
RestoresRunAlone ==
    htool.at \in {"save", "copy", "pins"} /\ htool.op # "backup" =>
        \A s \in Starter : hactor[s] # "running"
=============================================================================
