------------------------------ MODULE Secrets ------------------------------
(***************************************************************************)
(* The secrets facade of base (rs/base/src/secret.rs) and the guard of the *)
(* hub it feeds (rs/bus/src/secret.rs).  secret.set changes the entries in *)
(* memory, writes them to a temporary file, renames that to secrets.yml    *)
(* and gives the hub the rules; the lock on the entries is held for the    *)
(* change, for the copy that is written and for the copy that is handed to *)
(* the hub, and not between.  An entry is [name, value, leak]; a text is   *)
(* the set of the values that occur in it, which are not empty.  What the  *)
(* guard lets through goes to the subscribers whose filter wants it.       *)
(***************************************************************************)
EXTENDS Naturals, Sequences, FiniteSets, Filters

CONSTANTS
  Setter,          \* tasks that serve secret.set
  NoBytes, Torn,   \* what a file holds: nothing, or neither one version nor another
  SecretWorlds     \* [sets: the entries callers set, calls, fails, crashes: how often]

ASSUME SecretAssumption ==
  /\ NoBytes # Torn
  /\ \A world \in SecretWorlds :
       /\ world \in [sets : SUBSET world.sets, calls : Nat, fails : Nat, crashes : Nat]
       /\ \A s \in SUBSET world.sets : s # NoBytes /\ s # Torn
       /\ \A e \in world.sets : e.leak \in {"mask", "block"}

VARIABLES
  secrets,    \* Secrets::entries
  guardRules, \* SecretGuard::rules
  inode,      \* what each file ever created holds
  yml, tmp,   \* the file under secrets.yml and under secrets.yml.tmp, 0 is none
  setter,     \* Setter -> [at, e, copy, fd]
  kept,       \* entries whose set() answered ok, and whose name was not set since
  overlap,    \* were two set() under way at once?
  secLeft     \* the world, with what its bounds leave

secretVars == <<secrets, guardRules, inode, yml, tmp, setter, kept, overlap, secLeft>>

SetterIdle == [at |-> "idle", e |-> NoBytes, copy |-> {}, fd |-> 0]
SetterAt(t, l) == setter[t].at = l
SetterGoes(t, l) == setter' = [setter EXCEPT ![t].at = l]
SetterEnds(t) == setter' = [setter EXCEPT ![t] = SetterIdle]

---------------------------------------------------------------------------
\* scan_envelope(): every block rule is tried on both fields before any mask.  Of a
\* payload the guard reads the string values, not the keys of objects.
Blocked(payload, tags) ==
  \E r \in guardRules : r.leak = "block" /\ r.value \in payload \cup tags
Masked(text) == text \ {r.value : r \in {x \in guardRules : x.leak = "mask"}}

\* What subscribers and the log get of an envelope with these texts.
scan_envelope(payload, tags) ==
  IF Blocked(payload, tags) THEN {} ELSE Masked(payload) \cup Masked(tags)

---------------------------------------------------------------------------
\* load(): a file that cannot be parsed counts as empty; of one that is torn
\* nobody knows.
Loads(f) ==
  IF f = 0 THEN {{}}
  ELSE IF inode[f] = NoBytes THEN {{}}
  ELSE IF inode[f] = Torn THEN SUBSET secLeft.sets ELSE {inode[f]}

SecretsInit ==
  /\ secrets = {} /\ guardRules = {} /\ inode = <<>> /\ yml = 0 /\ tmp = 0
  /\ setter = [t \in Setter |-> SetterIdle] /\ kept = {} /\ overlap = FALSE
  /\ secLeft \in SecretWorlds

\* set(), the entries.
SetEntry(t, e) ==
  /\ SetterAt(t, "idle") /\ secLeft.calls > 0
  /\ secLeft' = [secLeft EXCEPT !.calls = @ - 1]
  /\ secrets' = {x \in secrets : x.name # e.name} \cup {e}
  /\ kept' = {x \in kept : x.name # e.name}
  /\ setter' = [setter EXCEPT ![t] = [at |-> "copy", e |-> e, copy |-> {}, fd |-> 0]]
  /\ overlap' = (overlap \/ \E u \in Setter \ {t} : ~SetterAt(u, "idle"))
  /\ UNCHANGED <<guardRules, inode, yml, tmp>>

\* persist(): a copy under the lock.
CopyEntries(t) ==
  /\ SetterAt(t, "copy")
  /\ setter' = [setter EXCEPT ![t].at = "open", ![t].copy = secrets]
  /\ UNCHANGED <<secrets, guardRules, inode, yml, tmp, kept, overlap, secLeft>>

\* Mutant: secrets.yml itself is opened and truncated.
OpenTmpInPlace(t) ==
  LET f == IF yml = 0 THEN Len(inode) + 1 ELSE yml IN
  /\ SetterAt(t, "open")
  /\ inode' = IF yml = 0 THEN Append(inode, NoBytes) ELSE [inode EXCEPT ![f] = NoBytes]
  /\ tmp' = f /\ yml' = f
  /\ setter' = [setter EXCEPT ![t].at = "write", ![t].fd = f]
  /\ UNCHANGED <<secrets, guardRules, kept, overlap, secLeft>>

\* write_private(): the temporary file, new or truncated, ...
OpenTmp(t) ==
  LET f == IF tmp = 0 THEN Len(inode) + 1 ELSE tmp IN
  /\ SetterAt(t, "open")
  /\ inode' = IF tmp = 0 THEN Append(inode, NoBytes) ELSE [inode EXCEPT ![f] = NoBytes]
  /\ tmp' = f
  /\ setter' = [setter EXCEPT ![t].at = "write", ![t].fd = f]
  /\ UNCHANGED <<secrets, guardRules, yml, kept, overlap, secLeft>>

\* ... all of the copy, over what another task may have written there, ...
WriteTmp(t) ==
  /\ SetterAt(t, "write")
  /\ \E c \in {setter[t].copy} \cup (IF inode[setter[t].fd] = NoBytes THEN {} ELSE {Torn}) :
       inode' = [inode EXCEPT ![setter[t].fd] = c]
  /\ SetterGoes(t, "rename")
  /\ UNCHANGED <<secrets, guardRules, yml, tmp, kept, overlap, secLeft>>

\* ... and the rename, of whatever has that name now; there may be nothing.
RenameTmp(t) ==
  /\ SetterAt(t, "rename")
  /\ IF tmp = 0 THEN SetterEnds(t) /\ UNCHANGED <<yml, tmp>>
     ELSE SetterGoes(t, "rules") /\ yml' = tmp /\ tmp' = 0
  /\ UNCHANGED <<secrets, guardRules, inode, kept, overlap, secLeft>>

\* The file cannot be opened, not written to the end, or not renamed: set() fails,
\* with the entry in memory.
PersistFails(t) ==
  /\ setter[t].at \in {"open", "write", "rename"} /\ secLeft.fails > 0
  /\ secLeft' = [secLeft EXCEPT !.fails = @ - 1]
  /\ inode' = IF SetterAt(t, "write") THEN [inode EXCEPT ![setter[t].fd] = Torn] ELSE inode
  /\ SetterEnds(t)
  /\ UNCHANGED <<secrets, guardRules, yml, tmp, kept, overlap>>

\* push_to_hub(): the rules under the lock, ...
PushCopy(t) ==
  /\ SetterAt(t, "rules")
  /\ setter' = [setter EXCEPT ![t].at = "push", ![t].copy = secrets]
  /\ UNCHANGED <<secrets, guardRules, inode, yml, tmp, kept, overlap, secLeft>>

\* ... and then to the hub; set() answers.
PushRules(t) ==
  /\ SetterAt(t, "push")
  /\ guardRules' = setter[t].copy
  /\ kept' = kept \cup ({setter[t].e} \cap secrets)
  /\ SetterEnds(t)
  /\ UNCHANGED <<secrets, inode, yml, tmp, overlap, secLeft>>

\* base dies and starts again: new() loads the file and feeds the hub.
SecretsRestart ==
  /\ secLeft.crashes > 0 /\ secLeft' = [secLeft EXCEPT !.crashes = @ - 1]
  /\ \E s \in Loads(yml) : secrets' = s /\ guardRules' = s
  /\ setter' = [t \in Setter |-> SetterIdle]
  /\ UNCHANGED <<inode, yml, tmp, kept, overlap>>

SecretsNext ==
  \/ \E t \in Setter :
       \/ \E e \in secLeft.sets : SetEntry(t, e)
       \/ CopyEntries(t) \/ OpenTmp(t) \/ WriteTmp(t) \/ RenameTmp(t) \/ PersistFails(t)
       \/ PushCopy(t) \/ PushRules(t)
  \/ SecretsRestart

SecretsSpec == SecretsInit /\ [][SecretsNext]_secretVars

---------------------------------------------------------------------------
(* Properties.                                                             *)

\* As long as set() calls come one after the other, a secret that was accepted is
\* known to the guard, so that its value is in no payload value and no tag value the
\* hub hands on (keys of a payload and the topic are not looked at), and is in the
\* file a new base reads, wherever base dies and whichever later write fails
\* (Secrets::set, write_private, scan_envelope).
SecretsAreGuarded ==
  ~overlap =>
    LET values == {e.value : e \in secLeft.sets} IN
    /\ \A payload, tags \in SUBSET values : \A e \in kept :
         e.value \notin scan_envelope(payload, tags)
    /\ \A s \in Loads(yml) : kept \subseteq s

\* FiltersAreExact and SecretsAreGuarded: of what is published a subscriber gets
\* what its filter asks for and its env allows, and in the values it carries no
\* secret base was given (Filter::matches, Secrets::set, scan_envelope).
EnvelopesAreVetted == FiltersAreExact /\ SecretsAreGuarded
=============================================================================
