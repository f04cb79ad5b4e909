------------------------------- MODULE Loader -------------------------------
(***************************************************************************)
(* The loader of a node: layers of config rows are composed into one tree  *)
(* of rows (config.ex), the rows are resolved to nodes (tree.ex, build),   *)
(* and the difference to the tree of the last time is carried out on the   *)
(* kernel, one mount, unmount or restart after the other (tree.ex, sync).  *)
(* While that goes on the harness may unmount a plugin by its id, and the  *)
(* files may change again.  A sync that fails takes the loader's process   *)
(* with it, and the link's, which waits for the reload.                    *)
(*                                                                         *)
(* A row is flat: its parent is the id of the group that holds it, and a   *)
(* list of rows is in the order of a walk, a group before its children.    *)
(* `nr` is the order of insertion, which is what the index of the patches  *)
(* follows.  Ids of groups are unique in the inputs.                       *)
(***************************************************************************)
EXTENDS Integers, Sequences, FiniteSets, SequencesExt, Focus

CONSTANT
    LoaderWorlds   \* a sequence of [files: what the layers and manifests hold, version by
                   \*  version; restart: the dsh fiber's config has the digest
                   \*  of the rows; unsure: the profile's disk or the mount
                   \*  of the bridge may fail; takes: unmounts by hand; reloads]

ASSUME LoaderWorldsAssumption ==
    \A w \in Range(LoaderWorlds) : /\ w.files # << >>
                                   /\ {w.restart, w.unsure} \subseteq BOOLEAN
                                   /\ {w.takes, w.reloads} \subseteq Nat

VARIABLES
    loader,    \* which of the worlds
    file,      \* the version of the files on disk
    nodes,     \* state.nodes, id -> node: the tree of the last compose
    order,     \* state.order
    fibers,    \* state.fibers, id -> number of the fiber mounted for it
    bridge,    \* state.collapse of the one target: number, rows and config
    profile,   \* the rows in the profile's patch file on disk
    built,     \* the nodes and rows of the compose that is carried out
    sync,      \* where sync is: "idle", "drop", "step", "collapse" or "dead"
    todo,      \* the ids still to drop, or the positions of `built` to step
    live,      \* the fibers of the kernel below the loader
    mounts,    \* how many fibers were mounted
    taken,     \* fibers that were unmounted by hand
    strays,    \* ids of rows whose record a later step of a sync dropped (history)
    reloads    \* reloads asked for

loaderVars == <<loader, file, nodes, order, fibers, bridge, profile, built,
                sync, todo, live, mounts, taken, strays, reloads>>

World == LoaderWorlds[loader]

None == 0
NoBridge == [nr |-> None, rows |-> << >>, config |-> << >>, refused |-> FALSE]

-----------------------------------------------------------------------------
(***************************************************************************)
(* config.ex: patches over an empty root.                                  *)
(***************************************************************************)
\* truthy? of a row's `disabled`: a !!js expression is a map, and truthy.
Truthy(value) == value # "no"

\* The position the index has for an id: the row inserted last.
Indexed(data, id) ==
    LET at == {i \in DOMAIN data : data[i].id = id}
    IN  IF at = {} THEN None
        ELSE CHOOSE i \in at : \A j \in at : data[j].nr <= data[i].nr

\* The positions of the rows below the group at position p.
Below(data, p) ==
    LET under[i \in 0 .. Len(data)] ==
            /\ i > p
            /\ \/ data[i].parent = data[p].id
               \/ \E j \in 1 .. (i - 1) :
                    data[j].group /\ data[j].id = data[i].parent /\ under[j]
    IN  {i \in DOMAIN data : under[i]}

\* The new rows, numbered, the outermost of them in the group `into`.
Inserted(data, rows, into) ==
    [i \in DOMAIN rows |->
        [id |-> rows[i].id, name |-> rows[i].name, group |-> rows[i].group,
         disabled |-> rows[i].disabled, config |-> rows[i].config,
         parent |-> IF rows[i].parent = "" THEN into ELSE rows[i].parent,
         nr |-> Len(data) + i]]

\* An insert without an id appends at the top level; one with an id appends to
\* the children of that entry, which has to be a group.
Insert(state, patch) ==
    LET data == state.data
        p == Indexed(data, patch.id)
        end == IF Below(data, p) = {} THEN p
               ELSE CHOOSE i \in Below(data, p) : \A j \in Below(data, p) : j <= i
    IN  IF patch.id = ""
        THEN [state EXCEPT !.data = @ \o Inserted(data, patch.rows, "")]
        ELSE IF p = None \/ (p # None => ~data[p].group)
        THEN [state EXCEPT !.warnings = @ + 1]
        ELSE [state EXCEPT !.data = SubSeq(data, 1, end)
                                    \o Inserted(data, patch.rows, patch.id)
                                    \o SubSeq(data, end + 1, Len(data))]

\* Any other patch replaces one value of the entry; a name is only a guard.
Override(state, patch) ==
    LET p == Indexed(state.data, patch.id)
    IN  IF patch.id = "" \/ p = None \/ (p # None =>
              patch.name # "" /\ patch.name # state.data[p].name)
        THEN [state EXCEPT !.warnings = @ + 1]
        ELSE [state EXCEPT !.data[p][patch.key] = patch.value]

\* compose: every layer is a list of patches, applied in order.
Compose(patches) ==
    LET apply(state, patch) ==
            IF patch.op = "insert" THEN Insert(state, patch) ELSE Override(state, patch)
    IN  FoldLeft(apply, [data |-> << >>, warnings |-> 0], patches)

-----------------------------------------------------------------------------
(***************************************************************************)
(* tree.ex, build: rows become nodes, or leave the tree for the bridge.    *)
(***************************************************************************)
\* The rows the collapse target takes: by the prefix of their name.
Collapses(row) == row.name = "dsh"

\* A row whose id an earlier row of the tree has; harvested rows are not seen.
Seen(data) ==
    LET dup[i \in 0 .. Len(data)] ==
            \E j \in 1 .. (i - 1) : /\ data[j].id = data[i].id
                                    /\ dup[j] \/ data[j].group \/ ~Collapses(data[j])
    IN  dup

\* ancestor_off: some group above the row is disabled.
Off(data) ==
    LET off[i \in 0 .. Len(data)] ==
            \E j \in 1 .. (i - 1) : /\ data[j].group
                                    /\ data[j].id = data[i].parent
                                    /\ off[j] \/ Truthy(data[j].disabled)
    IN  off

\* resolve: the kind and the command a name stands for.  A native row takes no
\* !!js anywhere, an external one none in `disabled`.
Resolve(registry, row) ==
    LET known == row.name \in DOMAIN registry
        spec == registry[row.name]
    IN  IF ~known THEN [kind |-> "error", body |-> "unknown_name"]
        ELSE IF spec.kind = "module" /\ "js" \in {row.config, row.disabled}
        THEN [kind |-> "error", body |-> "js_expr_unsupported"]
        ELSE IF row.disabled = "js"
        THEN [kind |-> "error", body |-> "js_disabled_unsupported"]
        ELSE spec

\* row, group, leaf, fail: the node of the row at position i.  A group is never
\* itself disabled.
Node(data, registry, i) ==
    LET row == data[i]
        spec == IF Seen(data)[i] THEN [kind |-> "error", body |-> "duplicate_id"]
                ELSE IF row.group
                THEN IF row.disabled = "js"
                     THEN [kind |-> "error", body |-> "js_disabled_unsupported"]
                     ELSE [kind |-> "group", body |-> "group"]
                ELSE Resolve(registry, row)
        error == spec.kind = "error"
    IN  [id |-> row.id, name |-> row.name, parent |-> row.parent, kind |-> spec.kind,
         group |-> row.group /\ ~error, body |-> spec.body,
         disabled |-> /\ spec.kind # "group"
                      /\ Off(data)[i] \/ (~error /\ Truthy(row.disabled)),
         config |-> IF error \/ row.group THEN "" ELSE row.config]

\* harvest: the rows handed to the bridge, in the order of the tree, but none
\* below a disabled group.
Harvested(data, i) ==
    /\ ~Seen(data)[i]
    /\ ~data[i].group
    /\ Collapses(data[i])

Build(content, version) ==
    LET composed == Compose(content.patches)
        data == composed.data
        all == [i \in DOMAIN data |-> i]
        kept == SelectSeq(all, LAMBDA i : ~Harvested(data, i))
        rows == SelectSeq(all, LAMBDA i : Harvested(data, i) /\ ~Off(data)[i])
    IN  [nodes |-> [k \in DOMAIN kept |->
                        Node(data, content.registry, kept[k])],
         rows |-> [k \in DOMAIN rows |-> <<data[rows[k]].id, data[rows[k]].config>>],
         version |-> version, warnings |-> composed.warnings]

\* What compose makes of every version of the files.
Composed ==
    [w \in DOMAIN LoaderWorlds |->
        [v \in DOMAIN LoaderWorlds[w].files |-> Build(LoaderWorlds[w].files[v], v)]]

-----------------------------------------------------------------------------
(***************************************************************************)
(* The kernel below the loader, external to it: a fiber goes with those    *)
(* mounted under it.                                                       *)
(***************************************************************************)
RECURSIVE Subtree(_, _)
Subtree(fs, nr) ==
    {nr} \cup UNION {Subtree(fs, f.nr) : f \in {g \in fs : g.parent = nr}}

Unmount(fs, nr) == {f \in fs : f.nr \notin Subtree(fs, nr)}

IsLive(nr) == \E f \in live : f.nr = nr

-----------------------------------------------------------------------------
(***************************************************************************)
(* tree.ex, sync.                                                          *)
(***************************************************************************)
RECURSIVE Descendants(_)
Descendants(id) ==
    UNION {{k} \cup Descendants(k) : k \in {n \in DOMAIN nodes : nodes[n].parent = id}}

LessRows(f, ids) == [i \in DOMAIN f \ ids |-> f[i]]

\* Mutant: the rows below a dropped one are not forgotten.
DropOne(id, m) ==
    [fibers |-> LessRows(m.fibers, {id}),
     live |-> IF id \in DOMAIN m.fibers THEN Unmount(m.live, m.fibers[id]) ELSE m.live,
     mounts |-> m.mounts]

\* drop: unmount the row's fiber if there is one, and forget it and those of the
\* rows that were below it in the old tree.
Drop(id, m) ==
    [fibers |-> LessRows(m.fibers, {id} \cup Descendants(id)),
     live |-> IF id \in DOMAIN m.fibers THEN Unmount(m.live, m.fibers[id]) ELSE m.live,
     mounts |-> m.mounts]

Mountable(node) == node.kind # "error" /\ ~node.disabled

\* mount: nothing without a spec, when disabled, when the parent row has no
\* fiber, or when the parent's fiber is gone (the kernel raises owner_gone).
MountNode(node, m) ==
    LET top == node.parent = ""
        parent == IF top THEN None
                  ELSE IF node.parent \in DOMAIN m.fibers THEN m.fibers[node.parent]
                  ELSE -1
        there == top \/ \E f \in m.live : f.nr = parent
    IN  IF ~(Mountable(node) /\ there) THEN m
        ELSE [fibers |-> (node.id :> (m.mounts + 1)) @@ m.fibers,
              live |-> m.live \cup {[nr |-> m.mounts + 1, id |-> node.id, parent |-> parent,
                                     name |-> node.name, config |-> node.config,
                                     body |-> node.body]},
              mounts |-> m.mounts + 1]

\* replace?
Replace(node, old) ==
    \/ node.kind # old.kind
    \/ node.name # old.name
    \/ node.parent # old.parent
    \/ node.group # old.group

\* The row's config changed and its fiber is restarted: an exit when it is gone.
Restarts(node) ==
    /\ node.id \in DOMAIN nodes
    /\ ~Replace(node, nodes[node.id])
    /\ Mountable(node)
    /\ node.id \in DOMAIN fibers
    /\ node.config # nodes[node.id].config

\* step, but for restarts.
Stepped(node, m) ==
    IF node.id \notin DOMAIN nodes THEN MountNode(node, m)
    ELSE IF Replace(node, nodes[node.id]) THEN MountNode(node, Drop(node.id, m))
    ELSE IF ~Mountable(node) THEN Drop(node.id, m)
    ELSE IF node.id \notin DOMAIN m.fibers THEN MountNode(node, m)
    ELSE m

Restarted(nr, config) ==
    {IF f.nr = nr THEN [f EXCEPT !.config = config] ELSE f : f \in live}

Kernel == [fibers |-> fibers, live |-> live, mounts |-> mounts]

Becomes(m) == fibers' = m.fibers /\ live' = m.live /\ mounts' = m.mounts

LoaderInit ==
    /\ loader \in DOMAIN LoaderWorlds
    /\ file = 1
    /\ nodes = << >> /\ order = << >> /\ fibers = << >>
    /\ bridge = NoBridge /\ profile = << >>
    /\ built = Composed[loader][1]
    /\ sync = "step"
    /\ todo = [i \in DOMAIN built.nodes |-> i]
    /\ live = {} /\ mounts = 0 /\ taken = {} /\ strays = {} /\ reloads = 0

\* Someone edits a layer or installs a plugin version.
Edit ==
    /\ file < Len(World.files)
    /\ file' = file + 1
    /\ UNCHANGED <<loader, nodes, order, fibers, bridge, profile, built, sync, todo,
                   live, mounts, taken, strays, reloads>>

\* The rows whose new fiber this sync forgets again: they left a group that
\* comes later in the walk and is itself dropped there, and `drop` forgets the
\* rows that were below the group in the old tree.
Orphaned(new) ==
    {id \in DOMAIN nodes :
        \E i, j \in DOMAIN new :
            /\ i < j
            /\ new[i].id = id
            /\ new[j].id \in DOMAIN nodes /\ id \in Descendants(new[j].id)
            /\ Replace(new[j], nodes[new[j].id]) \/ ~Mountable(new[j])}

\* reload: compose from the files as they are now; removed rows are dropped
\* first, in the reverse order of the tree.
Reload ==
    /\ sync = "idle"
    /\ reloads < World.reloads
    /\ reloads' = reloads + 1
    /\ built' = Composed[loader][file]
    /\ sync' = "drop"
    /\ todo' = Reverse(SelectSeq(order, LAMBDA id :
                   \A k \in DOMAIN built'.nodes : built'.nodes[k].id # id))
    /\ strays' = strays \cup Orphaned(built'.nodes)
    /\ UNCHANGED <<loader, file, nodes, order, fibers, bridge, profile, live, mounts, taken>>

DropRow ==
    /\ sync = "drop"
    /\ IF todo = << >>
       THEN /\ sync' = "step"
            /\ todo' = [i \in DOMAIN built.nodes |-> i]
            /\ UNCHANGED <<fibers, live, mounts>>
       ELSE /\ Becomes(Drop(Head(todo), Kernel))
            /\ todo' = Tail(todo)
            /\ sync' = sync
    /\ UNCHANGED <<loader, file, nodes, order, bridge, profile, built, taken, strays, reloads>>

StepRow ==
    /\ sync = "step"
    /\ todo # << >>
    /\ LET node == built.nodes[Head(todo)]
       IN  IF Restarts(node)
           THEN /\ live' = Restarted(fibers[node.id], node.config)
                /\ sync' = IF IsLive(fibers[node.id]) THEN sync ELSE "dead"
                /\ UNCHANGED <<fibers, mounts>>
           ELSE Becomes(Stepped(node, Kernel)) /\ sync' = sync
    /\ todo' = Tail(todo)
    /\ UNCHANGED <<loader, file, nodes, order, bridge, profile, built, taken, strays, reloads>>

\* What the bridge's spec says of the rows: their digest only with restart.
BridgeConfig(rows) == IF World.restart THEN rows ELSE << >>

\* collapse_mount: the one fiber of the rows, or none when the kernel refuses it.
BridgeMounted(rows, refused) ==
    IF refused
    THEN bridge' = [NoBridge EXCEPT !.refused = TRUE] /\ UNCHANGED <<live, mounts>>
    ELSE /\ bridge' = [nr |-> mounts + 1, rows |-> rows, config |-> BridgeConfig(rows),
                       refused |-> FALSE]
         /\ live' = live \cup {[nr |-> mounts + 1, id |-> "dsh", parent |-> None,
                                name |-> "dsh", config |-> BridgeConfig(rows), body |-> "dsh"]}
         /\ mounts' = mounts + 1

\* collapse_one: the profile is written, then the one fiber is mounted, kept,
\* restarted, or unmounted when nothing was harvested.  The command of the
\* bridge comes from the loader's own config, which stays, so that its shape
\* never differs and collapse_remount is not reached.  The new tree replaces
\* the old one.
CollapseRows ==
    /\ sync = "step"
    /\ todo = << >>
    /\ LET rows == built.rows
           restarts == bridge.nr # None /\ rows # << >> /\ bridge.config # BridgeConfig(rows)
       IN  /\ profile' = IF rows = << >> THEN profile ELSE rows
           /\ IF rows = << >>
              THEN /\ bridge' = NoBridge /\ mounts' = mounts
                   /\ live' = IF bridge.nr = None THEN live ELSE Unmount(live, bridge.nr)
              ELSE IF bridge.nr = None
              THEN \E refused \in {FALSE, World.unsure} : BridgeMounted(rows, refused)
              ELSE /\ bridge' = [bridge EXCEPT !.rows = rows, !.config = BridgeConfig(rows)]
                   /\ live' = IF restarts THEN Restarted(bridge.nr, BridgeConfig(rows)) ELSE live
                   /\ mounts' = mounts
           /\ sync' = IF restarts /\ ~IsLive(bridge.nr) THEN "dead" ELSE "idle"
    /\ order' = [i \in DOMAIN built.nodes |-> built.nodes[i].id]
    /\ nodes' = FoldLeft(LAMBDA f, n : (n.id :> n) @@ f, << >>, built.nodes)
    /\ UNCHANGED <<loader, file, fibers, built, todo, taken, strays, reloads>>

\* mkdir_p! or write! of the profile raises: the sync ends there.
ProfileFails ==
    /\ World.unsure
    /\ sync = "step" /\ todo = << >> /\ built.rows # << >> /\ profile # built.rows
    /\ sync' = "dead"
    /\ UNCHANGED <<loader, file, nodes, order, fibers, bridge, profile, built, todo, live,
                   mounts, taken, strays, reloads>>

\* plugin unmount of the harness, by id: the kernel's tree has it first.
TakeOut ==
    /\ Cardinality(taken) < World.takes
    /\ \E f \in live :
        /\ live' = Unmount(live, f.nr)
        /\ taken' = taken \cup {g.nr : g \in live \ live'}
    /\ UNCHANGED <<loader, file, nodes, order, fibers, bridge, profile, built, sync, todo,
                   mounts, strays, reloads>>

\* A sync that raised exits the loader's process, and with it the link's, which
\* runs the reload itself.  The node's VM stays up, with its fibers and without a
\* link, and base, which only sees a socket close, does nothing.  A reset of the
\* environment, by the guardian or a client, terminates it, puts the files back
\* to the last known good copy, if there is one, and starts the node anew.
NodeAgain ==
    /\ sync = "dead"
    /\ \E v \in 1 .. file : file' = v
    /\ nodes' = << >> /\ order' = << >> /\ fibers' = << >> /\ bridge' = NoBridge
    /\ built' = Composed[loader][file']
    /\ todo' = [i \in DOMAIN built'.nodes |-> i]
    /\ sync' = "step"
    /\ live' = {} /\ mounts' = 0 /\ taken' = {} /\ strays' = {}
    /\ UNCHANGED <<loader, profile, reloads>>

LoaderNext ==
    \/ Edit \/ Reload \/ DropRow \/ StepRow \/ CollapseRows \/ ProfileFails
    \/ TakeOut \/ NodeAgain

\* A sync that began runs on.  Nobody has to reset a node whose link is gone.
LoaderFairness ==
    /\ WF_loaderVars(focus = "loader" /\ DropRow) /\ WF_loaderVars(focus = "loader" /\ StepRow)
    /\ WF_loaderVars(focus = "loader" /\ CollapseRows)

-----------------------------------------------------------------------------
\* The row and the groups above it.
Line(id) == {n \in DOMAIN nodes : id \in Descendants(n)} \cup {id}

\* The row that is to run: mountable, and so is every row above it.
Wanted(id) == \A a \in Line(id) : Mountable(nodes[a])

\* Two rows of the tree have the id: the error node of the second takes the
\* place of the first, and the next sync drops what was mounted.
Doubled(id) ==
    \E i, j \in DOMAIN built.nodes :
        i < j /\ built.nodes[i].id = id /\ built.nodes[j].id = id

\* A row that need not run: it, or a group above it, was taken out by hand (the
\* record stays), has its id twice, or lost the group's record in a walk.
Excused(id) ==
    \/ \E a \in Line(id) : a \in DOMAIN fibers /\ fibers[a] \in taken
    \/ \E a \in Line(id) : Doubled(a)
    \/ \E a \in Line(id) \cap strays : a # id \/ taken # {}

\* A fiber is as its row says.
AsRow(f) ==
    /\ f.name = nodes[f.id].name /\ f.config = nodes[f.id].config
    /\ IF nodes[f.id].parent = "" THEN f.parent = None
       ELSE \E g \in live : g.nr = f.parent /\ g.id = nodes[f.id].parent

\* A fiber the loader may have lost: of a stray row, or mounted below one.
Stray(f) == \E g \in live : g.id \in strays /\ f.nr \in Subtree(live, g.nr)

(***************************************************************************)
(* When no sync is going on, the fibers below the loader are those a fresh *)
(* load of the same rows would mount, whatever the trees before were and   *)
(* however many syncs led here.  Every row that is enabled, resolved and   *)
(* below groups that are mounted runs with the row's name and config below *)
(* its group; and every fiber is of such a row, is as the row says and the *)
(* only one of its id.  The exceptions are named: what was taken out by    *)
(* hand is missed, an id that two rows have may run or not, and a row that *)
(* once left a group which moved later in the same walk is forgotten and   *)
(* may run twice, or on after its removal, with what is below it (tree.ex, *)
(* drop).  The command of a name is not compared, as replace? does not.    *)
(* The bridge is on record exactly when rows were harvested, unless the    *)
(* kernel refused it, and they are what the profile on disk holds.         *)
(***************************************************************************)
TreeIsAsComposed ==
    sync = "idle" =>
        /\ \A id \in DOMAIN nodes :
              Wanted(id) /\ ~Excused(id) => \E f \in live : f.id = id /\ AsRow(f)
        /\ \A f \in live : f.nr # bridge.nr /\ ~Doubled(f.id) /\ ~Stray(f) =>
              /\ f.id \in DOMAIN nodes
              /\ Wanted(f.id) \/ \E a \in Line(f.id) : Doubled(a)
              /\ AsRow(f)
              /\ \A g \in live : g.id = f.id => g = f
        /\ bridge.rows = built.rows \/ bridge.refused
        /\ bridge.nr # None => profile = built.rows

(***************************************************************************)
(* A sync that began ends (tree.ex, sync): with the new tree, or with the  *)
(* loader gone, and that only because a fiber it was to restart had been   *)
(* taken out by hand (tree.ex, restart) or the profile could not be        *)
(* written (dsh.ex, write).  Nothing promises that the node comes back.    *)
(***************************************************************************)
ReloadReaches ==
    /\ []<>(focus = "loader" => sync \in {"idle", "dead"})
    /\ [](sync = "dead" => taken # {} \/ World.unsure)
=============================================================================
