----------------------------- MODULE ScopePurge -----------------------------
(***************************************************************************)
(* `kioku-mesh scope-purge`: an operator has withdrawn a scope from        *)
(* storage_scopes and removes what this host still has of it, rows of the  *)
(* index and whole RocksDB directories, without a delete on the mesh.      *)
(*                                                                         *)
(* The command plans from three sources that change independently: the     *)
(* configuration, the storages the running zenohd serves (those of the     *)
(* configuration it was started with) and index.db.  It shows the plan and *)
(* acts on it after the operator has confirmed.  A directory is set aside  *)
(* by a new name, <dir>.purged-<stamp>; the slug of a scope admits dots    *)
(* and hyphens, so while it is short enough that name is one a scope has.  *)
(***************************************************************************)
EXTENDS IndexTable

CONSTANTS
  Scope,                           \* user/<id> and team/<id>; mesh is always declared and left out
  ScopeOf,                         \* the scope of each observation, None for mesh and legacy ones
  Elsewhere,                       \* observations other hosts hold
  Room,                            \* stamps a name takes before it is no slug any more
  MaxPurgeFaults, MaxPurgeChanges  \* bounds: failures; steps of operators and other processes

ASSUME ScopePurgeAssumption ==
  /\ ScopeOf \in [Obs -> Scope \cup {None}] /\ Elsewhere \subseteq Obs
  /\ Room \in Nat /\ MaxPurgeFaults \in Nat /\ MaxPurgeChanges \in Nat

VARIABLES
  declared,       \* scopes of storage_scopes
  served,         \* scopes whose directory a live storage has open
  dirs,           \* directories under the RocksDB root
  scopeRow,       \* obs_index
  dead,           \* tombstones on the mesh
  purging,
  rows, targets,  \* the plan: ids to delete, directories to set aside
  read,           \* the plan has read the rows of index.db
  known,          \* the plan knows which directories are served
  arrived,        \* history: ids whose payload reached the index since the plan
  stuck,          \* history: ids the last purge counted although the index kept them
  outcome,        \* history: "complete" when the last purge ran to its end or found
                  \* nothing, "running" before, "none" once the host is reconfigured
  purgeFaults, purgeChanges

hostVars  == <<declared, served>>
purgeVars == <<declared, served, dirs, scopeRow, dead, purging, rows, targets, read, known,
               arrived, stuck, outcome, purgeFaults, purgeChanges>>

\* ScopeSpec.volume_dir, and what execute_purge makes of it.
DirOf(s) == [scope |-> s, stamps |-> 0]
Aside(d) == [d EXCEPT !.stamps = @ + 1]

Name == [scope : Scope, stamps : 0..(Room + 1)]

ScopePurgeTypeOK ==
  /\ declared \subseteq Scope /\ served \subseteq Scope
  /\ dirs \subseteq Name
  /\ scopeRow \in Rows /\ dead \subseteq Obs
  /\ purging \in {"idle", "asked", "open", "rows", "dirs"}
  /\ rows \subseteq Obs /\ targets \subseteq Name
  /\ read \in BOOLEAN /\ known \in BOOLEAN
  /\ arrived \subseteq Obs /\ stuck \subseteq Obs
  /\ outcome \in {"none", "running", "complete"}
  /\ purgeFaults \in 0..MaxPurgeFaults /\ purgeChanges \in 0..MaxPurgeChanges

PurgeFault == purgeFaults < MaxPurgeFaults /\ purgeFaults' = purgeFaults + 1
PurgeChange == purgeChanges < MaxPurgeChanges /\ purgeChanges' = purgeChanges + 1

-----------------------------------------------------------------------------
(* build_purge_plan *)

Known(t) == {o \in Present(t) : t[o].known}

\* The rows of scopes storage_scopes does not name, deleted and shadowed ones too; a
\* placeholder has no payload to read a scope from.
Undeclared ==
  {o \in Known(scopeRow) : ScopeOf[o] # None /\ ScopeOf[o] \notin declared}

ShownRows(reads) ==   \* mutant: only the rows a search shows
  IF reads THEN Undeclared \cap Shown(scopeRow) ELSE {}

\* _undeclared_rows: index.db that cannot be opened read-only, or a query that fails (one
\* payload that is no JSON is enough), is logged and looks like an index without rows.
UndeclaredRows(reads) == IF reads THEN Undeclared ELSE {}

\* _label_for_volume_dir: the scope of that name, if it is one and is undeclared.
NamesUndeclared(d) == d.stamps <= Room /\ (d.stamps = 0 => d.scope \notin declared)

\* Directories that are not served, as far as the admin space told.
Removable(told) == {d \in dirs : NamesUndeclared(d) /\ ~(d.stamps = 0 /\ d.scope \in told)}

\* fetch_self_storages: it raises, or a storage whose reply is an error, cannot be
\* parsed or does not come in time is skipped, and looks as if it were not served.
FetchSelfStorages(answers, told) == IF answers THEN told \subseteq served ELSE told = {}

\* An admin space that raises leaves every directory. What fails in one plan is one fault.
\* A plan without rows and directories ends the command: nothing to purge.
Plan(reads, answers, told) ==
  /\ purging = "idle"
  /\ FetchSelfStorages(answers, told)
  /\ IF reads /\ answers /\ told = served THEN UNCHANGED purgeFaults ELSE PurgeFault
  /\ read' = reads /\ known' = answers
  /\ rows' = UndeclaredRows(reads)
  /\ targets' = IF answers THEN Removable(told) ELSE {}
  /\ IF rows' = {} /\ targets' = {}
     THEN purging' = "idle" /\ outcome' = "complete"
     ELSE purging' = "asked" /\ outcome' = "running"
  /\ arrived' = {} /\ stuck' = {}
  /\ UNCHANGED <<hostVars, dirs, scopeRow, dead, purgeChanges>>

\* --dry-run, or another answer than `purge <n>'.
Decline ==
  /\ purging = "asked"
  /\ purging' = "idle"
  /\ UNCHANGED <<hostVars, dirs, scopeRow, dead, rows, targets, read, known, arrived, stuck,
                 outcome, purgeFaults, purgeChanges>>

Confirm ==
  /\ purging = "asked"
  /\ purging' = "open"
  /\ UNCHANGED <<hostVars, dirs, scopeRow, dead, rows, targets, read, known, arrived, stuck,
                 outcome, purgeFaults, purgeChanges>>

-----------------------------------------------------------------------------
(* execute_purge *)

\* What a scan of the mesh reads: other hosts' copies, and those of live storages.
Readable == Elsewhere \cup {o \in Obs : ScopeOf[o] \in served}

\* get_index opens the index. An empty one is rebuilt from a scan of the mesh, any
\* other one only with --rebuild.
OpenAsIs ==
  /\ purging = "open"
  /\ Present(scopeRow) # {}
  /\ purging' = "rows"
  /\ UNCHANGED <<hostVars, dirs, scopeRow, dead, rows, targets, read, known, arrived, stuck,
                 outcome, purgeFaults, purgeChanges>>

OpenRebuilt(S) ==
  /\ purging = "open"
  /\ S \subseteq Readable
  /\ IF S = Readable THEN UNCHANGED purgeFaults ELSE PurgeFault
  /\ \E by \in Winners(S) : scopeRow' = Rebuilt(scopeRow, S, dead, by)
  /\ arrived' = arrived \cup (Known(scopeRow') \ Known(scopeRow))
  /\ purging' = "rows"
  /\ UNCHANGED <<hostVars, dirs, dead, rows, targets, read, known, stuck, outcome, purgeChanges>>

\* It cannot be opened: every physical_delete returns at once and is counted.
OpenFails ==
  /\ purging = "open"
  /\ PurgeFault
  /\ stuck' = rows /\ rows' = {}
  /\ purging' = "rows"
  /\ UNCHANGED <<hostVars, dirs, scopeRow, dead, targets, read, known, arrived, outcome, purgeChanges>>

\* physical_delete of the index, which logs a statement that fails and returns all
\* the same; nothing is deleted on the mesh.
DeleteRow(o, ok) ==
  /\ purging = "rows" /\ o \in rows
  /\ rows' = rows \ {o}
  /\ IF ok THEN scopeRow' = Removed(scopeRow, o) /\ UNCHANGED <<stuck, purgeFaults>>
           ELSE PurgeFault /\ stuck' = stuck \cup {o} /\ UNCHANGED scopeRow
  /\ UNCHANGED <<hostVars, dirs, dead, purging, targets, read, known, arrived, outcome, purgeChanges>>

RowsDone ==
  /\ purging = "rows" /\ rows = {}
  /\ purging' = "dirs"
  /\ UNCHANGED <<hostVars, dirs, scopeRow, dead, rows, targets, read, known, arrived, stuck,
                 outcome, purgeFaults, purgeChanges>>

RenameDir(d) ==
  /\ purging = "dirs" /\ d \in targets \cap dirs
  /\ dirs' = (dirs \ {d}) \cup {Aside(d)}
  /\ targets' = targets \ {d}
  /\ UNCHANGED <<hostVars, scopeRow, dead, purging, rows, read, known, arrived, stuck, outcome,
                 purgeFaults, purgeChanges>>

\* os.replace raises through the command, or the process stops: the rest stays.
PurgeRaises ==
  /\ purging \in {"rows", "dirs"}
  /\ PurgeFault
  /\ purging' = "idle"
  /\ UNCHANGED <<hostVars, dirs, scopeRow, dead, rows, targets, read, known, arrived, stuck,
                 outcome, purgeChanges>>

FinishPurge ==
  /\ purging = "dirs" /\ targets = {}
  /\ purging' = "idle"
  /\ outcome' = IF outcome = "running" THEN "complete" ELSE outcome
  /\ UNCHANGED <<hostVars, dirs, scopeRow, dead, rows, targets, read, known, arrived, stuck,
                 purgeFaults, purgeChanges>>

-----------------------------------------------------------------------------
(* The host, and other processes. *)

\* An operator edits storage_scopes; every command reads it afresh.
Redeclare(S) ==
  /\ PurgeChange
  /\ declared' = S
  /\ outcome' = "none"
  /\ UNCHANGED <<served, dirs, scopeRow, dead, purging, rows, targets, read, known, arrived, stuck,
                 purgeFaults>>

\* zenohd starts with the storages of the configuration, creating directories.
RestartRouter ==
  /\ PurgeChange
  /\ served' = declared
  /\ dirs' = dirs \cup {DirOf(s) : s \in declared}
  /\ outcome' = "none"
  /\ UNCHANGED <<declared, scopeRow, dead, purging, rows, targets, read, known, arrived, stuck,
                 purgeFaults>>

\* A sample reaches the index through the subscriber of a running server, which
\* by default reads every scope.
Arrive(o) ==
  /\ PurgeChange
  /\ o \in Readable
  /\ scopeRow' = Upserted(scopeRow, o)
  /\ arrived' = arrived \cup {o}
  /\ UNCHANGED <<hostVars, dirs, dead, purging, rows, targets, read, known, stuck, outcome, purgeFaults>>

\* A memory is deleted, and the tombstone's sample marks its row.
BuryScoped(o) ==
  /\ PurgeChange
  /\ dead' = dead \cup {o}
  /\ scopeRow' = Marked(scopeRow, {o})
  /\ UNCHANGED <<hostVars, dirs, purging, rows, targets, read, known, arrived, stuck, outcome,
                 purgeFaults>>

\* An operator has withdrawn scopes zenohd may still serve; the index holds what
\* was saved before.
ScopePurgeInit ==
  /\ declared \in SUBSET Scope
  /\ served \in SUBSET Scope /\ declared \subseteq served
  /\ dirs = {DirOf(s) : s \in Scope}
  /\ scopeRow \in [Obs -> {None, [known |-> TRUE, deleted |-> FALSE, shadowed |-> FALSE, by |-> None]}]
  /\ dead = {}
  /\ purging = "idle" /\ rows = {} /\ targets = {}
  /\ read = FALSE /\ known = FALSE
  /\ arrived = {} /\ stuck = {} /\ outcome = "none"
  /\ purgeFaults = 0 /\ purgeChanges = 0

ScopePurgeNext ==
  \/ \E reads, answers \in BOOLEAN, told \in SUBSET served : Plan(reads, answers, told)
  \/ Decline \/ Confirm
  \/ \E S \in SUBSET Readable : OpenRebuilt(S)
  \/ OpenAsIs \/ OpenFails
  \/ \E o \in rows, ok \in BOOLEAN : DeleteRow(o, ok)
  \/ RowsDone \/ PurgeRaises \/ FinishPurge
  \/ \E d \in targets : RenameDir(d)
  \/ \E S \in SUBSET Scope : Redeclare(S)
  \/ RestartRouter
  \/ \E o \in Obs : Arrive(o) \/ BuryScoped(o)

ScopePurgeSpec == ScopePurgeInit /\ [][ScopePurgeNext]_purgeVars

-----------------------------------------------------------------------------
(* Properties. *)

\* A purge that ran to its end, or found nothing to purge, has taken everything it is
\* for, whatever failed before it: no row of an undeclared scope is left that the index
\* had when it planned, if it could read them, unless the deletion failed without a word,
\* and no directory that zenohd does not serve, if zenohd told which those are. Neither
\* of the two conditions is told to the operator otherwise than by a line of the log.
PurgeSettles ==
  outcome = "complete" =>
    /\ read => Undeclared \subseteq arrived \cup stuck
    /\ known => \A s \in Scope \ (declared \cup served) : DirOf(s) \notin dirs

\* Claimed by _served_dirs: "the admin space did not answer" is not evidence that
\* nothing is served, so the directory of a live storage is never renamed.
ServedDirsStay == \A s \in served : DirOf(s) \in dirs
=============================================================================
