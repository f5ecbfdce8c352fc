------------------------------ MODULE Curation ------------------------------
(***************************************************************************)
(* An operator cleaning up: the bulk form of `kioku-mesh delete', which    *)
(* walks the matching memories page by page, and `gc-observations', which  *)
(* shows what it would touch, asks, and then acts on what it showed.       *)
(* Meanwhile other processes save, delete, hide and revive memories, and   *)
(* time passes.                                                            *)
(*                                                                         *)
(* `row' is the index the commands read, `held' and `buried' the source of *)
(* truth behind it (the mesh or raw.db).  A backend call is one step: what *)
(* happens inside it is the subject of MeshIndex and LocalBackend.         *)
(***************************************************************************)
EXTENDS Search

CONSTANTS
  PageSize,                        \* --batch-size
  Retention,                       \* --retention-days
  Unfiled,                         \* memories without a project
  MaxClock, MaxUpsets, MaxChanges  \* bounds: the clock, failed calls, steps of other processes

ASSUME CurationAssumption ==
  /\ Lapse \in [Obs -> Nat \cup {None}]
  /\ Retention \in Nat /\ PageSize \in Nat \ {0}
  /\ MaxClock \in Nat /\ MaxUpsets \in Nat /\ MaxChanges \in Nat

VARIABLES
  clock,
  row,                  \* obs_index
  since,                \* deleted_at of a tombstoned row, shadowed_at of a shadowed one
  held, buried,         \* observations and tombstones at the source
  born,                 \* ids used so far: an id is never used twice
  command,              \* what the command does next
  scanning,             \* the index is disabled: pages come from the scan
  cursor, page, full,   \* the walk: its position, rows still to delete, whether the page was full
  ttl, tombs, shadows,  \* the buckets the operator was shown
  residue, found,       \* ids the running sweep has still to do, and those the source still has
  steady, failed,       \* history: rows a search would find all through the walk; failed deletes
  upsets, changes

tableVars   == <<row, since, held, buried, born>>
walkVars    == <<scanning, cursor, page, full, steady, failed>>
sweepVars   == <<ttl, tombs, shadows, residue, found>>
curationVars == <<clock, tableVars, command, walkVars, sweepVars, upsets, changes>>

\* What a page of the walk draws from.
Seen == IF scanning THEN (held \ buried) \ Unreadable ELSE Default(row, clock)

CurationTypeOK ==
  /\ clock \in 0..MaxClock
  /\ row \in Rows /\ since \in [Obs -> 0..MaxClock]
  /\ held \subseteq born /\ buried \subseteq born /\ born \subseteq Obs
  /\ command \in {"idle", "fetch", "walk", "walked", "listTtl", "listTombs", "listShadows",
                  "asked", "bury", "purge", "reap"}
  /\ scanning \in BOOLEAN /\ full \in BOOLEAN
  /\ cursor \in Obs \cup {None} /\ page \subseteq Obs
  /\ ttl \cup tombs \cup shadows \cup residue \cup found \cup steady \cup failed \subseteq Obs
  /\ upsets \in 0..MaxUpsets /\ changes \in 0..MaxChanges

Upset == upsets < MaxUpsets /\ upsets' = upsets + 1

At(o) == [since EXCEPT ![o] = clock]
Never(o) == [since EXCEPT ![o] = 0]

-----------------------------------------------------------------------------
(* put_tombstone of a memory the command has read. *)

Bury(o) ==
  /\ buried' = buried \cup {o}
  /\ row' = Marked(row, {o})
  /\ since' = At(o)
  /\ UNCHANGED <<held, born>>

Untouched == UNCHANGED tableVars

-----------------------------------------------------------------------------
(* kioku-mesh delete --project ... --yes *)

StartWalk ==
  /\ command = "idle"
  /\ scanning' \in BOOLEAN
  /\ cursor' = None /\ failed' = {}
  /\ steady' = IF scanning' THEN (held \ buried) \ Unreadable ELSE Default(row, clock)
  /\ command' = "fetch"
  /\ UNCHANGED <<clock, tableVars, page, full, sweepVars, upsets, changes>>

\* One search_observations of _iter_delete_targets.  A row that does not parse
\* takes its place in the page and is then dropped, so the page looks short.
FetchPage ==
  /\ command = "fetch"
  /\ page' = IF scanning THEN ScanFound(held, buried, {}, cursor, PageSize)
             ELSE Found(row, Default(row, clock), {}, cursor, "and", PageSize)
  /\ full' = (Cardinality(page') = PageSize)
  /\ command' = IF page' = {} THEN "walked" ELSE "walk"
  /\ UNCHANGED <<clock, tableVars, scanning, cursor, steady, failed, sweepVars, upsets, changes>>

\* The next row of the page, the newest, is yielded and tombstoned, or its put fails.
DeleteNext(ok) ==
  /\ command = "walk"
  /\ \E o \in page :
       /\ \A q \in page \ {o} : Newer(o, q)
       /\ page' = page \ {o} /\ cursor' = o
       /\ IF ok THEN Bury(o) /\ UNCHANGED <<failed, upsets>>
          ELSE Untouched /\ Upset /\ failed' = failed \cup {o}
  /\ command' = IF page' # {} THEN "walk" ELSE IF full THEN "fetch" ELSE "walked"
  /\ UNCHANGED <<clock, scanning, full, sweepVars, changes>>
  /\ steady' = steady \cap Seen'

EndWalk ==
  /\ command = "walked"
  /\ command' = "idle"
  /\ scanning' = FALSE /\ cursor' = None /\ full' = FALSE
  /\ steady' = {} /\ failed' = {}
  /\ UNCHANGED <<clock, tableVars, page, sweepVars, upsets, changes>>

-----------------------------------------------------------------------------
(* kioku-mesh gc-observations --execute *)

EndCommand ==
  /\ command' = "idle"
  /\ ttl' = {} /\ tombs' = {} /\ shadows' = {} /\ residue' = {} /\ found' = {}
  /\ UNCHANGED <<clock, tableVars, walkVars, upsets, changes>>

ListTtlAny ==   \* mutant: any memory with a lifetime is listed
  /\ command = "idle"
  /\ ttl' = {o \in Live(row) : Lapse[o] # None}
  /\ command' = "listTombs"
  /\ UNCHANGED <<clock, tableVars, walkVars, tombs, shadows, residue, found, upsets, changes>>

\* collect_gc_candidates: three listings, one transaction each.
ListTtl ==
  /\ command = "idle"
  /\ ttl' = {o \in Live(row) : Lapsed(o, clock)}
  /\ command' = "listTombs"
  /\ UNCHANGED <<clock, tableVars, walkVars, tombs, shadows, residue, found, upsets, changes>>

\* Without --project the listing goes over the projects of the index, and a
\* memory without a project is in none of them.
ListTombs ==
  /\ command = "listTombs"
  /\ tombs' = {o \in Present(row) \ Unfiled : row[o].deleted /\ since[o] < clock - Retention}
  /\ command' = "listShadows"
  /\ UNCHANGED <<clock, tableVars, walkVars, ttl, shadows, residue, found, upsets, changes>>

ListShadows ==
  /\ command = "listShadows"
  /\ shadows' = {o \in Present(row) : row[o].shadowed /\ since[o] < clock - Retention}
  /\ command' = "asked"
  /\ UNCHANGED <<clock, tableVars, walkVars, ttl, tombs, residue, found, upsets, changes>>

\* The operator answers; without --execute the command ends here as well.
DeclineSweep ==
  /\ command = "asked"
  /\ EndCommand

ConfirmSweep ==
  /\ command = "asked"
  /\ ttl \cup tombs \cup shadows # {}
  /\ residue' = ttl
  /\ command' = "bury"
  /\ UNCHANGED <<clock, tableVars, walkVars, ttl, tombs, shadows, found, upsets, changes>>

\* A lapsed memory, if the index still has its row, is tombstoned.
BuryLapsed(o, ok) ==
  /\ command = "bury" /\ o \in residue
  /\ residue' = residue \ {o}
  /\ IF row[o] # None /\ o \notin Unreadable /\ ok THEN Bury(o) ELSE Untouched
  /\ IF ok THEN UNCHANGED upsets ELSE Upset
  /\ UNCHANGED <<clock, command, walkVars, ttl, tombs, shadows, found, changes>>

StartPurgeAnew ==   \* mutant: without only_ids the listing is not bound to what was shown
  /\ command = "bury" /\ residue = {}
  /\ residue' = {o \in buried : since[o] < clock - Retention}
  /\ command' = "purge"
  /\ UNCHANGED <<clock, tableVars, walkVars, ttl, tombs, shadows, found, upsets, changes>>

\* gc_tombstones lists again, with a cutoff of its own, within what was shown.
StartPurge ==
  /\ command = "bury" /\ residue = {}
  /\ residue' = {o \in tombs : o \in buried /\ since[o] < clock - Retention}
  /\ command' = "purge"
  /\ UNCHANGED <<clock, tableVars, walkVars, ttl, tombs, shadows, found, upsets, changes>>

Purge(o) ==
  /\ command = "purge" /\ o \in residue
  /\ residue' = residue \ {o}
  /\ held' = held \ {o} /\ buried' = buried \ {o}
  /\ row' = Removed(row, o) /\ since' = Never(o)
  /\ UNCHANGED <<clock, born, command, walkVars, ttl, tombs, shadows, found, upsets, changes>>

\* gc_shadows lists again too and asks the mesh what it holds; it gives up when
\* the question fails.  (The local backend has no shadows of its own.)
StartReap(ok) ==
  /\ command = "purge" /\ residue = {}
  /\ residue' = IF ok THEN {o \in shadows \cap Present(row) : row[o].shadowed /\ since[o] < clock - Retention}
             ELSE {}
  /\ found' = held \ Unreadable
  /\ IF ok THEN UNCHANGED upsets ELSE Upset
  /\ command' = "reap"
  /\ UNCHANGED <<clock, tableVars, walkVars, ttl, tombs, shadows, changes>>

Revive(o) ==
  /\ command = "reap" /\ o \in residue \cap found
  /\ residue' = residue \ {o}
  /\ row' = Upserted(row, o)
  /\ since' = IF row'[o].deleted THEN since ELSE Never(o)
  /\ UNCHANGED <<clock, held, buried, born, command, walkVars, ttl, tombs, shadows, found,
                 upsets, changes>>

Reap(o) ==
  /\ command = "reap" /\ o \in residue \ found
  /\ residue' = residue \ {o}
  /\ row' = Removed(row, o) /\ since' = Never(o)
  /\ UNCHANGED <<clock, held, buried, born, command, walkVars, ttl, tombs, shadows, found,
                 upsets, changes>>

EndSweep ==
  /\ command = "reap" /\ residue = {}
  /\ EndCommand

-----------------------------------------------------------------------------
(* Everybody else. *)

ByAnother ==
  /\ changes < MaxChanges /\ changes' = changes + 1
  /\ UNCHANGED <<clock, command, scanning, cursor, page, full, failed, sweepVars, upsets>>
  /\ steady' = steady \cap Seen'

\* A save, seen by this index at once.
Save(o) ==
  /\ o \in Obs \ (born \cup Unreadable)
  /\ \A q \in Supersedes[o] : q \in born
  /\ born' = born \cup {o} /\ held' = held \cup {o}
  /\ row' = Upserted(row, o)
  /\ UNCHANGED <<since, buried>>
  /\ ByAnother

DeletedElsewhere(o) ==
  /\ o \in held \ buried
  /\ Bury(o)
  /\ ByAnother

\* A rebuild hides a row its scan did not find: the mesh lost the memory, or
\* a storage did not answer.
Missed(o, lost) ==
  /\ o \in Live(row)
  /\ row' = Hidden(row, {o})
  /\ since' = At(o)
  /\ held' = IF lost THEN held \ {o} ELSE held
  /\ UNCHANGED <<buried, born>>
  /\ ByAnother

\* A sample or a later scan shows the memory again.
SeenAgain(o) ==
  /\ o \in held \ Unreadable
  /\ row[o] # None /\ row[o].shadowed
  /\ row' = Upserted(row, o) /\ since' = Never(o)
  /\ UNCHANGED <<held, buried, born>>
  /\ ByAnother

ClockTicks ==
  /\ clock < MaxClock
  /\ clock' = clock + 1
  /\ UNCHANGED <<tableVars, command, scanning, cursor, page, full, failed, sweepVars, upsets,
                 changes>>
  /\ steady' = steady \cap Seen'

-----------------------------------------------------------------------------
\* A source with some memories, saved in some order.
CurationInit ==
  /\ clock = 0
  /\ \E S \in SUBSET Obs :
       /\ \A o \in S : Supersedes[o] \subseteq S
       /\ held = S /\ born = S
       /\ \E by \in Winners(S) :
            row = [o \in Obs |-> IF o \in S THEN [known |-> TRUE, deleted |-> FALSE, shadowed |-> FALSE, by |-> by[o]]
                                ELSE None]
  /\ since = [o \in Obs |-> 0] /\ buried = {}
  /\ command = "idle"
  /\ scanning = FALSE /\ cursor = None /\ page = {} /\ full = FALSE
  /\ ttl = {} /\ tombs = {} /\ shadows = {} /\ residue = {} /\ found = {}
  /\ steady = {} /\ failed = {} /\ upsets = 0 /\ changes = 0

WalkStep == StartWalk \/ FetchPage \/ EndWalk \/ \E ok \in BOOLEAN : DeleteNext(ok)

\* What gc-observations does once it has been confirmed.
SweepStep ==
  \/ \E o \in Obs, ok \in BOOLEAN : BuryLapsed(o, ok)
  \/ StartPurge \/ EndSweep \/ \E ok \in BOOLEAN : StartReap(ok)
  \/ \E o \in Obs : Purge(o) \/ Revive(o) \/ Reap(o)

CurationNext ==
  \/ WalkStep
  \/ ListTtl \/ ListTombs \/ ListShadows \/ DeclineSweep \/ ConfirmSweep
  \/ SweepStep
  \/ \E o \in Obs : Save(o) \/ DeletedElsewhere(o) \/ SeenAgain(o) \/ \E lost \in BOOLEAN : Missed(o, lost)
  \/ ClockTicks

CurationSpec == CurationInit /\ [][CurationNext]_curationVars

-----------------------------------------------------------------------------
(***************************************************************************)
(* A bulk delete reaches everything: when the walk ends, a memory that was *)
(* to be found from its first page to its last is one whose tombstone      *)
(* failed, whatever was saved, deleted, hidden or replaced in between,     *)
(* however many memories share a timestamp across a page boundary and      *)
(* whatever the deletes themselves bring back to light.  Only a row that   *)
(* does not parse can end it early: what is older may be left.             *)
(***************************************************************************)
WalkReachesAll ==
  command = "walked" =>
    \A o \in steady \ (failed \cup Unreadable) :
      ~scanning /\ \E u \in Unreadable \cap born : Newer(u, o)

(***************************************************************************)
(* Sweeping residue is invisible: nothing gc-observations does after it    *)
(* was confirmed changes what a default search finds.  A lapsed memory was *)
(* not found and hid nothing before it is tombstoned.  The exception is a  *)
(* hidden row that came back: the sweep found it at the source and revives *)
(* it, or it was revived after the sweep had looked and is removed.        *)
(***************************************************************************)
SweepShowsSame ==
  [][SweepStep =>
       \/ Default(row', clock) = Default(row, clock)
       \/ command = "reap" /\ \E o \in residue \ residue' : o \in found \/ o \in Live(row)]_curationVars

(***************************************************************************)
(* What gc-observations takes from the source for good is a memory that    *)
(* carries a tombstone, and the operator was shown it as past its          *)
(* retention before being asked: the window may move between the question  *)
(* and the sweep, the set may not grow (PR #273 B1).                       *)
(***************************************************************************)
GoneWasShown ==
  [][SweepStep => \A o \in held \ held' : o \in tombs /\ o \in buried /\ since[o] < clock - Retention]_curationVars

(***************************************************************************)
(* Content never vanishes between a superseder and its predecessor: of     *)
(* live, unlapsed memories linked by superseded_by, at least one is found  *)
(* by a default search, at every moment and for every order of saves,      *)
(* deletes and lapses.                                                     *)
(***************************************************************************)
NothingVanishes ==
  LET alive == {o \in Live(row) : ~Lapsed(o, clock)}
  IN \A S \in SUBSET alive :
       S # {} /\ (\A o \in S : row[o].by \in alive => row[o].by \in S)
         => S \cap Default(row, clock) # {}

(***************************************************************************)
(* and_or means what it says, on the index and on the scan: no memory      *)
(* twice, none that has all the terms behind one that has only some, and   *)
(* an answer that is not full leaves no match out.  A search may come at   *)
(* any time; the states between two commands hold every table it can meet. *)
(***************************************************************************)
WellFilled(s, whole, part, limit) ==
  /\ Len(s) <= limit
  /\ \A i, j \in DOMAIN s : /\ s[i] = s[j] => i = j
                            /\ s[i] \notin whole /\ s[j] \in whole => j < i
  /\ Len(s) < limit => \A o \in part : \E i \in DOMAIN s : s[i] = o

StrictHitsFirst ==
  command = "idle" /\ born # {} => \A terms \in SUBSET UNION {Has[o] : o \in Obs}, limit \in 1..WideLimit :
    LET rows == Default(row, clock)
        scan == (held \ buried) \ Unreadable
    IN /\ rows \cap Unreadable = {} =>
            WellFilled(AndOr(row, rows, terms, None, limit),
                       {o \in rows : terms \subseteq Has[o]},
                       {o \in rows : terms = {} \/ Has[o] \cap terms # {}}, limit)
       /\ WellFilled(ScanAndOr(held, buried, terms, None, limit),
                     {o \in scan : terms \subseteq Has[o]},
                     {o \in scan : terms = {} \/ Has[o] \cap terms # {}}, limit)
=============================================================================
