------------------------------ MODULE MCTools ------------------------------
(***************************************************************************)
(* The tools an operator runs by hand, for TLC: migrate-visibility,        *)
(* scope-migrate, scope-purge, backfill-metadata, and the clean-up         *)
(* commands delete and gc-observations.  One finishes before the next      *)
(* begins and they share no state, so a behaviour is one tool at work:     *)
(* `tool' says which, and the others' variables keep one value.            *)
(***************************************************************************)
EXTENDS VisibilityMigration, ScopeMigration, ScopePurge, Backfill, Curation

CONSTANTS
  note, tomb, taken,   \* legacy keys: an observation, a tombstone, a conflicting one
  home, office, x, y,  \* peers and payloads of the cutover
  team, user,          \* scopes of this host
  word, of             \* query terms: one for FTS5, one too short for it

VARIABLE tool

(***************************************************************************)
(* Four memories, 3 and 4 superseding 1.  The clean-up: 1 and 2 share a    *)
(* timestamp; 3 lapses; 2 has no project; the newest, 4, does not parse.   *)
(* 1 has both query terms, 2 and the others one each, and importance and   *)
(* relevance disagree with age.  scope-purge has the first three, one of   *)
(* the mesh, one of the team, and one of the user, which only this host    *)
(* holds.  For backfill-metadata 1 lacks its summary, and 3 and 4 may      *)
(* become copies of it.                                                    *)
(***************************************************************************)
OverFirst      == [o \in Obs |-> IF o > 2 THEN {1} ELSE {}]
FirstTwoAtOnce == [o \in Obs |-> IF o <= 2 THEN 1 ELSE o]
FirstMatters   == [o \in Obs |-> IF o = 1 THEN 3 ELSE 2]
ThirdRelevant  == [o \in Obs |-> IF o = 3 THEN 1 ELSE 2]
ThirdLapses    == [o \in Obs |-> IF o = 3 THEN 1 ELSE None]
Text           == [o \in Obs |-> CASE o = 1 -> {word, of} [] o = 2 -> {word} [] OTHER -> {of}]
HomeOf         == [o \in Obs |-> CASE o = 2 -> team [] o = 3 -> user [] OTHER -> None]

\* Bounds: memories that take no part; failures and steps of others taken together.
PurgeBound  == scopeRow[4] = None /\ purgeFaults + purgeChanges <= 2
RepairBound == bareRow[2] = None
CleanBound  == upsets + changes <= 2

MCInit ==
  /\ tool \in {"migrate-visibility", "scope-migrate", "scope-purge", "backfill", "clean-up"}
  /\ Init /\ (tool # "migrate-visibility" => \A i \in Item \ Foreign : target[i] = None)
  /\ ScopeInit /\ (tool # "scope-migrate" => old = [p \in Peer |-> [k \in Key |-> Absent]])
  /\ ScopePurgeInit /\ IF tool = "scope-purge" THEN PurgeBound
                        ELSE declared = {} /\ served = {} /\ Present(scopeRow) = {}
  /\ BackfillInit
  /\ CurationInit /\ (tool # "clean-up" => held = {})

MCNext ==
  /\ UNCHANGED tool
  /\ \/ /\ tool = "migrate-visibility" /\ Next
        /\ UNCHANGED <<scopeVars, purgeVars, backfillVars, curationVars>>
     \/ /\ tool = "scope-migrate" /\ ScopeNext
        /\ UNCHANGED <<vars, purgeVars, backfillVars, curationVars>>
     \/ /\ tool = "scope-purge" /\ ScopePurgeNext /\ PurgeBound'
        /\ UNCHANGED <<vars, scopeVars, backfillVars, curationVars>>
     \/ /\ tool = "backfill" /\ BackfillNext /\ RepairBound'
        /\ UNCHANGED <<vars, scopeVars, purgeVars, curationVars>>
     \/ /\ tool = "clean-up" /\ CurationNext /\ CleanBound'
        /\ UNCHANGED <<vars, scopeVars, purgeVars, backfillVars>>

others == <<tool, scopeVars, purgeVars, backfillVars, curationVars>>

MCSpec == MCInit /\ [][MCNext]_<<vars, others>>
          /\ WF_vars(tool = "migrate-visibility" /\ Run /\ UNCHANGED others)
          /\ SF_vars(tool = "migrate-visibility" /\ Start(FALSE, source, {}) /\ UNCHANGED others)

\* ObservationsArrive, of the behaviours in which the tool is run.
Arrival == tool = "migrate-visibility" => ObservationsArrive
=============================================================================
