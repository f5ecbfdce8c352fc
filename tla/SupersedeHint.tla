--------------------------- MODULE SupersedeHint ---------------------------
(***************************************************************************)
(* Saving a decision (`save_observation', `kioku-mesh save'): after the    *)
(* save the caller is told which visible memories the new one probably     *)
(* replaces.  Memories are never rewritten, so whoever does not follow the *)
(* hint leaves two latest decisions side by side, and what is left to find *)
(* them is the conflicting_latest check of the doctor.                     *)
(*                                                                         *)
(* The hint is one query on the index of this host.  Its processes save at *)
(* the same time, and between the write of one memory and the query for it *)
(* samples arrive, memories are deleted, and a rebuild hides what its scan *)
(* did not see.  PendingQueue and MeshIndex have the detail of the put and *)
(* of the mirror.  Memories without a lifetime are assumed.                *)
(***************************************************************************)
EXTENDS IndexTable

CONSTANTS
  Caller,                \* processes of this host
  Topic,                 \* project, type, normalized subject and scope of a memory; None: its type
                         \* is not revisable or it has no subject
  Rank,                  \* the order by created_at and observation_id
  HintLimit,             \* DEFAULT_CANDIDATE_LIMIT
  MaxUpsets, MaxChanges  \* bounds: failures; steps of others

ASSUME HintAssumption ==
  /\ IsFiniteSet(Obs)
  /\ Rank \in [Obs -> Nat] /\ \A o, q \in Obs : Rank[o] = Rank[q] => o = q
  /\ HintLimit \in Nat \ {0}
  /\ MaxUpsets \in Nat /\ MaxChanges \in Nat

VARIABLES
  row,           \* obs_index
  held, buried,  \* observations and tombstones on the mesh
  waiting,       \* pending_puts
  born,          \* ids used so far
  saving,        \* the memory each process is saving, with its stage, or None
  hint,          \* the hint each saved memory was answered with; None: no query was made
  steady,        \* history: memories their savers indexed, found by every search since
  upsets, changes

hintVars == <<row, held, buried, waiting, born, saving, hint, steady, upsets, changes>>

Call == [obs : Obs, stage : {"stored", "indexed"}]

HintTypeOK ==
  /\ row \in Rows
  /\ held \cup buried \cup waiting \cup steady \subseteq born /\ born \subseteq Obs
  /\ saving \in [Caller -> Call \cup {None}]
  /\ hint \in [Obs -> (SUBSET Obs) \cup {None}]
  /\ upsets \in 0..MaxUpsets /\ changes \in 0..MaxChanges

Upset == upsets < MaxUpsets /\ upsets' = upsets + 1
Change == changes < MaxChanges /\ changes' = changes + 1
Steady(S) == steady' = S \cap Shown(row')

-----------------------------------------------------------------------------
(* Reading the index. *)

NewestFirst == {x \in Obs \X Obs : Rank[x[1]] > Rank[x[2]]}

OlderCandidates(table, o) ==   \* mutant: only what is older can be replaced
  {q \in Shown(table) : Topic[o] # None /\ Topic[q] = Topic[o] /\ Rank[q] < Rank[o]}

\* find_candidates_in_index, before its limit.
Candidates(table, o) ==
  {q \in Shown(table) \ {o} : Topic[o] # None /\ Topic[q] = Topic[o]}

\* The groups check_conflicting_latest reports.
Conflicts(table) ==
  LET found == {o \in Shown(table) : Topic[o] # None}
      group(t) == {o \in found : Topic[o] = t}
  IN {g \in {group(Topic[o]) : o \in found} : Cardinality(g) > 1}

-----------------------------------------------------------------------------
(* A save.  What is refused before its put leaves no trace. *)

InStage(p, stage) == saving[p] # None /\ saving[p].stage = stage

Store(p, o) ==
  /\ saving[p] = None /\ o \notin born
  /\ saving' = [saving EXCEPT ![p] = [obs |-> o, stage |-> "stored"]]
  /\ held' = held \cup {o} /\ born' = born \cup {o}
  /\ UNCHANGED <<row, buried, waiting, hint, steady, upsets, changes>>

\* The put raises on both attempts: queued, perhaps on the mesh, and the caller
\* hears of a failure and no hint.
StoreFails(p, o, taken) ==
  /\ saving[p] = None /\ o \notin born
  /\ Upset
  /\ waiting' = waiting \cup {o} /\ born' = born \cup {o}
  /\ held' = IF taken THEN held \cup {o} ELSE held
  /\ UNCHANGED <<row, buried, saving, hint, steady, changes>>

\* upsert swallows its errors: the save goes on without its row.
Index(p, ok) ==
  /\ InStage(p, "stored")
  /\ saving' = [saving EXCEPT ![p].stage = "indexed"]
  /\ IF ok THEN /\ row' = Upserted(row, saving[p].obs)
                /\ Steady(steady \cup {saving[p].obs})
                /\ UNCHANGED upsets
           ELSE Upset /\ UNCHANGED <<row, steady>>
  /\ UNCHANGED <<held, buried, waiting, born, hint, changes>>

\* The answer.  A caller that says what the memory supersedes gets no hint, and
\* neither does one whose query fails or whose index is disabled.
HintAnswer(p, ok) ==
  /\ InStage(p, "indexed")
  /\ saving' = [saving EXCEPT ![p] = None]
  /\ LET o == saving[p].obs
     IN \/ /\ ok /\ Supersedes[o] = {}
           /\ hint' = [hint EXCEPT ![o] = Top(Candidates(row, o), NewestFirst, HintLimit)]
           /\ UNCHANGED upsets
        \/ ok /\ Supersedes[o] # {} /\ UNCHANGED <<hint, upsets>>
        \/ ~ok /\ Upset /\ UNCHANGED hint
  /\ UNCHANGED <<row, held, buried, waiting, born, steady, changes>>

\* The process stops.
CallerStops(p) ==
  /\ saving[p] # None
  /\ Upset
  /\ saving' = [saving EXCEPT ![p] = None]
  /\ UNCHANGED <<row, held, buried, waiting, born, hint, steady, changes>>

-----------------------------------------------------------------------------
(* Everybody else. *)

PeerSaves(o) ==
  /\ Change
  /\ o \notin born
  /\ held' = held \cup {o} /\ born' = born \cup {o}
  /\ UNCHANGED <<row, buried, waiting, saving, hint, steady, upsets>>

\* A sample reaches the index, from a peer or from this host, or a repair catches up on it.
Mirror(o) ==
  /\ o \in held
  /\ row' = Upserted(row, o)
  /\ Steady(steady)
  /\ UNCHANGED <<held, buried, waiting, born, saving, hint, upsets, changes>>

Drain(o) ==
  /\ o \in waiting
  /\ waiting' = waiting \ {o}
  /\ held' = held \cup {o}
  /\ row' = Upserted(row, o)
  /\ Steady(steady)
  /\ UNCHANGED <<buried, born, saving, hint, upsets, changes>>

Bury(o) ==
  /\ Change
  /\ o \in held \ buried
  /\ buried' = buried \cup {o}
  /\ row' = Marked(row, {o})
  /\ Steady(steady)
  /\ UNCHANGED <<held, waiting, born, saving, hint, upsets>>

\* A rebuild applies a scan that returned S.
Rebuild(S) ==
  /\ Change
  /\ \E by \in Winners(S) : row' = Rebuilt(row, S, buried \cap S, by)
  /\ Steady(steady)
  /\ UNCHANGED <<held, buried, waiting, born, saving, hint, upsets>>

HintInit ==
  /\ row = [o \in Obs |-> None]
  /\ held = {} /\ buried = {} /\ waiting = {} /\ born = {}
  /\ saving = [p \in Caller |-> None]
  /\ hint = [o \in Obs |-> None]
  /\ steady = {}
  /\ upsets = 0 /\ changes = 0

HintNext ==
  \/ \E p \in Caller, o \in Obs, b \in BOOLEAN :
       Store(p, o) \/ StoreFails(p, o, b) \/ Index(p, b) \/ HintAnswer(p, b) \/ CallerStops(p)
  \/ \E o \in Obs : PeerSaves(o) \/ Mirror(o) \/ Drain(o) \/ Bury(o)
  \/ \E S \in SUBSET held : Rebuild(S)

HintSpec == HintInit /\ [][HintNext]_hintVars

-----------------------------------------------------------------------------
(* Properties. *)

\* The doctor looks for the conflicts of two hosts, "locally, neither sees the other
\* as a candidate", because those of one host do not go unnoticed: of two memories
\* it reports, saved here one after the other or at the same time, one caller was
\* told of the other.  Excepted are memories whose index write or query failed, that
\* were hidden in between, or that were saved with an explicit supersedes, and
\* callers whose hint was full.
OneIsTold ==
  \A g \in Conflicts(row) : \A a, b \in g \cap steady :
    a # b /\ hint[a] # None /\ hint[b] # None =>
      \/ a \in hint[b] \/ b \in hint[a]
      \/ \E o \in {a, b} : Cardinality(hint[o]) = HintLimit
=============================================================================
