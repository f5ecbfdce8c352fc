------------------------------- MODULE Search -------------------------------
(***************************************************************************)
(* What a search of memory/local_index.py answers, as operators on an      *)
(* obs_index table, and what the scan of the mesh answers in its place     *)
(* when the index is disabled (memory/store.py).  obs_fts holds the live   *)
(* rows (FtsLockstep of MeshIndex).                                        *)
(*                                                                         *)
(* Text is abstract: Has[o] are the query terms found in memory o, and     *)
(* bm25 is an arbitrary Relevance.  Projects, identities and the other     *)
(* plain equality filters are one set `among' of the rows they let pass.   *)
(***************************************************************************)
EXTENDS IndexTable, Integers, Sequences

CONSTANTS
  Created, Importance,  \* [Obs -> Nat]: created_at and importance; ids themselves are numbers
  Relevance,            \* [Obs -> Nat]: bm25, smaller is better
  Lapse,                \* [Obs -> Nat \cup {None}]: expires_at
  Has,                  \* [Obs -> SUBSET term]
  Short,                \* terms of fewer than three characters: LIKE, not FTS5
  Unreadable,           \* rows whose payload_json Observation.from_json refuses
  Slack, WideLimit      \* how far the OR phase reaches past the limit (20), and at most (10,000,
                        \* the most any search may ask for)

ASSUME SearchAssumption ==
  /\ Obs \subseteq Nat /\ IsFiniteSet(Obs)
  /\ Created \in [Obs -> Nat] /\ Importance \in [Obs -> Nat] /\ Relevance \in [Obs -> Nat]
  /\ Slack \in Nat /\ WideLimit \in Nat

\* The complement of _NOT_EXPIRED_SQL: the boundary is inclusive.
Lapsed(o, now) == Lapse[o] # None /\ Lapse[o] <= now

MatchingOnceLive(row, now, show) ==   \* mutant: a lapsed superseder keeps hiding (PR #273 B3)
  LET base == IF "deleted" \in show THEN Present(row) ELSE Live(row)
  IN {o \in base : /\ "expired" \in show \/ ~Lapsed(o, now)
                   /\ "superseded" \in show \/ row[o].by \notin Live(row)}

\* _append_visibility_filters: show says what the caller asked to see.  A
\* superseder counts only where it is as live as what it hides.
Matching(row, now, show) ==
  LET base == IF "deleted" \in show THEN Present(row) ELSE Live(row)
      unlapsed(S) == IF "expired" \in show THEN S ELSE {o \in S : ~Lapsed(o, now)}
  IN {o \in unlapsed(base) : "superseded" \in show \/ row[o].by \notin unlapsed(Live(row))}

\* What a search finds that asks for nothing in particular.
Default(row, now) == Matching(row, now, {})

-----------------------------------------------------------------------------
(* Order and pages. *)

LexLess(s, t) == \E i \in DOMAIN s : s[i] < t[i] /\ \A j \in 1..(i - 1) : s[j] = t[j]

\* created_at DESC, observation_id DESC
Newer(o, q) == LexLess(<<-Created[o], -o>>, <<-Created[q], -q>>)

PastStamp(S, cursor) ==   \* mutant: the bound is created_at alone
  IF cursor = None THEN S ELSE {o \in S : Created[o] < Created[cursor]}

\* The strict tuple bound a cursor adds.
Past(S, cursor) == IF cursor = None THEN S ELSE {o \in S : Newer(cursor, o)}

NewestFirst == {x \in Obs \X Obs : Newer(x[1], x[2])}

\* _rows_to_observations: a row that does not parse is skipped after the LIMIT.
Parsed(S) == S \ Unreadable

-----------------------------------------------------------------------------
(* _plan_query and the statements of the modes. *)

Long(terms) == terms \ Short

FullText(row, o, terms) == o \in Live(row) /\ Has[o] \cap Long(terms) # {}

MeetsAll(row, o, terms) == terms \subseteq Has[o] /\ (Long(terms) # {} => o \in Live(row))

MeetsAny(row, o, terms) ==
  terms = {} \/ FullText(row, o, terms) \/ Has[o] \cap terms \cap Short # {}

\* ORDER BY: importance leads when there is a query and no cursor; an OR over
\* FTS5 sorts rows without a rank last.
SortKey(row, o, terms, cursor, mode) ==
  LET ranked == Long(terms) # {}
      found == mode = "and" \/ FullText(row, o, terms)
  IN << IF ranked /\ ~found THEN 1 ELSE 0,
        IF terms # {} /\ cursor = None THEN -Importance[o] ELSE 0,
        IF ranked /\ found THEN Relevance[o] ELSE 0,
        -Created[o], -o >>

Ranking(row, terms, cursor, mode) ==
  {x \in Obs \X Obs :
     LexLess(SortKey(row, x[1], terms, cursor, mode), SortKey(row, x[2], terms, cursor, mode))}

\* What LocalIndex.search finds in the modes `and' and `or', over the rows the filters leave.
Found(row, rows, terms, cursor, mode, limit) ==
  LET hits == {o \in Past(rows, cursor) :
                 IF mode = "and" THEN MeetsAll(row, o, terms) ELSE MeetsAny(row, o, terms)}
  IN Parsed(Top(hits, Ranking(row, terms, cursor, mode), limit))

AndOrUnfiltered(row, rows, terms, cursor, limit) ==   \* mutant: the OR phase keeps the strict hits
  LET byMode(mode) == Ranking(row, terms, cursor, mode)
      strict == Found(row, rows, terms, cursor, "and", limit)
      broad == Found(row, rows, terms, cursor, "or", limit)
  IN Listed(strict, byMode("and"))
       \o Listed(Top(broad, byMode("or"), limit - Cardinality(strict)), byMode("or"))

\* _search_and_or: the strict hits, then the broad ones in the slots left.
AndOr(row, rows, terms, cursor, limit) ==
  LET byMode(mode) == Ranking(row, terms, cursor, mode)
      asked == IF limit > Slack THEN 2 * limit ELSE limit + Slack
      reach == IF asked > WideLimit THEN WideLimit ELSE asked
      strict == Found(row, rows, terms, cursor, "and", limit)
      broad == Found(row, rows, terms, cursor, "or", reach) \ strict
  IN Listed(strict, byMode("and"))
       \o Listed(Top(broad, byMode("or"), limit - Cardinality(strict)), byMode("or"))

-----------------------------------------------------------------------------
(* _search_via_zenoh: the mesh itself, its observations without a tombstone. *)

\* Payloads that do not parse are skipped before the page is cut, and neither
\* a superseder nor a lifetime hides anything.
Candidates(observations, tombstones, cursor) ==
  Past((observations \ tombstones) \ Unreadable, cursor)

\* The mode `or', and `and_or'; `and' looks for the whole query as one string.
ScanFound(observations, tombstones, terms, cursor, limit) ==
  Top({o \in Candidates(observations, tombstones, cursor) : terms = {} \/ Has[o] \cap terms # {}},
      NewestFirst, limit)

ScanAndOr(observations, tombstones, terms, cursor, limit) ==
  LET base == Candidates(observations, tombstones, cursor)
      all == {o \in base : terms \subseteq Has[o]}
      orOnly == {o \in base \ all : Has[o] \cap terms # {}}
      strict == Top(all, NewestFirst, limit)
      broad == Top(orOnly, NewestFirst, limit - Cardinality(strict))
  IN Listed(strict, NewestFirst) \o Listed(broad, NewestFirst)
=============================================================================
