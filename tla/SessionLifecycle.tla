-------------------------- MODULE SessionLifecycle --------------------------
(***************************************************************************)
(* The threads of one MCP server on the mesh: the main thread, which runs  *)
(* the tools and the shutdown, the pending drain, and the realignment      *)
(* worker.  They share the cached session (core/transport.py), the index   *)
(* and the subscribers that feed it (memory/store.py), and the             *)
(* registration of the worker (memory/realignment.py).                     *)
(*                                                                         *)
(* What runs under the reentrant lifecycle lock is one step: opening a     *)
(* session and the hook that declares the subscribers on it, resetting it  *)
(* and the hook that drops them.  Between two steps every other thread may *)
(* run.  Sessions are numbered; closing one kills what is declared on it.  *)
(***************************************************************************)
EXTENDS Naturals

CONSTANTS
  Worker,       \* realignment threads
  MaxSessions,  \* bound: sessions opened
  MaxFaults,    \* bound: puts, opens, declarations and indexes that fail
  NoThread      \* no thread

Caller == {"main", "drain"}   \* the threads that open the index
Thread == Caller \cup Worker

ASSUME SessionAssumption ==
  /\ MaxSessions \in Nat \ {0} /\ MaxFaults \in Nat
  /\ NoThread \notin Thread
  /\ Worker \cap Caller = {}

VARIABLES
  session,     \* _session: its number, 0 for none
  opened,      \* sessions opened so far
  index,       \* _index
  sub,         \* _subscribers (the session they are cached for), _subscriber_session,
               \* and how many subscriber sets the current session really has
  pc,          \* what each thread does next
  mine,        \* the session each thread got
  made,        \* the worker a caller has created and not yet started
  enabled,     \* realignment ownership
  registered,  \* _thread
  asked,       \* threads whose stop event is set
  joining,     \* the worker the shutdown waits for
  drained,     \* the drain call has replayed a row
  faults,
  refused,     \* history: sessions a declaration failed on
  connects     \* history: how often the index was opened

sessionVars == <<session, opened, sub, refused>>
workerVars  == <<made, enabled, registered, asked, joining>>
threadVars == <<sessionVars, index, pc, mine, workerVars, drained, faults, connects>>

Stages == {"idle", "session", "put", "reset", "index", "connect", "indexSession", "subscribe",
           "start", "launch", "row", "unborn", "made", "waiting", "scan", "ending", "ended",
           "disable", "stop", "join", "close", "exited"}

Sub == [cached : 0..MaxSessions, bound : 0..MaxSessions, live : Nat]

SessionTypeOK ==
  /\ session \in 0..MaxSessions /\ opened \in 0..MaxSessions
  /\ index \in {"none", "open", "disabled"}
  /\ sub \in Sub
  /\ pc \in [Thread -> Stages] /\ mine \in [Thread -> 0..MaxSessions]
  /\ made \in [Caller -> Worker \cup {NoThread}]
  /\ enabled \in BOOLEAN /\ registered \in Worker \cup {NoThread}
  /\ asked \subseteq Thread /\ joining \in Worker \cup {NoThread}
  /\ drained \in BOOLEAN
  /\ faults \in 0..MaxFaults /\ refused \subseteq 0..MaxSessions /\ connects \in Nat

Fault == faults < MaxFaults /\ faults' = faults + 1

GoTo(t, stage) == pc' = [pc EXCEPT ![t] = stage]

\* Where a thread goes on after get_index: to its next row, or its next tool.
Home(t) == IF t = "drain" THEN "row" ELSE "idle"

(***************************************************************************)
(* The subscribers, always under the lifecycle lock.  Here c is their      *)
(* state and cur the current session.                                      *)
(***************************************************************************)
Silent == [cached |-> 0, bound |-> 0, live |-> 0]

\* _reset_subscribers: undeclare what is cached (on a closed session, in vain).
Undeclared(c, cur) ==
  [cached |-> 0, bound |-> 0,
   live |-> IF c.cached # 0 /\ c.cached = cur THEN c.live - 1 ELSE c.live]

EnsuredUnchecked(c, s, cur, ok) ==   \* mutant: no second look at the current session
  IF index # "open" \/ (c.bound = s /\ c.cached # 0) THEN c
  ELSE IF ~ok THEN Undeclared(c, cur)
  ELSE [cached |-> s, bound |-> s,
        live |-> Undeclared(c, cur).live + (IF s = cur THEN 1 ELSE 0)]

\* _ensure_subscribers(s): once per session and only for an open index.  The
\* declaration raises (~ok) or it is on a session that is no longer current:
\* either way nothing is cached.
Ensured(c, s, cur, ok) ==
  IF index # "open" \/ (c.bound = s /\ c.cached # 0) THEN c
  ELSE IF ok /\ s = cur
  THEN [cached |-> s, bound |-> s, live |-> Undeclared(c, cur).live + 1]
  ELSE Undeclared(c, cur)

(***************************************************************************)
(* The session.                                                            *)
(***************************************************************************)
GetsSession == {"session", "indexSession"}

AfterSession(t) ==
  IF pc[t] = "indexSession" THEN "subscribe" ELSE IF t \in Worker THEN "scan" ELSE "put"

\* get_session: the cached session ...
GetCached(t) ==
  /\ pc[t] \in GetsSession /\ session # 0
  /\ mine' = [mine EXCEPT ![t] = session]
  /\ GoTo(t, AfterSession(t))
  /\ UNCHANGED <<sessionVars, index, workerVars, faults, connects, drained>>

\* ... or a new one, on which the hook declares the subscribers.
OpenSession(t, declares) ==
  /\ pc[t] \in GetsSession /\ session = 0 /\ opened < MaxSessions
  /\ opened' = opened + 1
  /\ session' = opened + 1
  /\ mine' = [mine EXCEPT ![t] = opened + 1]
  /\ sub' = Ensured(sub, opened + 1, opened + 1, declares)
  /\ IF declares THEN UNCHANGED <<faults, refused>>
     ELSE index = "open" /\ Fault /\ refused' = refused \cup {opened + 1}
  /\ GoTo(t, AfterSession(t))
  /\ UNCHANGED <<index, workerVars, connects, drained>>

\* It raises: through with_retry, which resets; through get_index, which goes on
\* without; through the drain, whose thread ends; in the worker, which logs it.
OpenFails(t) ==
  /\ pc[t] \in GetsSession /\ session = 0
  /\ IF opened = MaxSessions THEN UNCHANGED faults ELSE Fault
  /\ GoTo(t, IF pc[t] = "indexSession" THEN "start" ELSE IF t = "main" THEN "reset"
             ELSE IF t = "drain" THEN "ended" ELSE "waiting")
  /\ UNCHANGED <<sessionVars, index, mine, workerVars, connects, drained>>

\* _reset_session: whatever session is cached by now.  It also ends the drain
\* call, and with a call that replayed nothing the drain thread.
Reset(t) ==
  /\ pc[t] = "reset"
  /\ session' = 0 /\ sub' = Silent
  /\ GoTo(t, IF t = "drain" /\ ~drained THEN "ended" ELSE "idle")
  /\ UNCHANGED <<opened, index, mine, workerVars, faults, refused, connects, drained>>

(***************************************************************************)
(* Tools: a put and then the index, or the index alone.  The drain: calls, *)
(* each with one session for all of its rows.                              *)
(***************************************************************************)
Begin(t) ==
  /\ t \in Caller /\ pc[t] = "idle"
  /\ \/ t \notin asked /\ GoTo(t, "session")
     \/ t = "main" /\ GoTo(t, "index")
  /\ drained' = (t # "drain" /\ drained)
  /\ UNCHANGED <<sessionVars, index, mine, workerVars, faults, connects>>

Put(t) ==
  /\ pc[t] = "put" /\ mine[t] = session
  /\ GoTo(t, "index")
  /\ drained' = (t = "drain" \/ drained)
  /\ UNCHANGED <<sessionVars, index, mine, workerVars, faults, connects>>

\* A put on a session another thread has reset fails for certain.
PutFails(t) ==
  /\ pc[t] = "put"
  /\ IF mine[t] # session THEN UNCHANGED faults ELSE Fault
  /\ GoTo(t, "reset")
  /\ UNCHANGED <<sessionVars, index, mine, workerVars, connects, drained>>

\* The drain goes to the next row of its call ...
NextRow ==
  /\ pc["drain"] = "row"
  /\ GoTo("drain", "put")
  /\ UNCHANGED <<sessionVars, index, mine, workerVars, drained, faults, connects>>

\* ... or to its next call, if this one replayed something and rows are left ...
NextCall ==
  /\ pc["drain"] = "row" /\ drained
  /\ GoTo("drain", "idle")
  /\ UNCHANGED <<sessionVars, index, mine, workerVars, drained, faults, connects>>

\* ... or it ends: the queue is empty, blocked, or it was asked to stop.
DrainEnds ==
  /\ pc["drain"] \in {"row", "idle"}
  /\ GoTo("drain", "ended")
  /\ UNCHANGED <<sessionVars, index, mine, workerVars, faults, connects, drained>>

(***************************************************************************)
(* get_index: no lock is held between its steps.                           *)
(***************************************************************************)
LookUp(t) ==
  /\ pc[t] = "index"
  /\ GoTo(t, IF index = "none" THEN "connect" ELSE Home(t))
  /\ UNCHANGED <<sessionVars, index, mine, workerVars, faults, connects, drained>>

Connect(t, kind) ==
  /\ pc[t] = "connect"
  /\ index' = kind
  /\ IF kind = "open" THEN UNCHANGED faults ELSE Fault
  /\ connects' = connects + 1
  /\ GoTo(t, IF kind = "open" THEN "indexSession" ELSE Home(t))
  /\ UNCHANGED <<sessionVars, mine, workerVars, drained>>

\* On the session the thread got, which may be closed by now.
Subscribe(t, declares) ==
  /\ pc[t] = "subscribe"
  /\ sub' = Ensured(sub, mine[t], session, declares)
  /\ IF declares \/ mine[t] # session THEN UNCHANGED <<faults, refused>>
     ELSE sub' # sub /\ Fault /\ refused' = refused \cup {mine[t]}
  /\ GoTo(t, "start")
  /\ UNCHANGED <<session, opened, index, mine, workerVars, connects, drained>>

(***************************************************************************)
(* The realignment worker.                                                 *)
(***************************************************************************)
Running(w) == pc[w] \in {"waiting", "session", "scan", "ending"}

\* start_realignment_worker: registered under its lock, started after it.  A
\* thread that is not started yet does not count as alive.
StartWorker(t) ==
  /\ pc[t] = "start"
  /\ \/ /\ enabled /\ (registered # NoThread => ~Running(registered))
        /\ \E w \in Worker :
             /\ pc[w] = "unborn"
             /\ registered' = w
             /\ made' = [made EXCEPT ![t] = w]
             /\ pc' = [pc EXCEPT ![t] = "launch", ![w] = "made"]
     \/ /\ ~enabled \/ (registered # NoThread /\ Running(registered))
        /\ GoTo(t, Home(t))
        /\ UNCHANGED <<registered, made>>
  /\ UNCHANGED <<sessionVars, index, mine, enabled, asked, joining, faults, connects, drained>>

Launch(t) ==
  /\ pc[t] = "launch"
  /\ pc' = [pc EXCEPT ![t] = Home(t), ![made[t]] = "waiting"]
  /\ made' = [made EXCEPT ![t] = NoThread]
  /\ UNCHANGED <<sessionVars, index, mine, enabled, registered, asked, joining, faults, connects, drained>>

Wake(w) ==
  /\ pc[w] = "waiting"
  /\ GoTo(w, IF w \in asked THEN "ending" ELSE "session")
  /\ UNCHANGED <<sessionVars, index, mine, workerVars, faults, connects, drained>>

\* Done, failed or cancelled: the worker survives every repair.
ScanEnds(w) ==
  /\ pc[w] = "scan"
  /\ GoTo(w, "waiting")
  /\ UNCHANGED <<sessionVars, index, mine, workerVars, faults, connects, drained>>

\* The finally clause of _run_worker: only its own registration.
Unregister(w) ==
  /\ pc[w] = "ending"
  /\ registered' = IF registered = w THEN NoThread ELSE registered
  /\ GoTo(w, "ended")
  /\ UNCHANGED <<sessionVars, index, mine, made, enabled, asked, joining, faults, connects, drained>>

(***************************************************************************)
(* Shutdown, in the finally clause of mcp_server.main.                     *)
(***************************************************************************)

\* stop_pending_drain_background; the drain may outlive the wait.
StopDrain ==
  /\ pc["main"] = "idle"
  /\ asked' = asked \cup {"drain"}
  /\ GoTo("main", "disable")
  /\ UNCHANGED <<sessionVars, index, mine, made, enabled, registered, joining, faults, connects, drained>>

Disable ==
  /\ pc["main"] = "disable"
  /\ enabled' = FALSE
  /\ GoTo("main", "stop")
  /\ UNCHANGED <<sessionVars, index, mine, made, registered, asked, joining, faults, connects, drained>>

StopWorker ==
  /\ pc["main"] = "stop"
  /\ joining' = registered
  /\ asked' = asked \cup ({registered} \ {NoThread})
  /\ GoTo("main", IF registered = NoThread THEN "close" ELSE "join")
  /\ UNCHANGED <<sessionVars, index, mine, made, enabled, registered, faults, connects, drained>>

JoinedAnyway(w) == TRUE   \* mutant: a wait that ran out counts as stopped

Joined(w) == pc[w] = "ended"

\* The wait ends with the worker gone; or it runs out, or raises on a thread that
\* was never started, and the session is left to the end of the process.
Join ==
  /\ pc["main"] = "join"
  /\ IF Joined(joining)
     THEN /\ registered' = IF registered = joining THEN NoThread ELSE registered
          /\ GoTo("main", "close")
     ELSE UNCHANGED registered /\ GoTo("main", "exited")
  /\ UNCHANGED <<sessionVars, index, mine, made, enabled, asked, joining, faults, connects, drained>>

\* reset_backend, if a tool has made a backend.
Close ==
  /\ pc["main"] = "close"
  /\ \/ session' = 0 /\ sub' = Silent
     \/ UNCHANGED <<session, sub>>
  /\ GoTo("main", "exited")
  /\ UNCHANGED <<opened, index, mine, workerVars, faults, refused, connects, drained>>

-----------------------------------------------------------------------------

\* The server has started: with a drain if rows are queued and a session opened.
SessionInit ==
  /\ \E d \in {0, 1} :
       /\ session = d /\ opened = d
       /\ pc = [t \in Thread |-> IF t \in Worker THEN "unborn"
                                 ELSE IF t = "drain" /\ d = 0 THEN "ended" ELSE "idle"]
  /\ index = "none" /\ sub = Silent
  /\ mine = [t \in Thread |-> 0]
  /\ made = [t \in Caller |-> NoThread]
  /\ enabled = TRUE /\ registered = NoThread /\ asked = {} /\ joining = NoThread
  /\ drained = FALSE /\ faults = 0 /\ refused = {} /\ connects = 0

CallerStep(t) ==
  \/ Begin(t) \/ Put(t) \/ PutFails(t) \/ Reset(t)
  \/ LookUp(t) \/ (\E kind \in {"open", "disabled"} : Connect(t, kind))
  \/ (\E declares \in BOOLEAN : Subscribe(t, declares))
  \/ StartWorker(t) \/ Launch(t)

SessionStep(t) ==
  \/ GetCached(t) \/ (\E declares \in BOOLEAN : OpenSession(t, declares)) \/ OpenFails(t)

WorkerStep(w) == Wake(w) \/ ScanEnds(w) \/ Unregister(w)

Shutdown == StopDrain \/ Disable \/ StopWorker \/ Join \/ Close

SessionNext ==
  \/ \E t \in Thread : SessionStep(t)
  \/ \E t \in Caller : CallerStep(t)
  \/ \E w \in Worker : WorkerStep(w)
  \/ NextRow \/ NextCall \/ DrainEnds \/ Shutdown

SessionSpec == SessionInit /\ [][SessionNext]_threadVars

-----------------------------------------------------------------------------
(* Properties. *)

\* No subscriber set is ever lost track of: what the current session has declared is
\* what is cached, once, and what is cached is bound to the current session. (A set
\* that leaks would deliver every sample twice for the life of the process.)
SubscribersTracked ==
  /\ sub.live = IF sub.cached # 0 THEN 1 ELSE 0
  /\ sub.cached # 0 => sub.cached = session /\ sub.bound = session

\* The shutdown closes the session only when no worker can be inside a scan on it.
\* (Two threads that open the index at once may start two workers, of which the
\* shutdown waits for one: that behaviour is excepted.)
CloseAfterWorker ==
  [][pc["main"] = "close" /\ connects < 2 => \A w \in Worker : pc[w] \in {"unborn", "ended"}]_threadVars

\* Claimed by register_session_change_hook (core/transport.py): the subscribers are
\* declared again on each new session, so an open index listens on the current one
\* unless the declaration itself failed, or the index is only just being opened.
ListensOnCurrentSession ==
  index = "open" /\ session \notin refused \cup {0}
    /\ (\A t \in Caller : pc[t] \notin {"connect", "indexSession", "subscribe"})
  => sub.bound = session
=============================================================================

