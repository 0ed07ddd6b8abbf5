--------------------------- MODULE Tier2Scheduler ---------------------------
(***************************************************************************)
(* Tier-2 consolidation: the host thread counts turns and asks for a batch *)
(* when enough wait or the session was idle; one background worker reads   *)
(* the session's last turns and runs batches until nobody asked meanwhile. *)
(* At session end the host waits for the worker and runs a last batch      *)
(* itself; shutdown and initialize refuse while the worker lives.          *)
(*                                                                         *)
(* The host calls the provider from one thread and leaves sync_turn's      *)
(* session to the provider's own.  What a batch extracts is left out: a    *)
(* batch is skipped, or raises, before it has read the transcript, or it   *)
(* reads it, and then returns or raises.                                   *)
(***************************************************************************)
EXTENDS Naturals

CONSTANTS
  BatchLimit,   \* tier2_batch_turn_limit
  Window,       \* tier2_transcript_limit
  Flush,        \* tier2_session_end_flush_enabled
  MaxTurns      \* bound on the transcript of one session

ASSUME LimitAssumption == BatchLimit \in Nat \ {0} /\ Window \in Nat \ {0}
ASSUME TurnsAssumption == MaxTurns \in Nat /\ Flush \in BOOLEAN

VARIABLES
  store,     \* the provider's store is open
  rows,      \* turns in the session's transcript, numbered from 1
  turns,     \* _turn_counter: turns since initialize
  pending,   \* _pending_tier2_turns
  followup,  \* _tier2_followup_requested
  running,   \* _tier2_running
  worker,    \* where the worker thread is; "raised": it died of an exception
  host,      \* where the host thread is
  unread,    \* history: turns counted in this session that no batch has read
  passed,    \* history: those a batch passed by: it began, and read nothing
  request    \* history: what became of one request for a batch, any one:
             \* "noted" as the follow-up, or "asked" of the batch that is to
             \* read; "read"; "missed" by a batch that read nothing; given up
             \* by a session end that did not wait ("dropped") or did ("lost")

vars == <<store, rows, turns, pending, followup, running, worker, host,
          unread, passed, request>>

Alive == worker \in {"read", "work", "loop"}
LastRows == {t \in 1..rows : t + Window > rows}
Open == request \in {"noted", "asked"}

Init ==
  /\ store = FALSE /\ rows = 0 /\ turns = 0
  /\ pending = 0 /\ followup = FALSE /\ running = FALSE
  /\ worker = "none" /\ host = "idle"
  /\ unread = {} /\ passed = {} /\ request = "none"

(***************************************************************************)
(* sync_turn: the transcript row; the captures, which may raise; the       *)
(* schedule; the request for a batch.                                      *)
(***************************************************************************)
SyncTurn ==
  /\ host = "idle" /\ store /\ rows < MaxTurns
  /\ rows' = rows + 1 /\ turns' = turns + 1
  /\ host' = "plan"
  /\ UNCHANGED <<store, pending, followup, running, worker, unread, passed, request>>

CaptureRaises ==
  /\ host = "plan"
  /\ host' = "idle"
  /\ UNCHANGED <<store, rows, turns, pending, followup, running, worker,
                 unread, passed, request>>

Due(wasIdle) == wasIdle \/ pending + 1 >= BatchLimit

\* Mutant of Plan: a batch is asked for, and its turns go on being counted.
PlanKeepsCount(wasIdle) ==
  /\ host = "plan"
  /\ wasIdle => turns > 1
  /\ pending' = pending + 1
  /\ host' = IF Due(wasIdle) THEN "queue" ELSE "idle"
  /\ unread' = unread \cup {rows}
  /\ UNCHANGED <<store, rows, turns, followup, running, worker, passed, request>>

Plan(wasIdle) ==
  /\ host = "plan"
  /\ wasIdle => turns > 1
  /\ pending' = IF Due(wasIdle) THEN 0 ELSE pending + 1
  /\ host' = IF Due(wasIdle) THEN "queue" ELSE "idle"
  /\ unread' = unread \cup {rows}
  /\ UNCHANGED <<store, rows, turns, followup, running, worker, passed, request>>

\* The request followed is this one, or remains the earlier one.
Requested ==
  \/ UNCHANGED request
  \/ ~Open /\ request' = IF running THEN "noted" ELSE "asked"

\* Mutant of Queue: asking while a worker runs has no effect.
QueueForgets ==
  /\ host = "queue" /\ host' = "idle"
  /\ running' = TRUE
  /\ worker' = IF running THEN worker ELSE "read"
  /\ Requested
  /\ UNCHANGED <<store, rows, turns, pending, followup, unread, passed>>

Queue ==
  /\ host = "queue" /\ host' = "idle"
  /\ IF running
     THEN followup' = TRUE /\ UNCHANGED <<running, worker>>
     ELSE running' = TRUE /\ worker' = "read" /\ UNCHANGED followup
  /\ Requested
  /\ UNCHANGED <<store, rows, turns, pending, unread, passed>>

(***************************************************************************)
(* A batch.  It is skipped when its route is unavailable, and may raise    *)
(* before the read of the transcript; after it, the extraction and its     *)
(* writes return (done or failed) or raise.                                *)
(***************************************************************************)
ReadTranscript ==
  /\ store
  /\ unread' = unread \ LastRows /\ passed' = passed \ LastRows
  /\ request' = IF Open THEN "read" ELSE request
  /\ UNCHANGED <<store, rows, turns, pending, followup, running>>

PassBy ==
  /\ passed' = passed \cup (unread \cap LastRows)
  /\ request' = IF request = "asked" THEN "missed" ELSE request
  /\ UNCHANGED <<store, rows, turns, pending, followup, unread>>

WorkerReads ==
  /\ worker = "read" /\ worker' = "work"
  /\ ReadTranscript
  /\ UNCHANGED host

WorkerSkips ==
  /\ worker = "read" /\ worker' = "loop"
  /\ PassBy
  /\ UNCHANGED <<running, host>>

WorkerReturns ==
  /\ worker = "work" /\ worker' = "loop"
  /\ UNCHANGED <<store, rows, turns, pending, followup, running, host,
                 unread, passed, request>>

\* The batch ends with an exception.
Raises ==
  /\ worker' = "raised"
  /\ \/ worker = "read" /\ PassBy
     \/ /\ worker = "work"
        /\ UNCHANGED <<store, rows, turns, pending, followup, unread, passed,
                       request>>
  /\ UNCHANGED host

\* Mutant of WorkerRaises: the handler leaves the scheduler running.
RaisesRunning == Raises /\ UNCHANGED running

WorkerRaises == Raises /\ running' = FALSE

\* Mutant of WorkerLoops: the follow-up is cleared, and not acted upon.
LoopsOnce ==
  /\ worker = "loop" /\ worker' = "none"
  /\ running' = FALSE /\ followup' = FALSE
  /\ UNCHANGED <<store, rows, turns, pending, host, unread, passed, request>>

WorkerLoops ==
  /\ worker = "loop"
  /\ worker' = IF followup THEN "read" ELSE "none"
  /\ running' = followup
  /\ followup' = FALSE
  /\ request' = IF request = "noted" /\ followup THEN "asked" ELSE request
  /\ UNCHANGED <<store, rows, turns, pending, host, unread, passed>>

(***************************************************************************)
(* on_session_end: wait, then a batch of the host's own if turns wait, and *)
(* in every case forget what was pending.                                  *)
(***************************************************************************)
EndSession ==
  /\ host = "idle" /\ store
  /\ host' = "await"
  /\ UNCHANGED <<store, rows, turns, pending, followup, running, worker,
                 unread, passed, request>>

\* Mutant of Awaited: the last batch does not depend on the wait's outcome.
AwaitedAnyhow ==
  /\ host = "await"
  /\ host' = IF Flush /\ (pending > 0 \/ followup) THEN "read" ELSE "clear"
  /\ UNCHANGED <<store, rows, turns, pending, followup, running, worker,
                 unread, passed, request>>

Awaited ==
  /\ host = "await" /\ ~Alive
  /\ host' = IF Flush /\ (pending > 0 \/ followup) THEN "read" ELSE "clear"
  /\ UNCHANGED <<store, rows, turns, pending, followup, running, worker,
                 unread, passed, request>>

AwaitTimesOut ==
  /\ host = "await" /\ Alive
  /\ host' = "drop"
  /\ UNCHANGED <<store, rows, turns, pending, followup, running, worker,
                 unread, passed, request>>

FlushReads ==
  /\ host = "read" /\ host' = "work"
  /\ ReadTranscript
  /\ UNCHANGED worker

\* The flush is skipped, or raises before the read, which is swallowed.
FlushPassesBy ==
  /\ host = "read" /\ host' = "clear"
  /\ PassBy
  /\ UNCHANGED <<running, worker>>

FlushDone ==
  /\ host = "work" /\ host' = "clear"
  /\ UNCHANGED <<store, rows, turns, pending, followup, running, worker,
                 unread, passed, request>>

ClearPending ==
  /\ host \in {"clear", "drop"} /\ host' = "idle"
  /\ pending' = 0 /\ followup' = FALSE
  /\ unread' = {} /\ passed' = {}
  /\ request' = IF request # "noted" THEN request
                ELSE IF host = "drop" THEN "dropped" ELSE "lost"
  /\ UNCHANGED <<store, rows, turns, running, worker>>

(***************************************************************************)
(* shutdown and initialize wait too, and give up (shutdown returns,        *)
(* initialize raises) when the worker outlives the wait.                   *)
(***************************************************************************)
Reset ==
  /\ turns' = 0 /\ pending' = 0 /\ followup' = FALSE /\ running' = FALSE
  /\ worker' = "none" /\ host' = "idle"
  /\ unread' = {} /\ passed' = {} /\ request' = "none"

BeginShutdown ==
  /\ host = "idle" /\ store
  /\ host' = "closing"
  /\ UNCHANGED <<store, rows, turns, pending, followup, running, worker,
                 unread, passed, request>>

BeginInitialize ==
  /\ host = "idle"
  /\ host' = "opening"
  /\ UNCHANGED <<store, rows, turns, pending, followup, running, worker,
                 unread, passed, request>>

GiveUp ==
  /\ host \in {"closing", "opening"} /\ Alive
  /\ host' = "idle"
  /\ UNCHANGED <<store, rows, turns, pending, followup, running, worker,
                 unread, passed, request>>

\* Mutant of Shutdown: the store is closed whether the worker ended or not.
ShutdownAnyhow ==
  /\ host = "closing" /\ host' = "idle"
  /\ store' = FALSE
  /\ turns' = 0 /\ pending' = 0 /\ followup' = FALSE /\ running' = FALSE
  /\ UNCHANGED <<rows, worker, unread, passed, request>>

Shutdown ==
  /\ host = "closing" /\ ~Alive
  /\ store' = FALSE
  /\ Reset
  /\ UNCHANGED rows

\* The same session again, or another one with an empty transcript.
Initialize ==
  /\ host = "opening" /\ ~Alive
  /\ store' = TRUE
  /\ rows' \in {0, rows}
  /\ Reset

\* The process dies, and its daemon thread with it; the transcript stays.
Crash ==
  /\ store
  /\ store' = FALSE
  /\ Reset
  /\ UNCHANGED rows

WorkerStep ==
  WorkerReads \/ WorkerSkips \/ WorkerReturns \/ WorkerRaises \/ WorkerLoops

HostStep ==
  \/ SyncTurn \/ CaptureRaises
  \/ \E wasIdle \in BOOLEAN : Plan(wasIdle)
  \/ Queue
  \/ EndSession \/ Awaited \/ AwaitTimesOut
  \/ FlushReads \/ FlushPassesBy \/ FlushDone \/ ClearPending
  \/ BeginShutdown \/ Shutdown \/ BeginInitialize \/ Initialize \/ GiveUp

Next == WorkerStep \/ HostStep \/ Crash

Spec == Init /\ [][Next]_vars
FairSpec == Spec /\ WF_vars(WorkerStep)

-----------------------------------------------------------------------------
\* The variables' types; fewer turns are pending than ask for a batch.
TypeOK ==
  /\ store \in BOOLEAN /\ rows \in 0..MaxTurns /\ turns \in Nat
  /\ pending \in 0..(BatchLimit - 1)
  /\ followup \in BOOLEAN /\ running \in BOOLEAN
  /\ worker \in {"none", "raised", "read", "work", "loop"}
  /\ host \in {"idle", "plan", "queue", "await", "read", "work", "clear",
               "drop", "closing", "opening"}
  /\ unread \subseteq 1..rows /\ passed \subseteq unread
  /\ request \in {"none", "noted", "asked", "read", "missed", "dropped", "lost"}

\* The worker and the session-end flush never run batches side by side.
OneBatch == ~(Alive /\ host \in {"read", "work"})

\* No batch, the worker's or the host's, finds its store closed under it.
BatchHasStore == Alive \/ host \in {"read", "work"} => store

\* _tier2_running is set exactly while a worker lives: a request is never
\* left to a worker that ended, and no second worker is started.
RunningIsAlive == running <=> Alive

\* A request for a batch is never lost between the worker's last look and
\* its end: the batch that is to read has not begun, or the follow-up is
\* noted with a worker to see it - unless that worker died of an exception.
RequestIsTracked ==
  /\ request = "asked" => worker = "read"
  /\ request = "noted" => followup /\ (Alive \/ worker = "raised")

\* When on_session_end has waited for the worker and flushed, every turn it
\* counted that a batch can still see has been read by a batch, or was
\* there when a batch was skipped or raised before its read: the turns such
\* a batch passes by are not counted again.
EndReadsWindow ==
  Flush /\ host = "clear" => unread \cap LastRows \subseteq passed

\* Any request for a batch comes to one that reads the transcript, or that is
\* skipped or raises before it does; else the worker has raised, a session
\* end that could not wait has dropped it, or the session was torn down.
RequestIsServed ==
  Open ~> \/ request \in {"read", "missed", "dropped", "none"}
          \/ worker = "raised"
=============================================================================
