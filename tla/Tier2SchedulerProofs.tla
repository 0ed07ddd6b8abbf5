------------------------ MODULE Tier2SchedulerProofs ------------------------
(***************************************************************************)
(* The scheduler's safety for every batch limit, window and transcript.    *)
(* Four facts carry each other: what the host may be doing while a worker  *)
(* lives (HostWaits), the flag (RunningIsAlive), the request               *)
(* (RequestIsTracked), and what stands for the turns not read yet          *)
(* (TurnsAreWaiting).                                                      *)
(***************************************************************************)
EXTENDS Tier2Scheduler, TLAPS

\* The host runs a batch, or clears up after one, only when no worker does;
\* it works on an open store, and plans for a turn it has written.
HostWaits ==
  /\ host \in {"read", "work", "clear"} => ~Alive
  /\ host = "plan" => rows > 0
  /\ host \in {"plan", "queue", "await", "read", "work", "clear", "drop"}
       => store

\* The counted turns that no batch has read or passed by, and that are not
\* out of a batch's sight.
Waiting == (unread \ passed) \cap LastRows

\* Such a turn is pending, a batch for it is noted or about to read, or the
\* host gives it up.
TurnsAreWaiting ==
  Waiting # {} =>
    \/ pending > 0
    \/ followup
    \/ worker = "read"
    \/ host \in {"queue", "read", "drop"}

\* The flush's own batch has read the window before it works on it.
FlushHasRead == host = "work" => Waiting = {}

IInv ==
  /\ TypeOK
  /\ HostWaits
  /\ BatchHasStore
  /\ RunningIsAlive
  /\ RequestIsTracked
  /\ TurnsAreWaiting
  /\ FlushHasRead
  /\ EndReadsWindow

\* Zero is a count of pending turns and a length of the transcript.
LEMMA ZeroIsACount == 0 \in 0..(BatchLimit - 1) /\ 0 \in 0..MaxTurns
BY LimitAssumption, TurnsAssumption

\* Shutting down, initialising and crashing leave well-typed runtime state.
LEMMA ResetTypes ==
  ASSUME Reset, store' \in BOOLEAN, rows' \in 0..MaxTurns
  PROVE  TypeOK'
<1>1. turns' \in Nat /\ pending' \in 0..(BatchLimit - 1)
  BY ZeroIsACount DEF Reset
<1>2. unread' \subseteq 1..rows' /\ passed' \subseteq unread'
  BY DEF Reset
<1> QED
  BY <1>1, <1>2, Zenon DEF Reset, TypeOK

LEMMA InitIInv == Init => IInv
<1> SUFFICES ASSUME Init PROVE IInv
  OBVIOUS
<1>1. TypeOK
  <2>1. rows \in 0..MaxTurns /\ turns \in Nat /\ pending \in 0..(BatchLimit - 1)
    BY ZeroIsACount DEF Init
  <2>2. unread \subseteq 1..rows /\ passed \subseteq unread
    BY DEF Init
  <2> QED
    BY <2>1, <2>2, Zenon DEF Init, TypeOK
<1>2. Waiting = {}
  BY DEF Init, Waiting
<1> QED
  BY <1>1, <1>2
  DEF Init, IInv, HostWaits, BatchHasStore, RunningIsAlive, RequestIsTracked,
      TurnsAreWaiting, FlushHasRead, EndReadsWindow, Alive

\* The turns still waiting are what EndReadsWindow forbids.
LEMMA NoneWaiting == Waiting = {} <=> unread \cap LastRows \subseteq passed
BY DEF Waiting

\* A batch that begins leaves nothing of the window waiting: it reads it, or
\* it passes it by.
LEMMA BatchClearsWindow ==
  ASSUME ReadTranscript \/ PassBy
  PROVE  Waiting' = {}
BY DEF ReadTranscript, PassBy, Waiting, LastRows

\* What a batch does to the turns and the request keeps their types.
LEMMA BatchTypes ==
  ASSUME TypeOK, ReadTranscript \/ PassBy
  PROVE  /\ unread' \subseteq 1..rows' /\ passed' \subseteq unread'
         /\ request' \in {"none", "noted", "asked", "read", "missed", "dropped",
                          "lost"}
BY DEF TypeOK, ReadTranscript, PassBy, Open

LEMMA StepIInv == IInv /\ [Next]_vars => IInv'
<1> SUFFICES ASSUME IInv, [Next]_vars PROVE IInv'
  OBVIOUS
<1> USE LimitAssumption, TurnsAssumption
        DEF IInv, HostWaits, BatchHasStore, RunningIsAlive, RequestIsTracked,
            FlushHasRead, Alive
<1>0. EndReadsWindow' <=> (Flush /\ host' = "clear" => Waiting' = {})
  BY DEF EndReadsWindow, Waiting
<1>1. CASE SyncTurn
  <2>1. TypeOK'
    BY <1>1 DEF SyncTurn, TypeOK
  <2>2. Waiting' \subseteq Waiting
    BY <1>1 DEF SyncTurn, TypeOK, LastRows, Waiting
  <2>3. TurnsAreWaiting'
    BY <1>1, <2>2 DEF SyncTurn, TurnsAreWaiting
  <2>4. EndReadsWindow'
    BY <1>1 DEF SyncTurn, EndReadsWindow
  <2> QED
    BY <1>1, <2>1, <2>3, <2>4 DEF SyncTurn, TypeOK
<1>2. CASE CaptureRaises
  BY <1>2 DEF CaptureRaises, TypeOK, TurnsAreWaiting, EndReadsWindow, LastRows, Waiting
<1>3. ASSUME NEW wasIdle \in BOOLEAN, Plan(wasIdle) PROVE IInv'
  <2>1. TypeOK'
    <3>1. pending' \in 0..(BatchLimit - 1)
      BY <1>3 DEF Plan, Due, TypeOK
    <3>2. rows \in 1..rows
      BY <1>3 DEF Plan, TypeOK, Due
    <3> QED
      BY <1>3, <3>1, <3>2 DEF Plan, TypeOK
  <2>2. pending' > 0 \/ host' = "queue"
    BY <1>3 DEF Plan, TypeOK
  <2>3. TurnsAreWaiting' /\ EndReadsWindow'
    BY <1>3, <2>2 DEF Plan, TurnsAreWaiting, EndReadsWindow
  <2> QED
    BY <1>3, <2>1, <2>3 DEF Plan
<1>4. CASE Queue
  BY <1>4 DEF Queue, Requested, Open, TypeOK, TurnsAreWaiting, EndReadsWindow
<1>5. CASE WorkerReads
  <2>1. Waiting' = {}
    BY <1>5, BatchClearsWindow DEF WorkerReads
  <2>2. TypeOK'
    BY <1>5, BatchTypes DEF WorkerReads, ReadTranscript, TypeOK
  <2> QED
    BY <1>5, <2>1, <2>2, <1>0
    DEF WorkerReads, ReadTranscript, Open, TypeOK, TurnsAreWaiting
<1>6. CASE WorkerSkips
  <2>1. Waiting' = {}
    BY <1>6, BatchClearsWindow DEF WorkerSkips
  <2>2. TypeOK'
    BY <1>6, BatchTypes DEF WorkerSkips, PassBy, TypeOK
  <2> QED
    BY <1>6, <2>1, <2>2, <1>0 DEF WorkerSkips, PassBy, TypeOK, TurnsAreWaiting
<1>7. CASE WorkerReturns
  BY <1>7 DEF WorkerReturns, TypeOK, TurnsAreWaiting, EndReadsWindow, LastRows, Waiting
<1>8. CASE WorkerRaises
  <2>1. CASE worker = "read" /\ PassBy
    <3>1. Waiting' = {}
      BY <2>1, BatchClearsWindow
    <3>2. TypeOK'
      BY <1>8, <2>1, BatchTypes DEF WorkerRaises, Raises, PassBy, TypeOK
    <3> QED
      BY <1>8, <2>1, <3>1, <3>2, <1>0
      DEF WorkerRaises, Raises, PassBy, TypeOK, TurnsAreWaiting
  <2>2. CASE worker = "work"
    BY <1>8, <2>2
    DEF WorkerRaises, Raises, TypeOK, TurnsAreWaiting, EndReadsWindow, LastRows, Waiting
  <2> QED
    BY <1>8, <2>1, <2>2 DEF WorkerRaises, Raises
<1>9. CASE WorkerLoops
  <2>1. TypeOK'
    BY <1>9 DEF WorkerLoops, TypeOK
  <2>2. Waiting' = Waiting
    BY <1>9 DEF WorkerLoops, Waiting, LastRows
  <2> QED
    BY <1>9, <2>1, <2>2, <1>0 DEF WorkerLoops, TypeOK, TurnsAreWaiting, EndReadsWindow
<1>10. CASE EndSession
  BY <1>10 DEF EndSession, TypeOK, TurnsAreWaiting, EndReadsWindow, LastRows, Waiting
<1>11. CASE Awaited
  <2>1. CASE host' = "clear"
    <3>1. Flush => pending = 0 /\ ~followup
      BY <1>11, <2>1 DEF Awaited, TypeOK
    <3> QED
      BY <1>11, <2>1, <3>1
      DEF Awaited, TypeOK, TurnsAreWaiting, EndReadsWindow, LastRows, Waiting
  <2>2. CASE host' = "read"
    BY <1>11, <2>2 DEF Awaited, TypeOK, TurnsAreWaiting, EndReadsWindow
  <2> QED
    BY <1>11, <2>1, <2>2 DEF Awaited
<1>12. CASE AwaitTimesOut
  BY <1>12 DEF AwaitTimesOut, TypeOK, TurnsAreWaiting, EndReadsWindow
<1>13. CASE FlushReads
  <2>1. Waiting' = {}
    BY <1>13, BatchClearsWindow DEF FlushReads
  <2>2. TypeOK'
    BY <1>13, BatchTypes DEF FlushReads, ReadTranscript, TypeOK
  <2> QED
    BY <1>13, <2>1, <2>2, <1>0
    DEF FlushReads, ReadTranscript, Open, TypeOK, TurnsAreWaiting
<1>14. CASE FlushPassesBy
  <2>1. Waiting' = {}
    BY <1>14, BatchClearsWindow DEF FlushPassesBy
  <2>2. TypeOK'
    BY <1>14, BatchTypes DEF FlushPassesBy, PassBy, TypeOK
  <2> QED
    BY <1>14, <2>1, <2>2, <1>0 DEF FlushPassesBy, PassBy, TypeOK, TurnsAreWaiting
<1>15. CASE FlushDone
  BY <1>15 DEF FlushDone, TypeOK, TurnsAreWaiting, EndReadsWindow, LastRows, Waiting
<1>16. CASE ClearPending
  <2>1. TypeOK'
    <3>1. pending' \in 0..(BatchLimit - 1)
      BY <1>16, ZeroIsACount DEF ClearPending
    <3>2. unread' \subseteq 1..rows' /\ passed' \subseteq unread'
      BY <1>16 DEF ClearPending
    <3>3. request' \in {"none", "asked", "read", "missed", "dropped", "lost"}
      BY <1>16 DEF ClearPending, TypeOK
    <3> QED
      BY <1>16, <3>1, <3>2, <3>3 DEF ClearPending, TypeOK
  <2>2. Waiting' = {}
    BY <1>16 DEF ClearPending, Waiting
  <2> QED
    BY <1>16, <2>1, <2>2, <1>0 DEF ClearPending, TurnsAreWaiting
<1>17. CASE BeginShutdown
  BY <1>17
  DEF BeginShutdown, TypeOK, TurnsAreWaiting, EndReadsWindow, LastRows, Waiting
<1>18. CASE Shutdown
  <2>1. TypeOK'
    <3>1. Reset /\ store' \in BOOLEAN /\ rows' \in 0..MaxTurns
      BY <1>18, ZeroIsACount DEF Shutdown, TypeOK
    <3> QED
      BY <3>1, ResetTypes
  <2>2. Waiting' = {}
    BY <1>18 DEF Shutdown, Reset, Waiting
  <2> QED
    BY <1>18, <2>1, <2>2, <1>0 DEF Shutdown, Reset, TurnsAreWaiting
<1>19. CASE BeginInitialize
  BY <1>19
  DEF BeginInitialize, TypeOK, TurnsAreWaiting, EndReadsWindow, LastRows, Waiting
<1>20. CASE Initialize
  <2>1. TypeOK'
    <3>1. Reset /\ store' \in BOOLEAN /\ rows' \in 0..MaxTurns
      BY <1>20, ZeroIsACount DEF Initialize, TypeOK
    <3> QED
      BY <3>1, ResetTypes
  <2>2. Waiting' = {}
    BY <1>20 DEF Initialize, Reset, Waiting
  <2> QED
    BY <1>20, <2>1, <2>2, <1>0 DEF Initialize, Reset, TurnsAreWaiting
<1>21. CASE GiveUp
  BY <1>21
  DEF GiveUp, TypeOK, TurnsAreWaiting, EndReadsWindow, LastRows, Waiting
<1>22. CASE Crash
  <2>1. TypeOK'
    <3>1. Reset /\ store' \in BOOLEAN /\ rows' \in 0..MaxTurns
      BY <1>22, ZeroIsACount DEF Crash, TypeOK
    <3> QED
      BY <3>1, ResetTypes
  <2>2. Waiting' = {}
    BY <1>22 DEF Crash, Reset, Waiting
  <2> QED
    BY <1>22, <2>1, <2>2, <1>0 DEF Crash, Reset, TurnsAreWaiting
<1>23. CASE UNCHANGED vars
  BY <1>23 DEF vars, TypeOK, TurnsAreWaiting, EndReadsWindow, LastRows, Waiting
<1> QED
  BY <1>1, <1>2, <1>3, <1>4, <1>5, <1>6, <1>7, <1>8, <1>9, <1>10, <1>11, <1>12,
     <1>13, <1>14, <1>15, <1>16, <1>17, <1>18, <1>19, <1>20, <1>21, <1>22, <1>23
  DEF Next, WorkerStep, HostStep

LEMMA AlwaysIInv == Spec => []IInv
BY InitIInv, StepIInv, PTL DEF Spec

\* The variables keep their types: in particular the count of pending turns
\* stays below the batch limit (sync_turn, _plan_tier2_schedule).
THEOREM TypeCorrect == Spec => []TypeOK
<1>1. IInv => TypeOK
  BY DEF IInv
<1> QED
  BY <1>1, AlwaysIInv, PTL

\* The background worker and on_session_end never run batches side by side.
THEOREM BatchesExclude == Spec => []OneBatch
<1>1. IInv => OneBatch
  BY DEF IInv, HostWaits, OneBatch
<1> QED
  BY <1>1, AlwaysIInv, PTL

\* shutdown and initialize never close the store under a batch.
THEOREM StoreOutlivesBatches == Spec => []BatchHasStore
<1>1. IInv => BatchHasStore
  BY DEF IInv
<1> QED
  BY <1>1, AlwaysIInv, PTL

\* _tier2_running is set exactly while a worker lives.
THEOREM RunningIsExact == Spec => []RunningIsAlive
<1>1. IInv => RunningIsAlive
  BY DEF IInv
<1> QED
  BY <1>1, AlwaysIInv, PTL

\* _queue_tier2_background's request is never lost to a worker on its way out.
THEOREM RequestsAreKept == Spec => []RequestIsTracked
<1>1. IInv => RequestIsTracked
  BY DEF IInv
<1> QED
  BY <1>1, AlwaysIInv, PTL

\* A session end that waited and flushed leaves no turn of the window unread,
\* but those that stood there when a batch was skipped or raised before its read.
THEOREM SessionEndReads == Spec => []EndReadsWindow
<1>1. IInv => EndReadsWindow
  BY DEF IInv
<1> QED
  BY <1>1, AlwaysIInv, PTL
-----------------------------------------------------------------------------
(***************************************************************************)
(* The safety half of RequestIsServed: as long as the worker has not died, *)
(* a request stands before a live worker, each of its steps settles the    *)
(* request, raises or brings its batch nearer, and no step of the host     *)
(* puts the batch off.                                                     *)
(***************************************************************************)
Distance ==
  CASE request = "asked" -> 1
    [] request # "asked" /\ worker = "loop" -> 2
    [] request # "asked" /\ worker = "work" -> 3
    [] request # "asked" /\ worker = "read" -> 4
    [] OTHER -> 5

WorkerAnswers == Open => Alive \/ worker = "raised"

ComesCloser ==
  Open /\ Open' /\ worker' # "raised" =>
    Distance' < Distance \/ (Distance' = Distance /\ worker' = worker)

\* A request has a worker that comes nearer to its batch with each of its
\* steps, until that batch reads, is skipped or raises, or the request is
\* given up; the host never puts it off.
THEOREM RequestComesCloser ==
  Spec => []WorkerAnswers /\ [][ComesCloser]_vars
<1>1. IInv => WorkerAnswers
  BY DEF IInv, RequestIsTracked, WorkerAnswers, Alive, Open
<1>2. IInv /\ [Next]_vars => [ComesCloser]_vars
  <2> SUFFICES ASSUME IInv, Next, Open, Open', worker' # "raised"
               PROVE  Distance' < Distance \/ (Distance' = Distance /\ worker' = worker)
    BY DEF ComesCloser
  <2>1. /\ worker \in {"none", "read", "work", "loop", "raised"}
        /\ request \in {"noted", "asked"} /\ request' \in {"noted", "asked"}
        /\ request = "asked" => worker = "read"
        /\ request = "noted" => followup /\ worker # "none"
        /\ running <=> Alive
    BY DEF IInv, TypeOK, RequestIsTracked, RunningIsAlive, Alive, Open
  <2>2. CASE WorkerStep
    <3>1. ~WorkerReads /\ ~WorkerRaises
      BY DEF WorkerReads, WorkerRaises, Raises, ReadTranscript, Open
    <3>2. CASE WorkerSkips
      BY <2>1, <3>2 DEF WorkerSkips, PassBy, Distance
    <3>3. CASE WorkerReturns
      BY <2>1, <3>3 DEF WorkerReturns, Distance
    <3>4. CASE WorkerLoops
      BY <2>1, <3>4 DEF WorkerLoops, Distance
    <3> QED BY <2>2, <3>1, <3>2, <3>3, <3>4 DEF WorkerStep
  <2>3. CASE Queue
    <3>1. request' = request
      BY <2>3 DEF Queue, Requested
    <3>2. CASE running
      BY <2>3, <3>1, <3>2 DEF Queue, Distance
    <3>3. CASE ~running
      <4>1. worker = "raised" /\ worker' = "read" /\ request = "noted"
        BY <2>1, <2>3, <3>3 DEF Queue, Alive
      <4> QED BY <3>1, <4>1 DEF Distance
    <3> QED BY <3>2, <3>3
  <2>4. CASE Shutdown \/ Initialize \/ Crash
    BY <2>4 DEF Shutdown, Initialize, Crash, Reset, Open
  <2>5. CASE FlushReads
    BY <2>5 DEF FlushReads, ReadTranscript, Open
  <2>6. CASE FlushPassesBy \/ ClearPending
    BY <2>1, <2>6 DEF FlushPassesBy, PassBy, ClearPending, Distance
  <2>7. CASE UNCHANGED <<worker, request>>
    BY <2>7 DEF Distance
  <2> QED
    BY <2>2, <2>3, <2>4, <2>5, <2>6, <2>7
    DEF Next, HostStep, SyncTurn, CaptureRaises, Plan, EndSession, Awaited, AwaitTimesOut,
        FlushDone, BeginShutdown, BeginInitialize, GiveUp
<1> QED BY <1>1, <1>2, AlwaysIInv, PTL DEF Spec
=============================================================================
