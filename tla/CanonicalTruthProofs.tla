------------------------ MODULE CanonicalTruthProofs ------------------------
(***************************************************************************)
(* Proofs about CanonicalTruth, for any threads, claims and proposals, any *)
(* interleaving of records and any crashes.                                *)
(***************************************************************************)
EXTENDS CanonicalTruth, AdmissionProofs

USE ClaimsAssumption, LimitsAssumption, NoneAssumption

RowsCommitted == disk.row = conn.row /\ disk.receipts = conn.receipts

DownIsQuiet == ~up => Quiet

Recording(t) == writer[t].at \in {"l0", "mark"}
BeingRecorded(c) == \E t \in Threads : Recording(t) /\ writer[t].claim = c

\* What each copy of the database holds by itself.
SoundFor(c, db) ==
  /\ db.l0[c] # "absent" => db.event[c] # None
  /\ db.l0[c] = "answer" => Safe(c, db)
  /\ db.l0[c] = "held" => ~Safe(c, db) \/ Superseded(c, db)
  /\ db.event[c] # None => c \in db.receipts /\ (Adm(c) => db.row[KeyOf(c)] # None)
  /\ \A d \in Claims : db.event[d] # None /\ c \in db.event[d].names => db.event[c] # None
Sound(db) == \A c \in Claims : SoundFor(c, db)

\* The connection is ahead of the disk by records under way only.
AheadFor(c) ==
  /\ disk.event[c] # None => conn.event[c] = disk.event[c]
  /\ ~replay.on /\ disk.l0[c] # "absent" => conn.l0[c] # "absent"
  /\ ~replay.on /\ disk.l0[c] = "held" => conn.l0[c] # "answer"
  /\ conn.event[c] # None /\ disk.event[c] = None => BeingRecorded(c)
Ahead == \A c \in Claims : AheadFor(c)

\* What each step of a record may count on.
WriterFor(t) ==
  LET w == writer[t] IN
  /\ w.at = "row" => Adm(w.claim)
  /\ w.at \in {"receipt", "event", "l0", "mark"} /\ Adm(w.claim) => conn.row[KeyOf(w.claim)] # None
  /\ \A c \in w.names : disk.event[c] # None /\ conn.event[c] # None
  /\ Recording(t) =>
       /\ conn.event[w.claim] # None /\ conn.event[w.claim].names = w.names
       /\ w.at = "l0" <=> conn.l0[w.claim] = "absent"
       /\ \A d \in Claims : conn.event[d] # None => w.claim \notin conn.event[d].names
       /\ \A u \in Threads : w.claim \notin writer[u].names
       /\ \A u \in Threads : Recording(u) /\ u # t => writer[u].claim # w.claim
Writers == \A t \in Threads : WriterFor(t)

\* An event comes after those it names.
OrderedFor(c, db) ==
  db.event[c] # None =>
    /\ db.event[c].nth <= db.count
    /\ \A d \in Claims : d \in db.event[c].names => db.event[d].nth < db.event[c].nth
Ordered(db) == \A c \in Claims : OrderedFor(c, db)

\* What the last rebuild left out is older than all the rest, and has no row.
OlderThanRest(c, S) == \A d \in Claims \ S : conn.event[d] # None => conn.event[c].nth < conn.event[d].nth
CutFor(c) ==
  c \in cut =>
    /\ disk.event[c] # None /\ disk.l0[c] = "absent" /\ (~replay.on => conn.l0[c] = "absent")
    /\ ~BeingRecorded(c) /\ OlderThanRest(c, cut)
Cuts == \A c \in Claims : CutFor(c)

(* A rebuild under way has replayed the events before those still to be    *)
(* replayed, and no event it has replayed is answered from if another of   *)
(* them names it.                                                          *)
ReplayFor(c) ==
  /\ c \in replay.todo \cup replay.left => conn.event[c] # None /\ conn.l0[c] = "absent"
  /\ conn.event[c] # None /\ c \notin replay.todo \cup replay.left => conn.l0[c] # "absent"
  /\ conn.l0[c] = "answer" =>
       \A d \in Claims : conn.l0[d] # "absent" => c \notin conn.event[d].names
  /\ conn.l0[c] # "absent" =>
       \A d \in Claims : d \in replay.todo => conn.event[c].nth <= conn.event[d].nth
  /\ c \in replay.left => c \notin replay.todo /\ OlderThanRest(c, replay.left)
Replaying == replay.on => up /\ Quiet /\ \A c \in Claims : ReplayFor(c)

\* Without a torn record, what is not projected or marked is under way, or left out.
ParityFor(c, db) ==
  /\ db.event[c] # None => db.l0[c] # "absent" \/ BeingRecorded(c) \/ c \in cut
  /\ db.l0[c] = "answer" =>
       \A d \in Claims : db.event[d] # None /\ c \in db.event[d].names => BeingRecorded(d)
Parity(db) == ~torn => \A c \in Claims : ParityFor(c, db)
Parities == Parity(disk) /\ (~replay.on => Parity(conn))

-----------------------------------------------------------------------------
\* A claim readers may answer from was accepted, and has no end of validity.
LEMMA SafeIsAnswerable ==
  ASSUME NEW c \in Claims, NEW db \in Databases, Safe(c, db)
  PROVE  Adm(c) /\ c \notin Expired /\ db.event[c] # None
<1>1. ProposalOf[c] \in Proposals /\ (c \in Expired) \in BOOLEAN /\ TRUE \in BOOLEAN
  OBVIOUS
<1>2. db.event[c] # None /\ db.event[c].stored \in BOOLEAN
  BY DEF Safe, Databases, Events
<1>3. AnswerSafe(MemoryEvent(ProposalOf[c], db.event[c].stored, TRUE, c \in Expired))
  BY DEF Safe, EventOf
<1>4. Accepted(ProposalOf[c]) /\ ~(c \in Expired)
  BY <1>1, <1>2, <1>3, AnswerHasAuthority
<1> QED
  BY <1>2, <1>4 DEF Adm

\* An accepted claim's slot is on a shelf.
LEMMA AcceptedSlot ==
  ASSUME NEW c \in Claims, Adm(c)
  PROVE  KeyOf(c) \in {"profile", "graph"} \X Registered
<1>1. ProposalOf[c] \in Proposals
  OBVIOUS
<1>2. ProposalOf[c].slot \in Registered
  BY <1>1, AcceptedIsAllowed DEF Adm
<1>3. ProposalOf[c].shelf \in {"profile", "graph"}
  BY <1>1 DEF Proposals
<1> QED
  BY <1>2, <1>3 DEF KeyOf, SlotOf

LEMMA SafeDepends ==
  ASSUME NEW a, NEW b, NEW c, a.event[c] = b.event[c]
  PROVE  Safe(c, a) <=> Safe(c, b)
  BY DEF Safe

LEMMA SupersededGrows ==
  ASSUME NEW a, NEW b, NEW c, Superseded(c, a),
         \A d \in Claims : a.event[d] # None => b.event[d] = a.event[d]
  PROVE  Superseded(c, b)
  BY DEF Superseded

\* An event's row, and its marks, are all a replay changes.
LEMMA UpsertType ==
  ASSUME NEW c \in Claims, NEW db \in Databases
  PROVE  /\ Upserted(c, db) \in Databases
         /\ Upserted(c, db).row = db.row /\ Upserted(c, db).receipts = db.receipts
         /\ Upserted(c, db).event = db.event /\ Upserted(c, db).count = db.count
         /\ \A d \in Claims : Upserted(c, db).l0[d] =
              IF d # c THEN db.l0[d] ELSE IF Safe(c, db) THEN "answer" ELSE "held"
  BY DEF Upserted, Databases

LEMMA MarkType ==
  ASSUME NEW names, NEW db \in Databases
  PROVE  /\ Marked(names, db) \in Databases
         /\ Marked(names, db).row = db.row /\ Marked(names, db).receipts = db.receipts
         /\ Marked(names, db).event = db.event /\ Marked(names, db).count = db.count
         /\ \A d \in Claims : Marked(names, db).l0[d] =
              IF d \in names /\ db.l0[d] # "absent" THEN "held" ELSE db.l0[d]
  BY DEF Marked, Databases

LEMMA StartType ==
  ASSUME NEW events \in SUBSET Claims, conn \in Databases, StartReplay(events)
  PROVE  /\ conn' \in Databases /\ conn'.row = conn.row /\ conn'.receipts = conn.receipts
         /\ conn'.event = conn.event /\ conn'.count = conn.count
         /\ \A c \in Claims : conn'.l0[c] = "absent"
         /\ replay' \in Replays /\ replay'.on /\ replay'.todo = events
         /\ replay'.left = OnRecord \ events
<1>1. conn' = [conn EXCEPT !.l0 = [c \in Claims |-> "absent"]]
  BY DEF StartReplay
<1>2. replay' = [on |-> TRUE, todo |-> events, left |-> OnRecord \ events]
  BY DEF StartReplay
<1> QED
  BY <1>1, <1>2 DEF Databases, Replays, OnRecord

\* A thread at work finds no rebuild under way, nor does a claim that is begun.
LEMMA NoReplayAtWork ==
  ASSUME Replaying, NEW t \in Threads, writer[t].at # "idle"
  PROVE  ~replay.on
  BY DEF Replaying, Quiet

Typed == TypeOK /\ RowsCommitted

LEMMA InitTyped == Init => Typed
<1> SUFFICES ASSUME Init PROVE Typed
  OBVIOUS
<1>1. Empty \in Databases /\ NoReplay \in Replays
  BY DEF Empty, Databases, NoReplay, Replays
<1>2. Idle \in Threading /\ Idle.at = "idle"
  BY DEF Idle, Threading
<1>3. writer \in [Threads -> Threading] /\ \A t \in Threads : writer[t].at = "idle"
  BY <1>2 DEF Init
<1> QED
  BY <1>1, <1>3 DEF Init, Typed, TypeOK, RowsCommitted

\* Each action keeps every variable in its type.
LEMMA StepTyped == Typed /\ [Next]_vars => Typed'
<1> SUFFICES ASSUME Typed, [Next]_vars PROVE Typed'
  OBVIOUS
<1> USE DEF Typed, RowsCommitted
<1>0. Idle \in Threading /\ Idle.at = "idle" /\ NoReplay \in Replays
  BY DEF Idle, Threading, NoReplay, Replays
<1>1. ASSUME NEW t \in Threads, NEW c \in Claims, NEW names \in SUBSET Claims, Begin(t, c, names)
      PROVE  Typed'
  BY <1>1 DEF TypeOK, Begin, SameOnProfile, Threading
<1>2. ASSUME NEW t \in Threads, WriteRow(t) PROVE Typed'
  <2>1. writer[t].claim \in Claims /\ writer[t] \in Threading
    BY <1>2 DEF TypeOK, WriteRow
  <2>2. conn' \in Databases /\ disk' = conn' /\ conn'.receipts = conn.receipts
    BY <1>2, <2>1 DEF TypeOK, WriteRow, Commit, Databases
  <2>3. Conflicts(writer[t].claim) \in BOOLEAN
    BY DEF Conflicts, SameOnGraph, Holds, OnGraph
  <2> QED BY <1>2, <2>1, <2>2, <2>3 DEF TypeOK, WriteRow, Threading
<1>13. ASSUME NEW t \in Threads, WriteRefused(t) PROVE Typed'
  BY <1>0, <1>13 DEF TypeOK, WriteRefused
<1>3. ASSUME NEW t \in Threads, Receipt(t) PROVE Typed'
  <2>1. writer[t].claim \in Claims /\ writer[t] \in Threading
    BY <1>3 DEF TypeOK, Receipt
  <2>2. conn' \in Databases /\ disk' = conn' /\ conn'.receipts = conn.receipts \cup {writer[t].claim}
    BY <1>3, <2>1 DEF TypeOK, Receipt, Commit, Databases
  <2>3. CASE writer[t].claim \in Sourced
    BY <1>3, <2>1, <2>2, <2>3 DEF TypeOK, Receipt, Move, Threading
  <2>4. CASE writer[t].claim \notin Sourced
    BY <1>0, <1>3, <2>1, <2>2, <2>4 DEF TypeOK, Receipt
  <2> QED BY <2>3, <2>4
<1>4. ASSUME NEW t \in Threads, InsertEvent(t) PROVE Typed'
  <2>1. writer[t].claim \in Claims /\ writer[t] \in Threading /\ conn.count \in Nat
    BY <1>4 DEF TypeOK, InsertEvent, Databases
  <2>2. [names |-> writer[t].names, stored |-> writer[t].stored, nth |-> conn.count + 1] \in Events
    BY <2>1 DEF Threading, Events
  <2> DEFINE e == [names |-> writer[t].names, stored |-> writer[t].stored, nth |-> conn.count + 1]
  <2>4. conn' = [conn EXCEPT !.count = conn.count + 1, !.event[writer[t].claim] = e]
    BY <1>4 DEF InsertEvent
  <2>5. conn \in Databases /\ e \in Events /\ conn.count + 1 \in Nat
    BY <2>1, <2>2 DEF TypeOK
  <2> HIDE DEF e
  <2>3. conn' \in Databases /\ conn'.receipts = conn.receipts /\ conn'.row = conn.row
    BY <2>1, <2>4, <2>5 DEF Databases
  <2> QED BY <1>4, <2>1, <2>3 DEF TypeOK, InsertEvent, Move, Threading
<1>5. ASSUME NEW t \in Threads, IgnoreEvent(t) PROVE Typed'
  BY <1>0, <1>5 DEF TypeOK, IgnoreEvent, Commit
<1>6. ASSUME NEW t \in Threads, ProjectL0(t) PROVE Typed'
  <2>1. writer[t].claim \in Claims /\ writer[t] \in Threading
    BY <1>6 DEF TypeOK, ProjectL0
  <2>2. conn' \in Databases /\ conn'.receipts = conn.receipts /\ conn'.row = conn.row
    BY <1>6, <2>1, UpsertType DEF TypeOK, ProjectL0
  <2> QED BY <1>6, <2>1, <2>2 DEF TypeOK, ProjectL0, Move, Threading
<1>7. ASSUME NEW t \in Threads, MarkPrior(t) PROVE Typed'
  <2>1. conn' \in Databases /\ disk' = conn' /\ conn'.receipts = conn.receipts
    BY <1>7, MarkType DEF TypeOK, MarkPrior, Commit
  <2> QED BY <1>0, <1>7, <2>1 DEF TypeOK, MarkPrior
<1>8. CASE NeighbourCommit
  BY <1>8 DEF TypeOK, NeighbourCommit, Commit
<1>9. ASSUME NEW limit \in Limits, Compare(limit) PROVE Typed'
  <2>1. Latest(limit) \in SUBSET Claims
    BY DEF Latest, OnRecord
  <2> QED BY <1>9, <2>1, StartType DEF TypeOK, Compare
<1>14. ASSUME NEW c \in Claims, ReplayEvent(c) PROVE Typed'
  <2> DEFINE u == Upserted(c, conn)
  <2>3. u \in Databases /\ u.receipts = conn.receipts /\ u.row = conn.row
    BY UpsertType DEF TypeOK
  <2>4. conn' = Marked(conn.event[c].names, u)
    BY <1>14 DEF ReplayEvent
  <2> HIDE DEF u
  <2>1. conn' \in Databases /\ conn'.receipts = conn.receipts /\ conn'.row = conn.row
    BY <2>3, <2>4, MarkType
  <2>2. replay' \in Replays
    BY <1>14 DEF TypeOK, ReplayEvent, Replays
  <2> QED BY <1>14, <2>1, <2>2 DEF TypeOK, ReplayEvent
<1>15. CASE EndReplay
  <2>1. replay.left \in SUBSET Claims
    BY DEF TypeOK, Replays
  <2> QED BY <1>0, <1>15, <2>1 DEF TypeOK, EndReplay, Commit
<1>10. CASE Stop
  <2>1. writer' \in [Threads -> Threading] /\ \A t \in Threads : writer'[t].at = "idle"
    BY <1>0, <1>10 DEF Stop
  <2> QED BY <1>0, <1>10, <2>1 DEF TypeOK, Stop
<1>11. CASE Open
  <2>1. OnRecord \in SUBSET Claims
    BY DEF OnRecord
  <2>2. conn' \in Databases /\ replay' \in Replays /\ conn'.receipts = conn.receipts /\ conn'.row = conn.row
    BY <1>11, <2>1, StartType DEF TypeOK, Open
  <2> QED BY <1>11, <2>2 DEF TypeOK, Open
<1>12. CASE UNCHANGED vars
  BY <1>12 DEF TypeOK, vars
<1> QED
  BY <1>1, <1>2, <1>3, <1>4, <1>5, <1>6, <1>7, <1>8, <1>9, <1>10, <1>11, <1>12, <1>13, <1>14, <1>15
  DEF Next, Record, Rebuild, OnRecord

(* The shelf, the events, the snapshot and the writers keep their types,   *)
(* and a thread only records events of claims whose receipt is durable.    *)
THEOREM TypeCorrect == Spec => []TypeOK
<1>1. Typed => TypeOK
  BY DEF Typed
<1> QED
  BY <1>1, InitTyped, StepTyped, PTL DEF Spec

-----------------------------------------------------------------------------
RecordInv ==
  /\ Typed /\ DownIsQuiet
  /\ Sound(conn) /\ Sound(disk) /\ Ordered(conn) /\ Ordered(disk)
  /\ Ahead /\ Writers /\ Cuts /\ Replaying /\ Parities

\* What a copy of the database holds is kept when only rows and receipts are added.
LEMMA SoundFiles ==
  ASSUME NEW a, NEW b, Sound(a), b.event = a.event, b.l0 = a.l0,
         \A c \in Claims : c \in a.receipts => c \in b.receipts,
         \A c \in Claims : Adm(c) /\ a.row[KeyOf(c)] # None => b.row[KeyOf(c)] # None
  PROVE  Sound(b)
<1> SUFFICES ASSUME NEW c \in Claims PROVE SoundFor(c, b)
  BY DEF Sound
<1>1. SoundFor(c, a)
  BY DEF Sound
<1>2. Safe(c, a) <=> Safe(c, b)
  BY SafeDepends
<1>3. Superseded(c, a) => Superseded(c, b)
  BY SupersededGrows
<1> QED
  BY <1>1, <1>2, <1>3 DEF SoundFor

\* What the last rebuild left out stays as it is, whatever is recorded next.
LEMMA CutsKept ==
  ASSUME Cuts, cut' = cut, ~replay.on, ~replay'.on, cut \subseteq Claims,
         \A c \in cut : /\ disk'.event[c] # None /\ disk'.l0[c] = "absent" /\ conn'.l0[c] = "absent"
                        /\ conn'.event[c] = conn.event[c] /\ ~BeingRecorded(c)',
         \A d \in Claims : conn'.event[d] # None =>
           conn'.event[d] = conn.event[d] \/ \A c \in cut : conn.event[c].nth < conn'.event[d].nth
  PROVE  Cuts'
  BY DEF Cuts, CutFor, OlderThanRest

LEMMA OrderKept ==
  ASSUME NEW a, NEW b, Ordered(a), b.event = a.event, b.count = a.count
  PROVE  Ordered(b)
  BY DEF Ordered, OrderedFor

\* A commit leaves the disk as the connection is.
LEMMA CommitAhead ==
  ASSUME disk' = conn'
  PROVE  Ahead'
  BY DEF Ahead, AheadFor

LEMMA InitRecord == Init => RecordInv
<1> SUFFICES ASSUME Init PROVE RecordInv
  OBVIOUS
<1>1. Typed
  BY InitTyped
<1>2. \A c \in Claims : conn.event[c] = None /\ conn.l0[c] = "absent"
  BY DEF Init, Empty
<1>3. \A t \in Threads : writer[t].at = "idle" /\ writer[t].names = {}
  BY DEF Init, Idle
<1>4. Sound(conn) /\ Sound(disk) /\ Ordered(conn) /\ Ordered(disk)
  BY <1>2 DEF Init, Sound, SoundFor, Ordered, OrderedFor
<1>5. Ahead /\ Parities /\ Cuts /\ Replaying
  BY <1>2 DEF Init, Ahead, AheadFor, Parities, Parity, ParityFor, Cuts, CutFor, Replaying, NoReplay
<1>6. Writers
  BY <1>3 DEF Writers, WriterFor, Recording
<1> QED
  BY <1>1, <1>4, <1>5, <1>6 DEF RecordInv, DownIsQuiet, Init

(* A claim is begun.  The events it names are on record and their writers  *)
(* are done, so they are on the disk as well.                              *)
LEMMA BeginRecord ==
  ASSUME RecordInv, Typed', NEW t \in Threads, NEW c \in Claims, NEW names \in SUBSET Claims,
         Begin(t, c, names)
  PROVE  RecordInv'
<1> USE DEF RecordInv
<1>1. /\ disk' = disk /\ conn' = conn /\ torn' = torn /\ up' = up /\ up = TRUE
      /\ replay' = replay /\ ~replay.on /\ cut' = cut
  BY DEF Begin, Typed, TypeOK
<1>2. /\ writer[t].at = "idle"
      /\ writer' = [writer EXCEPT ![t] = writer'[t]]
      /\ writer'[t].at \in {"row", "receipt"} /\ writer'[t].claim = c /\ writer'[t].names = names
      /\ writer'[t].at = "row" => Adm(c)
      /\ writer'[t].at = "receipt" /\ Adm(c) => SameOnProfile(c)
  BY DEF Begin, Typed, TypeOK, SameOnProfile
<1>3. \A u \in Threads : u # t => writer'[u] = writer[u]
  BY <1>2 DEF Typed, TypeOK
<1>4. \A u \in Threads : Recording(u)' <=> Recording(u)
  BY <1>2, <1>3 DEF Recording
<1>5. \A u \in Threads : Recording(u) => u # t /\ writer'[u] = writer[u]
  BY <1>2, <1>3 DEF Recording
<1>6. \A x : BeingRecorded(x)' <=> BeingRecorded(x)
  BY <1>4, <1>5 DEF BeingRecorded
<1>7. \A x \in names : conn.event[x] # None /\ x \in Claims /\ \A u \in Threads : Recording(u) => writer[u].claim # x
  BY DEF Begin, OnRecord, Writing, Recording
<1>8. \A x \in names : disk.event[x] # None
  BY <1>7 DEF Ahead, AheadFor, BeingRecorded
<1>9. Ahead'
  BY <1>1, <1>6 DEF Ahead, AheadFor
<1>10. Parities' /\ Cuts' /\ Replaying'
  BY <1>1, <1>6 DEF Parities, Parity, ParityFor, Cuts, CutFor, OlderThanRest, Replaying
<1>11. WriterFor(t)'
  BY <1>1, <1>2, <1>7, <1>8 DEF WriterFor, Recording, SameOnProfile
<1>12. ASSUME NEW u \in Threads, u # t PROVE WriterFor(u)'
  <2>1. WriterFor(u) /\ writer'[u] = writer[u]
    BY <1>3, <1>12 DEF Writers
  <2>2. Recording(u) => \A v \in Threads : writer[u].claim \notin writer'[v].names
    BY <1>2, <1>3, <1>7, <2>1 DEF WriterFor
  <2>3. Recording(u) => \A v \in Threads : Recording(v)' /\ v # u => writer'[v].claim # writer[u].claim
    BY <1>4, <1>5, <2>1 DEF WriterFor
  <2> QED BY <1>1, <1>4, <1>12, <2>1, <2>2, <2>3 DEF WriterFor
<1>13. Sound(conn)' /\ Sound(disk)' /\ Ordered(conn)' /\ Ordered(disk)'
  BY <1>1
<1> QED
  BY <1>1, <1>9, <1>10, <1>11, <1>12, <1>13 DEF Writers, DownIsQuiet

\* A thread at work has the store open.
LEMMA WorkingIsUp ==
  ASSUME DownIsQuiet, NEW t \in Threads, writer[t].at # "idle"
  PROVE  up
  BY DEF DownIsQuiet, Quiet

(* A row or a receipt is filed, or an event found there already: a commit  *)
(* that leaves events and snapshot as the connection has them.             *)
LEMMA FileRecord ==
  ASSUME RecordInv, Typed', NEW t \in Threads, ~Recording(t), writer[t].at # "idle",
         conn'.event = conn.event, conn'.l0 = conn.l0, disk' = conn',
         \A c \in Claims : c \in conn.receipts => c \in conn'.receipts,
         \A c \in Claims : Adm(c) /\ conn.row[KeyOf(c)] # None => conn'.row[KeyOf(c)] # None,
         torn' = torn, up' = up, replay' = replay, cut' = cut, conn'.count = conn.count,
         \A u \in Threads : u # t => writer'[u] = writer[u],
         writer'[t].at \in {"receipt", "event", "idle"},
         writer'[t].names \subseteq writer[t].names,
         writer'[t].at # "idle" /\ Adm(writer'[t].claim) => conn'.row[KeyOf(writer'[t].claim)] # None
  PROVE  RecordInv'
<1> USE DEF RecordInv
<1>1. Sound(conn)' /\ Sound(disk)' /\ Ordered(conn)' /\ Ordered(disk)'
  BY SoundFiles, OrderKept
<1>2. Ahead'
  BY CommitAhead
<1>3. \A u \in Threads : Recording(u)' <=> Recording(u)
  BY DEF Recording
<1>4. \A u \in Threads : Recording(u) => u # t /\ writer'[u] = writer[u]
  OBVIOUS
<1>5. \A x : BeingRecorded(x)' <=> BeingRecorded(x)
  BY <1>3, <1>4 DEF BeingRecorded
<1>10. ~replay.on /\ Replaying'
  BY NoReplayAtWork DEF Replaying
<1>11. Cuts'
  BY <1>5, <1>10, CutsKept DEF Cuts, CutFor, Ahead, AheadFor, Typed, TypeOK
<1>6. Parities'
  BY <1>5, <1>10 DEF Parities, Parity, ParityFor
<1>7. WriterFor(t)'
  BY <1>3 DEF Writers, WriterFor, Recording
<1>8. ASSUME NEW u \in Threads, u # t PROVE WriterFor(u)'
  <2>1. WriterFor(u) /\ writer'[u] = writer[u] /\ (Recording(u)' <=> Recording(u))
    BY <1>3, <1>8 DEF Writers
  <2>2. writer[u].claim \in Claims \/ writer[u].at = "idle"
    BY DEF Typed, TypeOK
  <2>3. Recording(u) => \A v \in Threads : writer[u].claim \notin writer'[v].names
    BY <2>1 DEF WriterFor
  <2>4. Recording(u) => \A v \in Threads : Recording(v)' /\ v # u => writer'[v].claim # writer[u].claim
    BY <1>3, <1>4, <2>1 DEF WriterFor
  <2>5. \A x \in writer[u].names : conn.event[x] # None
    BY <2>1 DEF WriterFor
  <2> QED BY <1>8, <2>1, <2>2, <2>3, <2>4, <2>5 DEF WriterFor
<1>9. DownIsQuiet'
  BY WorkingIsUp DEF DownIsQuiet
<1> QED
  BY <1>1, <1>2, <1>6, <1>7, <1>8, <1>9, <1>10, <1>11 DEF Writers

LEMMA WriteRowRecord ==
  ASSUME RecordInv, Typed', NEW t \in Threads, WriteRow(t)
  PROVE  RecordInv'
<1> DEFINE c == writer[t].claim
<1>1. /\ writer[t].at = "row" /\ c \in Claims /\ Adm(c) /\ writer \in [Threads -> Threading]
      /\ conn \in Databases /\ conn.receipts = disk.receipts
  BY DEF WriteRow, RecordInv, Typed, TypeOK, RowsCommitted, Writers, WriterFor
<1>2. KeyOf(c) \in {"profile", "graph"} \X Registered
  BY <1>1, AcceptedSlot
<1>3. /\ conn'.event = conn.event /\ conn'.l0 = conn.l0 /\ disk' = conn' /\ conn'.receipts = conn.receipts
      /\ conn'.count = conn.count /\ torn' = torn /\ up' = up /\ replay' = replay /\ cut' = cut
  BY <1>1 DEF WriteRow, Commit, Databases
<1>4. \A d \in Claims : Adm(d) /\ conn.row[KeyOf(d)] # None => conn'.row[KeyOf(d)] # None
  BY <1>1, <1>2 DEF WriteRow, Commit, Databases
<1>5. conn'.row[KeyOf(c)] # None
  BY <1>1, <1>2 DEF WriteRow, Commit, Databases, SameOnGraph, Conflicts, Holds
<1>6. /\ \A u \in Threads : u # t => writer'[u] = writer[u]
      /\ writer'[t].at = "receipt" /\ writer'[t].names = writer[t].names /\ writer'[t].claim = c
  BY <1>1 DEF WriteRow, Threading
<1> QED
  BY <1>1, <1>3, <1>4, <1>5, <1>6, FileRecord DEF Recording

\* A row is refused: the claim is given up, and nothing is written.
LEMMA RefusedRecord ==
  ASSUME RecordInv, Typed', NEW t \in Threads, WriteRefused(t)
  PROVE  RecordInv'
<1> USE DEF RecordInv
<1>1. /\ writer[t].at = "row" /\ disk' = disk /\ conn' = conn /\ torn' = torn /\ up' = up
      /\ replay' = replay /\ cut' = cut
  BY DEF WriteRefused
<1>2. /\ writer'[t].at = "idle" /\ writer'[t].names = {}
      /\ \A u \in Threads : u # t => writer'[u] = writer[u]
  BY DEF WriteRefused, Idle, Typed, TypeOK
<1>3. \A u \in Threads : /\ Recording(u)' <=> Recording(u)
                         /\ Recording(u) => u # t /\ writer'[u] = writer[u]
  BY <1>1, <1>2 DEF Recording
<1>4. \A x : BeingRecorded(x)' <=> BeingRecorded(x)
  BY <1>3 DEF BeingRecorded
<1>5. ~replay.on
  BY <1>1, NoReplayAtWork
<1>6. Ahead' /\ Cuts' /\ Replaying' /\ Parities'
  BY <1>1, <1>4, <1>5 DEF Ahead, AheadFor, Cuts, CutFor, OlderThanRest, Replaying,
                          Parities, Parity, ParityFor
<1>7. Writers'
  BY <1>1, <1>2, <1>3 DEF Writers, WriterFor
<1>8. DownIsQuiet'
  BY <1>1, WorkingIsUp DEF DownIsQuiet
<1>9. Sound(conn)' /\ Sound(disk)' /\ Ordered(conn)' /\ Ordered(disk)'
  BY <1>1
<1> QED
  BY <1>6, <1>7, <1>8, <1>9

LEMMA ReceiptRecord ==
  ASSUME RecordInv, Typed', NEW t \in Threads, Receipt(t)
  PROVE  RecordInv'
<1> DEFINE c == writer[t].claim
<1>1. /\ writer[t].at = "receipt" /\ c \in Claims /\ writer \in [Threads -> Threading]
      /\ Adm(c) => conn.row[KeyOf(c)] # None
      /\ conn \in Databases
  BY DEF Receipt, RecordInv, Typed, TypeOK, Writers, WriterFor
<1>2. /\ conn'.event = conn.event /\ conn'.l0 = conn.l0 /\ disk' = conn' /\ conn'.row = conn.row
      /\ conn'.receipts = conn.receipts \cup {c}
      /\ conn'.count = conn.count /\ torn' = torn /\ up' = up /\ replay' = replay /\ cut' = cut
  BY <1>1 DEF Receipt, Commit, Databases
<1>3. /\ \A u \in Threads : u # t => writer'[u] = writer[u]
      /\ \/ writer'[t].at = "event" /\ writer'[t].names = writer[t].names /\ writer'[t].claim = c
         \/ writer'[t].at = "idle" /\ writer'[t].names = {}
  BY <1>1 DEF Receipt, Move, Idle, Threading
<1> QED
  BY <1>1, <1>2, <1>3, FileRecord DEF Recording

LEMMA IgnoreRecord ==
  ASSUME RecordInv, Typed', NEW t \in Threads, IgnoreEvent(t)
  PROVE  RecordInv'
<1>1. /\ writer[t].at = "event" /\ writer \in [Threads -> Threading]
      /\ conn' = conn /\ disk' = conn' /\ torn' = torn /\ up' = up /\ replay' = replay /\ cut' = cut
  BY DEF IgnoreEvent, Commit, RecordInv, Typed, TypeOK
<1>2. /\ \A u \in Threads : u # t => writer'[u] = writer[u]
      /\ writer'[t].at = "idle" /\ writer'[t].names = {}
  BY <1>1 DEF IgnoreEvent, Idle
<1> QED
  BY <1>1, <1>2, FileRecord DEF Recording

(* An event is inserted: nothing named it before, and what it names is on  *)
(* record.                                                                 *)
LEMMA InsertRecord ==
  ASSUME RecordInv, Typed', NEW t \in Threads, InsertEvent(t)
  PROVE  RecordInv'
<1> USE DEF RecordInv
<1> DEFINE c == writer[t].claim
<1>1. /\ writer[t].at = "event" /\ c \in Claims /\ writer \in [Threads -> Threading]
      /\ c \in conn.receipts /\ (Adm(c) => conn.row[KeyOf(c)] # None)
      /\ conn \in Databases /\ conn.event[c] = None /\ disk' = disk /\ torn' = torn /\ up' = up
      /\ replay' = replay /\ cut' = cut
  BY DEF InsertEvent, Typed, TypeOK, Writers, WriterFor, RowsCommitted
<1>2. /\ conn'.l0 = conn.l0 /\ conn'.row = conn.row /\ conn'.receipts = conn.receipts
      /\ \A d \in Claims : d # c => conn'.event[d] = conn.event[d]
      /\ conn'.event[c] # None /\ conn'.event[c].names = writer[t].names
      /\ conn'.count = conn.count + 1 /\ conn'.event[c].nth = conn.count + 1
      /\ conn.count \in Nat
  <2>1. [names |-> writer[t].names, stored |-> writer[t].stored, nth |-> conn.count + 1] # None
    BY <1>1 DEF Threading, Events, Databases
  <2> QED BY <1>1, <2>1 DEF InsertEvent, Databases
<1>3. /\ \A u \in Threads : u # t => writer'[u] = writer[u]
      /\ writer'[t].at = "l0" /\ writer'[t].names = writer[t].names /\ writer'[t].claim = c
  BY <1>1 DEF InsertEvent, Move, Threading
<1>4. /\ conn.l0[c] = "absent" /\ disk.event[c] = None /\ disk.l0[c] = "absent"
      /\ \A d \in Claims : conn.event[d] # None => c \notin conn.event[d].names
  BY <1>1 DEF Sound, SoundFor, Ahead, AheadFor
<1>5. \A u \in Threads : c \notin writer[u].names /\ (Recording(u) => writer[u].claim # c)
  BY <1>1 DEF Writers, WriterFor
<1>6. /\ Recording(t)' /\ ~Recording(t)
      /\ \A u \in Threads : u # t => (Recording(u)' <=> Recording(u))
  BY <1>1, <1>3 DEF Recording
<1>7. \A x \in Claims : BeingRecorded(x) => BeingRecorded(x)'
  BY <1>3, <1>6 DEF BeingRecorded
<1>8. \A x \in Claims : x = c => BeingRecorded(x)'
  BY <1>3, <1>6 DEF BeingRecorded
<1>9. ASSUME NEW x \in Claims PROVE SoundFor(x, conn')
  <2>1. SoundFor(x, conn)
    BY DEF Sound
  <2>2. \A d \in Claims : conn.event[d] # None => conn'.event[d] = conn.event[d]
    BY <1>1, <1>2
  <2>3. Superseded(x, conn) => Superseded(x, conn')
    BY <2>2, SupersededGrows
  <2>4. \A y \in writer[t].names : conn.event[y] # None
    BY DEF Writers, WriterFor
  <2>5. \A d \in Claims : conn'.event[d] # None /\ x \in conn'.event[d].names => conn'.event[x] # None
    BY <1>2, <2>1, <2>2, <2>4 DEF SoundFor
  <2>6. CASE x = c
    BY <1>1, <1>2, <1>4, <2>5, <2>6 DEF SoundFor
  <2>7. CASE x # c
    <3>1. Safe(x, conn) <=> Safe(x, conn')
      BY <1>2, <2>7, SafeDepends
    <3> QED BY <1>2, <2>1, <2>3, <2>5, <2>7, <3>1 DEF SoundFor
  <2> QED BY <2>6, <2>7
<1>10. Sound(conn)' /\ Sound(disk)'
  BY <1>1, <1>9 DEF Sound
<1>17. \A d \in Claims : conn.event[d] # None => conn.event[d].nth \in Nat /\ conn.event[d].nth <= conn.count
  BY <1>1 DEF Ordered, OrderedFor, Databases, Events
<1>18. Ordered(conn)' /\ Ordered(disk)'
  <2>1. \A d \in writer[t].names : d # c /\ d \in Claims /\ conn.event[d] # None
    BY <1>1 DEF Writers, WriterFor, Typed, TypeOK, Threading
  <2>2. ASSUME NEW x \in Claims PROVE OrderedFor(x, conn')
    <3>1. CASE x = c
      BY <1>2, <1>17, <2>1, <3>1 DEF OrderedFor
    <3>2. CASE x # c
      <4>1. OrderedFor(x, conn) /\ conn'.event[x] = conn.event[x]
        BY <1>2, <3>2 DEF Ordered
      <4>2. \A d \in Claims : conn.event[x] # None /\ d \in conn.event[x].names => d # c
        BY <1>4
      <4> QED BY <1>2, <1>17, <4>1, <4>2 DEF OrderedFor
    <3> QED BY <3>1, <3>2
  <2> QED BY <1>1, <2>2 DEF Ordered
<1>19. ~replay.on /\ Replaying'
  BY <1>1, NoReplayAtWork DEF Replaying
<1>20. Cuts'
  <2>1. \A x \in cut : x \in Claims /\ x # c /\ disk.event[x] # None /\ conn.event[x] = disk.event[x]
    BY <1>4 DEF Cuts, CutFor, Ahead, AheadFor, Typed, TypeOK
  <2>2. \A x \in cut : ~BeingRecorded(x)'
    BY <1>3, <1>6, <2>1 DEF Cuts, CutFor, BeingRecorded
  <2>3. \A d \in Claims : conn'.event[d] = conn.event[d] \/ \A x \in cut : conn.event[x].nth < conn'.event[d].nth
    BY <1>2, <1>17, <2>1
  <2> QED BY <1>1, <1>2, <1>19, <2>1, <2>2, <2>3, CutsKept DEF Cuts, CutFor
<1>11. Ahead'
  <2> SUFFICES ASSUME NEW x \in Claims PROVE AheadFor(x)'
    BY DEF Ahead
  <2>1. AheadFor(x) /\ (BeingRecorded(x) => BeingRecorded(x)')
    BY <1>7 DEF Ahead
  <2>2. CASE x = c
    BY <1>1, <1>2, <1>4, <1>8, <2>2 DEF AheadFor
  <2>3. CASE x # c
    BY <1>1, <1>2, <2>1, <2>3 DEF AheadFor
  <2> QED BY <2>2, <2>3
<1>12. Parity(disk)'
  BY <1>1, <1>7 DEF Parities, Parity, ParityFor
<1>13. Parity(conn)'
  <2> SUFFICES ASSUME ~torn, NEW x \in Claims PROVE ParityFor(x, conn)'
    BY <1>1 DEF Parity
  <2>1. ParityFor(x, conn) /\ (BeingRecorded(x) => BeingRecorded(x)')
    BY <1>7, <1>19 DEF Parities, Parity
  <2>2. conn'.event[x] # None => conn'.l0[x] # "absent" \/ BeingRecorded(x)' \/ x \in cut'
    BY <1>1, <1>2, <1>8, <2>1 DEF ParityFor
  <2>3. ASSUME conn'.l0[x] = "answer", NEW d \in Claims, conn'.event[d] # None, x \in conn'.event[d].names
        PROVE  BeingRecorded(d)'
    <3>1. CASE d = c
      BY <1>8, <3>1
    <3>2. CASE d # c
      BY <1>2, <1>7, <2>1, <2>3, <3>2 DEF ParityFor
    <3> QED BY <3>1, <3>2
  <2> QED BY <2>2, <2>3 DEF ParityFor
<1>14. WriterFor(t)'
  <2>1. WriterFor(t)
    BY DEF Writers
  <2>2. \A y \in writer[t].names : disk.event[y] # None /\ conn'.event[y] # None
    BY <1>2, <1>4, <2>1 DEF WriterFor, Typed, TypeOK, Threading
  <2>3. \A d \in Claims : conn'.event[d] # None => c \notin conn'.event[d].names
    BY <1>2, <1>4, <1>5
  <2>4. \A u \in Threads : c \notin writer'[u].names /\ (Recording(u)' /\ u # t => writer'[u].claim # c)
    BY <1>3, <1>5, <1>6
  <2> QED BY <1>1, <1>2, <1>3, <1>4, <2>2, <2>3, <2>4 DEF WriterFor
<1>15. ASSUME NEW u \in Threads, u # t PROVE WriterFor(u)'
  <2>1. WriterFor(u) /\ writer'[u] = writer[u] /\ (Recording(u)' <=> Recording(u))
    BY <1>3, <1>6, <1>15 DEF Writers
  <2>2. \A y \in writer[u].names : disk'.event[y] # None /\ conn'.event[y] # None
    BY <1>1, <1>2, <2>1 DEF WriterFor, Typed, TypeOK, Threading
  <2>3. ASSUME Recording(u)
        PROVE  /\ writer[u].claim # c /\ writer[u].claim \in Claims
               /\ \A d \in Claims : conn'.event[d] # None => writer[u].claim \notin conn'.event[d].names
               /\ \A v \in Threads : writer[u].claim \notin writer'[v].names
               /\ \A v \in Threads : Recording(v)' /\ v # u => writer'[v].claim # writer[u].claim
    <3>1. writer[u].claim # c /\ writer[u].claim \in Claims
      BY <1>5, <2>3 DEF Recording, Typed, TypeOK
    <3>2. \A v \in Threads : writer[u].claim \notin writer'[v].names
      BY <1>3, <2>1, <2>3 DEF WriterFor
    <3>3. \A d \in Claims : conn'.event[d] # None => writer[u].claim \notin conn'.event[d].names
      BY <1>2, <2>1, <2>3, <3>2, <1>3 DEF WriterFor
    <3> QED BY <1>3, <1>6, <2>1, <2>3, <3>1, <3>2, <3>3 DEF WriterFor
  <2> QED BY <1>2, <2>1, <2>2, <2>3 DEF WriterFor
<1>16. DownIsQuiet'
  BY <1>1, WorkingIsUp DEF DownIsQuiet
<1> QED
  BY <1>10, <1>11, <1>12, <1>13, <1>14, <1>15, <1>16, <1>18, <1>19, <1>20 DEF Writers, Parities

(* The event is projected.  Nothing on record supersedes it yet.           *)
LEMMA ProjectRecord ==
  ASSUME RecordInv, Typed', NEW t \in Threads, ProjectL0(t)
  PROVE  RecordInv'
<1> USE DEF RecordInv
<1> DEFINE c == writer[t].claim
<1>1. /\ writer[t].at = "l0" /\ Recording(t) /\ c \in Claims /\ writer \in [Threads -> Threading]
      /\ conn \in Databases /\ disk' = disk /\ torn' = torn /\ up' = up
      /\ replay' = replay /\ cut' = cut
  BY DEF ProjectL0, Recording, Typed, TypeOK
<1>2. /\ conn.event[c] # None /\ conn.l0[c] = "absent"
      /\ \A d \in Claims : conn.event[d] # None => c \notin conn.event[d].names
      /\ \A u \in Threads : Recording(u) /\ u # t => writer[u].claim # c
  BY <1>1 DEF Writers, WriterFor
<1>3. /\ conn'.event = conn.event /\ conn'.row = conn.row /\ conn'.receipts = conn.receipts
      /\ conn'.count = conn.count
      /\ \A d \in Claims : d # c => conn'.l0[d] = conn.l0[d]
      /\ conn'.l0[c] = IF Safe(c, conn) THEN "answer" ELSE "held"
  BY <1>1, UpsertType DEF ProjectL0
<1>4. /\ \A u \in Threads : u # t => writer'[u] = writer[u]
      /\ writer'[t].at = "mark" /\ writer'[t].names = writer[t].names /\ writer'[t].claim = c
  BY <1>1 DEF ProjectL0, Move, Threading
<1>5. \A u \in Threads : Recording(u)' <=> Recording(u)
  BY <1>1, <1>4 DEF Recording
<1>6. \A x \in Claims : BeingRecorded(x)' <=> BeingRecorded(x)
  BY <1>4, <1>5 DEF BeingRecorded
<1>7. ASSUME NEW x \in Claims PROVE SoundFor(x, conn')
  <2>1. SoundFor(x, conn) /\ (Safe(x, conn) <=> Safe(x, conn'))
    BY <1>3, SafeDepends DEF Sound
  <2>2. Superseded(x, conn) => Superseded(x, conn')
    BY <1>3, SupersededGrows
  <2>3. CASE x = c
    BY <1>2, <1>3, <2>1, <2>2, <2>3 DEF SoundFor
  <2>4. CASE x # c
    BY <1>3, <2>1, <2>2, <2>4 DEF SoundFor
  <2> QED BY <2>3, <2>4
<1>8. Sound(conn)' /\ Sound(disk)' /\ Ordered(conn)' /\ Ordered(disk)'
  BY <1>1, <1>3, <1>7, OrderKept DEF Sound
<1>15. ~replay.on /\ Replaying'
  BY <1>1, NoReplayAtWork DEF Replaying
<1>16. Cuts'
  <2>1. c \notin cut
    BY <1>1 DEF Cuts, CutFor, BeingRecorded
  <2> QED BY <1>1, <1>3, <1>6, <1>15, <2>1, CutsKept DEF Cuts, CutFor, Typed, TypeOK
<1>9. Ahead'
  <2> SUFFICES ASSUME NEW x \in Claims PROVE AheadFor(x)'
    BY DEF Ahead
  <2>1. AheadFor(x) /\ (BeingRecorded(x)' <=> BeingRecorded(x))
    BY <1>6 DEF Ahead
  <2>2. CASE x = c
    BY <1>1, <1>2, <1>3, <2>1, <2>2 DEF AheadFor
  <2>3. CASE x # c
    BY <1>1, <1>3, <2>1, <2>3 DEF AheadFor
  <2> QED BY <2>2, <2>3
<1>10. Parity(disk)'
  BY <1>1, <1>6 DEF Parities, Parity, ParityFor
<1>11. Parity(conn)'
  <2> SUFFICES ASSUME ~torn, NEW x \in Claims PROVE ParityFor(x, conn)'
    BY <1>1 DEF Parity
  <2>1. ParityFor(x, conn)
    BY <1>15 DEF Parities, Parity
  <2>2. CASE x = c
    BY <1>2, <1>3, <2>2 DEF ParityFor
  <2>3. CASE x # c
    BY <1>1, <1>3, <1>6, <2>1, <2>3 DEF ParityFor
  <2> QED BY <2>2, <2>3
<1>12. WriterFor(t)'
  <2>1. WriterFor(t)
    BY DEF Writers
  <2>2. \A u \in Threads : c \notin writer'[u].names /\ (Recording(u)' /\ u # t => writer'[u].claim # c)
    BY <1>1, <1>2, <1>4, <1>5, <2>1 DEF WriterFor
  <2> QED BY <1>1, <1>2, <1>3, <1>4, <2>1, <2>2 DEF WriterFor
<1>13. ASSUME NEW u \in Threads, u # t PROVE WriterFor(u)'
  <2>1. WriterFor(u) /\ writer'[u] = writer[u] /\ (Recording(u)' <=> Recording(u))
    BY <1>4, <1>5, <1>13 DEF Writers
  <2>2. ASSUME Recording(u)
        PROVE  /\ conn'.l0[writer[u].claim] = conn.l0[writer[u].claim]
               /\ \A v \in Threads : writer[u].claim \notin writer'[v].names
               /\ \A v \in Threads : Recording(v)' /\ v # u => writer'[v].claim # writer[u].claim
    <3>1. writer[u].claim # c /\ writer[u].claim \in Claims
      BY <1>2, <1>13, <2>2 DEF Recording, Typed, TypeOK
    <3> QED BY <1>3, <1>4, <1>5, <2>1, <2>2, <3>1 DEF WriterFor
  <2> QED BY <1>1, <1>3, <2>1, <2>2 DEF WriterFor
<1>14. DownIsQuiet'
  BY <1>1, WorkingIsUp DEF DownIsQuiet
<1> QED
  BY <1>8, <1>9, <1>10, <1>11, <1>12, <1>13, <1>14, <1>15, <1>16 DEF Writers, Parities

(* The superseded events are marked, and the whole record is committed.    *)
LEMMA MarkRecord ==
  ASSUME RecordInv, Typed', NEW t \in Threads, MarkPrior(t)
  PROVE  RecordInv'
<1> USE DEF RecordInv
<1> DEFINE c == writer[t].claim
<1>1. /\ writer[t].at = "mark" /\ Recording(t) /\ c \in Claims /\ writer \in [Threads -> Threading]
      /\ conn \in Databases /\ disk' = conn' /\ torn' = torn /\ up' = up
      /\ replay' = replay /\ cut' = cut
  BY DEF MarkPrior, Commit, Recording, Typed, TypeOK
<1>2. /\ conn.event[c] # None /\ conn.l0[c] # "absent" /\ conn.event[c].names = writer[t].names
      /\ c \notin writer[t].names
  BY <1>1 DEF Writers, WriterFor
<1>3. /\ conn'.event = conn.event /\ conn'.row = conn.row /\ conn'.receipts = conn.receipts
      /\ conn'.count = conn.count
      /\ \A d \in Claims : conn'.l0[d] =
           IF d \in writer[t].names /\ conn.l0[d] # "absent" THEN "held" ELSE conn.l0[d]
  BY <1>1, MarkType DEF MarkPrior, Commit
<1>4. /\ \A u \in Threads : u # t => writer'[u] = writer[u]
      /\ writer'[t].at = "idle" /\ writer'[t].names = {}
  BY <1>1 DEF MarkPrior, Idle
<1>5. ~Recording(t)' /\ \A u \in Threads : u # t => (Recording(u)' <=> Recording(u))
  BY <1>4 DEF Recording
<1>6. \A x \in Claims : x # c /\ BeingRecorded(x) => BeingRecorded(x)'
  BY <1>4, <1>5 DEF BeingRecorded
<1>7. ASSUME NEW x \in Claims PROVE SoundFor(x, conn')
  <2>1. SoundFor(x, conn) /\ (Safe(x, conn) <=> Safe(x, conn'))
    BY <1>3, SafeDepends DEF Sound
  <2>2. Superseded(x, conn) => Superseded(x, conn')
    BY <1>3, SupersededGrows
  <2>3. x \in writer[t].names => Superseded(x, conn')
    BY <1>1, <1>2, <1>3 DEF Superseded
  <2> QED BY <1>3, <2>1, <2>2, <2>3 DEF SoundFor
<1>8. Sound(conn)' /\ Sound(disk)' /\ Ordered(conn)' /\ Ordered(disk)'
  BY <1>1, <1>3, <1>7, OrderKept DEF Sound
<1>9. Ahead'
  BY <1>1, CommitAhead
<1>14. ~replay.on /\ Replaying'
  BY <1>1, NoReplayAtWork DEF Replaying
<1>15. Cuts'
  <2>1. \A x \in cut : x \in Claims /\ conn'.l0[x] = "absent" /\ conn.event[x] = disk.event[x] /\ conn.event[x] # None
    BY <1>3, <1>14 DEF Cuts, CutFor, Ahead, AheadFor, Typed, TypeOK
  <2>2. \A x \in cut : ~BeingRecorded(x)'
    BY <1>4, <1>5 DEF Cuts, CutFor, BeingRecorded, Typed, TypeOK
  <2> QED BY <1>1, <1>3, <1>14, <2>1, <2>2, CutsKept
<1>10. Parity(conn)' /\ Parity(disk)'
  <2> SUFFICES ASSUME ~torn, NEW x \in Claims PROVE ParityFor(x, conn)'
    BY <1>1 DEF Parity, ParityFor
  <2>1. ParityFor(x, conn)
    BY <1>14 DEF Parities, Parity
  <2>2. conn'.event[x] # None => conn'.l0[x] # "absent" \/ BeingRecorded(x)' \/ x \in cut'
    BY <1>1, <1>2, <1>3, <1>6, <2>1 DEF ParityFor
  <2>3. ASSUME conn'.l0[x] = "answer", NEW d \in Claims, conn'.event[d] # None, x \in conn'.event[d].names
        PROVE  BeingRecorded(d)'
    <3>1. conn.l0[x] = "answer" /\ x \notin writer[t].names
      BY <1>3, <2>3
    <3>2. d # c
      BY <1>2, <1>3, <2>3, <3>1
    <3> QED BY <1>3, <1>6, <2>1, <2>3, <3>1, <3>2 DEF ParityFor
  <2> QED BY <2>2, <2>3 DEF ParityFor
<1>11. WriterFor(t)'
  BY <1>4, <1>5 DEF WriterFor
<1>12. ASSUME NEW u \in Threads, u # t PROVE WriterFor(u)'
  <2>1. WriterFor(u) /\ writer'[u] = writer[u] /\ (Recording(u)' <=> Recording(u))
    BY <1>4, <1>5, <1>12 DEF Writers
  <2>2. ASSUME Recording(u)
        PROVE  /\ conn'.l0[writer[u].claim] = "absent" <=> conn.l0[writer[u].claim] = "absent"
               /\ \A v \in Threads : writer[u].claim \notin writer'[v].names
               /\ \A v \in Threads : Recording(v)' /\ v # u => writer'[v].claim # writer[u].claim
    <3>1. writer[u].claim \in Claims
      BY <2>2 DEF Recording, Typed, TypeOK
    <3> QED BY <1>3, <1>4, <1>5, <2>1, <2>2, <3>1 DEF WriterFor
  <2> QED BY <1>1, <1>3, <2>1, <2>2 DEF WriterFor
<1>13. DownIsQuiet'
  BY <1>1, WorkingIsUp DEF DownIsQuiet
<1> QED
  BY <1>8, <1>9, <1>10, <1>11, <1>12, <1>13, <1>14, <1>15 DEF Writers, Parities

\* The other thread's commit takes an unfinished record along.
LEMMA NeighbourRecord ==
  ASSUME RecordInv, Typed', NeighbourCommit
  PROVE  RecordInv'
<1> USE DEF RecordInv
<1>1. /\ conn' = conn /\ disk' = conn' /\ writer' = writer /\ torn' = torn /\ up' = up
      /\ replay' = replay /\ cut' = cut /\ ~replay.on
  BY DEF NeighbourCommit, Commit
<1>2. Sound(conn)' /\ Sound(disk)' /\ Ordered(conn)' /\ Ordered(disk)' /\ Ahead' /\ DownIsQuiet' /\ Replaying'
  BY <1>1, CommitAhead DEF DownIsQuiet, Quiet, Replaying
<1>3. Parities'
  BY <1>1 DEF Parities, Parity, ParityFor, BeingRecorded, Recording
<1>4. Writers'
  BY <1>1 DEF Writers, WriterFor, Recording
<1>5. Cuts'
  <2>1. \A x \in cut : x \in Claims /\ conn.event[x] # None /\ conn.l0[x] = "absent" /\ ~BeingRecorded(x)
    BY <1>1 DEF Cuts, CutFor, Ahead, AheadFor, Typed, TypeOK
  <2>2. \A x \in cut : ~BeingRecorded(x)'
    BY <1>1, <2>1 DEF BeingRecorded, Recording
  <2> QED BY <1>1, <2>1, <2>2, CutsKept DEF Typed, TypeOK
<1> QED
  BY <1>2, <1>3, <1>4, <1>5

(* A rebuild begins: the rows are gone, and of the events on record the    *)
(* oldest may be left out.                                                 *)
LEMMA StartRecord ==
  ASSUME RecordInv, Typed', Quiet, writer' = writer, disk' = disk, cut' = cut, torn' = torn, up',
         NEW events \in SUBSET OnRecord, StartReplay(events),
         \A c \in OnRecord \ events, d \in events : conn.event[c].nth < conn.event[d].nth
  PROVE  RecordInv'
<1> USE DEF RecordInv
<1>1. conn \in Databases /\ events \in SUBSET Claims /\ \A c \in Claims : c \in OnRecord <=> conn.event[c] # None
  BY DEF OnRecord, Typed, TypeOK
<1>2. /\ conn'.row = conn.row /\ conn'.receipts = conn.receipts
      /\ conn'.event = conn.event /\ conn'.count = conn.count /\ \A c \in Claims : conn'.l0[c] = "absent"
      /\ replay'.on /\ replay'.todo = events /\ replay'.left = OnRecord \ events
  BY <1>1, StartType
<1>3. \A t \in Threads : ~Recording(t) /\ ~Recording(t)'
  BY DEF Recording, Quiet
<1>4. \A c \in Claims : ~BeingRecorded(c) /\ ~BeingRecorded(c)'
  BY <1>3 DEF BeingRecorded
<1>5. Sound(conn)' /\ Sound(disk)' /\ Ordered(conn)' /\ Ordered(disk)'
  <2>1. Sound(conn')
    BY <1>2 DEF Sound, SoundFor
  <2> QED BY <1>2, <2>1, OrderKept
<1>6. Ahead' /\ DownIsQuiet' /\ Parities'
  BY <1>2, <1>4 DEF Ahead, AheadFor, DownIsQuiet, Parities, Parity, ParityFor
<1>7. Writers'
  BY <1>2, <1>3 DEF Writers, WriterFor, Quiet
<1>8. Cuts'
  BY <1>2, <1>4 DEF Cuts, CutFor, OlderThanRest
<1>9. Replaying'
  <2> SUFFICES ASSUME NEW c \in Claims PROVE ReplayFor(c)'
    BY DEF Replaying, Quiet
  <2>1. c \in replay'.left => OlderThanRest(c, replay.left)'
    BY <1>1, <1>2 DEF OlderThanRest
  <2> QED BY <1>1, <1>2, <2>1 DEF ReplayFor
<1> QED
  BY <1>5, <1>6, <1>7, <1>8, <1>9

\* The events a limit leaves out are the oldest.
LEMMA CompareRecord ==
  ASSUME RecordInv, Typed', NEW limit \in Limits, Compare(limit)
  PROVE  RecordInv'
<1>1. conn \in Databases /\ limit \in Nat
  BY DEF RecordInv, Typed, TypeOK
<1>2. \A c \in OnRecord : c \in Claims /\ conn.event[c].nth \in Nat
  BY <1>1 DEF OnRecord, Databases, Events
<1>3. conn.count \in Nat
  BY <1>1 DEF Databases
<1>4. /\ Latest(limit) \in SUBSET OnRecord
      /\ \A c \in OnRecord \ Latest(limit), d \in Latest(limit) : conn.event[c].nth < conn.event[d].nth
  BY <1>1, <1>2, <1>3 DEF Latest
<1> QED
  BY <1>4, StartRecord DEF Compare, RecordInv, Typed, TypeOK

(* An event is replayed: those that name it are still to come, for they    *)
(* are younger, and those it names are marked.                             *)
LEMMA ReplayRecord ==
  ASSUME RecordInv, Typed', NEW c \in Claims, ReplayEvent(c)
  PROVE  RecordInv'
<1> USE DEF RecordInv
<1> DEFINE u == Upserted(c, conn)
           names == conn.event[c].names
<1>1. /\ replay.on /\ c \in replay.todo /\ replay \in Replays /\ conn \in Databases
      /\ \A d \in replay.todo : conn.event[c].nth <= conn.event[d].nth
      /\ up /\ Quiet /\ \A x \in Claims : ReplayFor(x)
  BY DEF ReplayEvent, Oldest, Replaying, Typed, TypeOK
<1>2. /\ disk' = disk /\ up' = up /\ writer' = writer /\ cut' = cut /\ torn' = torn
      /\ replay'.on /\ replay'.todo = replay.todo \ {c} /\ replay'.left = replay.left
  BY <1>1 DEF ReplayEvent, Replays
<1>3. /\ u \in Databases /\ u.row = conn.row /\ u.receipts = conn.receipts
      /\ u.event = conn.event /\ u.count = conn.count
      /\ \A d \in Claims : u.l0[d] =
           IF d # c THEN conn.l0[d] ELSE IF Safe(c, conn) THEN "answer" ELSE "held"
  BY <1>1, UpsertType
<1>4. conn' = Marked(names, u)
  BY DEF ReplayEvent
<1> HIDE DEF u
<1>5. /\ conn'.row = conn.row /\ conn'.receipts = conn.receipts
      /\ conn'.event = conn.event /\ conn'.count = conn.count
      /\ \A d \in Claims : conn'.l0[d] = IF d \in names /\ u.l0[d] # "absent" THEN "held" ELSE u.l0[d]
  BY <1>3, <1>4, MarkType
<1>6. conn.event[c] # None /\ conn.l0[c] = "absent" /\ c \notin replay.left
  BY <1>1 DEF ReplayFor
<1>7. \A d \in Claims : conn.event[d] # None => conn.event[d].nth \in Nat /\ conn.event[d].names \subseteq Claims
  BY <1>1 DEF Databases, Events
<1>8. c \notin names
  BY <1>6, <1>7 DEF Ordered, OrderedFor
<1>9. /\ conn'.l0[c] = IF Safe(c, conn) THEN "answer" ELSE "held"
      /\ \A d \in Claims : d # c => conn'.l0[d] = IF d \in names /\ conn.l0[d] # "absent" THEN "held" ELSE conn.l0[d]
  BY <1>3, <1>5, <1>8
<1>10. Sound(conn')
  <2> SUFFICES ASSUME NEW x \in Claims PROVE SoundFor(x, conn')
    BY DEF Sound
  <2>1. SoundFor(x, conn) /\ (Safe(x, conn) <=> Safe(x, conn'))
    BY <1>5, SafeDepends DEF Sound
  <2>2. Superseded(x, conn) => Superseded(x, conn')
    BY <1>5, SupersededGrows
  <2>3. x \in names => Superseded(x, conn')
    BY <1>5, <1>6 DEF Superseded
  <2>4. CASE x = c
    BY <1>5, <1>6, <1>9, <2>1, <2>4 DEF SoundFor
  <2>5. CASE x # c
    BY <1>5, <1>9, <2>1, <2>2, <2>3, <2>5 DEF SoundFor
  <2> QED BY <2>4, <2>5
<1>11. Sound(conn)' /\ Sound(disk)' /\ Ordered(conn)' /\ Ordered(disk)'
  BY <1>2, <1>5, <1>10, OrderKept
<1>12. \A t \in Threads : ~Recording(t) /\ ~Recording(t)'
  BY <1>1, <1>2 DEF Recording, Quiet
<1>13. \A x \in Claims : ~BeingRecorded(x) /\ ~BeingRecorded(x)'
  BY <1>12 DEF BeingRecorded
<1>14. Ahead' /\ DownIsQuiet' /\ Parities' /\ Cuts'
  BY <1>1, <1>2, <1>5, <1>13 DEF Ahead, AheadFor, DownIsQuiet, Parities, Parity, ParityFor,
                                 Cuts, CutFor, OlderThanRest
<1>15. Writers'
  BY <1>1, <1>2, <1>5, <1>12 DEF Writers, WriterFor, Quiet
<1>16. ASSUME NEW x \in Claims PROVE ReplayFor(x)'
  <2>1. ReplayFor(x) /\ (x # c => (conn'.l0[x] = "absent" <=> conn.l0[x] = "absent"))
    BY <1>1, <1>9
  <2>2. conn'.l0[x] # "absent" => \A d \in Claims : d \in replay'.todo => conn'.event[x].nth <= conn'.event[d].nth
    BY <1>1, <1>2, <1>5, <2>1 DEF ReplayFor
  <2>3. ASSUME conn'.l0[x] = "answer", NEW d \in Claims, conn'.l0[d] # "absent"
        PROVE  x \notin conn'.event[d].names
    <3>1. CASE d = c
      BY <1>5, <1>8, <1>9, <2>3, <3>1
    <3>2. CASE d # c /\ x # c
      <4>1. conn.l0[x] = "answer" /\ conn.l0[d] # "absent"
        BY <1>9, <2>3, <3>2
      <4> QED BY <1>5, <2>1, <4>1 DEF ReplayFor
    <3>3. CASE d # c /\ x = c
      <4>1. conn.l0[d] # "absent"
        BY <1>9, <2>3, <3>3
      <4>2. ReplayFor(d) /\ SoundFor(d, conn) /\ OrderedFor(d, conn)
        BY <1>1 DEF Sound, Ordered
      <4>3. conn.event[d] # None /\ conn.event[d].nth <= conn.event[c].nth
        BY <1>1, <4>1, <4>2 DEF ReplayFor, SoundFor
      <4> QED BY <1>5, <1>6, <1>7, <3>3, <4>2, <4>3 DEF OrderedFor
    <3> QED BY <3>1, <3>2, <3>3
  <2>4. x \in replay'.todo \cup replay'.left => x # c /\ x \in replay.todo \cup replay.left
    BY <1>2, <1>6
  <2>5. conn'.event[x] # None /\ x \notin replay'.todo \cup replay'.left => conn'.l0[x] # "absent"
    BY <1>2, <1>5, <1>9, <2>1 DEF ReplayFor
  <2>6. x \in replay'.left => x \notin replay'.todo /\ OlderThanRest(x, replay.left)'
    BY <1>2, <1>5, <2>1 DEF ReplayFor, OlderThanRest
  <2>7. x \in replay'.todo \cup replay'.left => conn'.event[x] # None /\ conn'.l0[x] = "absent"
    BY <1>5, <2>1, <2>4 DEF ReplayFor
  <2> QED BY <2>2, <2>3, <2>5, <2>6, <2>7 DEF ReplayFor
<1>17. Replaying'
  BY <1>1, <1>2, <1>16 DEF Replaying, Quiet
<1> QED
  BY <1>11, <1>14, <1>15, <1>17

\* The rebuild is committed: what it replayed is projected, the rest is cut.
LEMMA EndRecord ==
  ASSUME RecordInv, Typed', EndReplay
  PROVE  RecordInv'
<1> USE DEF RecordInv
<1>1. /\ replay.on /\ replay.todo = {} /\ conn' = conn /\ disk' = conn' /\ cut' = replay.left
      /\ ~replay'.on /\ up' = up /\ writer' = writer
      /\ up /\ Quiet /\ \A x \in Claims : ReplayFor(x)
  BY DEF EndReplay, Commit, NoReplay, Replaying
<1>2. Sound(conn)' /\ Sound(disk)' /\ Ordered(conn)' /\ Ordered(disk)' /\ Ahead' /\ DownIsQuiet' /\ Replaying'
  BY <1>1, CommitAhead DEF DownIsQuiet, Replaying
<1>3. \A t \in Threads : ~Recording(t)'
  BY <1>1 DEF Recording, Quiet
<1>4. Writers'
  BY <1>1, <1>3 DEF Writers, WriterFor, Quiet
<1>5. Cuts'
  BY <1>1, <1>3 DEF Cuts, CutFor, ReplayFor, OlderThanRest, BeingRecorded
<1>6. ASSUME NEW x \in Claims PROVE ParityFor(x, conn)'
  <2>1. ReplayFor(x)
    BY <1>1
  <2>2. conn.event[x] # None => conn.l0[x] # "absent" \/ x \in replay.left
    BY <1>1, <2>1 DEF ReplayFor
  <2>3. ASSUME conn.l0[x] = "answer", NEW d \in Claims, conn.event[d] # None, x \in conn.event[d].names
        PROVE  FALSE
    <3>1. d \in replay.left /\ ReplayFor(d)
      BY <1>1, <2>1, <2>3 DEF ReplayFor
    <3>2. x \notin replay.left /\ conn.event[x] # None
      BY <2>1, <2>3 DEF ReplayFor, Sound, SoundFor
    <3>3. conn.event[d].nth < conn.event[x].nth
      BY <3>1, <3>2 DEF ReplayFor, OlderThanRest
    <3>4. conn.event[x].nth < conn.event[d].nth
      BY <2>3 DEF Ordered, OrderedFor
    <3>5. conn.event[x].nth \in Nat /\ conn.event[d].nth \in Nat
      BY <2>3, <3>2 DEF Typed, TypeOK, Databases, Events
    <3> QED BY <3>3, <3>4, <3>5
  <2> QED BY <1>1, <2>2, <2>3 DEF ParityFor
<1>7. Parities'
  BY <1>1, <1>6 DEF Parities, Parity, ParityFor
<1> QED
  BY <1>2, <1>4, <1>5, <1>7

(* The process stops.  What the disk keeps without its projection was      *)
(* being recorded, and then the record is torn.                            *)
LEMMA StopRecord ==
  ASSUME RecordInv, Typed', Stop
  PROVE  RecordInv'
<1> USE DEF RecordInv
<1>1. /\ disk' = disk /\ conn' = disk /\ up' = FALSE /\ cut' = cut /\ ~replay'.on
      /\ \A t \in Threads : writer'[t].at = "idle" /\ writer'[t].names = {}
  BY DEF Stop, Idle, NoReplay
<1>2. Sound(conn)' /\ Sound(disk)' /\ Ordered(conn)' /\ Ordered(disk)' /\ Ahead' /\ DownIsQuiet' /\ Replaying'
  BY <1>1, CommitAhead DEF DownIsQuiet, Quiet, Replaying
<1>3. Writers'
  BY <1>1 DEF Writers, WriterFor, Recording
<1>4. \A x \in Claims : disk.event[x] # None => conn.event[x] = disk.event[x]
  BY DEF Ahead, AheadFor
<1>5. Cuts'
  BY <1>1, <1>4 DEF Cuts, CutFor, OlderThanRest, BeingRecorded, Recording
<1>6. Parities'
  <2> SUFFICES ASSUME ~torn', NEW x \in Claims PROVE ParityFor(x, disk)'
    BY <1>1 DEF Parities, Parity, ParityFor
  <2>1. ~torn /\ \A y \in Claims : disk.event[y] # None => ~BeingRecorded(y)
    BY DEF Stop, BeingRecorded, Recording
  <2> QED BY <1>1, <2>1 DEF Parities, Parity, ParityFor
<1> QED
  BY <1>2, <1>3, <1>5, <1>6

LEMMA OpenRecord ==
  ASSUME RecordInv, Typed', Open
  PROVE  RecordInv'
<1> USE DEF RecordInv
<1>1. /\ Quiet /\ writer' = writer /\ disk' = disk /\ cut' = cut /\ torn' = torn /\ up' /\ ~replay.on
  BY DEF Open, DownIsQuiet, Replaying
<1>2. CASE StartReplay(OnRecord)
  <2>1. OnRecord \in SUBSET OnRecord /\ OnRecord \ OnRecord = {}
    OBVIOUS
  <2> QED BY <1>1, <1>2, <2>1, StartRecord
<1>3. CASE conn' = conn /\ replay' = replay
  BY <1>1, <1>3 DEF DownIsQuiet, Ahead, AheadFor, Writers, WriterFor, Cuts, CutFor, OlderThanRest,
       Replaying, Parities, Parity, ParityFor, BeingRecorded, Recording
<1> QED
  BY <1>2, <1>3 DEF Open

LEMMA StepRecord == RecordInv /\ [Next]_vars => RecordInv'
<1> SUFFICES ASSUME RecordInv, [Next]_vars PROVE RecordInv'
  OBVIOUS
<1>1. Typed'
  BY StepTyped DEF RecordInv
<1>2. CASE UNCHANGED vars
  <2>1. disk' = disk /\ conn' = conn /\ up' = up /\ writer' = writer /\ torn' = torn
        /\ replay' = replay /\ cut' = cut
    BY <1>2 DEF vars
  <2> QED BY <1>1, <2>1 DEF RecordInv, DownIsQuiet, Quiet, Ahead, AheadFor, Writers, WriterFor,
            Cuts, CutFor, OlderThanRest, Replaying, ReplayFor, Parities, Parity, ParityFor,
            BeingRecorded, Recording
<1>3. CASE Rebuild
  BY <1>1, <1>3, CompareRecord, ReplayRecord, EndRecord DEF Rebuild
<1>4. ASSUME NEW t \in Threads, Record(t) PROVE RecordInv'
  BY <1>1, <1>4, WriteRowRecord, RefusedRecord, ReceiptRecord, InsertRecord, IgnoreRecord,
     ProjectRecord, MarkRecord DEF Record
<1>5. OnRecord \subseteq Claims
  BY DEF OnRecord
<1> QED
  BY <1>1, <1>2, <1>3, <1>4, <1>5, BeginRecord, NeighbourRecord, StopRecord, OpenRecord DEF Next

-----------------------------------------------------------------------------
(* Whatever was committed half-way and whenever the process died, what     *)
(* readers may answer from has its event, its receipt, an accepting        *)
(* decision and a row of its slot.                                         *)
THEOREM AnswersAreBacked == Spec => []AnswerIsBacked
<1>1. RecordInv => AnswerIsBacked
  <2> SUFFICES ASSUME RecordInv, NEW c \in Claims, disk.l0[c] = "answer"
               PROVE  /\ disk.event[c] # None /\ c \in disk.receipts
                      /\ Adm(c) /\ disk.row[KeyOf(c)] # None
    BY DEF AnswerIsBacked
  <2>1. SoundFor(c, disk) /\ disk \in Databases
    BY DEF RecordInv, Sound, Typed, TypeOK
  <2>2. Adm(c) /\ disk.event[c] # None
    BY <2>1, SafeIsAnswerable DEF SoundFor
  <2> QED BY <2>1, <2>2 DEF SoundFor
<1> QED
  BY <1>1, InitRecord, StepRecord, PTL DEF Spec

(* At rest the snapshot is what a rebuild of the events gives, but for the *)
(* oldest ones if the last rebuild had a limit, and unless a crash tore a  *)
(* record: the incremental projection, the replay of a rebuild and         *)
(* rebuild_current_truth_view never drift apart otherwise.                 *)
THEOREM SnapshotKeepsParity == Spec => []ParityAtRest
<1>1. RecordInv => ParityAtRest
  <2> SUFFICES ASSUME RecordInv, up, Quiet, ~replay.on, ~torn
               PROVE  /\ conn.l0 = [c \in Claims |-> IF c \in cut THEN "absent" ELSE Projected(c, conn)]
                      /\ \A c \in cut, d \in OnRecord \ cut : conn.event[c].nth < conn.event[d].nth
    BY DEF ParityAtRest
  <2>1. conn.l0 \in [Claims -> {"absent", "answer", "held"}]
    BY DEF RecordInv, Typed, TypeOK, Databases
  <2>2. ASSUME NEW c \in Claims
        PROVE conn.l0[c] = IF c \in cut THEN "absent" ELSE Projected(c, conn)
    <3>1. SoundFor(c, conn) /\ ParityFor(c, conn) /\ CutFor(c) /\ \A d : ~BeingRecorded(d)
      BY DEF RecordInv, Sound, Parities, Parity, Cuts, BeingRecorded, Recording, Quiet
    <3>2. Projected(c, conn) = IF conn.event[c] = None THEN "absent"
                               ELSE IF Safe(c, conn) /\ ~Superseded(c, conn) THEN "answer" ELSE "held"
      BY DEF Projected
    <3>3. conn.l0[c] \in {"absent", "answer", "held"}
      BY <2>1
    <3>4. conn.l0[c] = "answer" => ~Superseded(c, conn)
      BY <3>1 DEF ParityFor, Superseded
    <3> QED BY <3>1, <3>2, <3>3, <3>4 DEF SoundFor, ParityFor, CutFor
  <2>3. \A c \in cut, d \in OnRecord \ cut : conn.event[c].nth < conn.event[d].nth
    BY DEF RecordInv, Cuts, CutFor, OlderThanRest, OnRecord, Typed, TypeOK
  <2> QED BY <2>1, <2>2, <2>3
<1> QED
  BY <1>1, InitRecord, StepRecord, PTL DEF Spec

\* What is held back has a reason to be, and a reason once given stays.
LEMMA HeldStays ==
  ASSUME NEW a, NEW b, NEW c, a.event[c] # None, Projected(c, a) = "held",
         \A d \in Claims \cup {c} : a.event[d] # None => b.event[d] = a.event[d]
  PROVE  Projected(c, b) = "held"
<1>1. b.event[c] = a.event[c]
  OBVIOUS
<1>2. Safe(c, a) <=> Safe(c, b)
  BY <1>1, SafeDepends
<1>3. Superseded(c, a) => Superseded(c, b)
  BY SupersededGrows
<1> QED
  BY <1>1, <1>2, <1>3 DEF Projected

\* A rebuild leaves every event projected or cut.
LEMMA ReplayProjects ==
  ASSUME RecordInv, RecordInv', EndReplay, NEW c \in Claims
  PROVE  /\ disk'.l0[c] = "answer" => Projected(c, disk') # "held"
         /\ disk'.event[c] # None => disk'.l0[c] # "absent" \/ c \in cut'
<1>1. ~torn' /\ ParityFor(c, disk)' /\ SoundFor(c, disk)'
  BY DEF EndReplay, RecordInv, Parities, Parity, Sound
<1>2. ~BeingRecorded(c)' /\ \A d \in Claims : ~BeingRecorded(d)'
  BY DEF BeingRecorded, Recording, RecordInv, Replaying, EndReplay, Quiet
<1>3. disk'.l0[c] = "answer" => ~Superseded(c, disk')
  BY <1>1, <1>2 DEF ParityFor, Superseded
<1> QED
  BY <1>1, <1>2, <1>3 DEF ParityFor, SoundFor, Projected

(* A step that changes the disk leaves it as the connection is, with every *)
(* event it had; but for the end of a rebuild it withdraws no row, revives *)
(* none and leaves the cut alone.                                          *)
LEMMA DiskFollows ==
  ASSUME RecordInv, RecordInv', [Next]_vars, disk' # disk \/ cut' # cut
  PROVE  /\ disk' = conn' /\ \A c \in Claims : disk.event[c] # None => disk'.event[c] = disk.event[c]
         /\ ~replay'.on
         /\ \/ EndReplay
            \/ /\ cut' = cut
               /\ \A c \in Claims : /\ disk.l0[c] # "absent" => disk'.l0[c] # "absent"
                                    /\ disk.l0[c] = "held" => disk'.l0[c] # "answer"
<1> USE DEF RecordInv
<1>1. \A c \in Claims : AheadFor(c)
  BY DEF Ahead
<1>2. conn \in Databases
  BY DEF Typed, TypeOK
<1>3. CASE EndReplay
  <2>1. disk' = conn' /\ conn' = conn /\ ~replay'.on
    BY <1>3 DEF EndReplay, Commit, NoReplay
  <2> QED BY <1>1, <1>3, <2>1 DEF AheadFor
<1>4. ASSUME NEW t \in Threads, WriteRow(t) \/ Receipt(t) \/ IgnoreEvent(t)
      PROVE  disk' = conn' /\ conn'.event = conn.event /\ conn'.l0 = conn.l0 /\ cut' = cut
             /\ replay' = replay /\ ~replay.on
  BY <1>2, <1>4, NoReplayAtWork DEF WriteRow, Receipt, IgnoreEvent, Commit, Databases
<1>5. CASE NeighbourCommit
  <2>1. disk' = conn' /\ conn' = conn /\ cut' = cut /\ replay' = replay /\ ~replay.on
    BY <1>5 DEF NeighbourCommit, Commit
  <2> QED BY <1>1, <2>1 DEF AheadFor
<1>6. ASSUME NEW t \in Threads, MarkPrior(t)
      PROVE  /\ disk' = conn' /\ conn'.event = conn.event /\ cut' = cut /\ replay' = replay /\ ~replay.on
             /\ \A c \in Claims : conn'.l0[c] = conn.l0[c] \/ (conn'.l0[c] = "held" /\ conn.l0[c] # "absent")
  BY <1>2, <1>6, MarkType, NoReplayAtWork DEF MarkPrior, Commit
<1>7. CASE \E t \in Threads : WriteRow(t) \/ Receipt(t) \/ IgnoreEvent(t)
  <2>1. disk' = conn' /\ conn'.event = conn.event /\ conn'.l0 = conn.l0 /\ cut' = cut
        /\ replay' = replay /\ ~replay.on
    BY <1>4, <1>7
  <2> QED BY <1>1, <2>1 DEF AheadFor
<1>8. CASE \E t \in Threads : MarkPrior(t)
  <2>1. /\ disk' = conn' /\ conn'.event = conn.event /\ cut' = cut /\ replay' = replay /\ ~replay.on
        /\ \A c \in Claims : conn'.l0[c] = conn.l0[c] \/ (conn'.l0[c] = "held" /\ conn.l0[c] # "absent")
    BY <1>6, <1>8
  <2> QED BY <1>1, <2>1 DEF AheadFor
<1> QED
  BY <1>3, <1>5, <1>7, <1>8 DEF Next, Record, Rebuild, vars, Begin, WriteRefused, InsertEvent,
     ProjectL0, Compare, ReplayEvent, Stop, Open

(* The durable snapshot implements CurrentTruth: in every interleaving of  *)
(* records, commits, rebuilds, limited or not, and crashes, an event is    *)
(* answered from only if it may be, from the moment it is shown, and never *)
(* again once held back, even if a rebuild withdraws it for a while.       *)
THEOREM ImplementsCurrentTruth == Spec => NeverRevived
<1> DEFINE published == {c \in Claims : disk.l0[c] # "absent"}
           answers == {c \in Claims : disk.l0[c] = "answer"}
           retired == {c \in Claims : disk.l0[c] = "held" \/ (c \in cut /\ Projected(c, disk) = "held")}
<1>1. Init => CT!Init
  BY DEF Init, Empty, CT!Init
<1>2. RecordInv /\ [Next]_vars => [CT!Next]_(CT!vars)
  <2> SUFFICES ASSUME RecordInv, [Next]_vars PROVE CT!Next \/ CT!vars' = CT!vars
    OBVIOUS
  <2>1. RecordInv'
    BY StepRecord
  <2>2. CASE disk' = disk /\ cut' = cut
    BY <2>2 DEF CT!vars
  <2>3. CASE disk' # disk \/ cut' # cut
    <3>0. \/ EndReplay
          \/ /\ cut' = cut
             /\ \A c \in Claims : /\ disk.l0[c] # "absent" => disk'.l0[c] # "absent"
                                  /\ disk.l0[c] = "held" => disk'.l0[c] # "answer"
      BY <2>1, <2>3, DiskFollows
    <3>1. \A c \in Claims : disk.event[c] # None => disk'.event[c] = disk.event[c]
      BY <2>1, <2>3, DiskFollows
    <3>2. disk \in Databases /\ disk' \in Databases /\ cut \subseteq Claims /\ cut' \subseteq Claims
      BY <2>1 DEF RecordInv, Typed, TypeOK
    <3>3. \A c \in Claims : /\ disk.l0[c] \in {"absent", "answer", "held"}
                            /\ disk'.l0[c] \in {"absent", "answer", "held"}
      BY <3>2 DEF Databases
    <3>4. ASSUME NEW c \in Claims, disk'.l0[c] = "answer"
          PROVE  c \in Lasting /\ c \notin cut'
      <4>1. SoundFor(c, disk)' /\ CutFor(c)'
        BY <2>1 DEF RecordInv, Sound, Cuts
      <4> QED BY <3>2, <3>4, <4>1, SafeIsAnswerable DEF SoundFor, CutFor, Lasting
    <3>5. ASSUME NEW c \in Claims, disk.l0[c] = "held" \/ (c \in cut /\ Projected(c, disk) = "held")
          PROVE  /\ disk'.l0[c] # "answer" /\ Projected(c, disk') = "held"
                 /\ disk'.l0[c] = "absent" => c \in cut'
      <4>1. SoundFor(c, disk) /\ CutFor(c) /\ CutFor(c)' /\ (disk.event[c] # None => disk'.event[c] = disk.event[c])
        BY <2>1, <3>1 DEF RecordInv, Sound, Cuts
      <4>2. disk.event[c] # None /\ Projected(c, disk) = "held"
        BY <3>5, <4>1 DEF SoundFor, CutFor, Projected
      <4>3. Projected(c, disk') = "held" /\ disk'.event[c] # None
        BY <3>1, <4>1, <4>2, HeldStays
      <4>4. CASE EndReplay
        BY <2>1, <4>3, <4>4, ReplayProjects
      <4>5. CASE cut' = cut /\ (disk.l0[c] # "absent" => disk'.l0[c] # "absent")
                 /\ (disk.l0[c] = "held" => disk'.l0[c] # "answer")
        <5>1. disk'.l0[c] \in {"absent", "answer", "held"} /\ "held" # "absent"
          BY <3>3
        <5>2. CASE disk.l0[c] = "held"
          BY <4>3, <4>5, <5>1, <5>2
        <5>3. CASE c \in cut /\ disk.l0[c] # "held"
          <6>1. c \in cut'
            BY <4>5, <5>3
          <6>2. disk'.l0[c] # "answer"
            BY <4>1, <6>1 DEF CutFor
          <6> QED BY <4>3, <6>1, <6>2
        <5> QED BY <3>5, <5>2, <5>3
      <4>6. \/ EndReplay
            \/ cut' = cut /\ (disk.l0[c] # "absent" => disk'.l0[c] # "absent")
                 /\ (disk.l0[c] = "held" => disk'.l0[c] # "answer")
        BY <3>0, <3>5
      <4> QED BY <4>4, <4>5, <4>6
    <3>6. answers' \subseteq published' \ retired'
      BY <3>3, <3>4
    <3>7. answers' \ answers \subseteq Lasting \ published
      BY <3>3, <3>4, <3>5
    <3>8. retired \cup (published' \ answers') \subseteq retired'
      BY <3>3, <3>5
    <3> QED BY <3>6, <3>7, <3>8 DEF CT!Next
  <2> QED BY <2>2, <2>3
<1> QED
  BY <1>1, <1>2, InitRecord, StepRecord, PTL DEF Spec, NeverRevived, CT!Spec

-----------------------------------------------------------------------------
(***************************************************************************)
(* What would keep the answers of a slot apart: an accepted claim that     *)
(* names every accepted event of another value that its slot has on        *)
(* record.  The reconciler does not do so, and finding 2 shows the price.  *)
(***************************************************************************)
Rival(c, d) == Adm(c) /\ Adm(d) /\ SlotOf(c) = SlotOf(d) /\ ValueOf[c] # ValueOf[d]

NamesRivals ==
  \A t \in Threads, c \in Claims, names \in SUBSET Claims :
    Begin(t, c, names) => \A d \in OnRecord : Rival(c, d) => d \in names

\* Of two rivals on record, one names the other; one under way names all there are.
RivalsLinked ==
  /\ \A c, d \in Claims :
       Rival(c, d) /\ conn.event[c] # None /\ conn.event[d] # None =>
         d \in conn.event[c].names \/ c \in conn.event[d].names
  /\ \A t \in Threads : writer[t].at \in {"row", "receipt", "event"} =>
       \A d \in Claims : Rival(writer[t].claim, d) /\ conn.event[d] # None => d \in writer[t].names

LEMMA InitLinked == Init => RivalsLinked
  BY DEF Init, RivalsLinked, Empty, Idle

\* What a step that records no event and begins no claim does to the links.
LEMMA LinksKept ==
  ASSUME RivalsLinked,
         \A c \in Claims : conn'.event[c] = None \/ conn'.event[c] = conn.event[c],
         \A t \in Threads : writer'[t].at \in {"row", "receipt", "event"} =>
           /\ writer[t].at \in {"row", "receipt", "event"}
           /\ writer'[t].claim = writer[t].claim /\ writer'[t].names = writer[t].names
  PROVE  RivalsLinked'
  BY DEF RivalsLinked, Rival, Adm, SlotOf

LEMMA BeginLinked ==
  ASSUME RivalsLinked, TypeOK, NamesRivals, NEW t \in Threads, NEW c \in Claims,
         NEW names \in SUBSET Claims, Begin(t, c, names)
  PROVE  RivalsLinked'
<1>1. /\ conn' = conn /\ \A u \in Threads : u # t => writer'[u] = writer[u]
      /\ writer'[t].claim = c /\ writer'[t].names = names
  BY DEF Begin, TypeOK
<1>2. \A d \in Claims : Rival(c, d) /\ conn.event[d] # None => d \in names
  BY DEF NamesRivals, OnRecord
<1> QED
  BY <1>1, <1>2 DEF RivalsLinked, Rival, Adm, SlotOf

LEMMA InsertLinked ==
  ASSUME RivalsLinked, TypeOK, \A t, u \in Threads : t = u,
         NEW t \in Threads, InsertEvent(t)
  PROVE  RivalsLinked'
<1> DEFINE c == writer[t].claim
<1>1. /\ c \in Claims /\ writer[t].at = "event" /\ writer \in [Threads -> Threading]
      /\ conn \in Databases
  BY DEF InsertEvent, TypeOK
<1>2. /\ conn'.event[c].names = writer[t].names
      /\ \A d \in Claims : d # c => conn'.event[d] = conn.event[d]
      /\ writer'[t].at = "l0"
  BY <1>1 DEF InsertEvent, Move, Databases, Threading
<1>3. \A d \in Claims : Rival(c, d) => d # c
  BY DEF Rival
<1>4. \A d \in Claims : Rival(c, d) /\ conn.event[d] # None => d \in writer[t].names
  BY <1>1 DEF RivalsLinked
<1>5. ASSUME NEW a \in Claims, NEW b \in Claims, Rival(a, b),
             conn'.event[a] # None, conn'.event[b] # None
      PROVE  b \in conn'.event[a].names \/ a \in conn'.event[b].names
  <2>1. Rival(b, a)
    BY <1>5 DEF Rival
  <2>2. CASE a # c /\ b # c
    BY <1>2, <1>5, <2>2 DEF RivalsLinked
  <2>3. CASE a = c
    BY <1>2, <1>3, <1>4, <1>5, <2>3
  <2>4. CASE b = c
    BY <1>2, <1>3, <1>4, <1>5, <2>1, <2>4
  <2> QED BY <2>2, <2>3, <2>4
<1>6. \A u \in Threads : writer'[u].at = "l0"
  BY <1>2
<1> QED
  BY <1>5, <1>6 DEF RivalsLinked, Rival, Adm, SlotOf

LEMMA StepLinked ==
  ASSUME \A t, u \in Threads : t = u, RecordInv, RivalsLinked, [Next]_vars, [NamesRivals]_vars
  PROVE  RivalsLinked'
<1>1. TypeOK /\ conn \in Databases /\ writer \in [Threads -> Threading]
  BY DEF RecordInv, Typed, TypeOK
<1>2. ASSUME NEW t \in Threads, NEW c \in Claims, NEW names \in SUBSET Claims, Begin(t, c, names),
             NamesRivals
      PROVE  RivalsLinked'
  BY <1>1, <1>2, BeginLinked
<1>3. ASSUME NEW t \in Threads, InsertEvent(t) PROVE RivalsLinked'
  BY <1>1, <1>3, InsertLinked
<1>4. ASSUME NEW t \in Threads, WriteRow(t) \/ Receipt(t) \/ WriteRefused(t) PROVE RivalsLinked'
  <2>1. conn'.event = conn.event
    BY <1>1, <1>4 DEF WriteRow, Receipt, WriteRefused, Commit, Databases
  <2>2. \A u \in Threads : writer'[u].at \in {"row", "receipt", "event"} =>
          /\ writer[u].at \in {"row", "receipt", "event"}
          /\ writer'[u].claim = writer[u].claim /\ writer'[u].names = writer[u].names
    <3>1. CASE WriteRow(t)
      BY <1>1, <3>1 DEF WriteRow, Threading
    <3>2. CASE Receipt(t)
      BY <1>1, <3>2 DEF Receipt, Move, Idle, Threading
    <3>3. CASE WriteRefused(t)
      BY <1>1, <3>3 DEF WriteRefused, Idle, Threading
    <3> QED BY <1>4, <3>1, <3>2, <3>3
  <2> QED BY <2>1, <2>2, LinksKept
<1>5. ASSUME NEW t \in Threads, IgnoreEvent(t) \/ ProjectL0(t) \/ MarkPrior(t) PROVE RivalsLinked'
  <2>1. conn'.event = conn.event
    BY <1>1, <1>5, UpsertType, MarkType DEF IgnoreEvent, ProjectL0, MarkPrior, Commit, TypeOK
  <2>2. \A u \in Threads : writer'[u].at \in {"row", "receipt", "event"} =>
          /\ writer[u].at \in {"row", "receipt", "event"}
          /\ writer'[u].claim = writer[u].claim /\ writer'[u].names = writer[u].names
    BY <1>1, <1>5 DEF IgnoreEvent, ProjectL0, MarkPrior, Move, Idle, Threading
  <2> QED BY <2>1, <2>2, LinksKept
<1>6. CASE NeighbourCommit \/ Rebuild \/ Open
  <2>1. \A events : StartReplay(events) => conn'.event = conn.event
    BY <1>1 DEF StartReplay, Databases
  <2>2. ASSUME NEW c \in Claims, ReplayEvent(c) PROVE conn'.event = conn.event /\ writer' = writer
    BY <1>1, <2>2, UpsertType, MarkType DEF ReplayEvent
  <2>3. conn'.event = conn.event /\ writer' = writer
    BY <1>1, <1>6, <2>1, <2>2 DEF NeighbourCommit, Rebuild, Compare, EndReplay, Open, Commit
  <2> QED BY <2>3, LinksKept
<1>7. CASE Stop
  <2>1. \A c \in Claims : disk.event[c] = None \/ disk.event[c] = conn.event[c]
    BY DEF RecordInv, Ahead, AheadFor
  <2>2. conn' = disk /\ \A t \in Threads : writer'[t].at = "idle"
    BY <1>7 DEF Stop, Idle
  <2> QED BY <2>1, <2>2, LinksKept
<1>8. CASE UNCHANGED vars
  BY <1>8, LinksKept DEF vars
<1>9. CASE Next /\ NamesRivals
  <2>1. OnRecord \subseteq Claims
    BY DEF OnRecord
  <2> QED BY <1>2, <1>3, <1>4, <1>5, <1>6, <1>7, <1>9, <2>1 DEF Next, Record
<1> QED BY <1>8, <1>9

(* With one writer, whose accepted claims name the events of other values  *)
(* that their slot has on record, no exclusive slot is answered from with  *)
(* two values, but after a crash that tore a record.  With two writers     *)
(* this is not enough: neither of two events under way can name the other. *)
THEOREM OneAnswerIfNamed ==
  ASSUME \A t, u \in Threads : t = u
  PROVE  Spec /\ [][NamesRivals]_vars => [](torn \/ OneAnswerPerSlot)
<1>1. RecordInv /\ RivalsLinked /\ [Next]_vars /\ [NamesRivals]_vars => RivalsLinked'
  BY StepLinked
<1>2. RecordInv /\ RivalsLinked => torn \/ OneAnswerPerSlot
  <2> SUFFICES ASSUME RecordInv, RivalsLinked, ~torn, up, Quiet, ~replay.on,
                      NEW c \in Claims, NEW d \in Claims,
                      conn.l0[c] = "answer", conn.l0[d] = "answer", SlotOf(c) = SlotOf(d)
               PROVE  ValueOf[c] = ValueOf[d]
    BY DEF OneAnswerPerSlot
  <2>1. conn \in Databases /\ SoundFor(c, conn) /\ SoundFor(d, conn)
        /\ ParityFor(c, conn) /\ ParityFor(d, conn)
    BY DEF RecordInv, Typed, TypeOK, Sound, Parities, Parity
  <2>2. \A e \in Claims : ~BeingRecorded(e)
    BY DEF BeingRecorded, Recording, Quiet
  <2>3. Adm(c) /\ Adm(d) /\ conn.event[c] # None /\ conn.event[d] # None
    BY <2>1, SafeIsAnswerable DEF SoundFor
  <2>4. c \notin conn.event[d].names /\ d \notin conn.event[c].names
    BY <2>1, <2>2, <2>3 DEF ParityFor
  <2> QED BY <2>3, <2>4 DEF RivalsLinked, Rival
<1> QED
  BY <1>1, <1>2, InitLinked, InitRecord, StepRecord, PTL DEF Spec
=============================================================================
