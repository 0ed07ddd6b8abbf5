---------------------- MODULE CorpusPublicationProofs ----------------------
(***************************************************************************)
(* Proofs about CorpusPublication, for any set of documents and versions   *)
(* and any combination of faults.                                          *)
(***************************************************************************)
EXTENDS CorpusPublication, FiniteSetTheorems, TLAPS

USE AbsentAssumption

\* What each step of an operation may count on.
SectionsToCome == At("sections") => op.doc \in missed
OnJournal == op.at \in {"send", "sent", "failed"} => journal[op.doc] = "pending"
SentIsSnapshot ==
  At("sent") => /\ index[op.doc] = Snapshot
                /\ op.job = "deactivate" => op.doc \in emptied
RowAfterIndex == (At("row") /\ store = "mounted") => index[op.doc] = {}

RecordInv ==
  TypeOK /\ StaleIsOnRecord /\ SectionsToCome /\ OnJournal /\ SentIsSnapshot /\ RowAfterIndex

Reached == {"sections", "journal", "send", "sent", "failed", "row", "refresh"}

\* At a step that works on a document, op.doc is one.
LEMMA Working ==
  ASSUME TypeOK, op.at \in Reached
  PROVE  /\ op.doc \in Docs /\ op.queue \subseteq Docs
         /\ op.job \in {"ingest", "deactivate", "open"}
         /\ op = [job |-> op.job, at |-> op.at, doc |-> op.doc, queue |-> op.queue]
<1>1. op # Free /\ op.at # "next"
  BY DEF Free, Reached
<1> QED BY <1>1 DEF TypeOK, Idle

LEMMA CurrentType ==
  ASSUME TypeOK, NEW d \in Docs
  PROVE  Current(d) \subseteq Contents
  BY DEF TypeOK, Current

LEMMA InitType == Init => TypeOK
  BY DEF Init, TypeOK, Idle

\* Each action keeps every variable in its type.
LEMMA StepType == TypeOK /\ [Next]_vars => TypeOK'
<1> SUFFICES ASSUME TypeOK, [Next]_vars PROVE TypeOK'
  OBVIOUS
<1>1. ASSUME NEW d \in Docs, NEW c \in Contents, WriteRow(d, c) PROVE TypeOK'
  BY <1>1 DEF TypeOK, WriteRow, Idle, Free
<1>2. CASE ReplaceSections
  <2>1. op.doc \in Docs /\ op.job \in {"ingest", "deactivate", "open"} /\ op.queue \subseteq Docs
    BY <1>2, Working DEF ReplaceSections, At, Reached
  <2>2. hash[op.doc] \in Contents \cup {Absent}
    BY <2>1 DEF TypeOK
  <2>3. op' \in [job : {"ingest", "deactivate", "open"}, doc : Docs, queue : SUBSET Docs, at : Reached]
    BY <1>2, <2>1, Working DEF ReplaceSections, At, Reached, Goto
  <2> QED BY <1>2, <2>2, <2>3 DEF TypeOK, ReplaceSections, Reached
<1>3. ASSUME NEW d \in Docs, BeginDeactivate(d) PROVE TypeOK'
  BY <1>3 DEF TypeOK, BeginDeactivate, Idle, Free
<1>4. CASE DeactivateRow
  <2>1. op' \in [job : {"ingest", "deactivate", "open"}, doc : Docs, queue : SUBSET Docs, at : Reached]
    BY <1>4, Working DEF DeactivateRow, At, Reached, Goto
  <2>2. op.doc \in Docs
    BY <1>4, Working DEF DeactivateRow, At, Reached
  <2> QED BY <1>4, <2>1, <2>2 DEF TypeOK, DeactivateRow, Reached
<1>5. CASE RefreshEvidence \/ RefreshFails
  <2>1. evidence' \in [Docs -> Contents \cup {Absent}]
    BY <1>5 DEF TypeOK, RefreshEvidence, RefreshFails, Rewritten, Shown
  <2> QED BY <1>5, <2>1 DEF TypeOK, RefreshEvidence, RefreshFails, Idle
<1>6. CASE JournalPending
  <2>1. op' \in [job : {"ingest", "deactivate", "open"}, doc : Docs, queue : SUBSET Docs, at : Reached]
    BY <1>6, Working DEF JournalPending, At, Reached, Goto
  <2> QED BY <1>6, <2>1 DEF TypeOK, JournalPending, Reached
<1>7. CASE Publish
  <2>1. op' \in [job : {"ingest", "deactivate", "open"}, doc : Docs, queue : SUBSET Docs, at : Reached]
    BY <1>7, Working DEF Publish, At, Reached, Goto
  <2>2. Snapshot \subseteq Contents /\ op.doc \in Docs
    BY <1>7, Working, CurrentType DEF Publish, At, Reached, Snapshot
  <2>3. emptied' \subseteq Docs /\ index' \in [Docs -> SUBSET Contents]
    BY <1>7, <2>2 DEF TypeOK, Publish
  <2> QED BY <1>7, <2>1, <2>3 DEF TypeOK, Publish, Reached
<1>8. CASE PublishFails
  <2>1. op' \in [job : {"ingest", "deactivate", "open"}, doc : Docs, queue : SUBSET Docs, at : Reached]
    BY <1>8, Working DEF PublishFails, At, Reached, Goto
  <2>2. Snapshot \subseteq Contents /\ op.doc \in Docs
    BY <1>8, Working, CurrentType DEF PublishFails, At, Reached, Snapshot
  <2>3. index' \in [Docs -> SUBSET Contents]
    BY <1>8, <2>2 DEF TypeOK, PublishFails
  <2> QED BY <1>8, <2>1, <2>3 DEF TypeOK, PublishFails, Reached
<1>9. CASE JournalPublished
  <2>1. op.doc \in Docs /\ op.job \in {"ingest", "deactivate", "open"} /\ op.queue \subseteq Docs
        /\ op = [job |-> op.job, at |-> op.at, doc |-> op.doc, queue |-> op.queue]
    BY <1>9, Working DEF JournalPublished, At, Reached
  <2>2. CASE op.job \in {"ingest", "deactivate"}
    BY <1>9, <2>1, <2>2 DEF TypeOK, JournalPublished, Goto
  <2>3. CASE op.job = "open"
    BY <1>9, <2>1, <2>3 DEF TypeOK, JournalPublished, Goto
  <2> QED BY <2>1, <2>2, <2>3
<1>10. CASE JournalFailed
  BY <1>10 DEF TypeOK, JournalFailed, Idle
<1>11. CASE Open
  BY <1>11 DEF TypeOK, Open, OpenQueue
<1>12. CASE OpenUnmounted \/ Close \/ Crash
  BY <1>12 DEF TypeOK, OpenUnmounted, Close, Crash, Idle
<1>13. ASSUME NEW d \in Docs, ReplayNext(d) PROVE TypeOK'
  <2>1. op \in [job : {"open"}, at : {"next"}, doc : Docs \cup {NoDoc}, queue : SUBSET Docs]
    BY <1>13 DEF TypeOK, ReplayNext, At, Idle, Free
  <2> QED BY <1>13, <2>1 DEF TypeOK, ReplayNext
<1>14. CASE OpenDone
  BY <1>14 DEF TypeOK, OpenDone, Idle
<1>15. CASE Quarantine
  BY <1>15 DEF TypeOK, Quarantine, Idle
<1>16. CASE UNCHANGED vars
  BY <1>16 DEF TypeOK, vars, Idle
<1> QED
  BY <1>1, <1>2, <1>3, <1>4, <1>5, <1>6, <1>7, <1>8, <1>9, <1>10, <1>11, <1>12,
     <1>13, <1>14, <1>15, <1>16 DEF Next, Step

(* The corpus tables, the journal, the index and the operation in progress *)
(* keep their types.                                                       *)
THEOREM TypeCorrect == Spec => []TypeOK
  BY InitType, StepType, PTL DEF Spec

LEMMA InitRecord == Init => RecordInv
<1> SUFFICES ASSUME Init PROVE RecordInv
  OBVIOUS
<1>1. TypeOK
  BY InitType
<1> QED
  BY <1>1 DEF Init, RecordInv, StaleIsOnRecord, SectionsToCome, OnJournal, SentIsSnapshot,
     RowAfterIndex, At, Free, Current

LEMMA StepRecord == RecordInv /\ [Next]_vars => RecordInv'
<1> SUFFICES ASSUME RecordInv, [Next]_vars PROVE RecordInv'
  OBVIOUS
<1>type. TypeOK /\ TypeOK'
  BY StepType DEF RecordInv
<1> USE <1>type DEF RecordInv, StaleIsOnRecord, SectionsToCome, OnJournal, SentIsSnapshot,
         RowAfterIndex, At, Goto, Current
<1>1. ASSUME NEW d \in Docs, NEW c \in Contents, WriteRow(d, c) PROVE RecordInv'
  BY <1>1 DEF WriteRow, TypeOK
<1>2. CASE ReplaceSections
  BY <1>2, Working DEF ReplaceSections, Reached, TypeOK
<1>3. ASSUME NEW d \in Docs, BeginDeactivate(d) PROVE RecordInv'
  BY <1>3 DEF BeginDeactivate, TypeOK
<1>4. CASE DeactivateRow
  BY <1>4, Working DEF DeactivateRow, Reached, TypeOK
<1>5. CASE RefreshEvidence \/ RefreshFails
  BY <1>5 DEF RefreshEvidence, RefreshFails, Free
<1>6. CASE JournalPending
  BY <1>6, Working DEF JournalPending, Reached, TypeOK
<1>7. CASE Publish
  <2>1. /\ op.doc \in Docs /\ op'.at = "sent" /\ op'.job = op.job /\ op'.doc = op.doc
        /\ index' = [index EXCEPT ![op.doc] = Snapshot] /\ index \in [Docs -> SUBSET Contents]
        /\ emptied' = IF op.job = "deactivate" THEN emptied \cup {op.doc} ELSE emptied \ {op.doc}
        /\ journal[op.doc] = "pending"
        /\ active' = active /\ sections' = sections /\ journal' = journal /\ missed' = missed
    BY <1>7, Working DEF Publish, Reached, TypeOK
  <2>2. index'[op.doc] = Snapshot /\ Snapshot' = Snapshot
    BY <2>1 DEF Snapshot
  <2>3. StaleIsOnRecord'
    <3> SUFFICES ASSUME NEW d \in Docs, d \notin missed
                 PROVE  \/ journal[d] \in {"pending", "failed"}
                        \/ /\ index'[d] \subseteq Current(d)
                           /\ Current(d) \subseteq index'[d] \/ d \in emptied'
      BY <2>1
    <3> QED BY <2>1
  <2>4. SentIsSnapshot'
    BY <2>1, <2>2
  <2> QED BY <2>1, <2>3, <2>4
<1>8. CASE PublishFails
  BY <1>8, Working DEF PublishFails, Reached, TypeOK
<1>9. CASE JournalPublished
  BY <1>9, Working DEF JournalPublished, Reached, TypeOK, Snapshot
<1>10. CASE JournalFailed
  BY <1>10, Working DEF JournalFailed, Reached, TypeOK, Free
<1>11. CASE Open
  BY <1>11 DEF Open
<1>12. CASE OpenUnmounted \/ Close \/ Crash
  <2>1. CASE OpenUnmounted
    BY <2>1 DEF OpenUnmounted, Snapshot
  <2>2. CASE Close \/ Crash
    BY <2>2 DEF Close, Crash, Idle, Free
  <2> QED BY <1>12, <2>1, <2>2
<1>13. ASSUME NEW d \in Docs, ReplayNext(d) PROVE RecordInv'
  BY <1>13 DEF ReplayNext
<1>14. CASE OpenDone
  BY <1>14 DEF OpenDone, Free
<1>15. CASE Quarantine
  BY <1>15 DEF Quarantine, Idle, Free, TypeOK
<1>16. CASE UNCHANGED vars
  BY <1>16 DEF vars, Snapshot
<1> QED
  BY <1>1, <1>2, <1>3, <1>4, <1>5, <1>6, <1>7, <1>8, <1>9, <1>10, <1>11, <1>12,
     <1>13, <1>14, <1>15, <1>16 DEF Next, Step

(* Whatever fails, stops or is replayed: an index entry that is older than *)
(* SQLite, or should be gone, has a journal row that says so, unless its   *)
(* change never got to the journal.                                        *)
THEOREM StaleStaysOnRecord == Spec => []StaleIsOnRecord
<1>1. RecordInv => StaleIsOnRecord
  BY DEF RecordInv
<1> QED BY <1>1, InitRecord, StepRecord, PTL DEF Spec

-----------------------------------------------------------------------------
\* With a mounted backend, whoever is pending is being worked on or queued.
InHand(d) ==
  \/ op.job = "open" /\ d \in op.queue
  \/ op.doc = d /\ op.at \in {"sections", "journal", "send", "sent", "failed"}

PendingInv ==
  /\ TypeOK
  /\ op.at \in {"sections", "row", "refresh"} => op.job # "open"
  /\ store = "mounted" =>
       \A d \in Docs : (active[d] /\ journal[d] = "pending") => InHand(d)

LEMMA InitPending == Init => PendingInv
  BY InitType DEF Init, PendingInv, Free

LEMMA StepPending == PendingInv /\ [Next]_vars => PendingInv'
<1> SUFFICES ASSUME PendingInv, [Next]_vars PROVE PendingInv'
  OBVIOUS
<1>type. TypeOK /\ TypeOK'
  BY StepType DEF PendingInv
<1> USE <1>type DEF PendingInv, InHand, At, Goto
<1>1. ASSUME NEW d \in Docs, NEW c \in Contents, WriteRow(d, c) PROVE PendingInv'
  BY <1>1 DEF WriteRow, TypeOK, Idle, Free
<1>2. CASE ReplaceSections
  BY <1>2, Working DEF ReplaceSections, Reached
<1>3. ASSUME NEW d \in Docs, BeginDeactivate(d) PROVE PendingInv'
  BY <1>3 DEF BeginDeactivate, Idle, Free
<1>4. CASE DeactivateRow
  BY <1>4, Working DEF DeactivateRow, Reached, TypeOK
<1>5. CASE RefreshEvidence \/ RefreshFails
  BY <1>5, Working DEF RefreshEvidence, RefreshFails, Reached, Free
<1>6. CASE JournalPending
  BY <1>6, Working DEF JournalPending, Reached, TypeOK
<1>7. CASE Publish
  BY <1>7, Working DEF Publish, Reached
<1>8. CASE PublishFails
  BY <1>8, Working DEF PublishFails, Reached
<1>9. CASE JournalPublished
  BY <1>9, Working DEF JournalPublished, Reached, TypeOK
<1>10. CASE JournalFailed
  BY <1>10, Working DEF JournalFailed, Reached, TypeOK, Free
<1>11. CASE Open
  BY <1>11 DEF Open, OpenQueue, Replayed
<1>12. CASE OpenUnmounted \/ Close \/ Crash
  BY <1>12 DEF OpenUnmounted, Close, Crash, Free
<1>13. ASSUME NEW d \in Docs, ReplayNext(d) PROVE PendingInv'
  BY <1>13 DEF ReplayNext, TypeOK, Idle, Free
<1>14. CASE OpenDone
  BY <1>14 DEF OpenDone, Free
<1>15. CASE Quarantine
  BY <1>15 DEF Quarantine
<1>16. CASE UNCHANGED vars
  BY <1>16 DEF vars
<1> QED
  BY <1>1, <1>2, <1>3, <1>4, <1>5, <1>6, <1>7, <1>8, <1>9, <1>10, <1>11, <1>12,
     <1>13, <1>14, <1>15, <1>16 DEF Next, Step

(* A store that mounted its backend has no active document left whose      *)
(* publication was cut off: after open, and after any later operation.     *)
THEOREM NothingStaysPending == Spec => []NothingLeftPending
<1>1. PendingInv => NothingLeftPending
  BY DEF PendingInv, InHand, NothingLeftPending, Idle, Free
<1> QED BY <1>1, InitPending, StepPending, PTL DEF Spec

-----------------------------------------------------------------------------
\* While no publication fails the backend stays mounted.
GhostInv ==
  /\ TypeOK /\ NoGhost /\ SentIsSnapshot
  /\ At("row") => index[op.doc] = {}
  /\ op.at # "failed" /\ store # "unmounted"

LEMMA InitGhost == Init => GhostInv
  BY InitType DEF Init, GhostInv, NoGhost, SentIsSnapshot, At, Free

LEMMA StepGhost ==
  ASSUME Faults \cap {"publish", "open"} = {}, GhostInv, [Next]_vars
  PROVE  GhostInv'
<1>type. TypeOK /\ TypeOK'
  BY StepType DEF GhostInv
<1> USE <1>type DEF GhostInv, NoGhost, SentIsSnapshot, At, Goto, Current
<1>1. ASSUME NEW d \in Docs, NEW c \in Contents, WriteRow(d, c) PROVE GhostInv'
  BY <1>1 DEF WriteRow, TypeOK
<1>2. CASE ReplaceSections
  BY <1>2, Working DEF ReplaceSections, Reached, TypeOK
<1>3. ASSUME NEW d \in Docs, BeginDeactivate(d) PROVE GhostInv'
  <2>1. store = "mounted"
    BY <1>3 DEF BeginDeactivate, TypeOK
  <2> QED BY <1>3, <2>1 DEF BeginDeactivate
<1>4. CASE DeactivateRow
  BY <1>4, Working DEF DeactivateRow, Reached, TypeOK
<1>5. CASE RefreshEvidence \/ RefreshFails
  BY <1>5 DEF RefreshEvidence, RefreshFails, Free
<1>6. CASE JournalPending
  BY <1>6 DEF JournalPending
<1>7. CASE Publish
  BY <1>7, Working DEF Publish, Reached, TypeOK, Snapshot
<1>8. CASE PublishFails
  BY <1>8 DEF PublishFails
<1>9. CASE JournalPublished
  BY <1>9, Working DEF JournalPublished, Reached, Snapshot
<1>10. CASE JournalFailed
  BY <1>10 DEF JournalFailed
<1>11. CASE Open
  BY <1>11 DEF Open
<1>12. CASE OpenUnmounted \/ Close \/ Crash
  BY <1>12 DEF OpenUnmounted, Close, Crash, Free, Snapshot
<1>13. ASSUME NEW d \in Docs, ReplayNext(d) PROVE GhostInv'
  BY <1>13 DEF ReplayNext
<1>14. CASE OpenDone
  BY <1>14 DEF OpenDone, Free
<1>15. CASE Quarantine
  BY <1>15, Working DEF Quarantine, Idle, Free, TypeOK
<1>16. CASE UNCHANGED vars
  BY <1>16 DEF vars, Snapshot
<1> QED
  BY <1>1, <1>2, <1>3, <1>4, <1>5, <1>6, <1>7, <1>8, <1>9, <1>10, <1>11, <1>12,
     <1>13, <1>14, <1>15, <1>16 DEF Next, Step

(* As long as no call to the backend fails - the process may stop anywhere *)
(* and the index may be quarantined - a deactivated document is never in   *)
(* the index, and no replay or bootstrap brings it back.                   *)
THEOREM NoGhostWithoutFailures ==
  ASSUME Faults \cap {"publish", "open"} = {}
  PROVE  Spec => []NoGhost
<1>1. Init => GhostInv
  BY InitGhost
<1>2. GhostInv /\ [Next]_vars => GhostInv'
  BY StepGhost
<1>3. GhostInv => NoGhost
  BY DEF GhostInv
<1> QED BY <1>1, <1>2, <1>3, PTL DEF Spec
-----------------------------------------------------------------------------
(***************************************************************************)
(* How far an operation is from its end: the documents it has queued, then *)
(* the stage it has got to.                                                *)
(***************************************************************************)
Stage ==
  [sections |-> 6, journal |-> 5, send |-> 4, sent |-> 3, failed |-> 3, row |-> 2,
   refresh |-> 1, next |-> 1]

Left == IF Idle THEN 0 ELSE 7 * Cardinality(op.queue) + Stage[op.at]

\* A closed store has nothing in progress; only an open has a queue to go through.
RankInv ==
  /\ TypeOK
  /\ store = "closed" => Idle
  /\ op.at \in {"sections", "row", "refresh"} => op.job # "open"

LEMMA InitRank == Init => RankInv
  BY InitType DEF Init, RankInv, Idle, Free

LEMMA StepRank == RankInv /\ [Next]_vars => RankInv'
<1> SUFFICES ASSUME RankInv, [Next]_vars PROVE RankInv'
  OBVIOUS
<1>type. TypeOK /\ TypeOK'
  BY StepType DEF RankInv
<1> USE <1>type DEF RankInv, At, Goto, Idle, Free
<1>1. ASSUME NEW d \in Docs, NEW c \in Contents, WriteRow(d, c) PROVE RankInv'
  BY <1>1 DEF WriteRow
<1>2. CASE ReplaceSections
  BY <1>2, Working DEF ReplaceSections, Reached
<1>3. ASSUME NEW d \in Docs, BeginDeactivate(d) PROVE RankInv'
  BY <1>3 DEF BeginDeactivate
<1>4. CASE DeactivateRow
  BY <1>4, Working DEF DeactivateRow, Reached
<1>5. CASE RefreshEvidence \/ RefreshFails
  BY <1>5 DEF RefreshEvidence, RefreshFails
<1>6. CASE JournalPending \/ Publish \/ PublishFails
  BY <1>6, Working DEF JournalPending, Publish, PublishFails, Reached
<1>7. CASE JournalPublished
  BY <1>7, Working DEF JournalPublished, Reached
<1>8. CASE JournalFailed
  BY <1>8 DEF JournalFailed
<1>9. CASE Open \/ OpenUnmounted \/ Close \/ Crash
  BY <1>9 DEF Open, OpenUnmounted, Close, Crash
<1>10. ASSUME NEW d \in Docs, ReplayNext(d) PROVE RankInv'
  BY <1>10 DEF ReplayNext
<1>11. CASE OpenDone \/ Quarantine \/ UNCHANGED vars
  BY <1>11 DEF OpenDone, Quarantine, vars
<1> QED
  BY <1>1, <1>2, <1>3, <1>4, <1>5, <1>6, <1>7, <1>8, <1>9, <1>10, <1>11 DEF Next, Step

\* With finitely many documents the rank is a number, positive while one works.
LEMMA LeftType ==
  ASSUME TypeOK, IsFiniteSet(Docs)
  PROVE  /\ Left \in Nat
         /\ ~Idle => /\ op.queue \subseteq Docs /\ IsFiniteSet(op.queue)
                     /\ Cardinality(op.queue) \in Nat
                     /\ Left = 7 * Cardinality(op.queue) + Stage[op.at]
                     /\ Left > 0
<1>1. CASE Idle
  BY <1>1 DEF Left
<1>2. CASE ~Idle
  <2>1. op.queue \subseteq Docs /\ op.at \in DOMAIN Stage
    BY <1>2 DEF TypeOK, Stage
  <2>2. IsFiniteSet(op.queue) /\ Cardinality(op.queue) \in Nat
    BY <2>1, FS_Subset, FS_CardinalityType
  <2>3. Stage[op.at] \in 1..6
    BY <2>1 DEF Stage
  <2> QED BY <1>2, <2>1, <2>2, <2>3 DEF Left
<1> QED BY <1>1, <1>2

\* A stage that moves on, with the queue as it is.
LEMMA Advances ==
  ASSUME TypeOK, TypeOK', IsFiniteSet(Docs), ~Idle,
         op' = Free \/ (op'.queue = op.queue /\ Stage[op'.at] < Stage[op.at])
  PROVE  Left' < Left
<1>1. /\ Cardinality(op.queue) \in Nat /\ Left > 0
      /\ Left = 7 * Cardinality(op.queue) + Stage[op.at]
  BY LeftType
<1>2. CASE op' = Free
  BY <1>1, <1>2 DEF Left, Idle
<1>3. CASE op' # Free /\ op'.queue = op.queue /\ Stage[op'.at] < Stage[op.at]
  <2>1. op'.at \in DOMAIN Stage /\ op.at \in DOMAIN Stage
    BY <1>3 DEF TypeOK, Stage, Idle
  <2>2. Stage[op.at] \in Nat /\ Stage[op'.at] \in Nat
    BY <2>1 DEF Stage
  <2>3. Left' = 7 * Cardinality(op.queue) + Stage[op'.at]
    BY <1>3 DEF Left, Idle
  <2> QED BY <1>1, <1>3, <2>2, <2>3
<1> QED BY <1>2, <1>3

LEMMA StepsLeft ==
  ASSUME RankInv, TypeOK', IsFiniteSet(Docs), Step
  PROVE  Left' < Left
<1>type. TypeOK
  BY DEF RankInv
<1>0. ~Idle
  <2>1. op.at \in Reached \cup {"next"}
    BY DEF Step, ReplaceSections, DeactivateRow, RefreshEvidence, RefreshFails,
           JournalPending, Publish, PublishFails, JournalPublished, JournalFailed, ReplayNext, OpenDone, At, Reached
  <2>2. Free.at = "start"
    BY DEF Free
  <2> QED BY <2>1, <2>2 DEF Idle, Reached
<1>1. CASE ReplaceSections \/ DeactivateRow \/ JournalPending \/ Publish \/ PublishFails
  <2>1. op.at \in Reached /\ op'.queue = op.queue /\ Stage[op'.at] < Stage[op.at]
    BY <1>1, <1>type, Working
    DEF ReplaceSections, DeactivateRow, JournalPending, Publish, PublishFails, At, Goto,
        Reached, Stage
  <2> QED BY <1>type, <1>0, <2>1, Advances
<1>2. CASE JournalPublished
  <2>1. op.at = "sent" /\ op'.queue = op.queue /\ op'.at \in {"refresh", "row", "next"}
    BY <1>2, <1>type, Working DEF JournalPublished, At, Goto, Reached
  <2>2. Stage[op'.at] < Stage[op.at]
    BY <2>1 DEF Stage
  <2> QED BY <1>type, <1>0, <2>1, <2>2, Advances
<1>3. CASE RefreshEvidence \/ RefreshFails \/ JournalFailed \/ OpenDone
  <2>1. op' = Free
    BY <1>3 DEF RefreshEvidence, RefreshFails, JournalFailed, OpenDone
  <2> QED BY <1>type, <1>0, <2>1, Advances
<1>4. ASSUME NEW d \in Docs, ReplayNext(d) PROVE Left' < Left
  <2>1. /\ op.at = "next" /\ op'.at = "journal" /\ d \in op.queue
        /\ op'.queue = op.queue \ {d} /\ op'.doc = d
    BY <1>type, <1>0, <1>4 DEF ReplayNext, At, TypeOK
  <2>2. op' # Free
    BY <2>1 DEF Free
  <2>3. /\ IsFiniteSet(op.queue) /\ Cardinality(op.queue) \in Nat
        /\ Left = 7 * Cardinality(op.queue) + 1
    BY <1>type, <1>0, <2>1, LeftType DEF Stage
  <2>4. Cardinality(op.queue \ {d}) = Cardinality(op.queue) - 1
    BY <2>1, <2>3, FS_RemoveElement
  <2>5. Left' = 7 * Cardinality(op.queue \ {d}) + 5
    BY <2>1, <2>2 DEF Left, Idle, Stage
  <2> QED BY <2>3, <2>4, <2>5
<1> QED BY <1>1, <1>2, <1>3, <1>4 DEF Step

(* The safety half of PendingIsResolved: an operation in progress has a    *)
(* step whose condition holds, each of its steps brings it nearer to its   *)
(* end, and nothing else touches it but a stop of the process.             *)
NeverStuck ==
  ~Idle => \/ op.at \in Reached
           \/ At("next") /\ (op.queue = {} \/ \E d \in Docs : d \in op.queue)

\* With finitely many documents every step of ingest, deactivate and open brings
\* the operation nearer to its end, one is always possible, and only a stop of
\* the process takes an operation away before.
THEOREM OperationsEnd ==
  ASSUME IsFiniteSet(Docs)
  PROVE  Spec => /\ []NeverStuck
                 /\ [][/\ Step => Left' < Left
                       /\ (~Idle /\ ~Step) => (op' = op \/ store' = "closed")]_vars
<1>1. RankInv => NeverStuck
  BY DEF RankInv, NeverStuck, TypeOK, Reached, At
<1>2. RankInv /\ [Next]_vars =>
        [/\ Step => Left' < Left
         /\ (~Idle /\ ~Step) => (op' = op \/ store' = "closed")]_vars
  <2> SUFFICES ASSUME RankInv, Next
               PROVE  /\ Step => Left' < Left
                      /\ (~Idle /\ ~Step) => (op' = op \/ store' = "closed")
    OBVIOUS
  <2>1. TypeOK'
    BY StepType DEF RankInv
  <2>2. Step => Left' < Left
    BY <2>1, StepsLeft
  <2>3. (~Idle /\ ~Step) => (op' = op \/ store' = "closed")
    BY DEF Next, RankInv, WriteRow, BeginDeactivate, Open, OpenUnmounted, Close, Crash,
           Quarantine
  <2> QED BY <2>2, <2>3
<1> QED BY <1>1, <1>2, InitRank, StepRank, PTL DEF Spec
-----------------------------------------------------------------------------
(***************************************************************************)
(* What an operation leaves as it found it: everything but the document it *)
(* works on.  An open has the index as it was to begin with, a             *)
(* deactivation has emptied it before the row is closed.                   *)
(***************************************************************************)
Touching(d) == op.job # "open" /\ ~Idle /\ op.doc = d
AheadOfIndex == \/ op.at \in {"sections", "journal", "send"}
                \/ op.job = "deactivate" /\ op.at \in {"sent", "row"}

SectionsInv ==
  "crash" \notin Faults =>
    \A d \in Docs : sections[d] = hash[d] \/ (At("sections") /\ op.doc = d)
EvidenceInv ==
  Faults \cap {"crash", "publish", "evidence"} = {} =>
    /\ op.at # "failed"
    /\ \A d \in Docs : evidence[d] = Shown(d) \/ Touching(d)
IndexInv ==
  Faults = {} =>
    /\ store # "unmounted"
    /\ op.job = "deactivate" /\ op.at \in {"sent", "row"} => index[op.doc] = {}
    /\ \A d \in Docs : index[d] = Current(d) \/ (AheadOfIndex /\ op.doc = d)

AgreeInv ==
  /\ RankInv /\ SectionsInv /\ EvidenceInv /\ IndexInv
  /\ At("row") => op.job = "deactivate"

LEMMA InitAgree == Init => AgreeInv
  BY InitRank DEF Init, AgreeInv, At, SectionsInv, EvidenceInv, IndexInv, Shown, Current, Idle, Free

LEMMA StepRow ==
  ASSUME AgreeInv, [Next]_vars
  PROVE  (At("row") => op.job = "deactivate")'
<1> USE DEF AgreeInv, RankInv, At, Goto
<1>1. ASSUME NEW d \in Docs, NEW c \in Contents, WriteRow(d, c)
      PROVE  (At("row") => op.job = "deactivate")'
  BY <1>1 DEF WriteRow
<1>2. ASSUME NEW d \in Docs, BeginDeactivate(d)
      PROVE  (At("row") => op.job = "deactivate")'
  BY <1>2 DEF BeginDeactivate
<1>3. ASSUME NEW d \in Docs, ReplayNext(d)
      PROVE  (At("row") => op.job = "deactivate")'
  BY <1>3 DEF ReplayNext, TypeOK, Idle, Free
<1>4. CASE ReplaceSections \/ DeactivateRow \/ JournalPending \/ Publish \/ PublishFails
  BY <1>4, Working DEF ReplaceSections, DeactivateRow, JournalPending, Publish, PublishFails, Reached
<1>5. CASE JournalPublished
  BY <1>5, Working DEF JournalPublished, Reached
<1>6. CASE RefreshEvidence \/ RefreshFails \/ JournalFailed \/ Open \/ OpenUnmounted
         \/ Close \/ Crash
  BY <1>6 DEF RefreshEvidence, RefreshFails, JournalFailed, Open, OpenUnmounted, Close,
              Crash, Free
<1>7. CASE OpenDone \/ Quarantine \/ UNCHANGED vars
  BY <1>7 DEF OpenDone, Quarantine, vars, Free
<1> QED BY <1>1, <1>2, <1>3, <1>4, <1>5, <1>6, <1>7 DEF Next, Step

LEMMA StepSections ==
  ASSUME AgreeInv, RankInv', [Next]_vars
  PROVE  SectionsInv'
<1> SUFFICES ASSUME "crash" \notin Faults, NEW d \in Docs
             PROVE  (sections[d] = hash[d] \/ (At("sections") /\ op.doc = d))'
  BY DEF SectionsInv
<1>0. TypeOK /\ (sections[d] = hash[d] \/ (At("sections") /\ op.doc = d))
  BY DEF AgreeInv, RankInv, SectionsInv
<1>1. ASSUME NEW e \in Docs, NEW c \in Contents, WriteRow(e, c)
      PROVE  (sections[d] = hash[d] \/ (At("sections") /\ op.doc = d))'
  BY <1>0, <1>1 DEF WriteRow, TypeOK, Idle, Free, At
<1>2. CASE ReplaceSections
  BY <1>0, <1>2, Working DEF ReplaceSections, Reached, TypeOK, At, Goto
<1>3. ASSUME NEW e \in Docs, BeginDeactivate(e) \/ ReplayNext(e)
      PROVE  (sections[d] = hash[d] \/ (At("sections") /\ op.doc = d))'
  BY <1>0, <1>3 DEF BeginDeactivate, ReplayNext, Idle, Free, At
<1>4. CASE DeactivateRow \/ RefreshEvidence \/ RefreshFails \/ JournalPending \/ Publish
         \/ PublishFails
  BY <1>0, <1>4 DEF DeactivateRow, RefreshEvidence, RefreshFails, JournalPending, Publish,
                    PublishFails, At, Goto
<1>5. CASE JournalPublished \/ JournalFailed \/ Open \/ OpenUnmounted \/ Close \/ OpenDone
  BY <1>0, <1>5, Working DEF AgreeInv, RankInv, Reached, JournalPublished, JournalFailed, Open,
     OpenUnmounted, Close, OpenDone, At, Goto, Idle, Free
<1>6. CASE Crash \/ Quarantine \/ UNCHANGED vars
  BY <1>0, <1>6 DEF Crash, Quarantine, vars, At
<1> QED BY <1>1, <1>2, <1>3, <1>4, <1>5, <1>6 DEF Next, Step

LEMMA StepEvidence ==
  ASSUME AgreeInv, RankInv', [Next]_vars
  PROVE  EvidenceInv'
<1> DEFINE Good == op.at # "failed" /\ \A d \in Docs : evidence[d] = Shown(d) \/ Touching(d)
<1> SUFFICES ASSUME Faults \cap {"crash", "publish", "evidence"} = {} PROVE Good'
  BY DEF EvidenceInv
<1>0. RankInv /\ TypeOK /\ Good
  BY DEF AgreeInv, RankInv, EvidenceInv
<1> USE <1>0 DEF RankInv, Shown, Touching, At, Goto, Idle, Free
<1>1. ASSUME NEW e \in Docs, NEW c \in Contents, WriteRow(e, c) PROVE Good'
  BY <1>1 DEF WriteRow, TypeOK
<1>2. CASE ReplaceSections
  BY <1>2, Working DEF ReplaceSections, Reached, TypeOK
<1>3. ASSUME NEW e \in Docs, BeginDeactivate(e) PROVE Good'
  BY <1>3 DEF BeginDeactivate
<1>4. ASSUME NEW e \in Docs, ReplayNext(e) PROVE Good'
  BY <1>4 DEF ReplayNext, TypeOK
<1>5. CASE DeactivateRow
  BY <1>5, Working DEF DeactivateRow, Reached, TypeOK
<1>6. CASE RefreshEvidence \/ RefreshFails
  BY <1>6, Working DEF RefreshEvidence, RefreshFails, Rewritten, Refreshed, Reached, TypeOK
<1>7. CASE JournalPending \/ Publish \/ PublishFails
  BY <1>7, Working DEF JournalPending, Publish, PublishFails, Reached
<1>8. CASE JournalPublished
  BY <1>8, Working DEF JournalPublished, Reached
<1>9. CASE JournalFailed
  BY <1>9 DEF JournalFailed
<1>10. CASE Open \/ OpenUnmounted \/ Close \/ OpenDone
  BY <1>10 DEF Open, OpenUnmounted, Close, OpenDone, TypeOK
<1>11. CASE Crash \/ Quarantine \/ UNCHANGED vars
  BY <1>11 DEF Crash, Quarantine, vars
<1> QED BY <1>1, <1>2, <1>3, <1>4, <1>5, <1>6, <1>7, <1>8, <1>9, <1>10, <1>11 DEF Next, Step

LEMMA StepIndex ==
  ASSUME AgreeInv, RankInv', [Next]_vars
  PROVE  IndexInv'
<1> DEFINE Good ==
      /\ store # "unmounted"
      /\ op.job = "deactivate" /\ op.at \in {"sent", "row"} => index[op.doc] = {}
      /\ \A d \in Docs : index[d] = Current(d) \/ (AheadOfIndex /\ op.doc = d)
<1> SUFFICES ASSUME Faults = {} PROVE Good'
  BY DEF IndexInv
<1>0. RankInv /\ TypeOK /\ Good /\ op.at # "failed" /\ (At("row") => op.job = "deactivate")
  BY DEF AgreeInv, RankInv, IndexInv, EvidenceInv
<1> USE <1>0 DEF RankInv, Current, AheadOfIndex, At, Goto, Idle, Free
<1>1. ASSUME NEW e \in Docs, NEW c \in Contents, WriteRow(e, c) PROVE Good'
  BY <1>1 DEF WriteRow, TypeOK
<1>2. CASE ReplaceSections
  BY <1>2, Working DEF ReplaceSections, Reached, TypeOK
<1>3. ASSUME NEW e \in Docs, BeginDeactivate(e) PROVE Good'
  BY <1>3 DEF BeginDeactivate, TypeOK
<1>4. ASSUME NEW e \in Docs, ReplayNext(e) PROVE Good'
  BY <1>4 DEF ReplayNext, TypeOK
<1>5. CASE DeactivateRow
  BY <1>5, Working DEF DeactivateRow, Reached, TypeOK
<1>6. CASE RefreshEvidence \/ RefreshFails
  BY <1>6 DEF RefreshEvidence, RefreshFails, TypeOK
<1>7. CASE JournalPending
  BY <1>7, Working DEF JournalPending, Reached
<1>8. CASE Publish
  <2>1. /\ op.doc \in Docs /\ op'.at = "sent" /\ op'.job = op.job /\ op'.doc = op.doc
        /\ index' = [index EXCEPT ![op.doc] = Snapshot] /\ index \in [Docs -> SUBSET Contents]
        /\ op.at = "send" /\ store' = store /\ active' = active /\ sections' = sections
    BY <1>8, Working DEF Publish, Reached, TypeOK
  <2>2. index'[op.doc] = Snapshot
    BY <2>1
  <2>3. op.job = "deactivate" => index'[op'.doc] = {}
    BY <2>1, <2>2 DEF Snapshot
  <2>4. ASSUME NEW d \in Docs PROVE (index[d] = Current(d) \/ (AheadOfIndex /\ op.doc = d))'
    <3>1. CASE d = op.doc
      BY <2>1, <2>2, <3>1 DEF Snapshot
    <3>2. CASE d # op.doc
      BY <2>1, <3>2
    <3> QED BY <3>1, <3>2
  <2> QED BY <2>1, <2>3, <2>4
<1>9. CASE JournalPublished
  BY <1>9, Working DEF JournalPublished, Reached
<1>10. CASE OpenDone \/ Open \/ Close
  BY <1>10 DEF OpenDone, Open, Close, TypeOK
<1>11. CASE JournalFailed \/ PublishFails \/ OpenUnmounted \/ Crash \/ Quarantine
  BY <1>11 DEF JournalFailed, PublishFails, OpenUnmounted, Crash, Quarantine
<1>12. CASE UNCHANGED vars
  BY <1>12 DEF vars
<1> QED BY <1>1, <1>2, <1>3, <1>4, <1>5, <1>6, <1>7, <1>8, <1>9, <1>10, <1>11, <1>12 DEF Next, Step

(* Between operations the hash on file, the sections, the evidence and the *)
(* index of a document part only by the faults AgreesAtRest names for      *)
(* each, whatever is ingested, deactivated, opened and closed.             *)
THEOREM OnlyFaultsDivide == Spec => []AgreesAtRest
<1>1. AgreeInv /\ [Next]_vars => AgreeInv'
  <2> SUFFICES ASSUME AgreeInv, [Next]_vars PROVE AgreeInv'
    OBVIOUS
  <2>1. RankInv'
    BY StepRank DEF AgreeInv
  <2>2. (At("row") => op.job = "deactivate")'
    BY StepRow
  <2> QED BY <2>1, <2>2, StepSections, StepEvidence, StepIndex DEF AgreeInv
<1>2. AgreeInv => AgreesAtRest
  <2> SUFFICES ASSUME AgreeInv, Idle PROVE AgreesAtRest
    BY DEF AgreesAtRest
  <2>1. /\ sections \in [Docs -> Contents \cup {Absent}] /\ hash \in [Docs -> Contents \cup {Absent}]
        /\ evidence \in [Docs -> Contents \cup {Absent}] /\ index \in [Docs -> SUBSET Contents]
    BY DEF AgreeInv, RankInv, TypeOK
  <2>2. op.at = "start"
    BY DEF Idle, Free
  <2>3. "crash" \notin Faults => sections = hash
    BY <2>1, <2>2 DEF AgreeInv, SectionsInv, At
  <2>4. Faults \cap {"crash", "publish", "evidence"} = {} => evidence = [d \in Docs |-> Shown(d)]
    BY <2>1 DEF AgreeInv, EvidenceInv, Touching
  <2>5. Faults = {} => index = [d \in Docs |-> Current(d)]
    BY <2>1, <2>2 DEF AgreeInv, IndexInv, AheadOfIndex
  <2> QED BY <2>3, <2>4, <2>5 DEF AgreesAtRest, Shown
<1> QED BY <1>1, <1>2, InitAgree, PTL DEF Spec
=============================================================================
