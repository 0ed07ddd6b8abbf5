--------------------------- MODULE CanonicalTruth ---------------------------
(***************************************************************************)
(* The way of a derived claim into durable truth: the reconciler asks the  *)
(* admission policy, the ProjectionWriter writes the row of the shelf, the *)
(* receipt and the canonical memory event, and the event is projected into *)
(* the current-truth snapshot (L0) that readers answer from.  Each of      *)
(* these is a commit of its own, but the event, its L0 row and the marks   *)
(* on the events it supersedes, which share one.                           *)
(*                                                                         *)
(* The Tier-2 worker and the host thread write through one connection to   *)
(* the database, and recording an event takes no lock: what one thread has *)
(* not committed yet is committed by whatever the other commits.           *)
(*                                                                         *)
(* An event names in supersedes only events on record whose own writer is  *)
(* done.  A claim that the decision core gate blocks is not begun.  Only   *)
(* Tier-2 brings claims to the reconciler.                                 *)
(*                                                                         *)
(* The snapshot is rebuilt by a script, from the latest events up to a     *)
(* limit, and by open() when it finds none, from all: the rows are deleted *)
(* and the events replayed one by one, oldest first, in one transaction.   *)
(***************************************************************************)
EXTENDS Admission, Integers

CONSTANTS
  Threads,      \* the threads that reconcile
  Claims,       \* claims, each with the identity of the event it makes
  ProposalOf,   \* the proposal of each claim
  ValueOf,      \* its value, as far as equality goes
  Sourced,      \* the claims with a source event and span: others make no event
  Expired,      \* the claims that bring an end of validity
  Limits,       \* the limits a script may give a rebuild
  None          \* no claim, no event

\* An event on record: the events it names in supersedes, whether it left a
\* row, and the how-manieth event it is (the order of the ids).
Events == [names : SUBSET Claims, stored : BOOLEAN, nth : Nat]

ASSUME ClaimsAssumption ==
  /\ ProposalOf \in [Claims -> Proposals]
  /\ \A c \in Claims : ProposalOf[c].authority \in Tier2Authorities
  /\ Sourced \subseteq Claims /\ Expired \subseteq Claims
ASSUME LimitsAssumption == Limits \subseteq Nat \ {0}
ASSUME NoneAssumption == None \notin Claims /\ None \notin Events

VARIABLES
  disk,     \* the database as committed
  conn,     \* the database as the shared connection sees it
  up,       \* the store is open
  writer,   \* for each thread: where it is with which claim
  replay,   \* the rebuild under way: the events to replay, and those left out
  cut,      \* history: the events the last rebuild left out of the snapshot
  torn      \* history: a crash kept an event without all of its projection

vars == <<disk, conn, up, writer, replay, cut, torn>>

Threading == [at : {"idle", "row", "receipt", "event", "l0", "mark"},
              claim : Claims \cup {None}, names : SUBSET Claims, stored : BOOLEAN]
Databases == [row : [{"profile", "graph"} \X Registered -> Claims \cup {None}],
              receipts : SUBSET Claims, event : [Claims -> Events \cup {None}], count : Nat,
              l0 : [Claims -> {"absent", "answer", "held"}]]
Replays == [on : BOOLEAN, todo : SUBSET Claims, left : SUBSET Claims]

Idle == [at |-> "idle", claim |-> None, names |-> {}, stored |-> FALSE]
Empty == [row |-> [k \in {"profile", "graph"} \X Registered |-> None], receipts |-> {},
          event |-> [c \in Claims |-> None], count |-> 0, l0 |-> [c \in Claims |-> "absent"]]
NoReplay == [on |-> FALSE, todo |-> {}, left |-> {}]

Init ==
  /\ disk = Empty /\ conn = Empty
  /\ up = TRUE /\ torn = FALSE
  /\ replay = NoReplay /\ cut = {}
  /\ writer = [t \in Threads |-> Idle]

Adm(c) == Accepted(ProposalOf[c])
SlotOf(c) == ProposalOf[c].slot
KeyOf(c) == <<ProposalOf[c].shelf, SlotOf(c)>>
OnGraph(c) == ProposalOf[c].shelf = "graph"
Quiet == \A t \in Threads : writer[t].at = "idle"
OnRecord == {c \in Claims : conn.event[c] # None}
Writing == {writer[t].claim : t \in {u \in Threads : writer[u].at # "idle"}}

\* The memory event of a claim, as the projection classifies it.
EventOf(c, stored) == MemoryEvent(ProposalOf[c], stored, TRUE, c \in Expired)
Safe(c, db) == db.event[c] # None /\ AnswerSafe(EventOf(c, db.event[c].stored))
Superseded(c, db) == \E d \in Claims : db.event[d] # None /\ c \in db.event[d].names

\* rebuild_current_truth_view over all events.
Projected(c, db) ==
  IF db.event[c] = None THEN "absent"
  ELSE IF Safe(c, db) /\ ~Superseded(c, db) THEN "answer" ELSE "held"

\* The L0 row an event makes by itself, and its marks on the rows it supersedes.
Upserted(c, db) == [db EXCEPT !.l0[c] = IF Safe(c, db) THEN "answer" ELSE "held"]
Marked(names, db) ==
  [db EXCEPT !.l0 = [d \in Claims |->
     IF d \in names /\ db.l0[d] # "absent" THEN "held" ELSE db.l0[d]]]

Move(t, at) == writer' = [writer EXCEPT ![t].at = at]
Commit(db) == conn' = db /\ disk' = db

(***************************************************************************)
(* The reconciler reads the shelf and decides.  What is not accepted, and  *)
(* a profile value already there, is recorded without a write.             *)
(***************************************************************************)
SameOnProfile(c) ==
  /\ Adm(c) /\ ~OnGraph(c)
  /\ conn.row[KeyOf(c)] # None /\ ValueOf[conn.row[KeyOf(c)]] = ValueOf[c]

Begin(t, c, names) ==
  /\ up /\ ~replay.on /\ writer[t].at = "idle"
  /\ names \subseteq OnRecord \ (Writing \cup {c})
  /\ writer' = [writer EXCEPT ![t] =
       [at |-> IF Adm(c) /\ ~SameOnProfile(c) THEN "row" ELSE "receipt",
        claim |-> c, names |-> names, stored |-> SameOnProfile(c)]]
  /\ UNCHANGED <<disk, conn, up, replay, cut, torn>>

(***************************************************************************)
(* The row of the shelf.  A graph state that differs from the current one  *)
(* and does not supersede it opens a conflict, and brings no row id.  No   *)
(* row here carries the assignment flag: the guard turns away every claim  *)
(* of Tier-2 that brings it, before anything is written, and the error     *)
(* ends the batch.                                                         *)
(***************************************************************************)
Holds(c) == conn.row[KeyOf(c)] # None /\ OnGraph(c)
SameOnGraph(c) == Holds(c) /\ ValueOf[conn.row[KeyOf(c)]] = ValueOf[c]
Conflicts(c) == Holds(c) /\ ~SameOnGraph(c) /\ ~Superseding(ProposalOf[c])

WriteRefused(t) ==
  /\ writer[t].at = "row" /\ ~Permitted(RequestOf(ProposalOf[writer[t].claim], FALSE))
  /\ writer' = [writer EXCEPT ![t] = Idle]
  /\ UNCHANGED <<disk, conn, up, replay, cut, torn>>

WriteRow(t) ==
  LET c == writer[t].claim IN
  /\ writer[t].at = "row" /\ Permitted(RequestOf(ProposalOf[c], FALSE))
  /\ Commit(IF SameOnGraph(c) \/ Conflicts(c) THEN conn
            ELSE [conn EXCEPT !.row[KeyOf(c)] = c])
  /\ writer' = [writer EXCEPT ![t].at = "receipt", ![t].stored = ~Conflicts(c)]
  /\ UNCHANGED <<up, replay, cut, torn>>

\* Mutant of Receipt: a claim without a source span gets an event too.
ReceiptForAll(t) ==
  /\ writer[t].at = "receipt"
  /\ Commit([conn EXCEPT !.receipts = @ \cup {writer[t].claim}])
  /\ Move(t, "event")
  /\ UNCHANGED <<up, replay, cut, torn>>

Receipt(t) ==
  LET c == writer[t].claim IN
  /\ writer[t].at = "receipt"
  /\ Commit([conn EXCEPT !.receipts = @ \cup {c}])
  /\ IF c \in Sourced THEN Move(t, "event") ELSE writer' = [writer EXCEPT ![t] = Idle]
  /\ UNCHANGED <<up, replay, cut, torn>>

(***************************************************************************)
(* record_canonical_memory_event.  An event already there is not recorded  *)
(* again, whatever it names now; one that does not validate raises.        *)
(***************************************************************************)
InsertEvent(t) ==
  LET w == writer[t] c == writer[t].claim IN
  /\ w.at = "event" /\ ValidEvent(EventOf(c, w.stored))
  /\ conn.event[c] = None
  /\ conn' = [conn EXCEPT !.count = @ + 1,
       !.event[c] = [names |-> w.names, stored |-> w.stored, nth |-> conn.count + 1]]
  /\ Move(t, "l0")
  /\ UNCHANGED <<disk, up, replay, cut, torn>>

IgnoreEvent(t) ==
  LET w == writer[t] c == writer[t].claim IN
  /\ w.at = "event" /\ ValidEvent(EventOf(c, w.stored))
  /\ conn.event[c] # None
  /\ Commit(conn)
  /\ writer' = [writer EXCEPT ![t] = Idle]
  /\ UNCHANGED <<up, replay, cut, torn>>

ProjectL0(t) ==
  /\ writer[t].at = "l0"
  /\ conn' = Upserted(writer[t].claim, conn)
  /\ Move(t, "mark")
  /\ UNCHANGED <<disk, up, replay, cut, torn>>

\* Mutant of MarkPrior: the superseded events keep their rows as they are.
MarkNothing(t) ==
  /\ writer[t].at = "mark"
  /\ Commit(conn)
  /\ writer' = [writer EXCEPT ![t] = Idle]
  /\ UNCHANGED <<up, replay, cut, torn>>

MarkPrior(t) ==
  /\ writer[t].at = "mark"
  /\ Commit(Marked(writer[t].names, conn))
  /\ writer' = [writer EXCEPT ![t] = Idle]
  /\ UNCHANGED <<up, replay, cut, torn>>

\* Another store method of the other thread commits on the shared connection.
NeighbourCommit ==
  /\ up /\ ~replay.on /\ conn # disk
  /\ Commit(conn)
  /\ UNCHANGED <<up, writer, replay, cut, torn>>

(***************************************************************************)
(* rebuild_current_truth_l0_snapshot: delete all rows, replay the given    *)
(* events, commit.  compare_current_truth_l0_to_rebuild does so for the    *)
(* latest events, from a script with no other writer.                      *)
(***************************************************************************)
StartReplay(events) ==
  /\ conn' = [conn EXCEPT !.l0 = [c \in Claims |-> "absent"]]
  /\ replay' = [on |-> TRUE, todo |-> events, left |-> OnRecord \ events]

\* list_canonical_memory_events: the last of them, by id.
Latest(limit) == {c \in OnRecord : conn.event[c].nth > conn.count - limit}

\* Mutant of Oldest: the events are replayed as they were listed.
NewestFirst(S) == {c \in S : \A d \in S : conn.event[c].nth >= conn.event[d].nth}

\* _canonical_rows_chronological.
Oldest(S) == {c \in S : \A d \in S : conn.event[c].nth <= conn.event[d].nth}

Compare(limit) ==
  /\ up /\ Quiet /\ ~replay.on
  /\ StartReplay(Latest(limit))
  /\ UNCHANGED <<disk, up, writer, cut, torn>>

ReplayEvent(c) ==
  /\ replay.on /\ c \in Oldest(replay.todo)
  /\ conn' = Marked(conn.event[c].names, Upserted(c, conn))
  /\ replay' = [replay EXCEPT !.todo = @ \ {c}]
  /\ UNCHANGED <<disk, up, writer, cut, torn>>

EndReplay ==
  /\ replay.on /\ replay.todo = {}
  /\ Commit(conn)
  /\ replay' = NoReplay /\ cut' = replay.left /\ torn' = FALSE
  /\ UNCHANGED <<up, writer>>

\* The process stops; what was not committed is gone.
Stop ==
  /\ up
  /\ conn' = disk
  /\ up' = FALSE
  /\ writer' = [t \in Threads |-> Idle] /\ replay' = NoReplay
  /\ torn' = (torn \/ \E t \in Threads : /\ writer[t].at \in {"l0", "mark"}
                                         /\ disk.event[writer[t].claim] # None)
  /\ UNCHANGED <<disk, cut>>

\* open: _bootstrap_current_truth_l0_if_needed rebuilds an empty snapshot.
Open ==
  /\ ~up /\ up' = TRUE
  /\ IF OnRecord # {} /\ \A c \in Claims : conn.l0[c] = "absent"
     THEN StartReplay(OnRecord) ELSE UNCHANGED <<conn, replay>>
  /\ UNCHANGED <<disk, writer, cut, torn>>

Record(t) ==
  \/ WriteRow(t) \/ WriteRefused(t) \/ Receipt(t)
  \/ InsertEvent(t) \/ IgnoreEvent(t) \/ ProjectL0(t) \/ MarkPrior(t)

Rebuild == (\E limit \in Limits : Compare(limit)) \/ (\E c \in Claims : ReplayEvent(c)) \/ EndReplay

Next ==
  \/ \E t \in Threads, c \in Claims, names \in SUBSET OnRecord : Begin(t, c, names)
  \/ \E t \in Threads : Record(t)
  \/ NeighbourCommit \/ Rebuild \/ Stop \/ Open

Spec == Init /\ [][Next]_vars

-----------------------------------------------------------------------------
\* The variables' types; a thread with an event to record has the claim's
\* source span, and its receipt is durable.
TypeOK ==
  /\ disk \in Databases /\ conn \in Databases
  /\ up \in BOOLEAN /\ torn \in BOOLEAN
  /\ replay \in Replays /\ cut \in SUBSET Claims
  /\ writer \in [Threads -> Threading]
  /\ \A t \in Threads : writer[t].at # "idle" => writer[t].claim \in Claims
  /\ \A t \in Threads : writer[t].at \in {"event", "l0", "mark"} =>
       writer[t].claim \in Sourced \cap disk.receipts

\* Whatever was committed half-way when the process died, what readers may
\* answer from has its event, its receipt, a decision that accepted it and a
\* row of its slot on the shelf.
AnswerIsBacked ==
  \A c \in Claims : disk.l0[c] = "answer" =>
    /\ disk.event[c] # None /\ c \in disk.receipts
    /\ Adm(c) /\ disk.row[KeyOf(c)] # None

(* At rest the snapshot is what a rebuild from the events would give, but  *)
(* for the oldest ones if the last rebuild had a limit, and unless a crash *)
(* kept half of a record that another thread's commit had taken along.     *)
ParityAtRest ==
  up /\ Quiet /\ ~replay.on /\ ~torn =>
    /\ conn.l0 = [c \in Claims |-> IF c \in cut THEN "absent" ELSE Projected(c, conn)]
    /\ \A c \in cut, d \in OnRecord \ cut : conn.event[c].nth < conn.event[d].nth

Lasting == {c \in Claims : Adm(c) /\ c \notin Expired}

\* Readers of the durable snapshot get what CurrentTruth promises them.  An
\* event a rebuild left out is retired if it would be held back.
CT == INSTANCE CurrentTruth WITH
  Events <- Claims,
  Answerable <- Lasting,
  published <- {c \in Claims : disk.l0[c] # "absent"},
  answers <- {c \in Claims : disk.l0[c] = "answer"},
  retired <- {c \in Claims : disk.l0[c] = "held" \/ (c \in cut /\ Projected(c, disk) = "held")}
NeverRevived == CT!Spec

\* exclusive_current, and the README's "current truth, historical truth, and
\* conflict state kept distinct": of an exclusive slot no two different values
\* are answered from once every record is done.
OneAnswerPerSlot ==
  up /\ Quiet /\ ~replay.on => \A c, d \in Claims :
    /\ conn.l0[c] = "answer" /\ conn.l0[d] = "answer"
    /\ SlotOf(c) = SlotOf(d) /\ Registry[SlotOf(c)].exclusive
    => ValueOf[c] = ValueOf[d]
=============================================================================
