--------------------------- MODULE GraphPublication ---------------------------
(***************************************************************************)
(* The publication of the graph-truth shelf to Kuzu.  SQLite has the truth *)
(* of an entity, Kuzu a copy of its subgraph that recall reads instead as  *)
(* long as the backend is mounted.  The turn thread and the Tier-2 worker  *)
(* write and publish without a lock, through one SQLite connection and one *)
(* Kuzu connection; the operator resolves conflicts from a process of its  *)
(* own that has no Kuzu.  A publication that fails, and a read, disable    *)
(* the backend for the rest of the process.                                *)
(*                                                                         *)
(* The subgraph of an entity is the number of changes made to it: what the *)
(* rows say is GraphTruth's.  An id is not used again, and the rows of a   *)
(* merged entity go to its target (GraphTruth's MergeAlias): its own node  *)
(* in Kuzu keeps what it had.                                              *)
(***************************************************************************)
EXTENDS Naturals

CONSTANTS
  Threads,     \* the threads that write to the graph
  Entities,    \* rows of graph_entities
  MaxVersion,  \* bound: changes of an entity
  Gone,        \* a row that a merge has deleted
  Nobody,      \* no entity in hand
  Faults       \* what goes wrong: "crash", "publish", "mount", "read"

ASSUME MaxVersionAssumption == MaxVersion \in Nat \ {0}
ASSUME GoneAssumption == Gone \notin Nat /\ Nobody \notin Entities
ASSUME FaultsAssumption == Faults \subseteq {"crash", "publish", "mount", "read"}

VARIABLES
  conn,     \* graph_entities as the shared connection sees them
  disk,     \* graph_entities as committed
  journal,  \* publish_journal: the status of each entity's subgraph
  kuzu,     \* the subgraph that Kuzu has of each entity
  up,       \* the store is down, opening or open
  mounted,  \* _graph_backend is set
  thread,   \* for each thread: where it is, with which entity and snapshot
  missed,   \* history: entities whose last change has not got to the journal
  raced     \* history: entities that both threads were publishing at once

vars == <<conn, disk, journal, kuzu, up, mounted, thread, missed, raced>>

Versions == 0..MaxVersion
Idle == [at |-> "idle", now |-> Nobody, rest |-> {}, version |-> 0]

Init ==
  /\ conn = [e \in Entities |-> 0] /\ disk = conn /\ kuzu = conn
  /\ journal = [e \in Entities |-> "none"]
  /\ up = "down" /\ mounted = FALSE
  /\ thread = [t \in Threads |-> Idle]
  /\ missed = {} /\ raced = {}

Rows == {e \in Entities : conn[e] \notin {0, Gone}}
Quiet == \A t \in Threads : thread[t].at = "idle"
InHand(e) == \E t \in Threads : e = thread[t].now \/ e \in thread[t].rest

Move(t, at) == thread' = [thread EXCEPT ![t].at = at]

\* The next entity of the call, or its end.
Proceed(t) ==
  \/ thread[t].rest = {} /\ thread' = [thread EXCEPT ![t] = Idle]
  \/ \E e \in thread[t].rest :
       thread' = [thread EXCEPT ![t] = [at |-> "check", now |-> e, rest |-> @.rest \ {e},
                                        version |-> 0]]

\* An exception ends the call: what it still had to publish is not journalled.
RaiseOut(t, unsaid) ==
  /\ thread' = [thread EXCEPT ![t] = Idle]
  /\ missed' = missed \cup unsaid

(***************************************************************************)
(* The writes to SQLite and what they publish: an upsert of a state its    *)
(* entity, a relation its subject and then its object, a merge the target  *)
(* only, though it also rewrites the relations that other entities have    *)
(* with the merged one and closes the duplicates among all relations.      *)
(* What is on record already is published again.                           *)
(***************************************************************************)
Changes(e) == conn[e] # Gone /\ conn[e] < MaxVersion
Take(t, e, rest) ==
  /\ up = "open" /\ thread[t].at = "idle"
  /\ thread' = [thread EXCEPT ![t] = [at |-> "commit", now |-> e, rest |-> rest, version |-> 0]]

UpsertState(t, e) ==
  /\ Take(t, e, {})
  /\ \/ Changes(e) /\ conn' = [conn EXCEPT ![e] = @ + 1]
     \/ e \in Rows /\ conn' = conn
  /\ UNCHANGED <<disk, journal, kuzu, up, mounted, missed, raced>>

UpsertRelation(t, s, o) ==
  /\ Take(t, s, {o}) /\ s # o
  /\ \/ Changes(s) /\ conn[o] # Gone
        /\ conn' = [conn EXCEPT ![s] = @ + 1, ![o] = IF @ = 0 THEN 1 ELSE @]
     \/ {s, o} \subseteq Rows /\ conn' = conn
  /\ UNCHANGED <<disk, journal, kuzu, up, mounted, missed, raced>>

\* others: the subjects, beside the two, of the relations that it rewrites.
MergeAlias(t, a, e, others) ==
  /\ Take(t, e, {}) /\ a # e /\ {a, e} \subseteq Rows
  /\ others \subseteq Rows \ {a, e} /\ \A f \in others \cup {e} : Changes(f)
  /\ conn' = [[f \in Entities |-> IF f \in others \cup {e} THEN conn[f] + 1 ELSE conn[f]]
                EXCEPT ![a] = Gone]
  /\ missed' = missed \cup {a} \cup others
  /\ UNCHANGED <<disk, journal, kuzu, up, mounted, raced>>

Commit(t) ==
  /\ thread[t].at = "commit"
  /\ disk' = conn
  /\ Move(t, "check")
  /\ UNCHANGED <<conn, journal, kuzu, up, mounted, missed, raced>>

\* graph_conflict_cli: a process of its own, without a graph backend.
OperatorResolves(e) ==
  /\ up = "open" /\ conn = disk
  /\ e \in Rows /\ Changes(e)
  /\ conn' = [conn EXCEPT ![e] = @ + 1] /\ disk' = conn'
  /\ missed' = missed \cup {e}
  /\ UNCHANGED <<journal, kuzu, up, mounted, thread, raced>>

(***************************************************************************)
(* _publish_entity_subgraph.  The backend is asked for again at each step, *)
(* and the other thread may have disabled it in between.                   *)
(***************************************************************************)
Check(t) ==
  /\ thread[t].at = "check" /\ mounted
  /\ Move(t, "snapshot")
  /\ UNCHANGED <<conn, disk, journal, kuzu, up, mounted, missed, raced>>

Skip(t) ==
  /\ thread[t].at = "check" /\ ~mounted
  /\ missed' = missed \cup {thread[t].now}
  /\ Proceed(t)
  /\ UNCHANGED <<conn, disk, journal, kuzu, up, mounted, raced>>

Publishing == {"journal", "begin", "tx", "published", "failed"}
Beside(t) == \E u \in Threads \ {t} :
  thread[u].now = thread[t].now /\ thread[u].at \in Publishing

\* Mutant of Snapshot: a row that is gone is taken as it is.
SnapshotUnchecked(t) ==
  LET e == thread[t].now IN
  /\ thread[t].at = "snapshot"
  /\ thread' = [thread EXCEPT ![t].at = "journal", ![t].version = conn[e]]
  /\ raced' = IF Beside(t) THEN raced \cup {e} ELSE raced \ {e}
  /\ UNCHANGED <<conn, disk, journal, kuzu, up, mounted, missed>>

\* _entity_snapshot reads through the shared connection, committed or not.
Snapshot(t) ==
  LET e == thread[t].now IN
  /\ thread[t].at = "snapshot" /\ conn[e] # Gone
  /\ thread' = [thread EXCEPT ![t].at = "journal", ![t].version = conn[e]]
  /\ raced' = IF Beside(t) THEN raced \cup {e} ELSE raced \ {e}
  /\ UNCHANGED <<conn, disk, journal, kuzu, up, mounted, missed>>

SnapshotRaises(t) ==
  /\ thread[t].at = "snapshot" /\ conn[thread[t].now] = Gone
  /\ RaiseOut(t, thread[t].rest)
  /\ UNCHANGED <<conn, disk, journal, kuzu, up, mounted, raced>>

\* Mutant of JournalPending: the row is not committed before Kuzu is changed.
JournalUncommitted(t) ==
  LET w == thread[t] IN
  /\ w.at = "journal" /\ mounted
  /\ journal' = [journal EXCEPT ![w.now] = "pending"]
  /\ missed' = IF w.version = conn[w.now] THEN missed \ {w.now} ELSE missed
  /\ Move(t, "begin")
  /\ UNCHANGED <<conn, disk, kuzu, up, mounted, raced>>

\* _upsert_publish_journal: its commit takes along what the other thread has
\* written and not committed.
JournalPending(t) ==
  LET w == thread[t] IN
  /\ w.at = "journal" /\ mounted
  /\ journal' = [journal EXCEPT ![w.now] = "pending"] /\ disk' = conn
  /\ missed' = IF w.version = conn[w.now] THEN missed \ {w.now} ELSE missed
  /\ Move(t, "begin")
  /\ UNCHANGED <<conn, kuzu, up, mounted, raced>>

\* The backend is gone: asking it for its target_name raises.
JournalRaises(t) ==
  /\ thread[t].at = "journal" /\ ~mounted
  /\ RaiseOut(t, {thread[t].now} \cup thread[t].rest)
  /\ UNCHANGED <<conn, disk, journal, kuzu, up, mounted, raced>>

\* BEGIN TRANSACTION, of which the one Kuzu connection has one at a time.
Busy == \E t \in Threads : thread[t].at = "tx"

Begin(t) ==
  /\ thread[t].at = "begin" /\ mounted /\ ~Busy
  /\ Move(t, "tx")
  /\ UNCHANGED <<conn, disk, journal, kuzu, up, mounted, missed, raced>>

\* COMMIT.  A merged entity that comes late takes state nodes of its target's.
KuzuCommit(t) ==
  LET w == thread[t] IN
  /\ w.at = "tx" /\ mounted
  /\ kuzu' = [kuzu EXCEPT ![w.now] = w.version]
  /\ raced' = IF conn[w.now] = Gone THEN Entities ELSE raced
  /\ Move(t, "published")
  /\ UNCHANGED <<conn, disk, journal, up, mounted, missed>>

\* Mutant of PublishFails: the failure is taken for a success.
PublishSwallows(t) ==
  /\ \/ thread[t].at = "begin" /\ (Busy \/ ~mounted \/ "publish" \in Faults)
     \/ thread[t].at = "tx" /\ (~mounted \/ "publish" \in Faults)
  /\ Move(t, "published")
  /\ UNCHANGED <<conn, disk, journal, kuzu, up, mounted, missed, raced>>

\* The call raises: the backend is closed, busy with the other thread's
\* transaction, or refuses; a transaction of its own is rolled back.
PublishFails(t) ==
  /\ \/ thread[t].at = "begin" /\ (Busy \/ ~mounted \/ "publish" \in Faults)
     \/ thread[t].at = "tx" /\ (~mounted \/ "publish" \in Faults)
  /\ Move(t, "failed")
  /\ UNCHANGED <<conn, disk, journal, kuzu, up, mounted, missed, raced>>

JournalPublished(t) ==
  /\ thread[t].at = "published"
  /\ journal' = [journal EXCEPT ![thread[t].now] = "published"] /\ disk' = conn
  /\ Proceed(t)
  /\ UNCHANGED <<conn, kuzu, up, mounted, missed, raced>>

JournalFailed(t) ==
  /\ thread[t].at = "failed"
  /\ journal' = [journal EXCEPT ![thread[t].now] = "failed"] /\ disk' = conn
  /\ Move(t, "disable")
  /\ UNCHANGED <<conn, kuzu, up, mounted, missed, raced>>

\* _disable_graph_backend closes the connection under the other thread too.
Disable(t) ==
  /\ thread[t].at = "disable"
  /\ mounted' = FALSE
  /\ Proceed(t)
  /\ UNCHANGED <<conn, disk, journal, kuzu, up, missed, raced>>

\* search_graph or a typed query raises, and recall falls back to SQLite.
ReadFails ==
  /\ "read" \in Faults /\ up = "open" /\ mounted
  /\ mounted' = FALSE
  /\ UNCHANGED <<conn, disk, journal, kuzu, up, thread, missed, raced>>

(***************************************************************************)
(* open fills an empty Kuzu and no other; the journal is not replayed.     *)
(* The store is closed at rest, or the process stops.                      *)
(***************************************************************************)
OpenUnmounted ==
  /\ up = "down" /\ "mount" \in Faults
  /\ up' = "open"
  /\ UNCHANGED <<conn, disk, journal, kuzu, mounted, thread, missed, raced>>

Open(t) ==
  LET bare == \A e \in Entities : kuzu[e] = 0 IN
  /\ up = "down" /\ mounted' = TRUE
  /\ \/ /\ ~bare \/ Rows = {}
        /\ up' = "open" /\ thread' = thread
     \/ \E e \in Rows :
          /\ bare /\ up' = "opening"
          /\ thread' = [thread EXCEPT ![t] = [at |-> "check", now |-> e, rest |-> Rows \ {e},
                                              version |-> 0]]
  /\ UNCHANGED <<conn, disk, journal, kuzu, missed, raced>>

Opened ==
  /\ up = "opening" /\ Quiet
  /\ up' = "open"
  /\ UNCHANGED <<conn, disk, journal, kuzu, mounted, thread, missed, raced>>

\* What a thread has in hand and has not put on record.
Unsaid(t) ==
  thread[t].rest \cup (IF thread[t].at \in {"commit", "check", "snapshot", "journal"}
                       THEN {thread[t].now} ELSE {})

Stop ==
  /\ up # "down" /\ (Quiet \/ "crash" \in Faults)
  /\ up' = "down" /\ mounted' = FALSE
  /\ conn' = disk
  /\ thread' = [t \in Threads |-> Idle]
  /\ missed' = missed \cup UNION {Unsaid(t) : t \in Threads}
  /\ UNCHANGED <<disk, journal, kuzu, raced>>

Write(t) ==
  \/ \E e \in Entities : UpsertState(t, e)
  \/ \E e, f \in Entities :
       \/ UpsertRelation(t, e, f)
       \/ \E others \in SUBSET Entities : MergeAlias(t, e, f, others)

Publish(t) ==
  \/ Commit(t) \/ Check(t) \/ Skip(t) \/ Snapshot(t) \/ SnapshotRaises(t)
  \/ JournalPending(t) \/ JournalRaises(t) \/ Begin(t) \/ KuzuCommit(t) \/ PublishFails(t)
  \/ JournalPublished(t) \/ JournalFailed(t) \/ Disable(t)

Next ==
  \/ \E t \in Threads : Write(t) \/ Publish(t) \/ Open(t)
  \/ \E e \in Entities : OperatorResolves(e)
  \/ ReadFails \/ OpenUnmounted \/ Opened \/ Stop

Spec == Init /\ [][Next]_vars

-----------------------------------------------------------------------------
\* The variables' types; the bootstrap is one thread's, and the threads are
\* never in a transaction together.
TypeOK ==
  /\ conn \in [Entities -> Versions \cup {Gone}] /\ disk \in [Entities -> Versions \cup {Gone}]
  /\ journal \in [Entities -> {"none", "pending", "published", "failed"}]
  /\ kuzu \in [Entities -> Versions]
  /\ up \in {"down", "opening", "open"} /\ mounted \in BOOLEAN
  /\ thread \in [Threads -> [at : {"idle", "commit", "check", "snapshot", "disable"} \cup Publishing,
                             now : Entities \cup {Nobody}, rest : SUBSET Entities,
                             version : Versions]]
  /\ missed \subseteq Entities /\ raced \subseteq Entities
  /\ \A t, u \in Threads : thread[t].at = "tx" /\ thread[u].at = "tx" => t = u

\* Though a snapshot reads what the other thread has not committed, nothing is
\* in Kuzu that SQLite could lose by a crash.
DerivedIsDurable ==
  \A e \in Entities : disk[e] # Gone => kuzu[e] <= disk[e]

\* What Kuzu has of an entity nobody is publishing is what SQLite has, or the
\* journal says that it may not be; but for entities that both threads
\* published at once, and for changes that never got to the journal: made
\* without a backend or by the operator, cut off by a stop or an exception, or
\* made by a merge to another entity than its target.
StaleIsOnRecord ==
  \A e \in Entities : up = "open" /\ ~InHand(e) /\ kuzu[e] # conn[e] =>
    journal[e] \in {"pending", "failed"} \/ e \in missed \cup raced
=============================================================================
