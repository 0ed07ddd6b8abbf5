------------------------ MODULE GraphPublicationProofs ------------------------
(***************************************************************************)
(* The publication to Kuzu: the theorems, for any threads, entities and    *)
(* faults.  An entity that differs in Kuzu is accounted for as long as it  *)
(* is under way: a thread still has to look at it, or publishes it as it   *)
(* is, or some other thread comes after.                                   *)
(***************************************************************************)
EXTENDS GraphPublication, TLAPS

USE MaxVersionAssumption, GoneAssumption

Places == {"idle", "commit", "check", "snapshot", "disable"} \cup Publishing
Threading == [at : Places, now : Entities \cup {Nobody}, rest : SUBSET Entities,
              version : Versions]
Counts == [Entities -> Versions \cup {Gone}]

\* A thread at rest has nothing in hand, and another one something.
Placed ==
  /\ \A t \in Threads : IF thread[t].at = "idle" THEN thread[t] = Idle
                                                 ELSE thread[t].now \in Entities
  /\ up = "down" => Quiet

Typed == TypeOK /\ Placed

\* What a step of one thread does to the threads.
Moves(t, w) == thread' = [thread EXCEPT ![t] = w]

LEMMA IdleIsTyped == Idle \in Threading /\ Idle.at = "idle" /\ Idle.rest = {} /\ Idle.now = Nobody
BY DEF Idle, Threading, Places, Versions

LEMMA TypedThreads == Typed => thread \in [Threads -> Threading]
BY DEF Typed, TypeOK, Threading, Places

LEMMA InitTyped == Init => Typed
<1> SUFFICES ASSUME Init PROVE Typed
  OBVIOUS
<1>1. thread \in [Threads -> Threading] /\ \A t \in Threads : thread[t] = Idle
  BY IdleIsTyped DEF Init
<1>2. TypeOK
  <2>1. conn \in Counts /\ disk \in Counts /\ kuzu \in [Entities -> Versions]
    BY DEF Init, Counts, Versions
  <2>2. /\ journal \in [Entities -> {"none", "pending", "published", "failed"}]
        /\ up = "down" /\ mounted = FALSE /\ missed = {} /\ raced = {}
    BY DEF Init
  <2>3. \A t, u \in Threads : thread[t].at = "tx" /\ thread[u].at = "tx" => t = u
    BY <1>1, IdleIsTyped
  <2> QED BY <1>1, <2>1, <2>2, <2>3 DEF TypeOK, Threading, Places, Counts
<1>3. Placed
  BY <1>1, IdleIsTyped DEF Placed, Quiet
<1> QED BY <1>2, <1>3 DEF Typed

\* A step of one thread: it is typed again when the tables and its record are.
LEMMA MoveTyped ==
  ASSUME Typed, NEW t \in Threads, NEW w \in Threading, Moves(t, w),
         w.at # "tx" \/ (w.at = "tx" /\ ~Busy),
         IF w.at = "idle" THEN w = Idle ELSE w.now \in Entities,
         up' \in {"opening", "open"}, mounted' \in BOOLEAN,
         conn' \in Counts, disk' \in Counts, kuzu' \in [Entities -> Versions],
         journal' \in [Entities -> {"none", "pending", "published", "failed"}],
         missed' \subseteq Entities, raced' \subseteq Entities
  PROVE  Typed'
<1>1. /\ thread' \in [Threads -> Threading] /\ thread'[t] = w
      /\ \A u \in Threads \ {t} : thread'[u] = thread[u]
  BY TypedThreads DEF Moves
<1>2. \A u, v \in Threads : thread'[u].at = "tx" /\ thread'[v].at = "tx" => u = v
  BY <1>1 DEF Typed, TypeOK, Busy
<1>3. TypeOK'
  BY <1>1, <1>2 DEF TypeOK, Threading, Places, Counts
<1>4. Placed'
  BY <1>1 DEF Typed, Placed
<1> QED BY <1>3, <1>4 DEF Typed

\* Where Proceed takes a thread.
LEMMA ProceedMoves ==
  ASSUME Typed, NEW t \in Threads, Proceed(t)
  PROVE  \E w \in Threading :
           /\ Moves(t, w)
           /\ \/ thread[t].rest = {} /\ w = Idle
              \/ /\ w.at = "check" /\ w.now \in thread[t].rest
                 /\ w.rest = thread[t].rest \ {w.now} /\ w.now \in Entities
<1>1. CASE thread[t].rest = {} /\ thread' = [thread EXCEPT ![t] = Idle]
  BY <1>1, IdleIsTyped DEF Moves
<1>2. ASSUME NEW e \in thread[t].rest,
             thread' = [thread EXCEPT ![t] = [at |-> "check", now |-> e, rest |-> @.rest \ {e},
                                              version |-> 0]]
      PROVE  \E w \in Threading :
               /\ Moves(t, w)
               /\ w.at = "check" /\ w.now \in thread[t].rest
               /\ w.rest = thread[t].rest \ {w.now} /\ w.now \in Entities
  <2> DEFINE w == [at |-> "check", now |-> e, rest |-> thread[t].rest \ {e}, version |-> 0]
  <2>1. thread[t] \in Threading
    BY TypedThreads
  <2>2. w \in Threading
    BY <2>1 DEF Threading, Places, Versions
  <2>3. Moves(t, w)
    BY <1>2 DEF Moves
  <2> QED BY <2>1, <2>2, <2>3 DEF Threading
<1> QED BY <1>1, <1>2 DEF Proceed

\* A thread that is under way has the store open.
LEMMA BusyIsUp ==
  ASSUME Typed, NEW t \in Threads, thread[t].at # "idle"
  PROVE  up \in {"opening", "open"} /\ thread[t] \in Threading /\ thread[t].now \in Entities
BY TypedThreads DEF Typed, Placed, Quiet, TypeOK

LEMMA TypedTables ==
  Typed => /\ conn \in Counts /\ disk \in Counts /\ kuzu \in [Entities -> Versions]
           /\ journal \in [Entities -> {"none", "pending", "published", "failed"}]
           /\ mounted \in BOOLEAN /\ missed \subseteq Entities /\ raced \subseteq Entities
BY DEF Typed, TypeOK, Counts

-----------------------------------------------------------------------------
(***************************************************************************)
(* What is durable.                                                        *)
(***************************************************************************)
Said == {"begin", "tx", "published", "failed"}

\* The connection is ahead of the disk.
Ahead == \A e \in Entities : conn[e] # Gone => disk[e] # Gone /\ disk[e] <= conn[e]

\* A snapshot is of what the connection has, and once it is journalled of what
\* is on disk.
Carried ==
  \A t \in Threads :
    LET w == thread[t] IN
    /\ w.at = "journal" /\ conn[w.now] # Gone => w.version <= conn[w.now]
    /\ w.at \in Said /\ disk[w.now] # Gone => w.version <= disk[w.now]

Durable == Ahead /\ DerivedIsDurable /\ Carried

LEMMA InitDurable == Init => Durable
<1> SUFFICES ASSUME Init PROVE Durable
  OBVIOUS
<1>1. \A t \in Threads : thread[t].at = "idle"
  BY IdleIsTyped DEF Init
<1>2. \A e \in Entities : conn[e] = 0 /\ disk[e] = 0 /\ kuzu[e] = 0
  BY DEF Init
<1> QED BY <1>1, <1>2 DEF Durable, Ahead, DerivedIsDurable, Carried, Said

\* Rows only grow, what is committed is all there is, and a thread that takes
\* a snapshot on carries what it may.
LEMMA DurableStep ==
  ASSUME Typed, Durable, conn' \in Counts, kuzu' = kuzu, disk' = disk \/ disk' = conn',
         \A e \in Entities : conn'[e] # Gone => conn[e] # Gone /\ conn[e] <= conn'[e],
         \A t \in Threads :
           \/ thread'[t] = thread[t]
           \/ thread'[t].at \notin {"journal"} \cup Said
           \/ /\ thread'[t].at = "journal" /\ thread'[t].version \in Nat
              /\ thread'[t].version = conn'[thread'[t].now]
           \/ /\ thread'[t].at \in Said
              /\ thread'[t].now = thread[t].now /\ thread'[t].version = thread[t].version
              /\ thread[t].at \in Said \/ (thread[t].at = "journal" /\ disk' = conn')
  PROVE  Durable'
<1>1. /\ \A e \in Entities : /\ conn[e] # Gone => conn[e] \in Nat
                             /\ conn'[e] # Gone => conn'[e] \in Nat
                             /\ disk[e] # Gone => disk[e] \in Nat
                             /\ kuzu[e] \in Nat
  BY TypedTables DEF Counts, Versions
<1>2. Ahead'
  BY <1>1 DEF Durable, Ahead
<1>3. DerivedIsDurable'
  BY <1>1 DEF Durable, Ahead, DerivedIsDurable
<1>4. ASSUME NEW e \in Entities, disk'[e] # Gone
      PROVE  disk[e] # Gone /\ disk'[e] \in Nat /\ disk[e] <= disk'[e]
             /\ (disk' = conn' => conn[e] # Gone /\ conn[e] <= disk'[e])
  BY <1>1, <1>4 DEF Durable, Ahead
<1>5. ASSUME NEW t \in Threads
      PROVE  LET w == thread'[t] IN
             /\ w.at = "journal" /\ conn'[w.now] # Gone => w.version <= conn'[w.now]
             /\ w.at \in Said /\ disk'[w.now] # Gone => w.version <= disk'[w.now]
  <2>1. thread[t] \in Threading /\ thread[t].version \in Nat
    BY TypedThreads DEF Threading, Versions
  <2>2. thread[t].at # "idle" => thread[t].now \in Entities
    BY DEF Typed, Placed
  <2>3. CASE thread'[t] = thread[t]
    BY <1>1, <1>4, <2>1, <2>2, <2>3 DEF Durable, Carried, Said
  <2>4. CASE thread'[t].at \notin {"journal"} \cup Said
    BY <2>4
  <2>5. CASE /\ thread'[t].at = "journal" /\ thread'[t].version \in Nat
             /\ thread'[t].version = conn'[thread'[t].now]
    BY <1>1, <2>5 DEF Said
  <2>6. CASE /\ thread'[t].at \in Said
             /\ thread'[t].now = thread[t].now /\ thread'[t].version = thread[t].version
             /\ thread[t].at \in Said \/ (thread[t].at = "journal" /\ disk' = conn')
    BY <1>1, <1>4, <2>1, <2>2, <2>6 DEF Durable, Carried, Said
  <2> QED BY <2>3, <2>4, <2>5, <2>6
<1>6. Carried'
  BY <1>5 DEF Carried
<1> QED BY <1>2, <1>3, <1>6 DEF Durable

-----------------------------------------------------------------------------
(***************************************************************************)
(* What is on record.                                                      *)
(***************************************************************************)
\* The thread has yet to look at the entity, or carries it as it is now.
Holds(t, e) ==
  \/ e \in thread[t].rest
  \/ /\ thread[t].now = e
     /\ \/ thread[t].at \in {"commit", "check", "snapshot"}
        \/ thread[t].at = "journal" /\ thread[t].version = conn[e]

Publishes(t, e) == thread[t].now = e /\ thread[t].at \in Publishing

\* A thread that publishes an entity alone carries it as it is, or another
\* one comes after; from the journal on it is marked, and Kuzu has it in the end.
AloneFor(e) ==
  /\ \A t, u \in Threads : Publishes(t, e) /\ Publishes(u, e) => t = u
  /\ \A t \in Threads : Publishes(t, e) =>
       /\ \/ thread[t].version = conn[e] \/ e \in missed
          \/ \E u \in Threads \ {t} : Holds(u, e)
       /\ thread[t].at \in Said => journal[e] = "pending"
       /\ thread[t].at = "published" => kuzu[e] = thread[t].version

RecordFor(e) ==
  /\ conn[e] = Gone => e \in missed
  /\ \/ e \in missed \cup raced \/ kuzu[e] = conn[e]
     \/ journal[e] \in {"pending", "failed"}
     \/ \E t \in Threads : Holds(t, e)
  /\ e \notin raced => AloneFor(e)

Recorded == \A e \in Entities : RecordFor(e)

IInv == Typed /\ Durable /\ Recorded

LEMMA InitRecorded == Init => Recorded
<1> SUFFICES ASSUME Init PROVE Recorded
  OBVIOUS
<1>1. \A t \in Threads : thread[t].at = "idle"
  BY IdleIsTyped DEF Init
<1>2. \A e \in Entities : conn[e] = 0 /\ kuzu[e] = 0
  BY DEF Init
<1> QED BY <1>1, <1>2 DEF Recorded, RecordFor, AloneFor, Publishes, Publishing

\* An entity that a step does not change stays as accounted for, if the thread
\* that moves goes on to have it in hand, or gives it up on record.
LEMMA RecordStays ==
  ASSUME NEW e \in Entities, RecordFor(e), NEW t \in Threads,
         conn'[e] = conn[e], kuzu'[e] = kuzu[e], journal'[e] = journal[e],
         e \in missed => e \in missed', e \in raced => e \in raced',
         \A u \in Threads \ {t} : thread'[u] = thread[u],
         Holds(t, e) => Holds(t, e)' \/ e \in missed',
         Publishes(t, e)' => /\ Publishes(t, e) /\ thread'[t].version = thread[t].version
                             /\ thread'[t].at \in Said => thread[t].at \in Said
                             /\ thread'[t].at = "published" => thread[t].at = "published"
  PROVE  RecordFor(e)'
<1>1. \A u \in Threads \ {t} : /\ Holds(u, e)' <=> Holds(u, e)
                               /\ Publishes(u, e)' <=> Publishes(u, e)
  BY DEF Holds, Publishes
<1>2. \A u \in Threads : Holds(u, e) => Holds(u, e)' \/ e \in missed'
  BY <1>1
<1>3. e \notin raced' => AloneFor(e)'
  <2> SUFFICES ASSUME e \notin raced' PROVE AloneFor(e)'
    OBVIOUS
  <2>1. AloneFor(e)
    BY DEF RecordFor
  <2>2. \A u, v \in Threads : Publishes(u, e)' /\ Publishes(v, e)' => u = v
    BY <1>1, <2>1 DEF AloneFor
  <2>3. ASSUME NEW u \in Threads, Publishes(u, e)'
        PROVE  /\ \/ thread'[u].version = conn'[e] \/ e \in missed'
                  \/ \E v \in Threads \ {u} : Holds(v, e)'
               /\ thread'[u].at \in Said => journal'[e] = "pending"
               /\ thread'[u].at = "published" => kuzu'[e] = thread'[u].version
    <3>1. Publishes(u, e) /\ thread'[u].version = thread[u].version
          /\ (thread'[u].at \in Said => thread[u].at \in Said)
          /\ (thread'[u].at = "published" => thread[u].at = "published")
      BY <1>1, <2>3
    <3> QED BY <1>2, <2>1, <3>1 DEF AloneFor
  <2> QED BY <2>2, <2>3 DEF AloneFor
<1> QED BY <1>2, <1>3 DEF RecordFor

-----------------------------------------------------------------------------
(***************************************************************************)
(* The writes.                                                             *)
(***************************************************************************)
\* Entities that change come into the thread's hand, or miss the journal.
Written(f, hand) ==
  \/ conn'[f] = Gone /\ f \in missed'
  \/ /\ conn'[f] = Gone <=> conn[f] = Gone
     /\ conn[f] # Gone => conn[f] <= conn'[f]
     /\ f \in hand \cup missed' \/ conn'[f] = conn[f]

LEMMA WriteStep ==
  ASSUME IInv, NEW t \in Threads, NEW e \in Entities, NEW rest \in SUBSET Entities,
         up = "open", thread[t].at = "idle",
         Moves(t, [at |-> "commit", now |-> e, rest |-> rest, version |-> 0]),
         conn' \in Counts, missed \subseteq missed', missed' \subseteq Entities,
         \A f \in Entities : Written(f, {e} \cup rest),
         UNCHANGED <<disk, journal, kuzu, up, mounted, raced>>
  PROVE  IInv'
<1> DEFINE w == [at |-> "commit", now |-> e, rest |-> rest, version |-> 0]
<1>1. w \in Threading /\ w.at = "commit" /\ w.now = e /\ w.rest = rest
  BY DEF Threading, Places, Versions
<1> HIDE DEF w
<1>2. Typed /\ Durable /\ Moves(t, w)
  BY DEF IInv, w
<1>3. /\ thread'[t] = w /\ \A u \in Threads \ {t} : thread'[u] = thread[u]
  BY <1>2, TypedThreads DEF Moves
<1>4. Typed'
  BY <1>1, <1>2, MoveTyped, TypedTables
<1>5. Durable'
  <2>1. \A f \in Entities : conn'[f] # Gone => conn[f] # Gone /\ conn[f] <= conn'[f]
    BY DEF Written
  <2>2. thread'[t].at \notin {"journal"} \cup Said
    BY <1>1, <1>3 DEF Said
  <2>3. \A u \in Threads : thread'[u] = thread[u] \/ thread'[u].at \notin {"journal"} \cup Said
    BY <1>3, <2>2
  <2> QED BY <1>2, <2>1, <2>3, DurableStep
<1>6. ASSUME NEW f \in Entities
      PROVE  RecordFor(f)'
  <2>1. RecordFor(f) /\ thread[t] = Idle
    BY DEF IInv, Recorded, Typed, Placed
  <2>2. ~Publishes(t, f)' /\ ~Holds(t, f) /\ ~Publishes(t, f)
    BY <1>1, <1>3, <2>1, IdleIsTyped DEF Publishes, Publishing, Holds
  <2>3. CASE conn'[f] = conn[f]
    BY <1>3, <2>1, <2>2, <2>3, RecordStays
  <2>4. CASE f \in missed' \/ f \in {e} \cup rest
    <3>1. Holds(t, f)' \/ f \in missed'
      BY <1>1, <1>3, <2>4 DEF Holds
    <3>2. conn'[f] = Gone => f \in missed'
      BY <2>1 DEF RecordFor, Written
    <3>3. \A u \in Threads : Publishes(u, f)' => Publishes(u, f) /\ u # t /\ thread'[u] = thread[u]
      BY <1>3, <2>2 DEF Publishes
    <3>4. f \notin raced => AloneFor(f)'
      BY <2>1, <3>1, <3>3 DEF RecordFor, AloneFor
    <3> QED BY <3>1, <3>2, <3>4 DEF RecordFor
  <2> QED BY <2>3, <2>4 DEF Written
<1> QED BY <1>4, <1>5, <1>6 DEF IInv, Recorded

LEMMA UpsertStateStep ==
  ASSUME IInv, NEW t \in Threads, NEW e \in Entities, UpsertState(t, e)
  PROVE  IInv'
<1>1. /\ up = "open" /\ thread[t].at = "idle"
      /\ Moves(t, [at |-> "commit", now |-> e, rest |-> {}, version |-> 0])
      /\ UNCHANGED <<disk, journal, kuzu, up, mounted, missed, raced>>
  BY DEF UpsertState, Take, Moves
<1>2. conn \in Counts
  BY TypedTables DEF IInv
<1>3. conn' \in Counts /\ \A f \in Entities : Written(f, {e} \cup {})
  BY <1>2 DEF Written, UpsertState, Changes, Counts, Versions
<1>4. missed \subseteq missed' /\ missed' \subseteq Entities
  BY <1>1, TypedTables DEF IInv
<1> QED BY <1>1, <1>3, <1>4, WriteStep

LEMMA UpsertRelationStep ==
  ASSUME IInv, NEW t \in Threads, NEW s \in Entities, NEW o \in Entities, UpsertRelation(t, s, o)
  PROVE  IInv'
<1>1. /\ up = "open" /\ thread[t].at = "idle"
      /\ Moves(t, [at |-> "commit", now |-> s, rest |-> {o}, version |-> 0])
      /\ UNCHANGED <<disk, journal, kuzu, up, mounted, missed, raced>>
  BY DEF UpsertRelation, Take, Moves
<1>2. conn \in Counts
  BY TypedTables DEF IInv
<1>3. conn' \in Counts /\ \A f \in Entities : Written(f, {s} \cup {o})
  BY <1>2 DEF Written, UpsertRelation, Changes, Counts, Versions
<1>4. missed \subseteq missed' /\ missed' \subseteq Entities
  BY <1>1, TypedTables DEF IInv
<1> QED BY <1>1, <1>3, <1>4, WriteStep

LEMMA MergeAliasStep ==
  ASSUME IInv, NEW t \in Threads, NEW a \in Entities, NEW e \in Entities,
         NEW others \in SUBSET Entities, MergeAlias(t, a, e, others)
  PROVE  IInv'
<1>1. /\ up = "open" /\ thread[t].at = "idle"
      /\ Moves(t, [at |-> "commit", now |-> e, rest |-> {}, version |-> 0])
      /\ missed' = missed \cup {a} \cup others
      /\ UNCHANGED <<disk, journal, kuzu, up, mounted, raced>>
  BY DEF MergeAlias, Take, Moves
<1>2. conn \in Counts
  BY TypedTables DEF IInv
<1>3. conn' \in Counts /\ \A f \in Entities : Written(f, {e} \cup {})
  <2>1. \A f \in Entities :
          conn'[f] = IF f = a THEN Gone
                     ELSE IF f \in others \cup {e} THEN conn[f] + 1 ELSE conn[f]
    BY DEF MergeAlias
  <2>2. a \notin others \cup {e} /\ \A f \in others \cup {e} : Changes(f)
    BY DEF MergeAlias
  <2>3. MaxVersion \in Nat /\ \A f \in Entities : conn[f] \in Versions \/ conn[f] = Gone
    BY <1>2, MaxVersionAssumption DEF Counts
  <2>4. ASSUME NEW f \in Entities
        PROVE  conn'[f] \in Versions \cup {Gone} /\ Written(f, {e} \cup {})
    <3>1. CASE f = a
      <4>1. conn'[f] = Gone /\ f \in missed'
        BY <1>1, <2>1, <3>1
      <4> QED BY <4>1 DEF Written
    <3>2. CASE f \in others \cup {e}
      <4>1. conn'[f] = conn[f] + 1 /\ conn[f] # Gone /\ conn[f] < MaxVersion
        BY <2>1, <2>2, <3>2 DEF Changes
      <4>2. conn'[f] \in Versions /\ conn'[f] # Gone /\ conn[f] <= conn'[f]
        BY <2>3, <4>1, GoneAssumption DEF Versions
      <4>3. f \in {e} \cup missed'
        BY <1>1, <3>2
      <4> QED BY <4>1, <4>2, <4>3 DEF Written
    <3>3. CASE f \notin others \cup {a, e}
      <4>1. conn'[f] = conn[f]
        BY <2>1, <3>3
      <4> QED BY <2>3, <4>1, GoneAssumption DEF Written, Versions
    <3> QED BY <3>1, <3>2, <3>3
  <2>5. conn' = [f \in Entities |-> conn'[f]]
    BY DEF MergeAlias
  <2> QED BY <2>4, <2>5 DEF Counts
<1>4. missed \subseteq missed' /\ missed' \subseteq Entities
  BY <1>1, TypedTables DEF IInv
<1> QED BY <1>1, <1>3, <1>4, WriteStep

-----------------------------------------------------------------------------
(***************************************************************************)
(* The steps of a publication.                                             *)
(***************************************************************************)
\* The entity is kept in hand, or given up on record, and not published anew.
KeepsFor(t, f) ==
  /\ journal'[f] = journal[f]
  /\ f \in missed => f \in missed'
  /\ f \in raced => f \in raced'
  /\ Holds(t, f) => Holds(t, f)' \/ f \in missed'
  /\ Publishes(t, f)' => /\ Publishes(t, f) /\ thread'[t].version = thread[t].version
                         /\ thread'[t].at \in Said => thread[t].at \in Said
                         /\ thread'[t].at = "published" => thread[t].at = "published"

LEMMA Moved ==
  ASSUME Typed, NEW t \in Threads, NEW w, Moves(t, w)
  PROVE  thread'[t] = w /\ \A u \in Threads \ {t} : thread'[u] = thread[u]
BY TypedThreads DEF Moves

LEMMA PublishStep ==
  ASSUME IInv, NEW t \in Threads, NEW w \in Threading, Moves(t, w), thread[t].at # "idle",
         w.at # "tx" \/ (w.at = "tx" /\ ~Busy),
         IF w.at = "idle" THEN w = Idle ELSE w.now \in Entities,
         conn' = conn, kuzu' = kuzu, disk' = disk \/ disk' = conn, up' = up,
         mounted' \in BOOLEAN, missed' \subseteq Entities, raced' \subseteq Entities,
         journal' \in [Entities -> {"none", "pending", "published", "failed"}],
         \/ w.at \notin {"journal"} \cup Said
         \/ w.at = "journal" /\ w.version = conn[w.now] /\ w.version \in Nat
         \/ /\ w.at \in Said /\ w.now = thread[t].now /\ w.version = thread[t].version
            /\ thread[t].at \in Said \/ (thread[t].at = "journal" /\ disk' = conn),
         \A f \in Entities : RecordFor(f)' \/ KeepsFor(t, f)
  PROVE  IInv'
<1>1. Typed /\ Durable /\ Recorded
  BY DEF IInv
<1>2. thread'[t] = w /\ \A u \in Threads \ {t} : thread'[u] = thread[u]
  BY <1>1, Moved
<1>3. /\ up' \in {"opening", "open"} /\ conn' \in Counts /\ disk' \in Counts
      /\ kuzu' \in [Entities -> Versions]
  BY <1>1, BusyIsUp, TypedTables
<1>4. Typed'
  BY <1>1, <1>3, MoveTyped
<1>5. Durable'
  <2>1. \A e \in Entities : conn'[e] # Gone => conn[e] # Gone /\ conn[e] <= conn'[e]
    BY <1>1, TypedTables DEF Counts, Versions
  <2>2. ASSUME NEW u \in Threads
        PROVE  \/ thread'[u] = thread[u]
               \/ thread'[u].at \notin {"journal"} \cup Said
               \/ /\ thread'[u].at = "journal" /\ thread'[u].version \in Nat
                  /\ thread'[u].version = conn'[thread'[u].now]
               \/ /\ thread'[u].at \in Said
                  /\ thread'[u].now = thread[u].now /\ thread'[u].version = thread[u].version
                  /\ thread[u].at \in Said \/ (thread[u].at = "journal" /\ disk' = conn')
    BY <1>2
  <2> QED BY <1>1, <1>3, <2>1, <2>2, DurableStep
<1>6. ASSUME NEW f \in Entities, KeepsFor(t, f)
      PROVE  RecordFor(f)'
  <2>1. RecordFor(f) /\ conn'[f] = conn[f] /\ kuzu'[f] = kuzu[f]
    BY <1>1 DEF Recorded
  <2> QED BY <1>2, <1>6, <2>1, RecordStays DEF KeepsFor
<1>7. Recorded'
  BY <1>6 DEF Recorded
<1> QED BY <1>4, <1>5, <1>7 DEF IInv

\* Going on to another place, with the same entity and snapshot.
LEMMA MoveMoves ==
  ASSUME Typed, NEW t \in Threads, NEW at \in Places, Move(t, at), thread[t].at # "idle"
  PROVE  \E w \in Threading :
           /\ Moves(t, w) /\ w.at = at /\ w.now = thread[t].now /\ w.rest = thread[t].rest
           /\ w.version = thread[t].version /\ w.now \in Entities
<1> DEFINE w == [thread[t] EXCEPT !.at = at]
<1>1. thread[t] \in Threading /\ thread[t].now \in Entities
  BY BusyIsUp
<1>2. w \in Threading /\ w.at = at /\ w.now = thread[t].now /\ w.rest = thread[t].rest
      /\ w.version = thread[t].version
  BY <1>1 DEF Threading
<1>3. Moves(t, w)
  BY DEF Move, Moves
<1> HIDE DEF w
<1> QED BY <1>1, <1>2, <1>3

LEMMA QuietMoveStep ==
  ASSUME IInv, NEW t \in Threads,
         Commit(t) \/ Check(t) \/ Begin(t) \/ PublishFails(t)
  PROVE  IInv'
<1> DEFINE at == IF Commit(t) THEN "check" ELSE IF Check(t) THEN "snapshot"
                 ELSE IF Begin(t) THEN "tx" ELSE "failed"
<1>0. Typed /\ thread[t].at # "idle"
  BY DEF IInv, Commit, Check, Begin, PublishFails
<1>1. /\ Move(t, at) /\ at \in Places
      /\ at \in {"check", "snapshot"} => thread[t].at \in {"commit", "check"}
      /\ at \in {"tx", "failed"} => thread[t].at \in {"begin", "tx"}
      /\ at \in {"check", "snapshot", "tx", "failed"} /\ (at = "tx" => ~Busy)
      /\ disk' = disk \/ disk' = conn
      /\ UNCHANGED <<conn, journal, kuzu, up, mounted, missed, raced>>
  BY DEF Commit, Check, Begin, PublishFails, Places, Publishing
<1> HIDE DEF at
<1>2. PICK w \in Threading :
        /\ Moves(t, w) /\ w.at = at /\ w.now = thread[t].now /\ w.rest = thread[t].rest
        /\ w.version = thread[t].version /\ w.now \in Entities
  BY <1>0, <1>1, MoveMoves
<1>3. thread'[t] = w
  BY <1>0, <1>2, Moved
<1>4. \A f \in Entities : KeepsFor(t, f)
  BY <1>1, <1>2, <1>3 DEF KeepsFor, Holds, Publishes, Publishing, Said
<1>5. /\ mounted' \in BOOLEAN /\ missed' \subseteq Entities /\ raced' \subseteq Entities
      /\ journal' \in [Entities -> {"none", "pending", "published", "failed"}]
  BY <1>0, <1>1, TypedTables
<1>6. /\ w.at # "tx" \/ (w.at = "tx" /\ ~Busy)
      /\ w.at # "idle"
      /\ w.at \notin {"journal"} \cup Said \/ (w.at \in Said /\ thread[t].at \in Said)
  BY <1>1, <1>2 DEF Said
<1> QED BY <1>0, <1>1, <1>2, <1>4, <1>5, <1>6, PublishStep

\* The end of an entity's publication, or of the call.
LEMMA ProceedStep ==
  ASSUME IInv, NEW t \in Threads, Skip(t) \/ Disable(t)
  PROVE  IInv'
<1>0. Typed /\ thread[t].at \in {"check", "disable"}
  BY DEF IInv, Skip, Disable
<1>1. /\ Proceed(t) /\ mounted' \in BOOLEAN
      /\ missed \subseteq missed' /\ missed' \subseteq missed \cup {thread[t].now}
      /\ thread[t].at = "check" => thread[t].now \in missed'
      /\ UNCHANGED <<conn, disk, journal, kuzu, up, raced>>
  BY <1>0, TypedTables DEF Skip, Disable
<1>2. PICK w \in Threading :
        /\ Moves(t, w)
        /\ \/ thread[t].rest = {} /\ w = Idle
           \/ /\ w.at = "check" /\ w.now \in thread[t].rest
              /\ w.rest = thread[t].rest \ {w.now} /\ w.now \in Entities
  BY <1>0, <1>1, ProceedMoves
<1>3. thread'[t] = w /\ w.at \in {"idle", "check"} /\ (w.at = "idle" => w = Idle)
      /\ (w.at = "check" => w.now \in Entities)
  BY <1>0, <1>2, Moved, IdleIsTyped
<1>4. \A f \in Entities : KeepsFor(t, f)
  BY <1>0, <1>1, <1>2, <1>3 DEF KeepsFor, Holds, Publishes, Publishing
<1>5. /\ missed' \subseteq Entities /\ raced' \subseteq Entities
      /\ journal' \in [Entities -> {"none", "pending", "published", "failed"}]
  BY <1>0, <1>1, TypedTables, BusyIsUp
<1>6. w.at \notin {"journal"} \cup Said /\ w.at # "tx"
  BY <1>3 DEF Said
<1> QED BY <1>0, <1>1, <1>2, <1>3, <1>4, <1>5, <1>6, PublishStep

\* A call that raises gives up on record what it has in hand.
LEMMA RaiseStep ==
  ASSUME IInv, NEW t \in Threads, SnapshotRaises(t) \/ JournalRaises(t)
  PROVE  IInv'
<1>0. Typed /\ thread[t].at \in {"snapshot", "journal"}
  BY DEF IInv, SnapshotRaises, JournalRaises
<1>1. thread[t] \in Threading /\ thread[t].now \in Entities
  BY <1>0, BusyIsUp
<1>2. /\ Moves(t, Idle)
      /\ missed \subseteq missed' /\ missed' \subseteq missed \cup {thread[t].now} \cup thread[t].rest
      /\ {thread[t].now} \cup thread[t].rest \subseteq missed'
      /\ UNCHANGED <<conn, disk, journal, kuzu, up, mounted, raced>>
  <2>1. conn[thread[t].now] = Gone => thread[t].now \in missed
    BY <1>1 DEF IInv, Recorded, RecordFor
  <2> QED BY <2>1 DEF SnapshotRaises, JournalRaises, RaiseOut, Moves
<1>3. thread'[t] = Idle
  BY <1>0, <1>2, Moved
<1>4. \A f \in Entities : KeepsFor(t, f)
  BY <1>2, <1>3, IdleIsTyped DEF KeepsFor, Holds, Publishes, Publishing
<1>5. /\ missed' \subseteq Entities /\ raced' \subseteq Entities /\ mounted' \in BOOLEAN
      /\ journal' \in [Entities -> {"none", "pending", "published", "failed"}]
  BY <1>0, <1>1, <1>2, TypedTables DEF Threading
<1>6. Idle.at \notin {"journal"} \cup Said /\ Idle.at # "tx"
  BY IdleIsTyped DEF Said
<1> QED BY <1>0, <1>2, <1>4, <1>5, <1>6, IdleIsTyped, PublishStep

\* A snapshot beside another thread's publication of the entity is a race; one
\* alone starts the entity's record afresh.
LEMMA SnapshotStep ==
  ASSUME IInv, NEW t \in Threads, Snapshot(t)
  PROVE  IInv'
<1>0. Typed /\ thread[t].at = "snapshot" /\ conn[thread[t].now] # Gone
  BY DEF IInv, Snapshot
<1>1. thread[t] \in Threading
  BY <1>0, BusyIsUp
<1>2. PICK e \in Entities : e = thread[t].now
  BY <1>0, BusyIsUp
<1>3. conn[e] \in Versions /\ conn[e] \in Nat
  BY <1>0, <1>2, TypedTables DEF Counts, Versions
<1> DEFINE w == [thread[t] EXCEPT !.at = "journal", !.version = conn[e]]
<1>4. /\ w \in Threading /\ w.at = "journal" /\ w.now = e /\ w.rest = thread[t].rest
      /\ w.version = conn[e]
  BY <1>1, <1>2, <1>3 DEF Threading, Places, Publishing
<1>5. Moves(t, w)
  BY <1>1, <1>2 DEF Snapshot, Moves, Threading
<1> HIDE DEF w
<1>6. thread'[t] = w /\ \A u \in Threads \ {t} : thread'[u] = thread[u]
  BY <1>0, <1>5, Moved
<1>7. /\ raced' = (IF Beside(t) THEN raced \cup {e} ELSE raced \ {e})
      /\ UNCHANGED <<conn, disk, journal, kuzu, up, mounted, missed>>
  BY <1>2 DEF Snapshot
<1>8. \A f \in Entities \ {e} : KeepsFor(t, f)
  BY <1>2, <1>4, <1>6, <1>7 DEF KeepsFor, Holds, Publishes
<1>9. RecordFor(e)'
  <2>1. Holds(t, e)' /\ RecordFor(e)
    BY <1>4, <1>6, <1>7 DEF Holds, IInv, Recorded
  <2>2. ASSUME e \notin raced' PROVE AloneFor(e)'
    <3>1. ~Beside(t)
      BY <1>7, <2>2
    <3>2. \A u \in Threads : Publishes(u, e)' => u = t
      BY <1>2, <1>6, <3>1 DEF Beside, Publishes
    <3> QED BY <1>4, <1>6, <1>7, <3>2 DEF AloneFor, Said
  <2> QED BY <1>7, <2>1, <2>2 DEF RecordFor
<1>10. /\ missed' \subseteq Entities /\ raced' \subseteq Entities /\ mounted' \in BOOLEAN
       /\ journal' \in [Entities -> {"none", "pending", "published", "failed"}]
  BY <1>0, <1>7, TypedTables
<1>11. \A f \in Entities : RecordFor(f)' \/ KeepsFor(t, f)
  BY <1>8, <1>9
<1> QED BY <1>0, <1>3, <1>4, <1>5, <1>7, <1>10, <1>11, PublishStep

\* The journal's row makes what it carries durable and puts it on record.
LEMMA JournalPendingStep ==
  ASSUME IInv, NEW t \in Threads, JournalPending(t)
  PROVE  IInv'
<1>0. Typed /\ thread[t].at = "journal" /\ Move(t, "begin")
  BY DEF IInv, JournalPending
<1>1. "begin" \in Places
  BY DEF Places, Publishing
<1>2. PICK w \in Threading :
        /\ Moves(t, w) /\ w.at = "begin" /\ w.now = thread[t].now /\ w.rest = thread[t].rest
        /\ w.version = thread[t].version /\ w.now \in Entities
  BY <1>0, <1>1, MoveMoves
<1>3. PICK e \in Entities : e = thread[t].now
  BY <1>2
<1>4. thread'[t] = w /\ \A u \in Threads \ {t} : thread'[u] = thread[u]
  BY <1>0, <1>2, Moved
<1>5. /\ journal' = [journal EXCEPT ![e] = "pending"] /\ disk' = conn
      /\ missed' = (IF thread[t].version = conn[e] THEN missed \ {e} ELSE missed)
      /\ UNCHANGED <<conn, kuzu, up, mounted, raced>>
  BY <1>3 DEF JournalPending
<1>6. /\ journal' \in [Entities -> {"none", "pending", "published", "failed"}]
      /\ journal'[e] = "pending" /\ \A f \in Entities \ {e} : journal'[f] = journal[f]
      /\ missed' \subseteq Entities /\ raced' \subseteq Entities /\ mounted' \in BOOLEAN
  BY <1>0, <1>5, TypedTables
<1>7. \A f \in Entities \ {e} : KeepsFor(t, f)
  BY <1>2, <1>3, <1>4, <1>5, <1>6 DEF KeepsFor, Holds, Publishes
<1>8. RecordFor(e)'
  <2>1. RecordFor(e) /\ Publishes(t, e)
    BY <1>0, <1>3 DEF IInv, Recorded, Publishes, Publishing
  <2>2. conn[e] = Gone => e \in missed'
    <3>1. thread[t].version \in Nat
      BY <1>0, BusyIsUp DEF Threading, Versions
    <3> QED BY <1>5, <2>1, <3>1 DEF RecordFor
  <2>3. ASSUME e \notin raced PROVE AloneFor(e)'
    <3>1. AloneFor(e)
      BY <2>1, <2>3 DEF RecordFor
    <3>2. \A u \in Threads : Publishes(u, e)' => u = t
      BY <1>4, <2>1, <3>1 DEF AloneFor, Publishes
    <3>3. \/ thread'[t].version = conn'[e] \/ e \in missed'
          \/ \E u \in Threads \ {t} : Holds(u, e)'
      BY <1>2, <1>4, <1>5, <2>1, <3>1 DEF AloneFor, Holds
    <3> QED BY <1>2, <1>4, <1>6, <3>2, <3>3 DEF AloneFor
  <2> QED BY <1>5, <1>6, <2>2, <2>3 DEF RecordFor
<1>9. \A f \in Entities : RecordFor(f)' \/ KeepsFor(t, f)
  BY <1>7, <1>8
<1> QED BY <1>0, <1>2, <1>5, <1>6, <1>9, PublishStep DEF Said

LEMMA JournalFailedStep ==
  ASSUME IInv, NEW t \in Threads, JournalFailed(t)
  PROVE  IInv'
<1>0. Typed /\ thread[t].at = "failed" /\ Move(t, "disable")
  BY DEF IInv, JournalFailed
<1>1. "disable" \in Places
  BY DEF Places
<1>2. PICK w \in Threading :
        /\ Moves(t, w) /\ w.at = "disable" /\ w.now = thread[t].now /\ w.rest = thread[t].rest
        /\ w.version = thread[t].version /\ w.now \in Entities
  BY <1>0, <1>1, MoveMoves
<1>3. PICK e \in Entities : e = thread[t].now
  BY <1>2
<1>4. thread'[t] = w /\ \A u \in Threads \ {t} : thread'[u] = thread[u]
  BY <1>0, <1>2, Moved
<1>5. /\ journal' = [journal EXCEPT ![e] = "failed"] /\ disk' = conn
      /\ UNCHANGED <<conn, kuzu, up, mounted, missed, raced>>
  BY <1>3 DEF JournalFailed
<1>6. /\ journal' \in [Entities -> {"none", "pending", "published", "failed"}]
      /\ journal'[e] = "failed" /\ \A f \in Entities \ {e} : journal'[f] = journal[f]
      /\ missed' \subseteq Entities /\ raced' \subseteq Entities /\ mounted' \in BOOLEAN
  BY <1>0, <1>5, TypedTables
<1>7. \A f \in Entities \ {e} : KeepsFor(t, f)
  BY <1>0, <1>2, <1>3, <1>4, <1>5, <1>6 DEF KeepsFor, Holds, Publishes, Publishing
<1>8. RecordFor(e)'
  <2>1. RecordFor(e) /\ Publishes(t, e)
    BY <1>0, <1>3 DEF IInv, Recorded, Publishes, Publishing
  <2>2. ASSUME e \notin raced PROVE AloneFor(e)'
    <3>1. AloneFor(e)
      BY <2>1, <2>2 DEF RecordFor
    <3>2. \A u \in Threads : ~Publishes(u, e)'
      BY <1>2, <1>4, <2>1, <3>1 DEF AloneFor, Publishes, Publishing
    <3> QED BY <3>2 DEF AloneFor
  <2> QED BY <1>5, <1>6, <2>1, <2>2 DEF RecordFor
<1>9. \A f \in Entities : RecordFor(f)' \/ KeepsFor(t, f)
  BY <1>7, <1>8
<1>10. w.at \notin {"journal"} \cup Said
  BY <1>2 DEF Said
<1> QED BY <1>0, <1>2, <1>5, <1>6, <1>9, <1>10, PublishStep

\* What was published alone is what SQLite has, or another thread comes after.
LEMMA JournalPublishedStep ==
  ASSUME IInv, NEW t \in Threads, JournalPublished(t)
  PROVE  IInv'
<1>0. Typed /\ thread[t].at = "published" /\ Proceed(t)
  BY DEF IInv, JournalPublished
<1>1. PICK e \in Entities : e = thread[t].now
  BY <1>0, BusyIsUp
<1>2. PICK w \in Threading :
        /\ Moves(t, w)
        /\ \/ thread[t].rest = {} /\ w = Idle
           \/ /\ w.at = "check" /\ w.now \in thread[t].rest
              /\ w.rest = thread[t].rest \ {w.now} /\ w.now \in Entities
  BY <1>0, ProceedMoves
<1>3. /\ thread'[t] = w /\ w.at \in {"idle", "check"} /\ (w.at = "idle" => w = Idle)
      /\ (w.at = "check" => w.now \in Entities)
      /\ \A u \in Threads \ {t} : thread'[u] = thread[u]
  BY <1>0, <1>2, Moved, IdleIsTyped
<1>4. /\ journal' = [journal EXCEPT ![e] = "published"] /\ disk' = conn
      /\ UNCHANGED <<conn, kuzu, up, mounted, missed, raced>>
  BY <1>1 DEF JournalPublished
<1>5. /\ journal' \in [Entities -> {"none", "pending", "published", "failed"}]
      /\ \A f \in Entities \ {e} : journal'[f] = journal[f]
      /\ missed' \subseteq Entities /\ raced' \subseteq Entities /\ mounted' \in BOOLEAN
  BY <1>0, <1>4, TypedTables
<1>6. \A f \in Entities \ {e} : KeepsFor(t, f)
  BY <1>0, <1>1, <1>2, <1>3, <1>4, <1>5 DEF KeepsFor, Holds, Publishes, Publishing
<1>7. RecordFor(e)'
  <2>1. RecordFor(e) /\ Publishes(t, e)
    BY <1>0, <1>1 DEF IInv, Recorded, Publishes, Publishing
  <2>2. \A u \in Threads \ {t} : Holds(u, e) => Holds(u, e)'
    BY <1>3, <1>4 DEF Holds
  <2>3. ASSUME e \notin raced
        PROVE  /\ AloneFor(e)'
               /\ e \in missed \/ kuzu[e] = conn[e] \/ \E u \in Threads : Holds(u, e)'
    <3>1. AloneFor(e)
      BY <2>1, <2>3 DEF RecordFor
    <3>2. \A u \in Threads : ~Publishes(u, e)'
      BY <1>3, <2>1, <3>1 DEF AloneFor, Publishes, Publishing
    <3>3. e \in missed \/ kuzu[e] = conn[e] \/ \E u \in Threads : Holds(u, e)'
      BY <1>0, <2>1, <2>2, <3>1 DEF AloneFor
    <3> QED BY <3>2, <3>3 DEF AloneFor
  <2> QED BY <1>4, <2>1, <2>3 DEF RecordFor
<1>8. \A f \in Entities : RecordFor(f)' \/ KeepsFor(t, f)
  BY <1>6, <1>7
<1>9. w.at \notin {"journal"} \cup Said /\ w.at # "tx"
  BY <1>3 DEF Said
<1> QED BY <1>0, <1>2, <1>3, <1>4, <1>5, <1>8, <1>9, PublishStep

\* Kuzu gets what is on disk, and of an entity that is marked.
LEMMA KuzuCommitStep ==
  ASSUME IInv, NEW t \in Threads, KuzuCommit(t)
  PROVE  IInv'
<1>0. Typed /\ Durable /\ Recorded /\ thread[t].at = "tx" /\ Move(t, "published")
  BY DEF IInv, KuzuCommit
<1>1. "published" \in Places
  BY DEF Places, Publishing
<1>2. PICK w \in Threading :
        /\ Moves(t, w) /\ w.at = "published" /\ w.now = thread[t].now /\ w.rest = thread[t].rest
        /\ w.version = thread[t].version /\ w.now \in Entities
  BY <1>0, <1>1, MoveMoves
<1>3. PICK e \in Entities, v \in Versions : e = thread[t].now /\ v = thread[t].version
  BY <1>2 DEF Threading
<1>4. thread'[t] = w /\ \A u \in Threads \ {t} : thread'[u] = thread[u]
  BY <1>0, <1>2, Moved
<1>5. /\ kuzu' = [kuzu EXCEPT ![e] = v]
      /\ raced' = Entities \/ (raced' = raced /\ conn[e] # Gone)
      /\ UNCHANGED <<conn, disk, journal, up, mounted, missed>>
  BY <1>3 DEF KuzuCommit
<1>6. /\ kuzu' \in [Entities -> Versions] /\ kuzu'[e] = v
      /\ \A f \in Entities \ {e} : kuzu'[f] = kuzu[f]
      /\ up' \in {"opening", "open"} /\ raced' \subseteq Entities /\ raced \subseteq Entities
  BY <1>0, <1>5, TypedTables, BusyIsUp
<1>7. Typed'
  BY <1>0, <1>2, <1>5, <1>6, MoveTyped, TypedTables
<1>8. Durable'
  <2>1. Ahead'
    BY <1>0, <1>5 DEF Durable, Ahead
  <2>2. disk[e] # Gone => v <= disk[e]
    BY <1>0, <1>3 DEF Durable, Carried, Said
  <2>3. DerivedIsDurable'
    BY <1>0, <1>5, <1>6, <2>2 DEF Durable, DerivedIsDurable
  <2>4. ASSUME NEW u \in Threads
        PROVE  /\ thread'[u].at = "journal" => thread'[u] = thread[u]
               /\ thread'[u].at \in Said => /\ thread[u].at \in Said
                                            /\ thread'[u].now = thread[u].now
                                            /\ thread'[u].version = thread[u].version
    BY <1>0, <1>2, <1>4 DEF Said
  <2>5. Carried'
    BY <1>0, <1>5, <2>4 DEF Durable, Carried
  <2> QED BY <2>1, <2>3, <2>5 DEF Durable
<1>9. ASSUME NEW f \in Entities PROVE RecordFor(f)'
  <2>1. RecordFor(f)
    BY <1>0 DEF Recorded
  <2>2. Holds(t, f) => Holds(t, f)'
    BY <1>0, <1>2, <1>4 DEF Holds
  <2>3. CASE f # e
    <3>1. ~Publishes(t, f)' /\ kuzu'[f] = kuzu[f] /\ (f \in raced => f \in raced')
      BY <1>2, <1>3, <1>4, <1>5, <1>6, <2>3 DEF Publishes
    <3> QED BY <1>4, <1>5, <2>1, <2>2, <3>1, RecordStays
  <2>4. CASE f = e
    <3>1. Publishes(t, e)
      BY <1>0, <1>3 DEF Publishes, Publishing
    <3>2. CASE e \in raced'
      BY <1>5, <2>1, <2>4, <3>2 DEF RecordFor
    <3>3. CASE e \notin raced'
      <4>1. e \notin raced /\ AloneFor(e)
        BY <1>5, <2>1, <2>4, <3>3 DEF RecordFor
      <4>2. journal[e] = "pending"
        BY <1>0, <3>1, <4>1 DEF AloneFor, Said
      <4>3. \A u \in Threads : Publishes(u, e)' => u = t
        BY <1>4, <3>1, <4>1 DEF AloneFor, Publishes
      <4>4. \A u \in Threads \ {t} : Holds(u, e) => Holds(u, e)'
        BY <1>4, <1>5 DEF Holds
      <4>5. \/ thread'[t].version = conn'[e] \/ e \in missed'
            \/ \E u \in Threads \ {t} : Holds(u, e)'
        BY <1>2, <1>4, <1>5, <3>1, <4>1, <4>4 DEF AloneFor
      <4>6. AloneFor(e)'
        BY <1>2, <1>3, <1>4, <1>5, <1>6, <4>2, <4>3, <4>5 DEF AloneFor
      <4> QED BY <1>5, <2>1, <2>4, <4>2, <4>6 DEF RecordFor
    <3> QED BY <3>2, <3>3
  <2> QED BY <2>3, <2>4
<1> QED BY <1>7, <1>8, <1>9 DEF IInv, Recorded

-----------------------------------------------------------------------------
(***************************************************************************)
(* The steps of no thread.                                                 *)
(***************************************************************************)
\* The store's and the backend's own state is no part of the rest.
LEMMA StoreStep ==
  ASSUME IInv, UNCHANGED <<conn, disk, journal, kuzu, thread, missed, raced>>,
         up' \in {"opening", "open"}, mounted' \in BOOLEAN
  PROVE  IInv'
<1>1. Typed'
  <2>1. TypeOK'
    BY DEF IInv, Typed, TypeOK
  <2>2. Placed'
    BY DEF IInv, Typed, Placed
  <2> QED BY <2>1, <2>2 DEF Typed
<1>2. Durable'
  BY DEF IInv, Durable, Ahead, DerivedIsDurable, Carried
<1>3. Recorded'
  BY DEF IInv, Recorded, RecordFor, AloneFor, Holds, Publishes
<1> QED BY <1>1, <1>2, <1>3 DEF IInv

LEMMA OpenStep ==
  ASSUME IInv, NEW t \in Threads, Open(t)
  PROVE  IInv'
<1>0. /\ Typed /\ Durable /\ Recorded /\ thread[t] = Idle
      /\ UNCHANGED <<conn, disk, journal, kuzu, missed, raced>>
      /\ up' \in {"opening", "open"} /\ mounted' = TRUE
  BY DEF IInv, Open, Typed, Placed, Quiet
<1>1. CASE thread' = thread
  BY <1>0, <1>1, StoreStep
<1>2. ASSUME NEW e \in Rows,
             thread' = [thread EXCEPT ![t] = [at |-> "check", now |-> e, rest |-> Rows \ {e},
                                              version |-> 0]]
      PROVE  IInv'
  <2> DEFINE w == [at |-> "check", now |-> e, rest |-> Rows \ {e}, version |-> 0]
  <2>1. w \in Threading /\ w.at = "check" /\ w.now \in Entities
    BY DEF Threading, Places, Versions, Rows
  <2>2. Moves(t, w)
    BY <1>2 DEF Moves
  <2> HIDE DEF w
  <2>3. thread'[t] = w /\ \A u \in Threads \ {t} : thread'[u] = thread[u]
    BY <1>0, <2>2, Moved
  <2>4. Typed'
    BY <1>0, <2>1, <2>2, MoveTyped, TypedTables
  <2>5. Durable'
    <3>1. \A f \in Entities : conn'[f] # Gone => conn[f] # Gone /\ conn[f] <= conn'[f]
      BY <1>0, TypedTables DEF Counts, Versions
    <3>2. \A u \in Threads : thread'[u] = thread[u] \/ thread'[u].at \notin {"journal"} \cup Said
      BY <2>1, <2>3 DEF Said
    <3> QED BY <1>0, <3>1, <3>2, DurableStep, TypedTables
  <2>6. ASSUME NEW f \in Entities PROVE RecordFor(f)'
    <3>1. RecordFor(f) /\ ~Holds(t, f) /\ ~Publishes(t, f)'
      BY <1>0, <2>1, <2>3, IdleIsTyped DEF Recorded, Holds, Publishes, Publishing
    <3> QED BY <1>0, <2>3, <3>1, RecordStays
  <2> QED BY <2>4, <2>5, <2>6 DEF IInv, Recorded
<1> QED BY <1>1, <1>2 DEF Open

LEMMA OperatorStep ==
  ASSUME IInv, NEW e \in Entities, OperatorResolves(e)
  PROVE  IInv'
<1>0. /\ Typed /\ Durable /\ Recorded
      /\ conn[e] # Gone /\ conn[e] < MaxVersion
      /\ conn' = [conn EXCEPT ![e] = @ + 1] /\ disk' = conn' /\ missed' = missed \cup {e}
      /\ UNCHANGED <<journal, kuzu, up, mounted, thread, raced>>
  BY DEF IInv, OperatorResolves, Changes
<1>1. /\ conn' \in Counts /\ conn'[e] = conn[e] + 1 /\ conn[e] \in Nat
      /\ \A f \in Entities \ {e} : conn'[f] = conn[f]
      /\ \A f \in Entities : conn[f] # Gone => conn[f] \in Nat
  BY <1>0, TypedTables DEF Counts, Versions
<1>2. Typed'
  <2>1. TypeOK'
    BY <1>0, <1>1 DEF Typed, TypeOK, Counts
  <2>2. Placed'
    BY <1>0 DEF Typed, Placed, Quiet
  <2> QED BY <2>1, <2>2 DEF Typed
<1>3. Durable'
  <2>1. \A f \in Entities : conn'[f] # Gone => conn[f] # Gone /\ conn[f] <= conn'[f]
    BY <1>0, <1>1
  <2> QED BY <1>0, <1>1, <2>1, DurableStep
<1>4. ASSUME NEW f \in Entities PROVE RecordFor(f)'
  <2>1. RecordFor(f)
    BY <1>0 DEF Recorded
  <2>2. CASE f = e
    BY <1>0, <2>1, <2>2 DEF RecordFor, AloneFor, Publishes
  <2>3. CASE f # e
    <3>1. \A u \in Threads : (Holds(u, f)' <=> Holds(u, f)) /\ (Publishes(u, f)' <=> Publishes(u, f))
      BY <1>0, <1>1, <2>3 DEF Holds, Publishes
    <3> QED BY <1>0, <1>1, <2>1, <2>3, <3>1 DEF RecordFor, AloneFor
  <2> QED BY <2>2, <2>3
<1> QED BY <1>2, <1>3, <1>4 DEF IInv, Recorded

\* A crash: what Kuzu has agreed on is still there, and what a thread had in
\* hand is given up on record.
LEMMA StopStep ==
  ASSUME IInv, Stop
  PROVE  IInv'
<1>0. /\ Typed /\ Durable /\ Recorded
      /\ up' = "down" /\ mounted' = FALSE /\ conn' = disk
      /\ thread' = [t \in Threads |-> Idle]
      /\ missed' = missed \cup UNION {Unsaid(t) : t \in Threads}
      /\ UNCHANGED <<disk, journal, kuzu, raced>>
  BY DEF IInv, Stop
<1>1. thread' \in [Threads -> Threading] /\ \A t \in Threads : thread'[t] = Idle
  BY <1>0, IdleIsTyped
<1>2. missed' \subseteq Entities
  <2>1. \A t \in Threads : Unsaid(t) \subseteq Entities
    <3> SUFFICES ASSUME NEW t \in Threads PROVE Unsaid(t) \subseteq Entities
      OBVIOUS
    <3>1. thread[t] \in Threading
      BY <1>0, TypedThreads
    <3>2. thread[t].at # "idle" => thread[t].now \in Entities
      BY <1>0 DEF Typed, Placed
    <3> QED BY <3>1, <3>2 DEF Unsaid, Threading
  <2> QED BY <1>0, <2>1, TypedTables
<1>3. Typed'
  <2>1. /\ conn' \in Counts /\ disk' \in Counts /\ kuzu' \in [Entities -> Versions]
        /\ journal' \in [Entities -> {"none", "pending", "published", "failed"}]
        /\ raced' \subseteq Entities
    BY <1>0, TypedTables
  <2>2. \A t, u \in Threads : thread'[t].at = "tx" /\ thread'[u].at = "tx" => t = u
    BY <1>1, IdleIsTyped
  <2>3. TypeOK'
    BY <1>0, <1>1, <1>2, <2>1, <2>2 DEF TypeOK, Threading, Places, Counts
  <2>4. Placed'
    BY <1>1, IdleIsTyped DEF Placed, Quiet
  <2> QED BY <2>3, <2>4 DEF Typed
<1>4. \A e \in Entities : /\ conn[e] # Gone => conn[e] \in Nat
                          /\ disk[e] # Gone => disk[e] \in Nat
                          /\ kuzu[e] \in Nat
  BY <1>0, TypedTables DEF Counts, Versions
<1>5. Durable'
  <2>1. Ahead'
    BY <1>0, <1>4 DEF Ahead
  <2>2. DerivedIsDurable'
    BY <1>0 DEF Durable, DerivedIsDurable
  <2>3. Carried'
    BY <1>1, IdleIsTyped DEF Carried, Said
  <2> QED BY <2>1, <2>2, <2>3 DEF Durable
<1>6. ASSUME NEW e \in Entities PROVE RecordFor(e)'
  <2>1. RecordFor(e)
    BY <1>0 DEF Recorded
  <2>2. \A t \in Threads : Holds(t, e) => e \in missed'
    BY <1>0 DEF Holds, Unsaid
  <2>3. kuzu[e] = conn[e] => kuzu[e] = disk[e]
    <3> SUFFICES ASSUME kuzu[e] = conn[e] PROVE kuzu[e] = disk[e]
      OBVIOUS
    <3>1. conn[e] # Gone
      BY <1>4
    <3>2. disk[e] # Gone /\ disk[e] <= conn[e] /\ kuzu[e] <= disk[e]
      BY <1>0, <3>1 DEF Durable, Ahead, DerivedIsDurable
    <3> QED BY <1>4, <3>1, <3>2
  <2>4. disk[e] = Gone => conn[e] = Gone
    BY <1>0 DEF Durable, Ahead
  <2>5. \A t \in Threads : ~Publishes(t, e)'
    BY <1>1, IdleIsTyped DEF Publishes, Publishing
  <2>6. AloneFor(e)'
    BY <2>5 DEF AloneFor
  <2> QED BY <1>0, <2>1, <2>2, <2>3, <2>4, <2>6 DEF RecordFor
<1> QED BY <1>3, <1>5, <1>6 DEF IInv, Recorded

LEMMA InitInvariant == Init => IInv
BY InitTyped, InitDurable, InitRecorded DEF IInv

LEMMA NextInvariant == IInv /\ [Next]_vars => IInv'
<1> SUFFICES ASSUME IInv, [Next]_vars PROVE IInv'
  OBVIOUS
<1>1. ASSUME NEW t \in Threads, Write(t)
      PROVE  IInv'
  BY <1>1, UpsertStateStep, UpsertRelationStep, MergeAliasStep DEF Write
<1>2. ASSUME NEW t \in Threads, Publish(t)
      PROVE  IInv'
  BY <1>2, QuietMoveStep, ProceedStep, RaiseStep, SnapshotStep, JournalPendingStep,
     JournalFailedStep, JournalPublishedStep, KuzuCommitStep DEF Publish
<1>3. ASSUME NEW t \in Threads, Open(t)
      PROVE  IInv'
  BY <1>3, OpenStep
<1>4. ASSUME NEW e \in Entities, OperatorResolves(e)
      PROVE  IInv'
  BY <1>4, OperatorStep
<1>5. CASE Stop
  BY <1>5, StopStep
<1>6. CASE ReadFails \/ OpenUnmounted \/ Opened
  <2>1. mounted \in BOOLEAN
    BY TypedTables DEF IInv
  <2> QED BY <1>6, <2>1, StoreStep DEF ReadFails, OpenUnmounted, Opened
<1>7. CASE UNCHANGED vars
  <2>1. Typed'
    <3>1. TypeOK'
      BY <1>7 DEF vars, IInv, Typed, TypeOK
    <3>2. Placed'
      BY <1>7 DEF vars, IInv, Typed, Placed, Quiet
    <3> QED BY <3>1, <3>2 DEF Typed
  <2>2. Durable'
    BY <1>7 DEF vars, IInv, Durable, Ahead, DerivedIsDurable, Carried
  <2>3. Recorded'
    BY <1>7 DEF vars, IInv, Recorded, RecordFor, AloneFor, Holds, Publishes
  <2> QED BY <2>1, <2>2, <2>3 DEF IInv
<1> QED BY <1>1, <1>2, <1>3, <1>4, <1>5, <1>6, <1>7 DEF Next

LEMMA Invariance == Spec => []IInv
<1> QED BY InitInvariant, NextInvariant, PTL DEF Spec

-----------------------------------------------------------------------------
\* The variables keep their types, and Kuzu has one transaction at a time.
THEOREM TypeCorrect == Spec => []TypeOK
<1>1. IInv => TypeOK
  BY DEF IInv, Typed
<1> QED BY <1>1, Invariance, PTL

\* Kuzu never has what SQLite could lose by a crash, though snapshots read what
\* another thread has not committed.
THEOREM DerivedStaysDurable == Spec => []DerivedIsDurable
<1>1. IInv => DerivedIsDurable
  BY DEF IInv, Durable
<1> QED BY <1>1, Invariance, PTL

\* Whatever fails and stops, Kuzu has of an entity what SQLite has, or the
\* journal says that it may not, but for the changes and the races named.
THEOREM StaleStaysOnRecord == Spec => []StaleIsOnRecord
<1>1. ASSUME IInv PROVE StaleIsOnRecord
  <2> SUFFICES ASSUME NEW e \in Entities, ~InHand(e), kuzu[e] # conn[e]
               PROVE  journal[e] \in {"pending", "failed"} \/ e \in missed \cup raced
    BY DEF StaleIsOnRecord
  <2>1. \A t \in Threads : ~Holds(t, e)
    BY DEF InHand, Holds
  <2> QED BY <1>1, <2>1 DEF IInv, Recorded, RecordFor
<1> QED BY <1>1, Invariance, PTL
=============================================================================
