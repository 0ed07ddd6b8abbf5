-------------------------- MODULE SourceSyncProofs --------------------------
(***************************************************************************)
(* Source synchronisation: the theorems, for any number of principals and  *)
(* files.  A row belongs to one principal for good, which makes the choice *)
(* of the storage key stable while a sync goes on; what a sync has done so *)
(* far of its folder is Progress.                                          *)
(***************************************************************************)
EXTENDS SourceSync, TLAPS

\* A sync under way has an owner, and the files it has not got to were there.
\* Those it has got to are on record; a document it counts as the owner's is of
\* a file that was there and under a key it may write, or is still up for
\* deactivation.
Seen(p, snap, k) == snap[k.file] # Gone /\ k.scope \in {Nobody, p} \ {Unscoped}

Progress ==
  sync.at # "none" =>
    /\ sync.who \in Principals
    /\ \A f \in sync.todo : sync.snap[f] # Gone
    /\ \A f \in Files \ sync.todo : sync.snap[f] # Gone =>
         row[StorageKey(sync.who, f)].hash = sync.snap[f]
    /\ ~sync.failed => \A k \in ActiveKeys(sync.who) :
         Seen(sync.who, sync.snap, k) \/ k \in sync.missing
    /\ sync.at = "record" => sync.policy # "deactivate_missing"

IInv == TypeOK /\ OneDocumentPerFile /\ Progress

LEMMA KeysDiffer ==
  ASSUME NEW p \in Principals, NEW f \in Files
  PROVE  /\ Key(f, p) \in Keys /\ Key(f, Nobody) \in Keys
         /\ Key(f, p).file = f /\ Key(f, Nobody).file = f
         /\ Key(f, p).scope = p /\ Key(f, Nobody).scope = Nobody
         /\ \A g \in Files, q \in Principals :
              /\ Key(f, p) # Key(g, Nobody)
              /\ f # g \/ p # q => Key(f, p) # Key(g, q)
              /\ f # g => Key(f, Nobody) # Key(g, Nobody)
BY GoneAssumption DEF Key, Keys

\* The key of a document is one of two; its row is nobody's or the principal's,
\* unless the document is unscoped.
LEMMA KeyIsOwn ==
  ASSUME OneDocumentPerFile, NEW p \in Principals, NEW f \in Files
  PROVE  /\ StorageKey(p, f) \in {Key(f, p), Key(f, Nobody)} \cap Keys
         /\ p # Unscoped => row[StorageKey(p, f)].who \in {Nobody, p}
         /\ p = Unscoped => StorageKey(p, f) = Key(f, Nobody)
         /\ StorageKey(p, f).file = f /\ StorageKey(p, f).scope \in {Nobody, p} \ {Unscoped}
BY KeysDiffer, GoneAssumption DEF OneDocumentPerFile, StorageKey

RowType == [who : Principals \cup {Nobody}, hash : Contents \cup {Gone}, active : BOOLEAN]

\* What a write does to the rows: it takes one row, for good.
LEMMA WriteEffect ==
  ASSUME IInv, sync.at = "ingest", NEW f \in sync.todo, Write(f)
  PROVE  /\ row' \in [Keys -> RowType]
         /\ row'[StorageKey(sync.who, f)] =
              [who |-> sync.who, hash |-> sync.snap[f], active |-> TRUE]
         /\ \A k \in Keys : k # StorageKey(sync.who, f) => row'[k] = row[k]
         /\ \A k \in Keys : row[k].who = sync.who => row'[k].who = sync.who
         /\ OneDocumentPerFile'
<1> DEFINE p == sync.who
           key == StorageKey(p, f)
           new == [who |-> p, hash |-> sync.snap[f], active |-> TRUE]
<1>1. p \in Principals /\ f \in Files /\ sync.snap \in Folders
  BY DEF IInv, TypeOK, Progress
<1>2. /\ key \in {Key(f, p), Key(f, Nobody)} \cap Keys
      /\ p # Unscoped => row[key].who \in {Nobody, p}
      /\ p = Unscoped => key = Key(f, Nobody)
  BY <1>1, KeyIsOwn DEF IInv
<1>3. row' = [row EXCEPT ![key] = new]
  BY DEF Write
<1>4. row \in [Keys -> RowType]
  BY DEF IInv, TypeOK, RowType
<1>5. row'[key] = new /\ \A k \in Keys : k # key => row'[k] = row[k]
  BY <1>2, <1>3, <1>4
<1>6. new \in RowType
  BY <1>1, GoneAssumption DEF RowType, Folders
<1>7. row' \in [Keys -> RowType]
  BY <1>2, <1>3, <1>4, <1>6
<1>8. ASSUME NEW q \in Principals, NEW g \in Files
      PROVE  /\ row'[Key(g, q)].who \in {Nobody, q} \ {Unscoped}
             /\ row'[Key(g, q)].who = q => row'[Key(g, Nobody)].who \notin {Nobody, q}
  <2>1. /\ row[Key(g, q)].who \in {Nobody, q} \ {Unscoped}
        /\ row[Key(g, q)].who = q => row[Key(g, Nobody)].who \notin {Nobody, q}
    BY DEF IInv, OneDocumentPerFile
  <2>2. Key(g, q) \in Keys /\ Key(g, Nobody) \in Keys
    BY KeysDiffer
  <2>3. CASE key = Key(f, Nobody)
    <3>1. row[Key(f, p)].who = Nobody
      BY <1>1, <2>3, KeysDiffer DEF StorageKey, IInv, OneDocumentPerFile
    <3>2. row'[Key(g, q)] = row[Key(g, q)]
      BY <1>1, <1>5, <2>2, <2>3, KeysDiffer
    <3>3. CASE f = g
      BY <1>1, <1>2, <1>5, <2>1, <2>3, <3>1, <3>2, <3>3, GoneAssumption
    <3>4. CASE f # g
      BY <1>1, <1>5, <2>1, <2>2, <2>3, <3>2, <3>4, KeysDiffer
    <3> QED BY <3>3, <3>4
  <2>4. CASE key = Key(f, p)
    <3>1. row'[Key(g, Nobody)] = row[Key(g, Nobody)]
      BY <1>1, <1>5, <2>2, <2>4, KeysDiffer
    <3>2. CASE f = g /\ p = q
      <4>1. row[Key(f, Nobody)].who \notin {Nobody, p}
        BY <1>1, <1>2, <2>1, <2>4, <3>2, KeysDiffer, GoneAssumption DEF StorageKey
      <4>2. p # Unscoped
        BY <1>1, <1>2, <2>4, KeysDiffer
      <4> QED BY <1>1, <1>5, <2>4, <3>1, <3>2, <4>1, <4>2
    <3>3. CASE f # g \/ p # q
      BY <1>1, <1>5, <2>1, <2>2, <2>4, <3>1, <3>3, KeysDiffer
    <3> QED BY <3>2, <3>3
  <2> QED BY <1>2, <2>3, <2>4
<1>9. OneDocumentPerFile'
  BY <1>8 DEF OneDocumentPerFile
<1> QED BY <1>2, <1>5, <1>7, <1>9

\* A write does not move the storage key of any file of the sync's principal.
LEMMA KeysStay ==
  ASSUME IInv, sync.at = "ingest", NEW f \in sync.todo, Write(f), sync.who' = sync.who,
         NEW g \in Files
  PROVE  StorageKey(sync.who, g)' = StorageKey(sync.who, g)
<1> DEFINE p == sync.who
           key == StorageKey(p, f)
<1>1. p \in Principals /\ f \in Files
  BY DEF IInv, TypeOK, Progress
<1>2. key \in {Key(f, p), Key(f, Nobody)} \cap Keys
  BY <1>1, KeyIsOwn DEF IInv
<1>a. /\ row'[key] = [who |-> p, hash |-> sync.snap[f], active |-> TRUE]
      /\ \A k \in Keys : k # key => row'[k] = row[k]
  BY WriteEffect
<1>3. row'[key].who = p /\ \A k \in Keys : k # key => row'[k] = row[k]
  BY <1>a
<1>4. Key(g, p) \in Keys /\ Key(g, Nobody) \in Keys
  BY <1>1, KeysDiffer
<1>5. CASE f # g
  <2>1. row'[Key(g, p)] = row[Key(g, p)] /\ row'[Key(g, Nobody)] = row[Key(g, Nobody)]
    BY <1>1, <1>2, <1>3, <1>4, <1>5, KeysDiffer
  <2> QED BY <2>1 DEF StorageKey
<1>6. CASE f = g /\ key = Key(f, Nobody)
  <2>1. row[Key(f, p)].who = Nobody /\ row'[Key(f, p)] = row[Key(f, p)]
    BY <1>1, <1>3, <1>4, <1>6, KeysDiffer DEF StorageKey, IInv, OneDocumentPerFile
  <2> QED BY <1>3, <1>6, <2>1 DEF StorageKey
<1>7. CASE f = g /\ key = Key(f, p)
  BY <1>1, <1>3, <1>7, GoneAssumption DEF StorageKey
<1> QED BY <1>2, <1>5, <1>6, <1>7

-----------------------------------------------------------------------------
SyncType ==
  [at : {"none", "ingest", "delete", "record"}, who : Principals \cup {Nobody},
   policy : Policies \cup {"retain_missing"}, snap : Folders, todo : SUBSET Files,
   missing : SUBSET Keys, changed : BOOLEAN, failed : BOOLEAN, again : BOOLEAN]

LEMMA NoSyncIsTyped ==
  NoSync \in SyncType /\ NoSync.at = "none" /\ NoSync.missing = {} /\ NoSync.todo = {}
BY DEF NoSync, SyncType, Folders

LEMMA InitInvariant == Init => IInv
<1> SUFFICES ASSUME Init PROVE IInv
  OBVIOUS
<1>1. NoRow \in RowType
  BY DEF NoRow, RowType
<1>2. row \in [Keys -> RowType] /\ \A k \in Keys : row[k].who = Nobody
  BY <1>1 DEF Init, NoRow
<1>3. NoRun \in [who : Principals \cup {Nobody}, cursor : Folders,
                 policy : Policies \cup {"retain_missing"},
                 status : {"none", "degraded", "changed", "no_input", "unchanged"}]
  BY DEF NoRun, Folders
<1>4. TypeOK
  BY <1>2, <1>3, NoSyncIsTyped DEF Init, TypeOK, RowType, SyncType
<1>5. OneDocumentPerFile
  BY <1>2, KeysDiffer, GoneAssumption DEF OneDocumentPerFile
<1>6. Progress
  BY NoSyncIsTyped DEF Init, Progress
<1> QED BY <1>4, <1>5, <1>6 DEF IInv

\* A new sync: what is missing may be the sync's to deactivate.
LEMMA StartStep ==
  ASSUME IInv, NEW p \in Principals, NEW folder \in Folders, NEW policy \in Policies,
         Start(p, folder, policy)
  PROVE  IInv'
<1>1. /\ row' = row /\ latest' = latest /\ cut' = cut
      /\ sync'.at = "ingest" /\ sync'.who = p /\ sync'.snap = folder /\ ~sync'.failed
      /\ sync'.todo = {f \in Files : folder[f] # Gone}
      /\ sync'.missing = ActiveKeys(p) \ Present(folder)
  BY DEF Start
<1>2. sync' \in SyncType
  BY DEF Start, SyncType, ActiveKeys, IInv, TypeOK
<1>3. p # Unscoped => \A k \in sync'.missing : row[k].who \in {p, Unscoped}
  BY <1>1 DEF ActiveKeys
<1>4. TypeOK'
  BY <1>1, <1>2, <1>3 DEF IInv, TypeOK, SyncType
<1>5. OneDocumentPerFile'
  BY <1>1 DEF IInv, OneDocumentPerFile
<1>6. \A k \in ActiveKeys(p) : Seen(p, folder, k) \/ k \in sync'.missing
  BY <1>1, KeysDiffer, GoneAssumption DEF Present, ActiveKeys, Seen
<1>7. Progress'
  <2>1. ActiveKeys(p)' = ActiveKeys(p)
    BY <1>1 DEF ActiveKeys
  <2> QED BY <1>1, <1>6, <2>1 DEF Progress, Seen
<1> QED BY <1>4, <1>5, <1>7 DEF IInv

\* A sync that ends leaves the rest as it is.
LEMMA EndStep ==
  ASSUME IInv, sync' = NoSync, row' \in [Keys -> RowType], OneDocumentPerFile',
         cut' \in BOOLEAN,
         latest' \in [who : Principals \cup {Nobody}, cursor : Folders,
                      policy : Policies \cup {"retain_missing"},
                      status : {"none", "degraded", "changed", "no_input", "unchanged"}]
  PROVE  IInv'
<1>1. TypeOK'
  BY NoSyncIsTyped DEF TypeOK, RowType, SyncType
<1>2. Progress'
  BY NoSyncIsTyped DEF Progress
<1> QED BY <1>1, <1>2 DEF IInv

\* A write in a sync that goes on.
LEMMA IngestStep ==
  ASSUME IInv, NEW f \in Files, Ingest(f)
  PROVE  IInv'
<1> DEFINE p == sync.who
           key == StorageKey(p, f)
<1>1. /\ sync.at = "ingest" /\ f \in sync.todo /\ Write(f)
      /\ sync' = [sync EXCEPT !.todo = @ \ {f}, !.changed = TRUE]
      /\ latest' = latest /\ cut' = cut
  BY DEF Ingest
<1>2. sync \in SyncType /\ p \in Principals /\ row \in [Keys -> RowType]
  BY <1>1 DEF IInv, TypeOK, SyncType, Progress, RowType
<1>3. /\ sync' \in SyncType /\ sync'.todo = sync.todo \ {f}
      /\ sync'.at = sync.at /\ sync'.who = p /\ sync'.policy = sync.policy
      /\ sync'.snap = sync.snap /\ sync'.missing = sync.missing /\ sync'.failed = sync.failed
  BY <1>1, <1>2 DEF SyncType
<1>4. /\ row' \in [Keys -> RowType]
      /\ row'[key] = [who |-> p, hash |-> sync.snap[f], active |-> TRUE]
      /\ \A k \in Keys : k # key => row'[k] = row[k]
      /\ \A k \in Keys : row[k].who = p => row'[k].who = p
      /\ OneDocumentPerFile'
  BY <1>1, WriteEffect
<1>5. TypeOK'
  <2>1. p # Unscoped => \A k \in sync.missing : row'[k].who \in {p, Unscoped}
    BY <1>2, <1>4 DEF IInv, TypeOK, SyncType
  <2> QED BY <1>1, <1>3, <1>4, <2>1 DEF IInv, TypeOK, SyncType, RowType
<1>6. \A g \in Files : StorageKey(p, g)' = StorageKey(p, g)
  BY <1>1, <1>3, KeysStay
<1>7. ASSUME NEW g \in Files \ sync'.todo, sync.snap[g] # Gone
      PROVE  row'[StorageKey(p, g)].hash = sync.snap[g]
  <2>1. CASE g = f
    BY <1>4, <2>1
  <2>2. CASE g # f
    <3>1. g \in Files \ sync.todo
      BY <1>3, <2>2
    <3>2. row[StorageKey(p, g)].hash = sync.snap[g]
      BY <1>1, <1>7, <3>1 DEF IInv, Progress
    <3>3. StorageKey(p, g) \in Keys /\ StorageKey(p, g) # key
      BY <1>2, <2>2, KeyIsOwn DEF IInv
    <3> QED BY <1>4, <3>2, <3>3
  <2> QED BY <2>1, <2>2
<1>8. ASSUME ~sync.failed, NEW k \in ActiveKeys(p)'
      PROVE  Seen(p, sync.snap, k) \/ k \in sync.missing
  <2>1. CASE k = key
    BY <1>1, <1>2, <2>1, KeyIsOwn DEF IInv, Progress, Seen
  <2>2. CASE k # key
    BY <1>1, <1>3, <1>4, <1>8, <2>2 DEF IInv, Progress, ActiveKeys
  <2> QED BY <2>1, <2>2
<1>9. Progress'
  BY <1>1, <1>2, <1>3, <1>6, <1>7, <1>8 DEF IInv, Progress, Seen
<1> QED BY <1>4, <1>5, <1>9 DEF IInv

\* A step that changes no row, and the sync in what Progress does not ask for.
LEMMA SkipStep ==
  ASSUME IInv, NEW f \in Files, Skip(f)
  PROVE  IInv'
<1>1. sync \in SyncType
  BY DEF IInv, TypeOK, SyncType
<1>2. /\ sync' \in SyncType /\ sync'.todo = sync.todo \ {f}
      /\ sync'.at = sync.at /\ sync'.who = sync.who /\ sync'.policy = sync.policy
      /\ sync'.snap = sync.snap /\ sync'.missing = sync.missing /\ sync'.failed = sync.failed
      /\ row' = row /\ latest' = latest /\ cut' = cut
  BY <1>1 DEF Skip, SyncType
<1>3. TypeOK'
  BY <1>2 DEF IInv, TypeOK, SyncType
<1>4. OneDocumentPerFile'
  BY <1>2 DEF IInv, OneDocumentPerFile
<1>5. \A g \in Files : StorageKey(sync.who, g)' = StorageKey(sync.who, g)
  BY <1>2 DEF StorageKey
<1>6. ActiveKeys(sync.who)' = ActiveKeys(sync.who)
  BY <1>2 DEF ActiveKeys
<1>7. Progress'
  BY <1>2, <1>5, <1>6 DEF IInv, Progress, Skip
<1> QED BY <1>3, <1>4, <1>7 DEF IInv

LEMMA IngestedStep ==
  ASSUME IInv, Ingested
  PROVE  IInv'
<1>1. sync \in SyncType
  BY DEF IInv, TypeOK, SyncType
<1>2. /\ sync' \in SyncType /\ sync'.todo = sync.todo
      /\ sync'.at \in {"delete", "record"}
      /\ sync'.at = "record" => sync.policy # "deactivate_missing"
      /\ sync'.who = sync.who /\ sync'.policy = sync.policy
      /\ sync'.snap = sync.snap /\ sync'.missing = sync.missing /\ sync'.failed = sync.failed
      /\ row' = row /\ latest' = latest /\ cut' = cut
  BY <1>1 DEF Ingested, SyncType
<1>3. TypeOK'
  BY <1>2 DEF IInv, TypeOK, SyncType, Ingested
<1>4. OneDocumentPerFile'
  BY <1>2 DEF IInv, OneDocumentPerFile
<1>5. \A g \in Files : StorageKey(sync.who, g)' = StorageKey(sync.who, g)
  BY <1>2 DEF StorageKey
<1>6. ActiveKeys(sync.who)' = ActiveKeys(sync.who)
  BY <1>2 DEF ActiveKeys
<1>7. Progress'
  BY <1>2, <1>5, <1>6 DEF IInv, Progress, Ingested
<1> QED BY <1>3, <1>4, <1>7 DEF IInv

\* A deactivation, carried out or refused.
LEMMA DeactivationStep ==
  ASSUME IInv, NEW k \in Keys, Deactivate(k) \/ DeactivateFails(k)
  PROVE  IInv'
<1> DEFINE p == sync.who
<1>1. sync \in SyncType /\ row \in [Keys -> RowType]
  BY DEF IInv, TypeOK, SyncType, RowType
<1>2. /\ sync' \in SyncType /\ sync'.todo = sync.todo /\ sync'.missing = sync.missing \ {k}
      /\ sync.at = "delete" /\ sync'.at = sync.at /\ sync'.who = p
      /\ sync'.policy = sync.policy /\ sync'.snap = sync.snap
      /\ latest' = latest /\ cut' = cut /\ k \in sync.missing
      /\ sync'.failed \/ (row' = [row EXCEPT ![k].active = FALSE] /\ sync'.failed = sync.failed)
  BY <1>1 DEF Deactivate, DeactivateFails, SyncType
<1>3. /\ row' \in [Keys -> RowType]
      /\ \A l \in Keys : /\ row'[l].who = row[l].who /\ row'[l].hash = row[l].hash
                         /\ row'[l].active => row[l].active /\ (sync'.failed \/ l # k)
  <2>1. CASE row' = row /\ sync'.failed
    BY <1>1, <2>1
  <2>2. CASE row' = [row EXCEPT ![k].active = FALSE]
    <3>1. /\ row'[k] = [row[k] EXCEPT !.active = FALSE] /\ row[k] \in RowType
          /\ \A l \in Keys : l # k => row'[l] = row[l]
      BY <1>1, <2>2
    <3>2. /\ row'[k] \in RowType /\ row'[k].who = row[k].who /\ row'[k].hash = row[k].hash
          /\ ~row'[k].active
      BY <3>1 DEF RowType
    <3> QED BY <1>1, <2>2, <3>1, <3>2
  <2> QED BY <1>1, <2>1, <2>2 DEF Deactivate, DeactivateFails, SyncType
<1>4. TypeOK'
  BY <1>2, <1>3 DEF IInv, TypeOK, SyncType, RowType
<1>5. OneDocumentPerFile'
  BY <1>3, KeysDiffer DEF IInv, OneDocumentPerFile
<1>6. p \in Principals
  BY <1>2 DEF IInv, Progress
<1>7. \A g \in Files : /\ StorageKey(p, g)' = StorageKey(p, g) /\ StorageKey(p, g) \in Keys
                       /\ row'[StorageKey(p, g)].hash = row[StorageKey(p, g)].hash
  <2>1. ASSUME NEW g \in Files
        PROVE  /\ StorageKey(p, g)' = StorageKey(p, g) /\ StorageKey(p, g) \in Keys
               /\ row'[StorageKey(p, g)].hash = row[StorageKey(p, g)].hash
    <3>1. Key(g, p) \in Keys /\ Key(g, Nobody) \in Keys
      BY <1>6, KeysDiffer
    <3> QED BY <1>2, <1>3, <3>1 DEF StorageKey
  <2> QED BY <2>1
<1>8. ASSUME ~sync'.failed, NEW l \in ActiveKeys(p)'
      PROVE  Seen(p, sync.snap, l) \/ l \in sync'.missing
  <2>1. ~sync.failed /\ row' = [row EXCEPT ![k].active = FALSE]
    BY <1>2, <1>8
  <2>2. l \in ActiveKeys(p) /\ l # k
    BY <1>2, <1>3, <1>8, <2>1 DEF ActiveKeys
  <2> QED BY <1>2, <2>1, <2>2 DEF IInv, Progress
<1>9. Progress'
  BY <1>2, <1>6, <1>7, <1>8 DEF IInv, Progress, Seen
<1> QED BY <1>4, <1>5, <1>9 DEF IInv

LEMMA NextInvariant == IInv /\ [Next]_vars => IInv'
<1> SUFFICES ASSUME IInv, [Next]_vars PROVE IInv'
  OBVIOUS
<1>0. /\ row \in [Keys -> RowType] /\ sync \in SyncType /\ cut \in BOOLEAN
      /\ latest \in [who : Principals \cup {Nobody}, cursor : Folders,
                     policy : Policies \cup {"retain_missing"},
                     status : {"none", "degraded", "changed", "no_input", "unchanged"}]
  BY DEF IInv, TypeOK, RowType, SyncType
<1>1. ASSUME NEW p \in Principals, NEW folder \in Folders, NEW policy \in Policies,
             Start(p, folder, policy)
      PROVE  IInv'
  BY <1>1, StartStep
<1>2. ASSUME NEW f \in Files, Skip(f) \/ Ingest(f)
      PROVE  IInv'
  BY <1>2, SkipStep, IngestStep
<1>3. ASSUME NEW f \in Files, IngestRaises(f)
      PROVE  IInv'
  <2>1. /\ sync.at = "ingest" /\ f \in sync.todo /\ Write(f)
        /\ sync' = NoSync /\ cut' = TRUE /\ latest' = latest
    BY <1>3 DEF IngestRaises
  <2>2. row' \in [Keys -> RowType] /\ OneDocumentPerFile'
    BY <2>1, WriteEffect
  <2> QED BY <1>0, <2>1, <2>2, EndStep
<1>4. ASSUME NEW k \in Keys, Deactivate(k) \/ DeactivateFails(k)
      PROVE  IInv'
  BY <1>4, DeactivationStep
<1>5. CASE Ingested
  BY <1>5, IngestedStep
<1>6. CASE RecordRun
  <2>1. Status \in {"none", "degraded", "changed", "no_input", "unchanged"}
    BY DEF Status
  <2>2. /\ sync' = NoSync /\ row' = row /\ cut' = FALSE
        /\ latest' = [who |-> sync.who, cursor |-> sync.snap, policy |-> sync.policy,
                      status |-> Status]
    BY <1>6 DEF RecordRun
  <2>3. OneDocumentPerFile'
    BY <2>2 DEF IInv, OneDocumentPerFile
  <2>4. latest' \in [who : Principals \cup {Nobody}, cursor : Folders,
                     policy : Policies \cup {"retain_missing"},
                     status : {"none", "degraded", "changed", "no_input", "unchanged"}]
    BY <1>0, <2>1, <2>2 DEF SyncType
  <2> QED BY <1>0, <2>2, <2>3, <2>4, EndStep
<1>7. CASE Stop
  <2>1. sync' = NoSync /\ cut' = TRUE /\ row' = row /\ latest' = latest
    BY <1>7 DEF Stop
  <2>2. OneDocumentPerFile'
    BY <2>1 DEF IInv, OneDocumentPerFile
  <2> QED BY <1>0, <2>1, <2>2, EndStep
<1>8. CASE UNCHANGED vars
  BY <1>8 DEF vars, IInv, TypeOK, OneDocumentPerFile, Progress, StorageKey, ActiveKeys
<1> QED BY <1>1, <1>2, <1>3, <1>4, <1>5, <1>6, <1>7, <1>8 DEF Next

LEMMA Invariance == Spec => []IInv
<1> QED BY InitInvariant, NextInvariant, PTL DEF Spec

\* A run without a failure has the files it read on record, and is through
\* with the rest if it deactivates.
Covers(p, folder, policy) ==
  /\ \A f \in Files : folder[f] # Gone => row[StorageKey(p, f)].hash = folder[f]
  /\ policy = "deactivate_missing" => \A k \in ActiveKeys(p) : Seen(p, folder, k)

LEMMA RunCovers ==
  IInv /\ Finished /\ ~sync.failed => Covers(sync.who, sync.snap, sync.policy)
BY DEF IInv, Progress, TypeOK, Covers, Finished

-----------------------------------------------------------------------------
\* The variables keep their types; the ingests of a sync are over when its
\* deactivations begin, and a principal's sync has only its own and unscoped
\* documents to deactivate.
THEOREM TypeCorrect == Spec => []TypeOK
<1>1. IInv => TypeOK
  BY DEF IInv
<1> QED BY <1>1, Invariance, PTL

\* A principal has one document for a file, whatever the order in which
\* principals that use one name sync, fail and are cut off.
THEOREM DocumentsStaySingle == Spec => []OneDocumentPerFile
<1>1. IInv => OneDocumentPerFile
  BY DEF IInv
<1> QED BY <1>1, Invariance, PTL

\* What a run recorded without a failure says of its folder is so.
THEOREM RunsCoverFolders == Spec => []RunCoversFolder
<1>1. IInv => RunCoversFolder
  BY RunCovers DEF RunCoversFolder, Covers, Seen
<1> QED BY <1>1, Invariance, PTL

\* What a sync may do to a document.
MayTouch(k) ==
  \/ row[k].who \in {Nobody, sync.who}
  \/ sync.who = Unscoped /\ k.scope = Nobody
  \/ Unscoped \in {sync.who, row[k].who} /\ Deactivated(k)

\* No sync of a principal touches the documents of another one, whatever the
\* keys: it may deactivate unscoped ones.  A sync without a scope rewrites what
\* has the path's key, deactivates anything, and rewrites nothing else.
THEOREM OthersStayUntouched == Spec => OthersUntouched
<1>1. ASSUME IInv, Next, NEW k \in Keys, row'[k] # row[k]
      PROVE  MayTouch(k)
  <2>1. ASSUME NEW f \in Files, Ingest(f) \/ IngestRaises(f)
        PROVE  MayTouch(k)
    <3>1. f \in sync.todo /\ sync.at = "ingest" /\ Write(f)
      BY <2>1 DEF Ingest, IngestRaises
    <3>2. k = StorageKey(sync.who, f)
      BY <1>1, <3>1, WriteEffect
    <3>3. sync.who \in Principals
      BY <1>1, <3>1 DEF IInv, Progress
    <3> QED BY <1>1, <3>2, <3>3, KeyIsOwn, KeysDiffer DEF IInv, MayTouch
  <2>2. ASSUME NEW l \in Keys, Deactivate(l)
        PROVE  MayTouch(k)
    <3>1. l \in sync.missing /\ row' = [row EXCEPT ![l].active = FALSE]
      BY <2>2 DEF Deactivate
    <3>2. row \in [Keys -> RowType]
      BY <1>1 DEF IInv, TypeOK, RowType
    <3>3. k = l /\ Deactivated(k)
      BY <1>1, <3>1, <3>2 DEF Deactivated
    <3>4. sync.who # Unscoped => row[l].who \in {sync.who, Unscoped}
      BY <1>1, <3>1 DEF IInv, TypeOK
    <3> QED BY <3>3, <3>4 DEF MayTouch
  <2> QED BY <1>1, <2>1, <2>2
        DEF Next, Start, Skip, DeactivateFails, Ingested, RecordRun, Stop
<1>2. IInv /\ [Next]_vars => [\A k \in Keys : row'[k] # row[k] => MayTouch(k)]_vars
  BY <1>1
<1> QED BY <1>2, Invariance, PTL DEF Spec, OthersUntouched, MayTouch
-----------------------------------------------------------------------------
(***************************************************************************)
(* A sync like the one before it.  Until another sync starts, the rows     *)
(* are as the latest run left them, unless one was cut short: Settled.  A  *)
(* sync that repeats it so finds nothing to do, as long as no document of  *)
(* its principal has a scoped key: Quiet.                                  *)
(***************************************************************************)
Settled ==
  (sync.at = "none" /\ ~cut /\ latest.status \notin {"none", "degraded"}) =>
    Covers(latest.who, latest.cursor, latest.policy)

Quiet ==
  (sync.at # "none" /\ sync.again /\ ~Scoped(sync.who)) =>
    /\ ~sync.changed
    /\ sync.policy = "deactivate_missing" => sync.missing = {}
    /\ \A f \in Files : sync.snap[f] # Gone =>
         row[StorageKey(sync.who, f)].hash = sync.snap[f]

DeletesByPolicy == sync.at = "delete" => sync.policy = "deactivate_missing"

IdleInv == Settled /\ Quiet /\ DeletesByPolicy

\* To a principal without scoped keys, what it has seen is there under its path.
LEMMA UnscopedKey ==
  ASSUME OneDocumentPerFile, NEW p \in Principals, ~Scoped(p), NEW folder,
         NEW k \in ActiveKeys(p), Seen(p, folder, k)
  PROVE  k \in Present(folder)
<1>1. k \in Keys /\ k.file \in Files /\ (p # Unscoped => row[k].who \in {p, Unscoped})
  BY DEF ActiveKeys, Keys
<1>2. PICK q \in Principals \cup {Nobody} : k = Key(k.file, q)
  BY <1>1 DEF Keys, Key
<1>3. q = k.scope /\ q \in {Nobody, p} \ {Unscoped}
  BY <1>1, <1>2, KeysDiffer DEF Seen, Key
<1>4. q # p
  BY <1>1, <1>2, <1>3 DEF Scoped, OneDocumentPerFile
<1> QED BY <1>1, <1>2, <1>3, <1>4 DEF Seen, Present

LEMMA IdleStart ==
  ASSUME IInv, IdleInv, NEW p \in Principals, NEW folder \in Folders, NEW policy \in Policies,
         Start(p, folder, policy)
  PROVE  IdleInv'
<1>1. /\ sync.at = "none" /\ row' = row /\ latest' = latest /\ cut' = cut
      /\ sync'.at = "ingest" /\ sync'.who = p /\ sync'.snap = folder /\ sync'.policy = policy
      /\ ~sync'.changed
      /\ sync'.missing = ActiveKeys(p) \ Present(folder)
      /\ sync'.again => /\ ~cut /\ latest.status \notin {"none", "degraded"}
                        /\ latest.who = p /\ latest.cursor = folder /\ latest.policy = policy
  BY NoSyncIsTyped DEF Start
<1>2. Scoped(p)' <=> Scoped(p)
  BY <1>1 DEF Scoped
<1>3. ASSUME sync'.again, ~Scoped(p)
      PROVE  /\ policy = "deactivate_missing" => sync'.missing = {}
             /\ \A f \in Files : folder[f] # Gone => row[StorageKey(p, f)].hash = folder[f]
  <2>1. Covers(p, folder, policy)
    BY <1>1, <1>3 DEF IdleInv, Settled
  <2>2. ASSUME policy = "deactivate_missing", NEW k \in ActiveKeys(p)
        PROVE  k \in Present(folder)
    <3>1. Seen(p, folder, k)
      BY <2>1, <2>2 DEF Covers
    <3> QED BY <1>3, <2>2, <3>1, UnscopedKey DEF IInv
  <2> QED BY <1>1, <2>1, <2>2 DEF Covers
<1>4. \A f \in Files : StorageKey(p, f)' = StorageKey(p, f)
  BY <1>1 DEF StorageKey
<1> QED BY <1>1, <1>2, <1>3, <1>4 DEF IdleInv, Settled, Quiet, DeletesByPolicy

\* A step of a sync that changes no row and nothing Quiet asks for.
LEMMA IdleKeeps ==
  ASSUME IdleInv, sync.at # "none", sync'.at # "none", row' = row,
         sync'.who = sync.who, sync'.again = sync.again, sync'.changed = sync.changed,
         sync'.policy = sync.policy, sync'.missing = sync.missing, sync'.snap = sync.snap,
         DeletesByPolicy'
  PROVE  IdleInv'
<1>1. \A f \in Files : StorageKey(sync.who, f)' = StorageKey(sync.who, f)
  BY DEF StorageKey
<1>2. Scoped(sync.who)' <=> Scoped(sync.who)
  BY DEF Scoped
<1> QED BY <1>1, <1>2 DEF IdleInv, Settled, Quiet

LEMMA IdleIngest ==
  ASSUME IInv, IdleInv, NEW f \in Files, Ingest(f)
  PROVE  IdleInv'
<1>1. sync.at = "ingest" /\ f \in sync.todo /\ Write(f)
  BY DEF Ingest
<1>2. sync \in SyncType /\ sync.who \in Principals
  BY <1>1 DEF IInv, TypeOK, SyncType, Progress
<1>3. sync'.at = "ingest" /\ sync'.who = sync.who /\ sync'.again = sync.again
  BY <1>1, <1>2 DEF Ingest, SyncType
<1>4. \A k \in Keys : row[k].who = sync.who => row'[k].who = sync.who
  BY <1>1, WriteEffect
<1>5. Scoped(sync.who) => Scoped(sync.who)'
  BY <1>2, <1>3, <1>4, KeysDiffer DEF Scoped
<1>6. ASSUME sync.again, ~Scoped(sync.who) PROVE FALSE
  <2>1. sync.snap[f] # Gone
    BY <1>1 DEF IInv, Progress
  <2>2. row[StorageKey(sync.who, f)].hash = sync.snap[f]
    BY <1>1, <1>6, <2>1 DEF IdleInv, Quiet
  <2> QED BY <2>2 DEF Ingest
<1> QED BY <1>3, <1>5, <1>6 DEF IdleInv, Settled, Quiet, DeletesByPolicy

LEMMA IdleDeactivation ==
  ASSUME IInv, IdleInv, NEW k \in Keys, Deactivate(k) \/ DeactivateFails(k)
  PROVE  IdleInv'
<1>1. sync.at = "delete" /\ k \in sync.missing
  BY DEF Deactivate, DeactivateFails
<1>2. sync \in SyncType /\ row \in [Keys -> RowType] /\ sync.who \in Principals
  BY <1>1 DEF IInv, TypeOK, SyncType, Progress, RowType
<1>3. /\ sync'.at = "delete" /\ sync'.who = sync.who /\ sync'.again = sync.again
      /\ sync'.policy = sync.policy
  BY <1>1, <1>2 DEF Deactivate, DeactivateFails, SyncType
<1>4. \A l \in Keys : row'[l].who = row[l].who
  <2>1. CASE row' = row
    BY <2>1
  <2>2. CASE row' = [row EXCEPT ![k].active = FALSE]
    <3>1. row'[k] = [row[k] EXCEPT !.active = FALSE] /\ row[k] \in RowType
      BY <1>2, <2>2
    <3>2. row'[k].who = row[k].who
      BY <3>1 DEF RowType
    <3> QED BY <1>2, <2>2, <3>2
  <2> QED BY <2>1, <2>2 DEF Deactivate, DeactivateFails
<1>5. Scoped(sync.who) => Scoped(sync.who)'
  BY <1>2, <1>3, <1>4, KeysDiffer DEF Scoped
<1>6. ~(sync.again /\ ~Scoped(sync.who))
  BY <1>1 DEF IdleInv, Quiet, DeletesByPolicy
<1> QED BY <1>1, <1>3, <1>5, <1>6 DEF IdleInv, Settled, Quiet, DeletesByPolicy

LEMMA IdleStep == IInv /\ IdleInv /\ [Next]_vars => IdleInv'
<1> SUFFICES ASSUME IInv, IdleInv, [Next]_vars PROVE IdleInv'
  OBVIOUS
<1>0. sync \in SyncType
  BY DEF IInv, TypeOK, SyncType
<1>1. ASSUME NEW p \in Principals, NEW folder \in Folders, NEW policy \in Policies,
             Start(p, folder, policy)
      PROVE  IdleInv'
  BY <1>1, IdleStart
<1>2. ASSUME NEW f \in Files, Skip(f) PROVE IdleInv'
  <2>1. /\ sync.at = "ingest" /\ sync'.at = "ingest" /\ row' = row
        /\ sync'.who = sync.who /\ sync'.again = sync.again /\ sync'.changed = sync.changed
        /\ sync'.policy = sync.policy /\ sync'.missing = sync.missing
        /\ sync'.snap = sync.snap
    BY <1>0, <1>2 DEF Skip, SyncType
  <2> QED BY <2>1, IdleKeeps DEF DeletesByPolicy
<1>3. ASSUME NEW f \in Files, Ingest(f) PROVE IdleInv'
  BY <1>3, IdleIngest
<1>4. ASSUME NEW k \in Keys, Deactivate(k) \/ DeactivateFails(k) PROVE IdleInv'
  BY <1>4, IdleDeactivation
<1>5. CASE Ingested
  <2>1. /\ sync.at = "ingest" /\ row' = row
        /\ sync'.at = IF sync.policy = "deactivate_missing" THEN "delete" ELSE "record"
        /\ sync'.who = sync.who /\ sync'.again = sync.again /\ sync'.changed = sync.changed
        /\ sync'.policy = sync.policy /\ sync'.missing = sync.missing
        /\ sync'.snap = sync.snap
    BY <1>0, <1>5 DEF Ingested, SyncType
  <2> QED BY <2>1, IdleKeeps DEF DeletesByPolicy
<1>6. CASE RecordRun
  <2>1. /\ Finished /\ sync'.at = "none" /\ row' = row
        /\ latest' = [who |-> sync.who, cursor |-> sync.snap, policy |-> sync.policy,
                      status |-> Status]
    BY <1>6, NoSyncIsTyped DEF RecordRun
  <2>2. latest'.status # "degraded" => Covers(latest'.who, latest'.cursor, latest'.policy)
    BY <2>1, RunCovers DEF RunCoversFolder, Covers, Status
  <2>3. Covers(latest'.who, latest'.cursor, latest'.policy)
          <=> Covers(latest.who, latest.cursor, latest.policy)'
    BY <2>1 DEF Covers, StorageKey, ActiveKeys
  <2> QED BY <2>1, <2>2, <2>3 DEF IdleInv, Settled, Quiet, DeletesByPolicy
<1>7. ASSUME sync' = NoSync, cut' = TRUE PROVE IdleInv'
  BY <1>7, NoSyncIsTyped DEF IdleInv, Settled, Quiet, DeletesByPolicy
<1>8. CASE UNCHANGED vars
  BY <1>8 DEF vars, IdleInv, Settled, Quiet, DeletesByPolicy, Covers, Scoped, StorageKey,
              ActiveKeys
<1> QED BY <1>1, <1>2, <1>3, <1>4, <1>5, <1>6, <1>7, <1>8 DEF Next, IngestRaises, Stop

\* A sync that repeats the one before it, with the same folder and nothing cut
\* short in between, changes nothing, unless a document of its principal has a
\* scoped key: the keys the code subtracts differ for no other reason.
THEOREM RepeatedSyncIsIdle == Spec => []IdleUnlessScoped
<1>1. Init => IdleInv
  BY NoSyncIsTyped DEF Init, IdleInv, Settled, Quiet, DeletesByPolicy, NoRun
<1>2. IInv /\ IdleInv => IdleUnlessScoped
  <2> SUFFICES ASSUME IInv, IdleInv, Finished, sync.again, ~Scoped(sync.who)
               PROVE  Status \in {"unchanged", "no_input", "degraded"}
    BY DEF IdleUnlessScoped, UnchangedSyncIsIdle
  <2>1. ~sync.changed
    BY DEF IdleInv, Quiet, Finished
  <2> QED BY <2>1 DEF Status
<1> QED BY <1>1, <1>2, IdleStep, Invariance, PTL DEF Spec

\* With one principal no document has a scoped key: what the verification
\* script expects of an unchanged sync holds, and finding 3 takes two.
THEOREM OnePrincipalIsIdle ==
  ASSUME \A p, q \in Principals : p = q
  PROVE  Spec => []UnchangedSyncIsIdle
<1>1. IInv /\ IdleUnlessScoped => UnchangedSyncIsIdle
  <2> SUFFICES ASSUME IInv, IdleUnlessScoped, Finished
               PROVE  UnchangedSyncIsIdle
    BY DEF UnchangedSyncIsIdle
  <2>1. sync.who \in Principals
    BY DEF IInv, Progress, Finished
  <2>2. ASSUME NEW f \in Files PROVE row[Key(f, sync.who)].who # sync.who
    <3>1. row[Key(f, Nobody)].who \in Principals \cup {Nobody}
      BY KeysDiffer, <2>1 DEF IInv, TypeOK
    <3>2. row[Key(f, Nobody)].who \in {Nobody, sync.who}
      BY <2>1, <3>1
    <3> QED BY <2>1, <3>2 DEF IInv, OneDocumentPerFile
  <2> QED BY <2>2 DEF IdleUnlessScoped, Scoped
<1> QED BY <1>1, Invariance, RepeatedSyncIsIdle, PTL
=============================================================================
