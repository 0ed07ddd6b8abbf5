----------------------------- MODULE SourceSync -----------------------------
(***************************************************************************)
(* Source synchronisation: principals that share one database and one      *)
(* source set keep a folder each on the corpus shelf.  A sync reads the    *)
(* folder and the principal's active documents, ingests what it read, then *)
(* deactivates the documents it takes for missing, and records the run     *)
(* last.  An ingest or a deactivation may raise half-way, or the process   *)
(* may stop; what is committed stays, and the run is not recorded.         *)
(*                                                                         *)
(* A document is stored under the key its path gives, or under that key    *)
(* and its principal when another principal's document has the first.  A   *)
(* sync without a scope, the default, has the path's key to itself, and    *)
(* takes every document of the source set for its own.                     *)
(* A document is its row here, with the version named in its metadata: the *)
(* sections and the index are CorpusPublication's.  One sync runs at a     *)
(* time, and finds in the folder whatever the owner has put there.         *)
(***************************************************************************)
EXTENDS FiniteSets

CONSTANTS
  Principals,  \* principal scopes, the empty one perhaps among them
  Unscoped,    \* the empty scope
  Files,       \* paths under the allow patterns
  Contents,    \* versions of a file's text
  Gone,        \* the file is absent, or one the collector skips
  Nobody,      \* no row, no sync
  Policies     \* the deletion policies that syncs are run with

ASSUME GoneAssumption == Gone \notin Contents /\ Nobody \notin Principals /\ Unscoped # Nobody
ASSUME PoliciesAssumption == Policies \subseteq {"retain_missing", "deactivate_missing"}

VARIABLES
  row,     \* corpus_documents by storage key
  sync,    \* the sync under way; again: history, it repeats the latest run
  latest,  \* source_sync_runs: the latest run
  cut      \* history: a sync was cut short since

vars == <<row, sync, latest, cut>>

\* Storage keys: a path alone, or a path and a principal.
Keys == [file : Files, scope : Principals \cup {Nobody}]
Key(f, scope) == [file |-> f, scope |-> scope]

Folders == [Files -> Contents \cup {Gone}]

NoRow == [who |-> Nobody, hash |-> Gone, active |-> FALSE]
NoSync == [at |-> "none", who |-> Nobody, policy |-> "retain_missing",
           snap |-> [f \in Files |-> Gone], todo |-> {}, missing |-> {},
           changed |-> FALSE, failed |-> FALSE, again |-> FALSE]
NoRun == [who |-> Nobody, cursor |-> [f \in Files |-> Gone], policy |-> "retain_missing",
          status |-> "none"]

Init ==
  /\ row = [k \in Keys |-> NoRow]
  /\ sync = NoSync
  /\ latest = NoRun
  /\ cut = FALSE

\* Mutant of StorageKey: the path alone, whoever's document has it.
StorageKeyOfPath(p, f) == Key(f, Nobody)

\* Mutant of StorageKey: any row under the path sends the document elsewhere.
StorageKeyIfFree(p, f) ==
  IF row[Key(f, Nobody)].who = Nobody THEN Key(f, Nobody) ELSE Key(f, p)

\* _storage_key_for_metadata_scoped_upsert: the path alone is the key of an
\* unscoped document, whoever has it.
StorageKey(p, f) ==
  IF p = Unscoped \/ (row[Key(f, p)].who = Nobody /\ row[Key(f, Nobody)].who \in {Nobody, p})
  THEN Key(f, Nobody) ELSE Key(f, p)

(***************************************************************************)
(* run_source_sync: the folder is collected, then the active documents are *)
(* read; those under a key that no collected path gives are missing.       *)
(***************************************************************************)
\* Mutant of ActiveKeys: the active documents of every principal.
ActiveKeysOfAll(p) == {k \in Keys : row[k].active}

\* _active_synced_documents: a principal's own and the unscoped ones; all, if
\* no principal is given.
ActiveKeys(p) == {k \in Keys : row[k].active /\ (p = Unscoped \/ row[k].who \in {p, Unscoped})}
Present(snap) == {Key(f, Nobody) : f \in {g \in Files : snap[g] # Gone}}

Start(p, folder, policy) ==
  /\ sync = NoSync
  /\ sync' = [at |-> "ingest", who |-> p, policy |-> policy, snap |-> folder,
              todo |-> {f \in Files : folder[f] # Gone},
              missing |-> ActiveKeys(p) \ Present(folder),
              changed |-> FALSE, failed |-> FALSE,
              again |-> /\ ~cut /\ latest.status \notin {"none", "degraded"}
                        /\ latest.who = p /\ latest.cursor = folder /\ latest.policy = policy]
  /\ UNCHANGED <<row, latest, cut>>

\* ingest_corpus_source: "unchanged", whether the document is active or not.
Skip(f) ==
  /\ sync.at = "ingest" /\ f \in sync.todo
  /\ row[StorageKey(sync.who, f)].hash = sync.snap[f]
  /\ sync' = [sync EXCEPT !.todo = @ \ {f}]
  /\ UNCHANGED <<row, latest, cut>>

Write(f) ==
  row' = [row EXCEPT ![StorageKey(sync.who, f)] =
            [who |-> sync.who, hash |-> sync.snap[f], active |-> TRUE]]

Ingest(f) ==
  /\ sync.at = "ingest" /\ f \in sync.todo
  /\ row[StorageKey(sync.who, f)].hash # sync.snap[f]
  /\ Write(f)
  /\ sync' = [sync EXCEPT !.todo = @ \ {f}, !.changed = TRUE]
  /\ UNCHANGED <<latest, cut>>

\* The publication raises after the row is committed, and ends the sync.
IngestRaises(f) ==
  /\ sync.at = "ingest" /\ f \in sync.todo
  /\ row[StorageKey(sync.who, f)].hash # sync.snap[f]
  /\ Write(f)
  /\ sync' = NoSync /\ cut' = TRUE
  /\ UNCHANGED latest

\* The missing documents are left alone, or deactivated in turn.
Ingested ==
  /\ sync.at = "ingest" /\ sync.todo = {}
  /\ sync' = [sync EXCEPT !.at = IF sync.policy = "deactivate_missing" THEN "delete" ELSE "record"]
  /\ UNCHANGED <<row, latest, cut>>

Deactivate(k) ==
  /\ sync.at = "delete" /\ k \in sync.missing
  /\ row' = [row EXCEPT ![k].active = FALSE]
  /\ sync' = [sync EXCEPT !.missing = @ \ {k}, !.changed = TRUE]
  /\ UNCHANGED <<latest, cut>>

\* Mutant of DeactivateFails: a deactivation the index refused is not counted.
DeactivateForgets(k) ==
  /\ sync.at = "delete" /\ k \in sync.missing
  /\ sync' = [sync EXCEPT !.missing = @ \ {k}]
  /\ UNCHANGED <<row, latest, cut>>

DeactivateFails(k) ==
  /\ sync.at = "delete" /\ k \in sync.missing
  /\ sync' = [sync EXCEPT !.missing = @ \ {k}, !.failed = TRUE]
  /\ UNCHANGED <<row, latest, cut>>

Finished == sync.at = "record" \/ (sync.at = "delete" /\ sync.missing = {})

Status ==
  CASE sync.failed -> "degraded"
    [] ~sync.failed /\ sync.changed -> "changed"
    [] ~sync.failed /\ ~sync.changed /\ Present(sync.snap) = {}
         /\ (sync.policy = "deactivate_missing" \/ sync.missing = {}) -> "no_input"
    [] OTHER -> "unchanged"

\* _record_run.
RecordRun ==
  /\ Finished
  /\ latest' = [who |-> sync.who, cursor |-> sync.snap, policy |-> sync.policy, status |-> Status]
  /\ sync' = NoSync /\ cut' = FALSE
  /\ UNCHANGED row

\* The process stops.
Stop ==
  /\ sync # NoSync
  /\ sync' = NoSync /\ cut' = TRUE
  /\ UNCHANGED <<row, latest>>

Next ==
  \/ \E p \in Principals, folder \in Folders, policy \in Policies : Start(p, folder, policy)
  \/ \E f \in Files : Skip(f) \/ Ingest(f) \/ IngestRaises(f)
  \/ \E k \in Keys : Deactivate(k) \/ DeactivateFails(k)
  \/ Ingested \/ RecordRun \/ Stop

Spec == Init /\ [][Next]_vars

-----------------------------------------------------------------------------
\* The variables' types; a sync that has got to its deletions has ingested all
\* it read, and a scoped one has only its own and unscoped keys to deactivate.
TypeOK ==
  /\ row \in [Keys -> [who : Principals \cup {Nobody}, hash : Contents \cup {Gone},
                      active : BOOLEAN]]
  /\ sync \in [at : {"none", "ingest", "delete", "record"}, who : Principals \cup {Nobody},
               policy : Policies \cup {"retain_missing"}, snap : Folders,
               todo : SUBSET Files, missing : SUBSET Keys, changed : BOOLEAN,
               failed : BOOLEAN, again : BOOLEAN]
  /\ latest \in [who : Principals \cup {Nobody}, cursor : Folders,
                 policy : Policies \cup {"retain_missing"},
                 status : {"none", "degraded", "changed", "no_input", "unchanged"}]
  /\ cut \in BOOLEAN
  /\ sync.at \in {"delete", "record"} => sync.todo = {}
  /\ sync.who # Unscoped => \A k \in sync.missing : row[k].who \in {sync.who, Unscoped}

\* However syncs of several principals, failures and crashes follow each other,
\* a principal has one document for a file, under the path's key or its own;
\* an unscoped document has the path's.
OneDocumentPerFile ==
  \A p \in Principals, f \in Files :
    /\ row[Key(f, p)].who \in {Nobody, p} \ {Unscoped}
    /\ row[Key(f, p)].who = p => row[Key(f, Nobody)].who \notin {Nobody, p}

(* Two principals' files of one name in one source set give the same key,  *)
(* yet a principal's sync never touches the document of another principal. *)
(* It may deactivate unscoped documents.  A sync without a scope rewrites  *)
(* what has the path's key and deactivates anything, but never rewrites a  *)
(* document under a principal's key.                                       *)
Deactivated(k) == row'[k] = [row[k] EXCEPT !.active = FALSE]
OthersUntouched ==
  [][\A k \in Keys : row'[k] # row[k] =>
       \/ row[k].who \in {Nobody, sync.who}
       \/ sync.who = Unscoped /\ k.scope = Nobody
       \/ Unscoped \in {sync.who, row[k].who} /\ Deactivated(k)]_vars

\* A run recorded without a failure stands for the folder it read: each file is
\* on record in the version read, and with deactivate_missing no document of a
\* file that was not there is left active.
RunCoversFolder ==
  Finished /\ ~sync.failed =>
    /\ \A f \in Files : sync.snap[f] # Gone =>
         row[StorageKey(sync.who, f)].hash = sync.snap[f]
    /\ sync.policy = "deactivate_missing" =>
         \A k \in ActiveKeys(sync.who) : sync.snap[k.file] # Gone

\* scripts/verify_source_sync_spine.py, "unchanged_sync_not_idempotent": a sync
\* like the one before it, of the same folder, changes nothing.
UnchangedSyncIsIdle ==
  Finished /\ sync.again => Status \in {"unchanged", "no_input", "degraded"}

\* It does unless a document of the principal's has a scoped key, which it has
\* only where a file of the same path came first from elsewhere.
Scoped(p) == \E f \in Files : row[Key(f, p)].who = p
IdleUnlessScoped == Scoped(sync.who) \/ UnchangedSyncIsIdle
=============================================================================
