------------------------- MODULE CorpusPublication -------------------------
(***************************************************************************)
(* The corpus shelf: a document's row and sections in SQLite, the publish  *)
(* journal, the semantic evidence table and the Chroma index derived from  *)
(* them.  Every operation holds the store's lock from start to end, so     *)
(* there is one operation at a time (op); each of its commits is a step,   *)
(* and the process may stop between two of them.                           *)
(*                                                                         *)
(* A content stands for one version of a document's text and for the hash  *)
(* and fingerprint computed from it.  A document keeps its principal       *)
(* scope.  Conversation transcripts, published through the same journal    *)
(* and index, are left out.                                                *)
(***************************************************************************)
EXTENDS Naturals

CONSTANTS
  Docs,          \* storage keys of corpus documents
  Contents,      \* versions a source may have
  ScopeOf,       \* the principal scope of a document
  Unscoped,      \* the empty scope
  Absent,        \* no row, or no sections
  NoDoc,         \* no operation in progress
  ReplayFailed,  \* BRAINSTACK_REPLAY_FAILED_PUBLICATIONS_ON_OPEN
  Faults         \* what the environment may do to the store

AllFaults == {"crash", "publish", "open", "corrupt", "evidence"}

ASSUME AbsentAssumption == Absent \notin Contents /\ NoDoc \notin Docs
ASSUME ScopeAssumption == DOMAIN ScopeOf = Docs
ASSUME FaultsAssumption == Faults \subseteq AllFaults /\ ReplayFailed \in BOOLEAN

VARIABLES
  hash,      \* corpus_documents: the version the row's metadata names
  active,    \* corpus_documents.active
  sections,  \* corpus_sections and their FTS rows
  evidence,  \* semantic_evidence_index, corpus shelf
  journal,   \* publish_journal.status
  index,     \* the versions whose sections Chroma holds
  store,     \* the open store has a mounted backend, or an unmounted one
  op,        \* the operation that holds the lock, and its next step
  missed,    \* history: documents changed since their journal row was written
  emptied    \* history: documents whose sections the index was last emptied of

vars == <<hash, active, sections, evidence, journal, index, store, op, missed, emptied>>

Free == [job |-> "none", at |-> "start", doc |-> NoDoc, queue |-> {}]
Idle == op = Free

\* Mutant of Current: sections not yet written are published all the same.
CurrentUnfilled(d) == IF active[d] THEN {sections[d]} ELSE {}

\* What search over SQLite and search over the index should both answer.
Current(d) == IF active[d] /\ sections[d] # Absent THEN {sections[d]} ELSE {}

Init ==
  /\ hash = [d \in Docs |-> Absent]
  /\ active = [d \in Docs |-> FALSE]
  /\ sections = [d \in Docs |-> Absent]
  /\ evidence = [d \in Docs |-> Absent]
  /\ journal = [d \in Docs |-> "none"]
  /\ index = [d \in Docs |-> {}]
  /\ store = "closed"
  /\ op = Free
  /\ missed = {}
  /\ emptied = {}

At(step) == op.at = step
Goto(step) == op' = [op EXCEPT !.at = step]

(***************************************************************************)
(* ingest_corpus_source: the version on file is answered with "unchanged"  *)
(* whatever became of it; any other version is written, row first.         *)
(***************************************************************************)
WriteRow(d, c) ==
  /\ Idle /\ store # "closed"
  /\ hash[d] # c
  /\ hash' = [hash EXCEPT ![d] = c]
  /\ active' = [active EXCEPT ![d] = TRUE]
  /\ op' = [job |-> "ingest", at |-> "sections", doc |-> d, queue |-> {}]
  /\ missed' = missed \cup {d}
  /\ UNCHANGED <<sections, evidence, journal, index, store, emptied>>

ReplaceSections ==
  /\ At("sections")
  /\ sections' = [sections EXCEPT ![op.doc] = hash[op.doc]]
  /\ Goto(IF store = "mounted" THEN "journal" ELSE "refresh")
  /\ UNCHANGED <<hash, active, evidence, journal, index, store, missed, emptied>>

(***************************************************************************)
(* deactivate_corpus_source: the index first, the row after it.            *)
(***************************************************************************)
\* Mutant of BeginDeactivate: the row is closed before the index is asked.
DeactivateRowFirst(d) ==
  /\ Idle /\ store # "closed"
  /\ hash[d] # Absent
  /\ active' = [active EXCEPT ![d] = FALSE]
  /\ op' = [job |-> "deactivate", doc |-> d, queue |-> {},
            at |-> IF store = "mounted" THEN "journal" ELSE "row"]
  /\ UNCHANGED <<hash, sections, evidence, journal, index, store, missed, emptied>>

BeginDeactivate(d) ==
  /\ Idle /\ store # "closed"
  /\ hash[d] # Absent
  /\ op' = [job |-> "deactivate", doc |-> d, queue |-> {},
            at |-> IF store = "mounted" THEN "journal" ELSE "row"]
  /\ UNCHANGED <<hash, active, sections, evidence, journal, index, store, missed, emptied>>

DeactivateRow ==
  /\ At("row")
  /\ active' = [active EXCEPT ![op.doc] = FALSE]
  /\ missed' = IF store = "mounted" THEN missed ELSE missed \cup {op.doc}
  /\ Goto("refresh")
  /\ UNCHANGED <<hash, sections, evidence, journal, index, store, emptied>>

(***************************************************************************)
(* _refresh_semantic_evidence_shelf deletes the evidence of the document's *)
(* scope and of no scope, or all of it for an unscoped document, and       *)
(* writes that of the active documents anew.  An exception on the way is   *)
(* swallowed; what was deleted then is taken as committed with whatever    *)
(* the connection commits next.                                            *)
(***************************************************************************)
Refreshed ==
  {d \in Docs : ScopeOf[op.doc] = Unscoped \/ ScopeOf[d] \in {Unscoped, ScopeOf[op.doc]}}

Shown(d) == IF active[d] THEN sections[d] ELSE Absent

\* The evidence of the documents in "kept" is still there or there again.
Rewritten(kept) ==
  [d \in Docs |-> IF d \notin Refreshed THEN evidence[d]
                  ELSE IF d \in kept THEN Shown(d) ELSE Absent]

RefreshEvidence ==
  /\ At("refresh")
  /\ evidence' = Rewritten(Refreshed)
  /\ op' = Free
  /\ UNCHANGED <<hash, active, sections, journal, index, store, missed, emptied>>

RefreshFails ==
  /\ "evidence" \in Faults /\ At("refresh")
  /\ UNCHANGED evidence \/ \E kept \in SUBSET Refreshed : evidence' = Rewritten(kept)
  /\ op' = Free
  /\ UNCHANGED <<hash, active, sections, journal, index, store, missed, emptied>>

(***************************************************************************)
(* _publish_semantic_snapshot, for all three jobs: journal "pending", the  *)
(* backend call, journal the outcome.                                      *)
(***************************************************************************)
Snapshot == IF op.job = "deactivate" THEN {} ELSE Current(op.doc)

JournalPending ==
  /\ At("journal")
  /\ journal' = [journal EXCEPT ![op.doc] = "pending"]
  /\ missed' = missed \ {op.doc}
  /\ Goto("send")
  /\ UNCHANGED <<hash, active, sections, evidence, index, store, emptied>>

Publish ==
  /\ At("send")
  /\ index' = [index EXCEPT ![op.doc] = Snapshot]
  /\ emptied' = IF op.job = "deactivate" THEN emptied \cup {op.doc} ELSE emptied \ {op.doc}
  /\ Goto("sent")
  /\ UNCHANGED <<hash, active, sections, evidence, journal, store, missed>>

\* Mutant of PublishFails: the error is swallowed and counts as sent.
PublishSwallowsError ==
  /\ "publish" \in Faults /\ At("send")
  /\ Goto("sent")
  /\ UNCHANGED <<hash, active, sections, evidence, journal, index, store, missed, emptied>>

\* The call raises before it wrote anything, or between the upsert of the
\* new sections and the deletion of the stale ones.
PublishFails ==
  /\ "publish" \in Faults /\ At("send")
  /\ \/ UNCHANGED index
     \/ /\ Snapshot # {}
        /\ \E stale \in SUBSET index[op.doc] :
             index' = [index EXCEPT ![op.doc] = Snapshot \cup stale]
  /\ Goto("failed")
  /\ UNCHANGED <<hash, active, sections, evidence, journal, store, missed, emptied>>

JournalPublished ==
  /\ At("sent")
  /\ journal' = [journal EXCEPT ![op.doc] = "published"]
  /\ Goto(CASE op.job = "ingest" -> "refresh"
            [] op.job = "deactivate" -> "row"
            [] OTHER -> "next")
  /\ UNCHANGED <<hash, active, sections, evidence, index, store, missed, emptied>>

\* ingest raises, deactivate answers "degraded", open gives the backend up.
JournalFailed ==
  /\ At("failed")
  /\ journal' = [journal EXCEPT ![op.doc] = "failed"]
  /\ op' = Free
  /\ store' = IF op.job = "open" THEN "unmounted" ELSE store
  /\ UNCHANGED <<hash, active, sections, evidence, index, missed, emptied>>

(***************************************************************************)
(* open and close.  An empty index is filled with every active document,   *)
(* any other gets the active documents whose publication is on record as   *)
(* unfinished.                                                             *)
(***************************************************************************)
Replayed == IF ReplayFailed THEN {"pending", "failed"} ELSE {"pending"}

\* Mutant of OpenQueue: nothing is replayed into an index that is not empty.
BootstrapOnly ==
  {d \in Docs : active[d] /\ \A e \in Docs : index[e] = {}}

OpenQueue ==
  {d \in Docs : active[d] /\ (journal[d] \in Replayed \/ \A e \in Docs : index[e] = {})}

Open ==
  /\ store = "closed"
  /\ store' = "mounted"
  /\ op' = [job |-> "open", at |-> "next", doc |-> NoDoc, queue |-> OpenQueue]
  /\ UNCHANGED <<hash, active, sections, evidence, journal, index, missed, emptied>>

OpenUnmounted ==
  /\ "open" \in Faults /\ store = "closed"
  /\ store' = "unmounted"
  /\ UNCHANGED <<hash, active, sections, evidence, journal, index, op, missed, emptied>>

ReplayNext(d) ==
  /\ At("next") /\ d \in op.queue
  /\ op' = [op EXCEPT !.at = "journal", !.doc = d, !.queue = @ \ {d}]
  /\ UNCHANGED <<hash, active, sections, evidence, journal, index, store, missed, emptied>>

OpenDone ==
  /\ At("next") /\ op.queue = {}
  /\ op' = Free
  /\ UNCHANGED <<hash, active, sections, evidence, journal, index, store, missed, emptied>>

Close ==
  /\ Idle /\ store # "closed"
  /\ store' = "closed"
  /\ UNCHANGED <<hash, active, sections, evidence, journal, index, op, missed, emptied>>

Crash ==
  /\ "crash" \in Faults /\ store # "closed"
  /\ store' = "closed"
  /\ op' = Free
  /\ UNCHANGED <<hash, active, sections, evidence, journal, index, missed, emptied>>

\* A call finds the Chroma files corrupt: they are moved away, an empty
\* index takes their place and the call goes on.
Quarantine ==
  /\ "corrupt" \in Faults
  /\ \/ Idle /\ store # "unmounted"
     \/ At("send")
  /\ index' = [d \in Docs |-> {}]
  /\ emptied' = Docs
  /\ UNCHANGED <<hash, active, sections, evidence, journal, store, op, missed>>

Step ==
  \/ ReplaceSections \/ DeactivateRow \/ RefreshEvidence \/ RefreshFails
  \/ JournalPending \/ Publish \/ PublishFails
  \/ JournalPublished \/ JournalFailed
  \/ (\E d \in Docs : ReplayNext(d)) \/ OpenDone

Next ==
  \/ Step
  \/ \E d \in Docs, c \in Contents : WriteRow(d, c)
  \/ \E d \in Docs : BeginDeactivate(d)
  \/ Open \/ OpenUnmounted \/ Close \/ Crash \/ Quarantine

Spec == Init /\ [][Next]_vars

\* An operation runs to its end unless the process stops, and a closed store
\* is opened again.
FairSpec == Spec /\ WF_vars(Step) /\ WF_vars(Open)

-----------------------------------------------------------------------------
(***************************************************************************)
(* Properties.                                                             *)
(***************************************************************************)
TypeOK ==
  /\ hash \in [Docs -> Contents \cup {Absent}]
  /\ active \in [Docs -> BOOLEAN]
  /\ sections \in [Docs -> Contents \cup {Absent}]
  /\ evidence \in [Docs -> Contents \cup {Absent}]
  /\ journal \in [Docs -> {"none", "pending", "failed", "published"}]
  /\ index \in [Docs -> SUBSET Contents]
  /\ store \in {"closed", "mounted", "unmounted"}
  /\ missed \subseteq Docs /\ emptied \subseteq Docs
  /\ \/ Idle
     \/ /\ op \in [job : {"open"}, at : {"next"}, doc : Docs \cup {NoDoc}, queue : SUBSET Docs]
     \/ /\ op \in [job : {"ingest", "deactivate", "open"}, doc : Docs, queue : SUBSET Docs,
                   at : {"sections", "journal", "send", "sent", "failed", "row", "refresh"}]

(* The index is never wrong unnoticed, whatever fails, stops or is         *)
(* replayed: where it serves an older version, or a document that is not   *)
(* active any more, or does not serve an active one, the journal row is    *)
(* not "published" - unless the change was cut off, or made without a      *)
(* backend, before it got to the journal, or the index was emptied of the  *)
(* document: for a deactivation that did not reach the row, or by a        *)
(* quarantine.                                                             *)
StaleIsOnRecord ==
  \A d \in Docs \ missed :
    \/ journal[d] \in {"pending", "failed"}
    \/ /\ index[d] \subseteq Current(d)
       /\ Current(d) \subseteq index[d] \/ d \in emptied

(* A document that is not active is not in the index: search_semantic      *)
(* returns what Chroma holds without asking SQLite, so a deactivation must *)
(* reach the index first, and no replay may bring the document back.       *)
NoGhost == \A d \in Docs : active[d] \/ index[d] = {}

(* A store that has opened its backend owes it nothing: a publication that *)
(* a crash cut short is done again before the first operation.             *)
NothingLeftPending ==
  (Idle /\ store = "mounted") =>
    \A d \in Docs : active[d] => journal[d] # "pending"

(* A publication that a crash interrupted is finished by a later open, if  *)
(* the process is not stopped in the middle of its work for ever.          *)
EventuallyUp == <>[][store' = "closed" => Idle]_vars

PendingIsResolved ==
  EventuallyUp => \A d \in Docs :
    (journal[d] = "pending" /\ active[d]) ~> (journal[d] # "pending" \/ ~active[d])

(* What divides the four places where a document's text is kept, between   *)
(* operations: only a stop leaves sections of another version than the     *)
(* hash on file, only a stop, a failed publication or a swallowed failure  *)
(* of the rebuild leaves the evidence behind the sections, and without any *)
(* fault the index agrees as well.  That a rebuild is of one principal's   *)
(* scope divides nothing.                                                  *)
AgreesAtRest ==
  Idle =>
    /\ "crash" \notin Faults => sections = hash
    /\ Faults \cap {"crash", "publish", "evidence"} = {} =>
         evidence = [d \in Docs |-> Shown(d)]
    /\ Faults = {} => index = [d \in Docs |-> Current(d)]
=============================================================================
