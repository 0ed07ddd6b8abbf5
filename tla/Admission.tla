------------------------------ MODULE Admission ------------------------------
(***************************************************************************)
(* What may become durable truth: the admission policy for derived claims, *)
(* the memory event a decision is recorded as, the classification of that  *)
(* event for readers, and the guard every durable write passes.  These are *)
(* pure functions of the code and operators here, over every combination   *)
(* of the enumerated inputs.                                               *)
(*                                                                         *)
(* Slots with the same entry in SLOT_REGISTRY are one slot here; texts,    *)
(* hashes and reason codes are left out, as is whether a text is blank     *)
(* except where a decision depends on it.                                  *)
(***************************************************************************)

Speakers == {"user", "assistant", "tool", "runtime", "trusted_host", "trusted_import",
             "quoted_user", "quoted_assistant", "unknown"}
Authorities ==
  {"user_explicit_assertion", "user_explicit_assignment", "user_correction",
   "trusted_host", "trusted_host_assignment", "trusted_import", "trusted_runtime",
   "operator_repair", "migration_backfill", "canary_seed", "assistant_claim",
   "assistant_self_claim", "tier2_summary", "pulse_background", "session_recap",
   "graph_inference", "transcript_event", "runtime_diagnostic", "unknown"}
Visibilities == {"answer_evidence", "normal", "history_only", "contradiction_only",
                 "inspect_only"}
Shelves == {"profile", "graph", "operating", "task"}

Trusted == {"user_explicit_assertion", "user_correction", "trusted_host", "trusted_import"}
Assignment == {"user_explicit_assignment", "trusted_host_assignment", "operator_repair"}

(***************************************************************************)
(* SLOT_REGISTRY, one entry for each kind of slot.  No entry of the        *)
(* registry forbids an authority, and the only one with supporting         *)
(* authorities is a capability slot, which is turned away before.  The     *)
(* shelf an entry names is read by none of the code here: a claim goes to  *)
(* the shelf it was proposed for.                                          *)
(***************************************************************************)
Registry ==
  [platform_identity |-> [exclusive |-> TRUE,
                          allowed |-> {"trusted_host", "user_explicit_assertion"}],
   identity          |-> [exclusive |-> TRUE, allowed |-> Trusted],
   preference        |-> [exclusive |-> FALSE, allowed |-> Trusted],
   project           |-> [exclusive |-> FALSE, allowed |-> Trusted],
   live_state        |-> [exclusive |-> TRUE,
                          allowed |-> Trusted \cup {"trusted_runtime", "operator_repair"}],
   commitment        |-> [exclusive |-> TRUE, allowed |-> Assignment],
   next_step         |-> [exclusive |-> FALSE, allowed |-> Assignment],
   actionable        |-> [exclusive |-> FALSE, allowed |-> Assignment]]

Registered == DOMAIN Registry
Slots == Registered \cup {"capability", "generic_name", "unregistered"}

(***************************************************************************)
(* ClaimProposal: has it a value, who said it, on what authority, for      *)
(* which slot of which shelf.  assignment says that the metadata of the    *)
(* candidate, which the model wrote, calls it a current assignment.        *)
(***************************************************************************)
Proposals == [valued : BOOLEAN, speaker : Speakers, authority : Authorities, slot : Slots,
              shelf : {"profile", "graph"}, assignment : BOOLEAN]

AssistantSpeakers == {"assistant", "quoted_assistant"}
AssistantAuthorities == {"assistant_claim", "assistant_self_claim"}

(***************************************************************************)
(* _authority_from_payload for a Tier-2 or consolidation source: what the  *)
(* payload says of itself counts only against it, and a verified quote of  *)
(* a user turn is the one way to the user's authority.                     *)
(***************************************************************************)
DerivedAuthority(speaker, explicit, diagnostic, verified) ==
  CASE speaker \in AssistantSpeakers \/ explicit \in AssistantAuthorities -> "assistant_claim"
    [] diagnostic \/ speaker = "runtime" -> "runtime_diagnostic"
    [] verified -> "user_explicit_assertion"
    [] OTHER -> "tier2_summary"

Tier2Authorities ==
  {"assistant_claim", "runtime_diagnostic", "user_explicit_assertion", "tier2_summary"}

\* _decision: what admit_claim returns.
Decided(kind, eligible, visibility) ==
  [kind |-> kind, eligible |-> eligible, visibility |-> visibility]

Quarantined == Decided("quarantine", FALSE, "inspect_only")

\* admit_claim: the first rule that applies decides.
Admit(p) ==
  CASE ~p.valued -> Decided("reject", FALSE, "inspect_only")
    [] p.valued /\ (p.speaker \in AssistantSpeakers \/ p.authority \in AssistantAuthorities) ->
         Decided("corrected_false", FALSE, "contradiction_only")
    [] /\ p.valued
       /\ p.speaker \notin AssistantSpeakers /\ p.authority \notin AssistantAuthorities
       /\ \/ p.slot \notin Registered
          \/ p.authority = "runtime_diagnostic"
          \/ p.authority \notin Registry[p.slot].allowed -> Quarantined
    [] OTHER -> Decided(IF Registry[p.slot].exclusive \/ p.authority = "user_correction"
                        THEN "accept_superseding" ELSE "accept", TRUE, "answer_evidence")

Accepted(p) == Admit(p).kind \in {"accept", "accept_superseding"}
Superseding(p) == Admit(p).kind = "accept_superseding"

(***************************************************************************)
(* canonical_event_from_admission_decision: the decision, as the type and  *)
(* the authority of a memory event.  stored says that the write left a     *)
(* durable row, expired that the claim carries an end of validity.         *)
(***************************************************************************)
EventType(kind, stored) ==
  CASE kind = "corrected_false" -> "corrected_false_event"
    [] kind \in {"quarantine", "reject"} -> "proposal_rejected"
    [] OTHER -> IF stored THEN "durable_fact_committed" ELSE "proposal_accepted"

MemoryEvent(p, stored, receipted, expired) ==
  [type |-> EventType(Admit(p).kind, stored), eligible |-> Admit(p).eligible,
   visibility |-> Admit(p).visibility, receipted |-> receipted, expired |-> expired]

\* validate_canonical_memory_event: record_canonical_memory_event raises on others.
ValidEvent(e) ==
  /\ e.type = "durable_fact_committed" => e.receipted
  /\ e.visibility = "answer_evidence" => e.eligible
  /\ e.type = "proposal_rejected" => ~e.eligible

(***************************************************************************)
(* classify_projection_semantics: an event may be answered from when       *)
(* nothing blocks it.                                                      *)
(***************************************************************************)
SupportOnly == {"normal", "history_only", "inspect_only"}

\* Mutant of AnswerSafe: an event with a receipt is as good as an accepted one.
AnswerSafeByReceipt(e) == e.receipted /\ ~e.expired

AnswerSafe(e) ==
  /\ e.type \in {"durable_fact_committed", "proposal_accepted"}
  /\ e.eligible /\ e.visibility = "answer_evidence"
  /\ e.visibility \notin SupportOnly
  /\ e.receipted /\ ~e.expired

(***************************************************************************)
(* guard_and_normalize_durable_truth_metadata, called by every durable     *)
(* write.  A request tells where the write comes from, what it carries and *)
(* what its permit allows; the guard lets it through or raises.            *)
(***************************************************************************)
DerivedAuthorities ==
  {"tier2_summary", "pulse_background", "session_recap", "assistant_claim",
   "assistant_self_claim", "graph_inference", "transcript_event", "runtime_diagnostic"}

Requests ==
  [shelf : Shelves, derived : BOOLEAN, authority : Authorities \cup {"none"},
   permit : {"none", "context", "broken", "valid"}, admitted : BOOLEAN,
   assignment : BOOLEAN, shelves : SUBSET Shelves, inSlot : BOOLEAN]

Derived(r) == r.derived \/ r.authority \in DerivedAuthorities

\* _has_permit: the ids may stand in the write's context without a permit.
HasPermit(r) == r.permit \in {"context", "valid"}

\* A derived write that brings neither a permit nor a decision.
Bare(r) == Derived(r) /\ ~HasPermit(r) /\ ~r.admitted

Permitted(r) ==
  \/ Bare(r) /\ r.shelf \in {"operating", "task"} /\ ~r.assignment
  \/ /\ ~Bare(r)
     /\ r.permit # "broken"
     /\ r.assignment => r.authority \in Assignment \cup {"none"}
     /\ r.permit = "valid" => r.shelf \in r.shelves /\ r.inSlot

(***************************************************************************)
(* TruthWritePermit.from_admission and ProjectionWriter: the request an    *)
(* accepted decision is written with.  The permit is for the shelf of the  *)
(* method that writes, and for the slot the decision names.  The flag of   *)
(* the candidate's metadata goes into the request as it is, and so does,   *)
(* on the profile shelf, the flag of the row that is written over (kept).  *)
(***************************************************************************)
RequestOf(p, kept) ==
  [shelf |-> p.shelf, derived |-> TRUE, authority |-> p.authority, permit |-> "valid",
   admitted |-> TRUE, assignment |-> p.assignment \/ kept, shelves |-> {p.shelf},
   inSlot |-> TRUE]
=============================================================================
