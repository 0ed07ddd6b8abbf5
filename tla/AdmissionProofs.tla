--------------------------- MODULE AdmissionProofs ---------------------------
(***************************************************************************)
(* What the admission policy, the event classification and the write guard *)
(* guarantee together, for every combination of their inputs.              *)
(***************************************************************************)
EXTENDS Admission, TLAPS

\* An accepted claim is for a registered slot that allows its authority, and
\* was not said by the assistant.
LEMMA AcceptedIsAllowed ==
  ASSUME NEW p \in Proposals, Accepted(p)
  PROVE  /\ p.valued /\ p.slot \in Registered
         /\ p.authority \in Registry[p.slot].allowed
         /\ p.speaker \notin AssistantSpeakers /\ p.authority \notin AssistantAuthorities
         /\ p.authority # "runtime_diagnostic"
  BY DEF Accepted, Admit, Decided, Quarantined

LEMMA EligibleIsAccepted ==
  ASSUME NEW p \in Proposals
  PROVE  Admit(p).eligible <=> Accepted(p)
  BY DEF Accepted, Admit, Decided, Quarantined

(* An event that readers may answer from comes from an accepted claim of a *)
(* registered slot, on an authority the slot allows, with its receipt and  *)
(* without an end of validity: admission_policy and projection_semantics   *)
(* agree on it, though neither calls the other.                            *)
THEOREM AnswerHasAuthority ==
  ASSUME NEW p \in Proposals, NEW stored \in BOOLEAN, NEW receipted \in BOOLEAN,
         NEW expired \in BOOLEAN, AnswerSafe(MemoryEvent(p, stored, receipted, expired))
  PROVE  /\ Accepted(p) /\ receipted /\ ~expired
         /\ p.slot \in Registered /\ p.authority \in Registry[p.slot].allowed
<1>1. Admit(p).eligible /\ receipted /\ ~expired
  BY DEF AnswerSafe, MemoryEvent
<1>2. Accepted(p)
  BY <1>1, EligibleIsAccepted
<1> QED
  BY <1>1, <1>2, AcceptedIsAllowed

(* Nothing the assistant said, and nothing on an assistant's authority, is *)
(* ever answered from, whatever else its payload claims.                   *)
THEOREM AssistantNeverAnswers ==
  ASSUME NEW p \in Proposals, NEW stored \in BOOLEAN, NEW receipted \in BOOLEAN,
         NEW expired \in BOOLEAN,
         p.speaker \in AssistantSpeakers \/ p.authority \in AssistantAuthorities
  PROVE  ~AnswerSafe(MemoryEvent(p, stored, receipted, expired))
  BY AnswerHasAuthority, AcceptedIsAllowed

\* No slot allows an authority that a derived payload gets without a quote.
LEMMA SlotsAllowNoSummary ==
  \A s \in Registered : {"tier2_summary", "assistant_claim", "runtime_diagnostic"}
                          \cap Registry[s].allowed = {}
  BY DEF Registered, Registry, Trusted, Assignment

(* A Tier-2 or consolidation claim without a verified quote of the user is *)
(* not accepted, whichever speaker and authority its payload gives.        *)
THEOREM SummaryIsNotAccepted ==
  ASSUME NEW p \in Proposals, NEW explicit, NEW diagnostic \in BOOLEAN,
         p.authority = DerivedAuthority(p.speaker, explicit, diagnostic, FALSE)
  PROVE  ~Accepted(p)
<1>1. p.authority \in {"tier2_summary", "assistant_claim", "runtime_diagnostic"}
  BY DEF DerivedAuthority
<1> QED
  BY <1>1, AcceptedIsAllowed, SlotsAllowNoSummary

(* The event of a decision always validates, if what left a row has its    *)
(* receipt: recording it never raises after the row was written.           *)
THEOREM EventIsValid ==
  ASSUME NEW p \in Proposals, NEW stored \in BOOLEAN, NEW receipted \in BOOLEAN,
         NEW expired \in BOOLEAN, stored => receipted
  PROVE  ValidEvent(MemoryEvent(p, stored, receipted, expired))
  BY DEF ValidEvent, MemoryEvent, EventType, Admit, Decided, Quarantined

(* What the policy accepts, the guard turns away at its row for one reason *)
(* alone: it, or the profile row it is written over, is flagged as a       *)
(* current assignment and its authority may not assign.  The policy never  *)
(* looks at the flag, which candidate metadata may bring.                  *)
THEOREM AcceptedIsPermitted ==
  ASSUME NEW p \in Proposals, NEW kept \in BOOLEAN, Accepted(p)
  PROVE  Permitted(RequestOf(p, kept)) <=>
           (p.assignment \/ kept => p.authority \in Assignment)
<1>1. p.authority # "none"
  BY DEF Proposals, Authorities
<1> QED
  BY <1>1, Zenon DEF Permitted, RequestOf, Bare, HasPermit

(* A verified quote of the user cannot assign: of the claims that Tier-2   *)
(* gets accepted, the guard turns away every one that is flagged.          *)
THEOREM FlaggedQuoteIsRefused ==
  ASSUME NEW p \in Proposals, NEW kept \in BOOLEAN, NEW explicit, NEW diagnostic \in BOOLEAN,
         NEW verified \in BOOLEAN, Accepted(p), p.assignment \/ kept,
         p.authority = DerivedAuthority(p.speaker, explicit, diagnostic, verified)
  PROVE  ~Permitted(RequestOf(p, kept))
<1>1. p.authority \in {"assistant_claim", "runtime_diagnostic", "user_explicit_assertion", "tier2_summary"}
  BY DEF DerivedAuthority
<1>2. p.authority \notin Assignment
  BY <1>1 DEF Assignment
<1> QED
  BY <1>2, AcceptedIsPermitted

(* A derived write with neither a permit nor a decision never gets to the  *)
(* profile and graph shelves, nor makes an assignment anywhere; an         *)
(* assignment names an authority that may assign, or none.                 *)
THEOREM UnadmittedIsRefused ==
  ASSUME NEW r \in Requests, Permitted(r)
  PROVE  /\ Derived(r) /\ r.permit \in {"none", "broken"} /\ ~r.admitted =>
              r.shelf \in {"operating", "task"} /\ ~r.assignment
         /\ r.assignment => r.authority \in Assignment \cup {"none"}
  BY DEF Permitted, Requests, Bare, HasPermit
=============================================================================
