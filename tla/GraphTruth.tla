----------------------------- MODULE GraphTruth -----------------------------
(***************************************************************************)
(* The graph-truth shelf as SQLite keeps it: entities and their aliases,   *)
(* the states of one attribute, the conflicts between a current state and  *)
(* a candidate, the supersession links and the ledger of resolutions.      *)
(*                                                                         *)
(* Writers are the threads that share the store's one connection: the      *)
(* turn thread and the Tier-2 worker.  An upsert takes no lock, so it is   *)
(* two steps here, the reads (BeginUpsert) and the writes (one action for  *)
(* each outcome); other writers and the operator may act in between.       *)
(* Every query of the code filters on the attribute, so attributes do not  *)
(* interact and the module follows one of them.  A value is a value text   *)
(* as it is stored, without the blanks around it; Folded says which texts  *)
(* are one up to case and spacing (lower() and casefold() taken as one).   *)
(***************************************************************************)
EXTENDS Naturals, Sequences

CONSTANTS
  Writers,        \* threads that upsert graph states
  Names,          \* normalized entity names
  AliasNames,     \* the names merge_entity_alias is called with as alias
  Values,         \* value texts
  Folded,         \* the text of a value up to case and spacing
  Scopes,         \* principal scope keys
  NoScope,        \* a write whose metadata carries no principal scope
  ExactUpdate,    \* pairs <<old, new>> whose numeric signatures differ
  MaxStates,      \* bound on the rows of graph_states
  MaxConflicts    \* bound on the rows of graph_conflicts

ASSUME BoundsAssumption == MaxStates \in Nat /\ MaxConflicts \in Nat
ASSUME DataAssumption ==
  /\ AliasNames \subseteq Names
  /\ NoScope \notin Scopes
  /\ DOMAIN Folded = Values
  /\ ExactUpdate \subseteq {p \in Values \X Values : p[1] # p[2]}

VARIABLES
  entities,      \* graph_entities: the names that have a row
  aliases,       \* graph_entity_aliases: pairs <<alias, target>>
  states,        \* graph_states by id
  conflicts,     \* graph_conflicts by id
  supersessions, \* graph_supersessions: pairs <<prior, new>>
  resolutions,   \* graph_conflict_resolutions, oldest first
  upsert         \* what each writer's upsert has read and not yet written

vars == <<entities, aliases, states, conflicts, supersessions, resolutions, upsert>>

ScopeKeys == Scopes \cup {NoScope}
NoState == 0
Idle == [active |-> FALSE]

\* Mutant of ClosedStatus: the row is given the decision as its status.
DecisionAsStatus ==
  [d \in {"accept_current", "accept_candidate", "quarantine_candidate",
          "supersede_with_new_value"} |-> d]

ClosedStatus ==
  [accept_current           |-> "accepted_current",
   accept_candidate         |-> "accepted_candidate",
   quarantine_candidate     |-> "quarantined_candidate",
   supersede_with_new_value |-> "superseded_with_new_value"]

Decisions == DOMAIN ClosedStatus
Promoting == {"accept_candidate", "supersede_with_new_value"}
ConflictStatuses == {"open", "accepted_current", "accepted_candidate",
                     "quarantined_candidate", "superseded_with_new_value"}

StateRow == [owner : Names, value : Values, scope : ScopeKeys, current : BOOLEAN]
ConflictRow == [owner : Names, on : Nat, candidate : Values, scope : ScopeKeys,
                status : ConflictStatuses]
Resolution == [conflict : Nat, decision : Decisions, state : Nat]
Request == [active : {TRUE}, owner : Names, value : Values, scope : ScopeKeys,
            supersede : BOOLEAN, current : Nat]

Open(c) == conflicts[c].status = "open"

(***************************************************************************)
(* get_or_create_entity: an entity row wins over an alias row, and a name  *)
(* with neither gets a row of its own.                                     *)
(***************************************************************************)
AliasTargets(n) == {t \in entities : <<n, t>> \in aliases}

Resolved(n) ==
  IF n \in entities \/ AliasTargets(n) = {} THEN {n} ELSE AliasTargets(n)

(***************************************************************************)
(* The current state a write of scope s to entity e meets: for a scoped    *)
(* write one of its own scope; for an unscoped write an unscoped one, else *)
(* any.  Callers supply valid_from, so the order of the rows is free.      *)
(***************************************************************************)
CurrentOf(e) == {i \in DOMAIN states : states[i].current /\ states[i].owner = e}

CurrentFor(e, s) ==
  LET sameScope == {i \in CurrentOf(e) : states[i].scope = s}
  IN  IF sameScope = {} /\ s = NoScope THEN CurrentOf(e) ELSE sameScope

MergedScope(old, new) == IF new = NoScope THEN old ELSE new

MarkPrior(i) == [states EXCEPT ![i].current = FALSE]

NewState(e, v, s) == [owner |-> e, value |-> v, scope |-> s, current |-> TRUE]

\* Mutants of Supersede: no link; prior left current; the whole entity closed
\* after the insert, the new row with it.
SupersedeUnlinked(i, new) ==
  /\ Len(states) < MaxStates
  /\ states' = Append(MarkPrior(i), new)
  /\ UNCHANGED supersessions
SupersedeLeavingPrior(i, new) ==
  /\ Len(states) < MaxStates
  /\ states' = Append(states, new)
  /\ supersessions' = supersessions \cup {<<i, Len(states) + 1>>}
SupersedeClosingEntity(i, new) ==
  /\ Len(states) < MaxStates
  /\ states' = [j \in 1..(Len(states) + 1) |->
                 LET row == Append(states, new)[j] IN
                 [row EXCEPT !.current = @ /\ row.owner # new.owner]]
  /\ supersessions' = supersessions \cup {<<i, Len(states) + 1>>}

\* Close state i, insert its replacement and link the two.
Supersede(i, new) ==
  /\ Len(states) < MaxStates
  /\ states' = Append(MarkPrior(i), new)
  /\ supersessions' = supersessions \cup {<<i, Len(states) + 1>>}

Init ==
  /\ entities = {}
  /\ aliases = {}
  /\ states = <<>>
  /\ conflicts = <<>>
  /\ supersessions = {}
  /\ resolutions = <<>>
  /\ upsert = [w \in Writers |-> Idle]

(***************************************************************************)
(* Upserts.                                                                *)
(***************************************************************************)
BeginUpsert(w, n, v, s, supersede) ==
  /\ upsert[w] = Idle
  /\ \E e \in Resolved(n) :
       /\ entities' = entities \cup {e}
       /\ \E i \in IF CurrentFor(e, s) = {} THEN {NoState} ELSE CurrentFor(e, s) :
            upsert' = [upsert EXCEPT ![w] =
                         [active |-> TRUE, owner |-> e, value |-> v, scope |-> s,
                          supersede |-> supersede, current |-> i]]
  /\ UNCHANGED <<aliases, states, conflicts, supersessions, resolutions>>

\* What the writer found: nothing, its own value, or a different value that
\* it replaces or disputes.
Finds(w) ==
  LET r == upsert[w] IN
  IF r.current = NoState THEN "nothing"
  ELSE IF Folded[states[r.current].value] = Folded[r.value] THEN "same"
  ELSE IF r.supersede \/ <<states[r.current].value, r.value>> \in ExactUpdate
  THEN "replaced" ELSE "disputed"

Done(w) == upsert' = [upsert EXCEPT ![w] = Idle]

\* The entity row the writer resolved is still there: the foreign key holds.
EntityThere(w) == upsert[w].owner \in entities

WriteUnchanged(w) ==
  /\ upsert[w].active /\ Finds(w) = "same"
  /\ Done(w)
  /\ UNCHANGED <<entities, aliases, states, conflicts, supersessions, resolutions>>

WriteNew(w) ==
  LET r == upsert[w] IN
  /\ r.active /\ Finds(w) = "nothing" /\ EntityThere(w)
  /\ Len(states) < MaxStates
  /\ states' = Append(states, NewState(r.owner, r.value, r.scope))
  /\ Done(w)
  /\ UNCHANGED <<entities, aliases, conflicts, supersessions, resolutions>>

WriteSuperseding(w) ==
  LET r == upsert[w] IN
  /\ r.active /\ Finds(w) = "replaced" /\ EntityThere(w)
  /\ Supersede(r.current, NewState(r.owner, r.value, r.scope))
  /\ Done(w)
  /\ UNCHANGED <<entities, aliases, conflicts, resolutions>>

\* Open conflicts over the state the writer met with the candidate to the
\* letter: two spellings of one candidate are two conflicts.
SameConflicts(r) ==
  {c \in DOMAIN conflicts : /\ Open(c)
                            /\ conflicts[c].owner = r.owner
                            /\ conflicts[c].on = r.current
                            /\ conflicts[c].candidate = r.value}

\* Mutant of InverseConflicts: the opposite pair is not looked for.
NoInverse(r) == {}

\* Open conflicts of the entity that pit the same two values, however they
\* are spelled, the other way round.
InverseConflicts(r) ==
  {c \in DOMAIN conflicts : /\ Open(c)
                            /\ conflicts[c].owner = r.owner
                            /\ Folded[states[conflicts[c].on].value] = Folded[r.value]
                            /\ Folded[conflicts[c].candidate] =
                                 Folded[states[r.current].value]}

\* The disagreement is already on file: its metadata is merged.
WriteKnownConflict(w) ==
  LET r == upsert[w]
      known == IF SameConflicts(r) # {} THEN SameConflicts(r) ELSE InverseConflicts(r) IN
  /\ r.active /\ Finds(w) = "disputed"
  /\ \E c \in known :
       conflicts' = [conflicts EXCEPT ![c].scope = MergedScope(@, r.scope)]
  /\ Done(w)
  /\ UNCHANGED <<entities, aliases, states, supersessions, resolutions>>

WriteNewConflict(w) ==
  LET r == upsert[w] IN
  /\ r.active /\ Finds(w) = "disputed" /\ EntityThere(w)
  /\ SameConflicts(r) \cup InverseConflicts(r) = {}
  /\ Len(conflicts) < MaxConflicts
  /\ conflicts' = Append(conflicts,
                    [owner |-> r.owner, on |-> r.current, candidate |-> r.value,
                     scope |-> r.scope, status |-> "open"])
  /\ Done(w)
  /\ UNCHANGED <<entities, aliases, states, supersessions, resolutions>>

\* A merge deleted the entity in between: the insert breaks the foreign key
\* and raises, after the prior state has already been closed.
WriteFails(w) ==
  LET r == upsert[w] IN
  /\ r.active /\ ~EntityThere(w)
  /\ \/ Finds(w) = "nothing" /\ UNCHANGED states
     \/ Finds(w) = "replaced" /\ states' = MarkPrior(r.current)
     \/ /\ Finds(w) = "disputed" /\ UNCHANGED states
        /\ SameConflicts(r) \cup InverseConflicts(r) = {}
  /\ Done(w)
  /\ UNCHANGED <<entities, aliases, conflicts, supersessions, resolutions>>

(***************************************************************************)
(* merge_entity_alias(a, t), by a writer that is between two upserts.      *)
(***************************************************************************)
Moved(table, a, e) ==
  [i \in DOMAIN table |-> [table[i] EXCEPT !.owner = IF @ = a THEN e ELSE @]]

\* Mutant of MoveRows: the conflicts stay behind.
MoveStatesOnly(a, e) ==
  /\ aliases' = aliases \cup {<<a, e>>}
  /\ states' = Moved(states, a, e)
  /\ UNCHANGED <<conflicts, supersessions, resolutions, upsert>>

MoveRows(a, e) ==
  /\ aliases' = aliases \cup {<<a, e>>}
  /\ states' = Moved(states, a, e)
  /\ conflicts' = Moved(conflicts, a, e)
  /\ UNCHANGED <<supersessions, resolutions, upsert>>

\* An alias row that points to a keeps the foreign key from letting it go.
AliasOf(a, rows) == {n \in Names : <<n, a>> \in rows}

MergeAlias(w, a, t) ==
  /\ upsert[w] = Idle
  /\ a # t /\ a \in entities
  /\ \E e \in Resolved(t) :
       /\ MoveRows(a, e)
       /\ AliasOf(a, aliases') = {}
       /\ entities' = (entities \cup {e}) \ {a}

\* The delete raises after the rows have moved; a keeps its entity row and
\* with it its name, which no longer leads to the moved rows.
MergeAliasFails(w, a, t) ==
  /\ upsert[w] = Idle
  /\ a # t /\ a \in entities
  /\ \E e \in Resolved(t) :
       /\ MoveRows(a, e)
       /\ AliasOf(a, aliases') # {}
       /\ entities' = entities \cup {e}

(***************************************************************************)
(* resolve_graph_conflict by the operator.  It does not ask whether the    *)
(* state the conflict was opened on is still the current one, and the row  *)
(* it fetched holds its metadata under another key than the one it decodes *)
(* for the new state, which so gets no scope.                              *)
(***************************************************************************)
\* Mutant of Close: a closed conflict may be resolved again.
CloseAgain(c, d, i) ==
  /\ conflicts' = [conflicts EXCEPT ![c].status = ClosedStatus[d]]
  /\ resolutions' = Append(resolutions, [conflict |-> c, decision |-> d, state |-> i])
  /\ Len(resolutions) < MaxStates

Close(c, d, i) ==
  /\ Open(c)
  /\ conflicts' = [conflicts EXCEPT ![c].status = ClosedStatus[d]]
  /\ resolutions' = Append(resolutions, [conflict |-> c, decision |-> d, state |-> i])

\* Mutant of ResolveKeeping: accepting the disputed state makes it current.
ResolveReviving(c, d) ==
  /\ d \notin Promoting
  /\ Close(c, d, NoState)
  /\ states' = [states EXCEPT ![conflicts[c].on].current = TRUE]
  /\ UNCHANGED <<entities, aliases, supersessions, upsert>>

ResolveKeeping(c, d) ==
  /\ d \notin Promoting
  /\ Close(c, d, NoState)
  /\ UNCHANGED <<entities, aliases, states, supersessions, upsert>>

ResolvePromoting(c, d, v) ==
  /\ d \in Promoting
  /\ d = "accept_candidate" => v = conflicts[c].candidate
  /\ Close(c, d, Len(states) + 1)
  /\ Supersede(conflicts[c].on, NewState(conflicts[c].owner, v, NoScope))
  /\ UNCHANGED <<entities, aliases, upsert>>

Next ==
  \/ \E w \in Writers, n \in Names, v \in Values, s \in ScopeKeys, b \in BOOLEAN :
       BeginUpsert(w, n, v, s, b)
  \/ \E w \in Writers :
       \/ WriteUnchanged(w) \/ WriteNew(w) \/ WriteSuperseding(w)
       \/ WriteKnownConflict(w) \/ WriteNewConflict(w) \/ WriteFails(w)
  \/ \E w \in Writers, a \in AliasNames, t \in Names :
       MergeAlias(w, a, t) \/ MergeAliasFails(w, a, t)
  \/ \E c \in DOMAIN conflicts, d \in Decisions :
       \/ ResolveKeeping(c, d)
       \/ \E v \in Values : ResolvePromoting(c, d, v)

Spec == Init /\ [][Next]_vars

-----------------------------------------------------------------------------
(***************************************************************************)
(* Properties.                                                             *)
(***************************************************************************)
TypeOK ==
  /\ entities \subseteq Names
  /\ aliases \subseteq Names \X Names
  /\ states \in Seq(StateRow)
  /\ conflicts \in Seq(ConflictRow)
  /\ \A c \in DOMAIN conflicts : conflicts[c].on \in DOMAIN states
  /\ supersessions \subseteq (DOMAIN states) \X (DOMAIN states)
  /\ resolutions \in Seq(Resolution)
  /\ upsert \in [Writers -> Request \cup {Idle}]
  /\ \A w \in Writers :
       upsert[w].active => upsert[w].current \in (DOMAIN states) \cup {NoState}

(* The ledger is the conflicts' history: an open conflict has no row in it, *)
(* a closed one has exactly one, and its status is what that row decided    *)
(* (the early return "already_closed" and the ledger insert of              *)
(* _sqlite_resolve_graph_conflict).                                         *)
LedgerExplainsStatus ==
  /\ \A c \in DOMAIN conflicts :
       Open(c) \/ \E k \in DOMAIN resolutions : resolutions[k].conflict = c
  /\ \A k \in DOMAIN resolutions :
       LET r == resolutions[k] IN
       /\ r.conflict \in DOMAIN conflicts
       /\ conflicts[r.conflict].status = ClosedStatus[r.decision]
       /\ \A l \in DOMAIN resolutions : resolutions[l].conflict = r.conflict => l = k

(* Whatever the interleaving, a state that was superseded is not current,  *)
(* and it was superseded by a later row: links form no cycle, so following *)
(* them from any state ends.                                               *)
SupersededIsHistory ==
  \A p \in supersessions : ~states[p[1]].current /\ p[1] < p[2]

(* A state that left current truth left it for a successor: no history row *)
(* without a supersession link (prior marking and link are one path).      *)
HistoryIsLinked ==
  \A i \in DOMAIN states :
    states[i].current \/ \E p \in supersessions : p[1] = i

(* Recall keeps an answer: an entity that has a historical state also has  *)
(* a current one, through every mix of supersessions, resolutions of stale *)
(* conflicts and alias merges.                                             *)
TruthSurvives ==
  \A i \in DOMAIN states : CurrentOf(states[i].owner) # {}

(* A conflict and the state it disputes belong to one entity, also after   *)
(* the entity was merged into another.                                     *)
ConflictFollowsEntity ==
  \A c \in DOMAIN conflicts : states[conflicts[c].on].owner = conflicts[c].owner

(* Two open conflicts of an entity never dispute one state with the same   *)
(* candidate to the letter, nor pit the same two values, up to case and    *)
(* spacing, the other way round (the two lookups of                        *)
(* _sqlite_record_graph_state_conflict).  Two spellings of one candidate   *)
(* do open two conflicts over one state; an entity that another one was    *)
(* merged into may hold the conflicts of both.                             *)
NoDuplicateConflict ==
  \A c, d \in DOMAIN conflicts :
    (/\ c # d /\ Open(c) /\ Open(d)
     /\ conflicts[c].owner = conflicts[d].owner
     /\ AliasOf(conflicts[c].owner, aliases) = {}) =>
      /\ <<conflicts[c].on, conflicts[c].candidate>> # <<conflicts[d].on, conflicts[d].candidate>>
      /\ ~ /\ Folded[conflicts[c].candidate] = Folded[states[conflicts[d].on].value]
           /\ Folded[conflicts[d].candidate] = Folded[states[conflicts[c].on].value]

(* History is final: no step makes a prior state current again or changes  *)
(* what a state said and for whom; ledger and links only grow.             *)
HistoryIsFinal ==
  [][/\ \A i \in DOMAIN states :
          /\ i \in DOMAIN states'
          /\ states'[i].value = states[i].value /\ states'[i].scope = states[i].scope
          /\ states'[i].current => states[i].current
     /\ supersessions \subseteq supersessions'
     /\ \A k \in DOMAIN resolutions :
          k \in DOMAIN resolutions' /\ resolutions'[k] = resolutions[k]]_vars

(* One live current truth: an entity has at most one current state for a   *)
(* scope.                                                                  *)
OneCurrentTruth ==
  \A i, j \in DOMAIN states :
    (states[i].current /\ states[j].current /\ states[i].owner = states[j].owner
     /\ states[i].scope = states[j].scope) => i = j

(* Two current truths of an entity and scope come up in three ways only: a *)
(* merge brings two entities together, a state is superseded that is       *)
(* history already (the promotion of a stale conflict, or the upsert that  *)
(* the promotion overtook), or a scoped state is superseded by an unscoped *)
(* one (the promotion, which loses the scope, or an unscoped write that it *)
(* overtook).                                                              *)
Merged == \E i \in DOMAIN states : states'[i].owner # states[i].owner
StaleOrUnscoped(p) ==
  \/ ~states[p[1]].current
  \/ states[p[1]].scope # NoScope /\ states'[p[2]].scope = NoScope

TruthDoublesOnlyBy ==
  [][OneCurrentTruth =>
       \/ OneCurrentTruth'
       \/ Merged
       \/ \E p \in supersessions' \ supersessions : StaleOrUnscoped(p)]_vars

(* The shelf is a TruthHistory, whatever entity a state belongs to:        *)
(* appended states, one leaving current truth as its successor enters.     *)
Statements == [value : Values, scope : ScopeKeys]
Statement(row) == [value |-> row.value, scope |-> row.scope]
Said == [i \in DOMAIN states |-> Statement(states[i])]
Live == {i \in DOMAIN states : states[i].current}
TH == INSTANCE TruthHistory WITH said <- Said, live <- Live, successor <- supersessions
KeepsHistory == TH!Spec
=============================================================================
