-------------------------- MODULE GraphTruthProofs --------------------------
(***************************************************************************)
(* Proofs about GraphTruth, for every set of writers, names, values and    *)
(* scopes and for every bound.                                             *)
(***************************************************************************)
EXTENDS GraphTruth, SequenceTheorems, TLAPS

(***************************************************************************)
(* What the steps do to the table of states: rows are appended or moved to *)
(* another owner, and only the current flag of an old row may fall.        *)
(***************************************************************************)
Grows(old, new) ==
  /\ new \in Seq(StateRow)
  /\ DOMAIN old \subseteq DOMAIN new
  /\ \A i \in DOMAIN old : /\ new[i].value = old[i].value
                           /\ new[i].scope = old[i].scope
                           /\ new[i].current => old[i].current

\* Appending to a table keeps its rows.
LEMMA AppendRow ==
  ASSUME NEW S, NEW table \in Seq(S), NEW row \in S
  PROVE  /\ Append(table, row) \in Seq(S)
         /\ Len(Append(table, row)) = Len(table) + 1
         /\ DOMAIN Append(table, row) = (DOMAIN table) \cup {Len(table) + 1}
         /\ \A i \in DOMAIN table : Append(table, row)[i] = table[i]
         /\ Append(table, row)[Len(table) + 1] = row
         /\ Len(table) + 1 \notin DOMAIN table
  BY AppendProperties, LenProperties

\* Closing a state as prior changes nothing but its current flag.
LEMMA MarkPriorRow ==
  ASSUME states \in Seq(StateRow), NEW i \in DOMAIN states
  PROVE  /\ Grows(states, MarkPrior(i))
         /\ Len(MarkPrior(i)) = Len(states)
         /\ ~MarkPrior(i)[i].current
         /\ MarkPrior(i)[i].owner = states[i].owner
         /\ \A j \in (DOMAIN states) \ {i} : MarkPrior(i)[j] = states[j]
  <1> DEFINE row == [states[i] EXCEPT !.current = FALSE]
  <1>1. i \in 1..Len(states) /\ states[i] \in StateRow /\ DOMAIN states = 1..Len(states)
    BY LenProperties, ElementOfSeq
  <1>2. row \in StateRow /\ ~row.current /\ row.owner = states[i].owner
        /\ row.value = states[i].value /\ row.scope = states[i].scope
    BY <1>1 DEF StateRow
  <1>3. MarkPrior(i) = [states EXCEPT ![i] = row]
    BY <1>1 DEF MarkPrior
  <1> HIDE DEF row
  <1>4. /\ MarkPrior(i) \in Seq(StateRow)
        /\ Len(MarkPrior(i)) = Len(states)
        /\ \A j \in 1..Len(states) : MarkPrior(i)[j] = IF j = i THEN row ELSE states[j]
    BY <1>1, <1>2, <1>3, ExceptSeq
  <1>5. DOMAIN MarkPrior(i) = DOMAIN states
    BY <1>1, <1>4, LenProperties
  <1> QED
    BY <1>1, <1>2, <1>4, <1>5 DEF Grows

\* Superseding state i appends the replacement, leaves i prior and links both.
LEMMA SupersedeRow ==
  ASSUME states \in Seq(StateRow), NEW i \in DOMAIN states, NEW new \in StateRow,
         Supersede(i, new)
  PROVE  /\ Grows(states, states')
         /\ DOMAIN states' = (DOMAIN states) \cup {Len(states) + 1}
         /\ ~states'[i].current
         /\ i < Len(states) + 1
         /\ states'[i].owner = states[i].owner
         /\ \A j \in (DOMAIN states) \ {i} : states'[j] = states[j]
         /\ states'[Len(states) + 1] = new
  <1>1. /\ MarkPrior(i) \in Seq(StateRow)
        /\ Grows(states, MarkPrior(i))
        /\ Len(MarkPrior(i)) = Len(states)
        /\ ~MarkPrior(i)[i].current
        /\ MarkPrior(i)[i].owner = states[i].owner
        /\ \A j \in (DOMAIN states) \ {i} : MarkPrior(i)[j] = states[j]
    BY MarkPriorRow DEF Grows
  <1>2. DOMAIN MarkPrior(i) = DOMAIN states /\ i \in 1..Len(states) /\ Len(states) \in Nat
    BY <1>1, LenProperties
  <1>3. states' = Append(MarkPrior(i), new)
    BY DEF Supersede
  <1> HIDE DEF MarkPrior
  <1>4. /\ states' \in Seq(StateRow)
        /\ DOMAIN states' = (DOMAIN states) \cup {Len(states) + 1}
        /\ \A j \in DOMAIN states : states'[j] = MarkPrior(i)[j]
        /\ states'[Len(states) + 1] = new
    BY <1>1, <1>2, <1>3, AppendRow
  <1> QED
    BY <1>1, <1>2, <1>4 DEF Grows

\* The owner of a row after entity a was merged into e.
MovedOwner(o, a, e) == IF o = a THEN e ELSE o

\* A merge gives rows another owner of the same kind and changes nothing else.
LEMMA MovedStates ==
  ASSUME states \in Seq(StateRow), NEW a, NEW e \in Names
  PROVE  /\ Grows(states, Moved(states, a, e))
         /\ DOMAIN Moved(states, a, e) = DOMAIN states
         /\ \A i \in DOMAIN states :
              /\ Moved(states, a, e)[i].current = states[i].current
              /\ Moved(states, a, e)[i].owner = MovedOwner(states[i].owner, a, e)
  <1> DEFINE new == Moved(states, a, e)
  <1>1. DOMAIN states = 1..Len(states) /\ Len(states) \in Nat
    BY LenProperties
  <1>2. DOMAIN new = 1..Len(states)
    BY <1>1 DEF Moved
  <1>3. ASSUME NEW i \in 1..Len(states)
        PROVE  /\ new[i] \in StateRow
               /\ new[i].value = states[i].value
               /\ new[i].scope = states[i].scope
               /\ new[i].current = states[i].current
               /\ new[i].owner = MovedOwner(states[i].owner, a, e)
    <2>1. states[i] \in StateRow
      BY ElementOfSeq
    <2>2. new[i] = [states[i] EXCEPT !.owner = IF states[i].owner = a THEN e ELSE states[i].owner]
      BY <1>1 DEF Moved
    <2> QED
      BY <2>1, <2>2 DEF StateRow, MovedOwner
  <1>4. new \in Seq(StateRow)
    <2>1. new \in [1..Len(states) -> StateRow]
      BY <1>1, <1>2, <1>3 DEF Moved
    <2> QED
      BY <1>1, <2>1, SeqDef
  <1> QED
    BY <1>1, <1>2, <1>3, <1>4 DEF Grows

LEMMA MovedConflicts ==
  ASSUME conflicts \in Seq(ConflictRow), NEW a, NEW e \in Names
  PROVE  /\ Moved(conflicts, a, e) \in Seq(ConflictRow)
         /\ DOMAIN Moved(conflicts, a, e) = DOMAIN conflicts
         /\ \A c \in DOMAIN conflicts :
              /\ Moved(conflicts, a, e)[c].on = conflicts[c].on
              /\ Moved(conflicts, a, e)[c].status = conflicts[c].status
              /\ Moved(conflicts, a, e)[c].candidate = conflicts[c].candidate
              /\ Moved(conflicts, a, e)[c].owner = MovedOwner(conflicts[c].owner, a, e)
  <1> DEFINE new == Moved(conflicts, a, e)
  <1>1. DOMAIN conflicts = 1..Len(conflicts) /\ Len(conflicts) \in Nat
    BY LenProperties
  <1>2. DOMAIN new = 1..Len(conflicts)
    BY <1>1 DEF Moved
  <1>3. ASSUME NEW i \in 1..Len(conflicts)
        PROVE  /\ new[i] \in ConflictRow
               /\ new[i].on = conflicts[i].on
               /\ new[i].status = conflicts[i].status
               /\ new[i].candidate = conflicts[i].candidate
               /\ new[i].owner = MovedOwner(conflicts[i].owner, a, e)
    <2>1. conflicts[i] \in ConflictRow
      BY ElementOfSeq
    <2>2. new[i] = [conflicts[i] EXCEPT
                      !.owner = IF conflicts[i].owner = a THEN e ELSE conflicts[i].owner]
      BY <1>1 DEF Moved
    <2> QED
      BY <2>1, <2>2 DEF ConflictRow, MovedOwner
  <1>4. new \in Seq(ConflictRow)
    <2>1. new \in [1..Len(conflicts) -> ConflictRow]
      BY <1>1, <1>2, <1>3 DEF Moved
    <2> QED
      BY <1>1, <2>1, SeqDef
  <1> QED
    BY <1>1, <1>2, <1>3, <1>4

\* Changing a row of the conflict table keeps its length and the other rows.
LEMMA ChangedConflict ==
  ASSUME conflicts \in Seq(ConflictRow), NEW c \in DOMAIN conflicts,
         NEW row \in ConflictRow
  PROVE  /\ [conflicts EXCEPT ![c] = row] \in Seq(ConflictRow)
         /\ DOMAIN [conflicts EXCEPT ![c] = row] = DOMAIN conflicts
         /\ \A d \in DOMAIN conflicts :
              [conflicts EXCEPT ![c] = row][d] = IF d = c THEN row ELSE conflicts[d]
  BY ExceptSeq, LenProperties

(***************************************************************************)
(* What the steps do to the conflicts: rows are appended open, closed rows *)
(* are closed with a ledger row, and the rest keep what they are about.    *)
(***************************************************************************)
KeepsConflicts(old, new) ==
  /\ new \in Seq(ConflictRow)
  /\ DOMAIN old \subseteq DOMAIN new
  /\ \A c \in DOMAIN old : new[c].on = old[c].on
  /\ \A c \in (DOMAIN new) \ DOMAIN old : new[c].status = "open"

\* Closing conflict c with decision d and promoted state i.
LEMMA CloseRow ==
  ASSUME conflicts \in Seq(ConflictRow), resolutions \in Seq(Resolution),
         NEW c \in DOMAIN conflicts, NEW d \in Decisions, NEW i \in Nat,
         Close(c, d, i)
  PROVE  /\ KeepsConflicts(conflicts, conflicts')
         /\ DOMAIN conflicts' = DOMAIN conflicts
         /\ conflicts[c].status = "open"
         /\ conflicts'[c].status = ClosedStatus[d]
         /\ conflicts'[c].owner = conflicts[c].owner
         /\ \A b \in (DOMAIN conflicts) \ {c} : conflicts'[b] = conflicts[b]
         /\ resolutions' \in Seq(Resolution)
         /\ DOMAIN resolutions' = (DOMAIN resolutions) \cup {Len(resolutions) + 1}
         /\ Len(resolutions) + 1 \notin DOMAIN resolutions
         /\ \A k \in DOMAIN resolutions : resolutions'[k] = resolutions[k]
         /\ resolutions'[Len(resolutions) + 1] = [conflict |-> c, decision |-> d, state |-> i]
  <1> DEFINE row == [conflicts[c] EXCEPT !.status = ClosedStatus[d]]
             res == [conflict |-> c, decision |-> d, state |-> i]
  <1>1. conflicts[c] \in ConflictRow /\ c \in Nat
    BY LenProperties, ElementOfSeq
  <1>2. ClosedStatus[d] \in ConflictStatuses
    BY DEF ClosedStatus, Decisions, ConflictStatuses
  <1>3. row \in ConflictRow /\ row.status = ClosedStatus[d] /\ row.on = conflicts[c].on
        /\ row.owner = conflicts[c].owner
    BY <1>1, <1>2 DEF ConflictRow
  <1>4. conflicts' = [conflicts EXCEPT ![c] = row]
    BY DEF Close
  <1>5. res \in Resolution
    BY <1>1 DEF Resolution
  <1>6. resolutions' = Append(resolutions, res)
    BY DEF Close
  <1> HIDE DEF row, res
  <1>7. /\ resolutions' \in Seq(Resolution)
        /\ DOMAIN resolutions' = (DOMAIN resolutions) \cup {Len(resolutions) + 1}
        /\ Len(resolutions) + 1 \notin DOMAIN resolutions
        /\ \A k \in DOMAIN resolutions : resolutions'[k] = resolutions[k]
        /\ resolutions'[Len(resolutions) + 1] = res
    BY <1>5, <1>6, AppendRow
  <1>8. /\ conflicts' \in Seq(ConflictRow)
        /\ DOMAIN conflicts' = DOMAIN conflicts
        /\ \A b \in DOMAIN conflicts : conflicts'[b] = IF b = c THEN row ELSE conflicts[b]
    BY <1>3, <1>4, ChangedConflict
  <1>9. conflicts[c].status = "open"
    BY DEF Close, Open
  <1> QED
    BY <1>3, <1>7, <1>8, <1>9 DEF KeepsConflicts, res

(***************************************************************************)
(* The effect of a step, one formula per part of the state.                *)
(***************************************************************************)
LinksStep ==
  \/ supersessions' = supersessions
  \/ \E i \in DOMAIN states :
       /\ supersessions' = supersessions \cup {<<i, Len(states) + 1>>}
       /\ Len(states) + 1 \in DOMAIN states'
       /\ ~states'[i].current
       /\ i < Len(states) + 1

LedgerStep ==
  \/ /\ resolutions' = resolutions
     /\ \A c \in DOMAIN conflicts : conflicts'[c].status = conflicts[c].status
  \/ \E c \in DOMAIN conflicts, d \in Decisions, i \in Nat :
       /\ DOMAIN conflicts' = DOMAIN conflicts
       /\ conflicts[c].status = "open"
       /\ conflicts'[c].status = ClosedStatus[d]
       /\ \A b \in (DOMAIN conflicts) \ {c} : conflicts'[b] = conflicts[b]
       /\ resolutions' \in Seq(Resolution)
       /\ DOMAIN resolutions' = (DOMAIN resolutions) \cup {Len(resolutions) + 1}
       /\ Len(resolutions) + 1 \notin DOMAIN resolutions
       /\ \A k \in DOMAIN resolutions : resolutions'[k] = resolutions[k]
       /\ resolutions'[Len(resolutions) + 1] = [conflict |-> c, decision |-> d, state |-> i]

UpsertStep ==
  /\ upsert' \in [Writers -> Request \cup {Idle}]
  /\ \A w \in Writers :
       upsert'[w].active => upsert'[w].current \in (DOMAIN states) \cup {NoState}

\* A new open conflict on an existing state keeps the table well formed.
NamesStep ==
  /\ entities' \subseteq Names
  /\ aliases' \subseteq Names \X Names

NewConflictsStep ==
  \A c \in (DOMAIN conflicts') \ DOMAIN conflicts : conflicts'[c].on \in DOMAIN states

Effect ==
  /\ NamesStep
  /\ Grows(states, states')
  /\ KeepsConflicts(conflicts, conflicts')
  /\ NewConflictsStep
  /\ LinksStep
  /\ LedgerStep
  /\ UpsertStep

\* Tables that a step leaves alone satisfy its effect.
LEMMA SameTables ==
  ASSUME TypeOK
  PROVE  /\ states' = states => Grows(states, states')
         /\ conflicts' = conflicts => KeepsConflicts(conflicts, conflicts') /\ NewConflictsStep
         /\ conflicts' = conflicts /\ resolutions' = resolutions => LedgerStep
         /\ upsert' = upsert => UpsertStep
         /\ entities' = entities /\ aliases' = aliases => NamesStep
         /\ supersessions' = supersessions => LinksStep
  BY DEF TypeOK, Grows, KeepsConflicts, NewConflictsStep, LedgerStep, UpsertStep,
         NamesStep, LinksStep

\* A writer that has written is idle again.
LEMMA DoneStep ==
  ASSUME TypeOK, NEW w \in Writers, Done(w)
  PROVE  UpsertStep
  BY DEF TypeOK, Done, UpsertStep, Idle

\* What a pending upsert holds.
LEMMA Pending ==
  ASSUME TypeOK, NEW w \in Writers, upsert[w].active
  PROVE  /\ upsert[w] \in Request
         /\ upsert[w].current \in (DOMAIN states) \cup {NoState}
         /\ Finds(w) # "nothing" => upsert[w].current \in DOMAIN states
         /\ \A c \in SameConflicts(upsert[w]) \cup InverseConflicts(upsert[w]) :
              c \in DOMAIN conflicts
  BY DEF TypeOK, Idle, Finds, SameConflicts, InverseConflicts

\* The row a writer inserts is well formed.
LEMMA NewStateRow ==
  ASSUME NEW e \in Names, NEW v \in Values, NEW s \in ScopeKeys
  PROVE  NewState(e, v, s) \in StateRow
  BY DEF NewState, StateRow

LEMMA BeginEffect ==
  ASSUME TypeOK, NEW w \in Writers, NEW n \in Names, NEW v \in Values,
         NEW s \in ScopeKeys, NEW b \in BOOLEAN, BeginUpsert(w, n, v, s, b)
  PROVE  Effect
  <1>1. PICK e \in Resolved(n) :
          /\ entities' = entities \cup {e}
          /\ \E i \in IF CurrentFor(e, s) = {} THEN {NoState} ELSE CurrentFor(e, s) :
               upsert' = [upsert EXCEPT ![w] =
                            [active |-> TRUE, owner |-> e, value |-> v, scope |-> s,
                             supersede |-> b, current |-> i]]
    BY DEF BeginUpsert
  <1>2. e \in Names
    BY DEF Resolved, AliasTargets, TypeOK
  <1>3. PICK i \in (DOMAIN states) \cup {NoState} :
          upsert' = [upsert EXCEPT ![w] =
                       [active |-> TRUE, owner |-> e, value |-> v, scope |-> s,
                        supersede |-> b, current |-> i]]
    BY <1>1 DEF CurrentFor, CurrentOf
  <1>4. i \in Nat
    BY <1>3, LenProperties DEF TypeOK, NoState
  <1> DEFINE req == [active |-> TRUE, owner |-> e, value |-> v, scope |-> s,
                     supersede |-> b, current |-> i]
  <1>5. req \in Request /\ req.current = i
    BY <1>2, <1>4 DEF Request
  <1>6. UpsertStep
    <2> HIDE DEF req
    <2>1. upsert' = [upsert EXCEPT ![w] = req]
      BY <1>3 DEF req
    <2> QED
      BY <1>3, <1>5, <2>1 DEF UpsertStep, TypeOK
  <1>7. NamesStep
    BY <1>1, <1>2 DEF NamesStep, BeginUpsert, TypeOK
  <1> QED
    BY <1>6, <1>7, SameTables DEF BeginUpsert, Effect

LEMMA WriteEffect ==
  ASSUME TypeOK, NEW w \in Writers,
         \/ WriteUnchanged(w) \/ WriteNew(w) \/ WriteSuperseding(w)
         \/ WriteKnownConflict(w) \/ WriteNewConflict(w) \/ WriteFails(w)
  PROVE  Effect
  <1>1. upsert[w].active /\ Done(w)
    BY DEF WriteUnchanged, WriteNew, WriteSuperseding, WriteKnownConflict,
           WriteNewConflict, WriteFails
  <1> DEFINE r == upsert[w]
             new == NewState(r.owner, r.value, r.scope)
  <1>2. r \in Request /\ r.owner \in Names /\ r.value \in Values /\ r.scope \in ScopeKeys
    BY <1>1, Pending DEF Request
  <1>3. new \in StateRow
    BY <1>2, NewStateRow
  <1>4. UpsertStep
    BY <1>1, DoneStep
  <1>5. CASE WriteUnchanged(w)
    BY <1>4, <1>5, SameTables DEF WriteUnchanged, Effect
  <1>6. CASE WriteNew(w)
    <2>1. states' = Append(states, new)
      BY <1>6 DEF WriteNew
    <2> HIDE DEF new
    <2>2. Grows(states, states')
      BY <1>3, <2>1, AppendRow DEF Grows, TypeOK
    <2> QED
      BY <1>4, <1>6, <2>2, SameTables DEF WriteNew, Effect
  <1>7. CASE WriteSuperseding(w)
    <2>1. r.current \in DOMAIN states
      BY <1>1, <1>7, Pending DEF WriteSuperseding
    <2>2. Supersede(r.current, new)
      BY <1>7 DEF WriteSuperseding
    <2> HIDE DEF new
    <2>3. /\ Grows(states, states')
          /\ Len(states) + 1 \in DOMAIN states'
          /\ ~states'[r.current].current
          /\ r.current < Len(states) + 1
      BY <1>3, <2>1, <2>2, SupersedeRow DEF TypeOK
    <2>4. LinksStep
      BY <2>1, <2>2, <2>3 DEF LinksStep, Supersede
    <2> QED
      BY <1>4, <1>7, <2>3, <2>4, SameTables DEF WriteSuperseding, Effect
  <1>8. CASE WriteKnownConflict(w)
    <2>1. PICK c \in SameConflicts(r) \cup InverseConflicts(r) :
            conflicts' = [conflicts EXCEPT ![c].scope = MergedScope(@, r.scope)]
      BY <1>8 DEF WriteKnownConflict
    <2> DEFINE row == [conflicts[c] EXCEPT !.scope = MergedScope(conflicts[c].scope, r.scope)]
    <2>2. c \in DOMAIN conflicts /\ conflicts[c] \in ConflictRow
      BY <1>1, Pending, LenProperties, ElementOfSeq DEF TypeOK
    <2>3. /\ row \in ConflictRow
          /\ row.on = conflicts[c].on
          /\ row.status = conflicts[c].status
      BY <1>2, <2>2 DEF ConflictRow, MergedScope
    <2>4. conflicts' = [conflicts EXCEPT ![c] = row]
      BY <2>1
    <2> HIDE DEF row
    <2>5. /\ KeepsConflicts(conflicts, conflicts')
          /\ NewConflictsStep
          /\ \A d \in DOMAIN conflicts : conflicts'[d].status = conflicts[d].status
      BY <2>2, <2>3, <2>4, ChangedConflict DEF KeepsConflicts, NewConflictsStep, TypeOK
    <2>6. LedgerStep
      BY <1>8, <2>5 DEF LedgerStep, WriteKnownConflict
    <2> QED
      BY <1>4, <1>8, <2>5, <2>6, SameTables DEF WriteKnownConflict, Effect
  <1>9. CASE WriteNewConflict(w)
    <2> DEFINE row == [owner |-> r.owner, on |-> r.current, candidate |-> r.value,
                       scope |-> r.scope, status |-> "open"]
    <2>1. r.current \in DOMAIN states /\ r.current \in Nat
      BY <1>1, <1>9, Pending, LenProperties DEF WriteNewConflict, Request
    <2>2. row \in ConflictRow /\ row.on \in DOMAIN states /\ row.status = "open"
      BY <1>2, <2>1 DEF ConflictRow, ConflictStatuses
    <2>3. conflicts' = Append(conflicts, row)
      BY <1>9 DEF WriteNewConflict
    <2> HIDE DEF row
    <2>4. /\ KeepsConflicts(conflicts, conflicts')
          /\ NewConflictsStep
          /\ \A d \in DOMAIN conflicts : conflicts'[d].status = conflicts[d].status
      BY <2>2, <2>3, AppendRow DEF KeepsConflicts, NewConflictsStep, TypeOK
    <2>5. LedgerStep
      BY <1>9, <2>4 DEF LedgerStep, WriteNewConflict
    <2> QED
      BY <1>4, <1>9, <2>4, <2>5, SameTables DEF WriteNewConflict, Effect
  <1>10. CASE WriteFails(w)
    <2>1. Grows(states, states')
      <3>1. CASE states' = states
        BY <3>1, SameTables
      <3>2. CASE Finds(w) = "replaced" /\ states' = MarkPrior(r.current)
        <4>1. r.current \in DOMAIN states
          BY <1>1, <3>2, Pending
        <4> QED
          BY <3>2, <4>1, MarkPriorRow DEF TypeOK
      <3> QED
        BY <1>10, <3>1, <3>2 DEF WriteFails
    <2> QED
      BY <1>4, <1>10, <2>1, SameTables DEF WriteFails, Effect
  <1> QED
    BY <1>5, <1>6, <1>7, <1>8, <1>9, <1>10

LEMMA MergeEffect ==
  ASSUME TypeOK, NEW w \in Writers, NEW a \in AliasNames, NEW t \in Names,
         MergeAlias(w, a, t) \/ MergeAliasFails(w, a, t)
  PROVE  Effect
  <1>1. PICK e \in Resolved(t) :
          MoveRows(a, e) /\ entities' \subseteq entities \cup {e}
    BY DEF MergeAlias, MergeAliasFails
  <1>2. e \in Names /\ a \in Names
    BY DataAssumption DEF Resolved, AliasTargets, TypeOK
  <1>3. NamesStep
    BY <1>1, <1>2 DEF NamesStep, MoveRows, TypeOK
  <1>4. Grows(states, states')
    BY <1>1, <1>2, MovedStates DEF MoveRows, TypeOK
  <1>5. /\ KeepsConflicts(conflicts, conflicts')
        /\ NewConflictsStep
        /\ \A c \in DOMAIN conflicts : conflicts'[c].status = conflicts[c].status
    BY <1>1, <1>2, MovedConflicts DEF MoveRows, KeepsConflicts, NewConflictsStep, TypeOK
  <1>6. LedgerStep
    BY <1>1, <1>5 DEF LedgerStep, MoveRows
  <1> QED
    BY <1>1, <1>3, <1>4, <1>5, <1>6, SameTables DEF MoveRows, Effect

LEMMA ResolveEffect ==
  ASSUME TypeOK, NEW c \in DOMAIN conflicts, NEW d \in Decisions, NEW v \in Values,
         ResolveKeeping(c, d) \/ ResolvePromoting(c, d, v)
  PROVE  Effect
  <1>1. PICK i \in Nat : Close(c, d, i)
    <2>1. Len(states) + 1 \in Nat /\ NoState \in Nat
      BY LenProperties DEF NoState, TypeOK
    <2> QED
      BY <2>1 DEF ResolveKeeping, ResolvePromoting
  <1>2. /\ KeepsConflicts(conflicts, conflicts')
        /\ DOMAIN conflicts' = DOMAIN conflicts
        /\ LedgerStep
    BY <1>1, CloseRow DEF LedgerStep, TypeOK
  <1>3. NewConflictsStep
    BY <1>2 DEF NewConflictsStep
  <1>4. CASE ResolveKeeping(c, d)
    BY <1>2, <1>3, <1>4, SameTables DEF ResolveKeeping, Effect
  <1>5. CASE ResolvePromoting(c, d, v)
    <2> DEFINE new == NewState(conflicts[c].owner, v, NoScope)
    <2>1. conflicts[c] \in ConflictRow /\ conflicts[c].on \in DOMAIN states
      BY LenProperties, ElementOfSeq DEF TypeOK
    <2>2. new \in StateRow
      BY <2>1, NewStateRow DEF ConflictRow, ScopeKeys
    <2>3. Supersede(conflicts[c].on, new)
      BY <1>5 DEF ResolvePromoting
    <2> HIDE DEF new
    <2>4. /\ Grows(states, states')
          /\ Len(states) + 1 \in DOMAIN states'
          /\ ~states'[conflicts[c].on].current
          /\ conflicts[c].on < Len(states) + 1
      BY <2>1, <2>2, <2>3, SupersedeRow DEF TypeOK
    <2>5. LinksStep
      BY <2>1, <2>3, <2>4 DEF LinksStep, Supersede
    <2> QED
      BY <1>2, <1>3, <1>5, <2>4, <2>5, SameTables DEF ResolvePromoting, Effect
  <1> QED
    BY <1>4, <1>5

\* Every step, stuttering included, has the effect above.
LEMMA StepEffect ==
  ASSUME TypeOK, [Next]_vars
  PROVE  Effect
  <1>1. ASSUME NEW w \in Writers, NEW n \in Names, NEW v \in Values,
               NEW s \in ScopeKeys, NEW b \in BOOLEAN, BeginUpsert(w, n, v, s, b)
        PROVE  Effect
    BY <1>1, BeginEffect
  <1>2. ASSUME NEW w \in Writers,
               \/ WriteUnchanged(w) \/ WriteNew(w) \/ WriteSuperseding(w)
               \/ WriteKnownConflict(w) \/ WriteNewConflict(w) \/ WriteFails(w)
        PROVE  Effect
    BY <1>2, WriteEffect
  <1>3. ASSUME NEW w \in Writers, NEW a \in AliasNames, NEW t \in Names,
               MergeAlias(w, a, t) \/ MergeAliasFails(w, a, t)
        PROVE  Effect
    BY <1>3, MergeEffect
  <1>4. ASSUME NEW c \in DOMAIN conflicts, NEW d \in Decisions,
               ResolveKeeping(c, d) \/ \E v \in Values : ResolvePromoting(c, d, v)
        PROVE  Effect
    <2>1. ASSUME NEW v \in Values, ResolvePromoting(c, d, v)
          PROVE  Effect
      BY <2>1, ResolveEffect
    <2>2. CASE ResolveKeeping(c, d)
      <3>1. conflicts[c] \in ConflictRow
        BY ElementOfSeq, LenProperties DEF TypeOK
      <3>2. conflicts[c].candidate \in Values
        BY <3>1 DEF ConflictRow
      <3> QED
        BY <2>2, <3>2, ResolveEffect
    <2> QED
      BY <1>4, <2>1, <2>2
  <1>5. CASE UNCHANGED vars
    BY <1>5, SameTables DEF vars, Effect
  <1> QED
    BY <1>1, <1>2, <1>3, <1>4, <1>5 DEF Next

(***************************************************************************)
(* The tables stay well formed: every row has its columns, every conflict  *)
(* and link refers to existing states, a pending upsert to a state it read.*)
(***************************************************************************)
THEOREM TypeCorrect == Spec => []TypeOK
  <1>1. Init => TypeOK
    BY EmptySeq, DOMAIN <<>> = {} DEF Init, TypeOK, Idle
  <1>2. TypeOK /\ [Next]_vars => TypeOK'
    <2> SUFFICES ASSUME TypeOK, [Next]_vars
                 PROVE  TypeOK'
      OBVIOUS
    <2>1. Effect
      BY StepEffect
    <2>2. entities' \subseteq Names /\ aliases' \subseteq Names \X Names
      BY <2>1 DEF Effect, NamesStep
    <2>3. states' \in Seq(StateRow) /\ DOMAIN states \subseteq DOMAIN states'
      BY <2>1 DEF Effect, Grows
    <2>4. conflicts' \in Seq(ConflictRow)
      BY <2>1 DEF Effect, KeepsConflicts
    <2>5. \A c \in DOMAIN conflicts' : conflicts'[c].on \in DOMAIN states'
      BY <2>1, <2>3 DEF Effect, KeepsConflicts, NewConflictsStep, TypeOK
    <2>6. supersessions' \subseteq (DOMAIN states') \X (DOMAIN states')
      BY <2>1, <2>3 DEF Effect, LinksStep, TypeOK
    <2>7. resolutions' \in Seq(Resolution)
      BY <2>1 DEF Effect, LedgerStep, TypeOK
    <2>8. /\ upsert' \in [Writers -> Request \cup {Idle}]
          /\ \A w \in Writers :
               upsert'[w].active => upsert'[w].current \in (DOMAIN states') \cup {NoState}
      BY <2>1, <2>3 DEF Effect, UpsertStep
    <2> QED
      BY <2>2, <2>3, <2>4, <2>5, <2>6, <2>7, <2>8 DEF TypeOK
  <1> QED
    BY <1>1, <1>2, PTL DEF Spec

(***************************************************************************)
(* A superseded state is history and its links run forward, whatever the   *)
(* interleaving of writers, merges and resolutions.                        *)
(***************************************************************************)
THEOREM SupersededStaysHistory == Spec => []SupersededIsHistory
  <1>1. Init => SupersededIsHistory
    BY DEF Init, SupersededIsHistory
  <1>2. TypeOK /\ SupersededIsHistory /\ [Next]_vars => SupersededIsHistory'
    <2> SUFFICES ASSUME TypeOK, SupersededIsHistory, [Next]_vars
                 PROVE  SupersededIsHistory'
      OBVIOUS
    <2>1. Grows(states, states') /\ LinksStep
      BY StepEffect DEF Effect
    <2>2. ASSUME NEW p \in supersessions
          PROVE  ~states'[p[1]].current /\ p[1] < p[2]
      BY <2>1 DEF Grows, SupersededIsHistory, TypeOK
    <2> QED
      BY <2>1, <2>2 DEF LinksStep, SupersededIsHistory
  <1> QED
    BY <1>1, <1>2, TypeCorrect, PTL DEF Spec

(***************************************************************************)
(* The resolution ledger explains the status of every conflict.            *)
(***************************************************************************)
THEOREM LedgerIsExact == Spec => []LedgerExplainsStatus
  <1>1. Init => LedgerExplainsStatus
    BY DOMAIN <<>> = {} DEF Init, LedgerExplainsStatus
  <1>2. TypeOK /\ LedgerExplainsStatus /\ [Next]_vars => LedgerExplainsStatus'
    <2> SUFFICES ASSUME TypeOK, LedgerExplainsStatus, [Next]_vars
                 PROVE  LedgerExplainsStatus'
      OBVIOUS
    <2>1. KeepsConflicts(conflicts, conflicts') /\ LedgerStep
      BY StepEffect DEF Effect
    <2>2. CASE /\ resolutions' = resolutions
               /\ \A c \in DOMAIN conflicts : conflicts'[c].status = conflicts[c].status
      BY <2>1, <2>2 DEF KeepsConflicts, LedgerExplainsStatus, Open
    <2>3. ASSUME NEW c \in DOMAIN conflicts, NEW d \in Decisions, NEW i \in Nat,
                 /\ DOMAIN conflicts' = DOMAIN conflicts
                 /\ conflicts[c].status = "open"
                 /\ conflicts'[c].status = ClosedStatus[d]
                 /\ \A b \in (DOMAIN conflicts) \ {c} : conflicts'[b] = conflicts[b]
                 /\ DOMAIN resolutions' = (DOMAIN resolutions) \cup {Len(resolutions) + 1}
                 /\ Len(resolutions) + 1 \notin DOMAIN resolutions
                 /\ \A k \in DOMAIN resolutions : resolutions'[k] = resolutions[k]
                 /\ resolutions'[Len(resolutions) + 1] =
                      [conflict |-> c, decision |-> d, state |-> i]
          PROVE  LedgerExplainsStatus'
      <3> DEFINE m == Len(resolutions) + 1
      <3>1. \A k \in DOMAIN resolutions : resolutions[k].conflict # c
        <4> SUFFICES ASSUME NEW k \in DOMAIN resolutions, resolutions[k].conflict = c
                     PROVE  FALSE
          OBVIOUS
        <4>1. resolutions[k] \in Resolution
          BY ElementOfSeq, LenProperties DEF TypeOK
        <4>2. resolutions[k].decision \in Decisions
          BY <4>1 DEF Resolution
        <4>3. ClosedStatus[resolutions[k].decision] # "open"
          BY <4>2 DEF ClosedStatus, Decisions
        <4> QED
          BY <2>3, <4>3 DEF LedgerExplainsStatus
      <3>2. resolutions'[m].conflict = c /\ resolutions'[m].decision = d
        BY <2>3
      <3> HIDE DEF m
      <3>3. m \in DOMAIN resolutions' /\ m \notin DOMAIN resolutions
            /\ DOMAIN resolutions' = (DOMAIN resolutions) \cup {m}
        BY <2>3 DEF m
      <3>4. ASSUME NEW b \in DOMAIN conflicts'
            PROVE  conflicts'[b].status = "open"
                   \/ \E k \in DOMAIN resolutions' : resolutions'[k].conflict = b
        BY <2>3, <3>2, <3>3 DEF LedgerExplainsStatus, Open
      <3>5. ASSUME NEW k \in DOMAIN resolutions'
            PROVE  /\ resolutions'[k].conflict \in DOMAIN conflicts'
                   /\ conflicts'[resolutions'[k].conflict].status
                        = ClosedStatus[resolutions'[k].decision]
                   /\ \A l \in DOMAIN resolutions' :
                        resolutions'[l].conflict = resolutions'[k].conflict => l = k
        BY <2>3, <3>1, <3>2, <3>3 DEF LedgerExplainsStatus
      <3> QED
        BY <3>4, <3>5 DEF LedgerExplainsStatus, Open
    <2> QED
      BY <2>1, <2>2, <2>3 DEF LedgerStep
  <1> QED
    BY <1>1, <1>2, TypeCorrect, PTL DEF Spec

(***************************************************************************)
(* History is final: no step rewrites a state, revives a prior one or      *)
(* removes a link or a resolution.                                         *)
(***************************************************************************)
THEOREM HistoryStaysFinal == Spec => HistoryIsFinal
  <1> DEFINE Step ==
        /\ \A i \in DOMAIN states :
             /\ i \in DOMAIN states'
             /\ states'[i].value = states[i].value /\ states'[i].scope = states[i].scope
             /\ states'[i].current => states[i].current
        /\ supersessions \subseteq supersessions'
        /\ \A k \in DOMAIN resolutions :
             k \in DOMAIN resolutions' /\ resolutions'[k] = resolutions[k]
  <1>1. TypeOK /\ [Next]_vars => Step
    <2> SUFFICES ASSUME TypeOK, [Next]_vars
                 PROVE  Step
      OBVIOUS
    <2>1. Grows(states, states') /\ LinksStep /\ LedgerStep
      BY StepEffect DEF Effect
    <2>2. \A k \in DOMAIN resolutions :
            k \in DOMAIN resolutions' /\ resolutions'[k] = resolutions[k]
      BY <2>1 DEF LedgerStep
    <2> QED
      BY <2>1, <2>2 DEF Grows, LinksStep
  <1> QED
    BY <1>1, TypeCorrect, PTL DEF Spec, HistoryIsFinal

(***************************************************************************)
(* Two open conflicts never pit the same two values of an entity, for any  *)
(* number of writers: a conflict is recorded only when neither it nor its  *)
(* inverse is on file, and a merge leaves the target marked by an alias.   *)
(***************************************************************************)
\* What a conflict is about does not change, and a closed one stays closed.
SameDispute(c) ==
  /\ conflicts'[c].owner = conflicts[c].owner
  /\ conflicts'[c].on = conflicts[c].on
  /\ conflicts'[c].candidate = conflicts[c].candidate
  /\ conflicts'[c].status = "open" => conflicts[c].status = "open"

\* A step that records no conflict and moves none keeps the disputes apart.
LEMMA DisputesKept ==
  ASSUME TypeOK, NoDuplicateConflict, Grows(states, states'), aliases' = aliases,
         DOMAIN conflicts' = DOMAIN conflicts,
         \A c \in DOMAIN conflicts : SameDispute(c)
  PROVE  NoDuplicateConflict'
  <1>1. ASSUME NEW c \in DOMAIN conflicts', NEW d \in DOMAIN conflicts', c # d,
               conflicts'[c].status = "open", conflicts'[d].status = "open",
               conflicts'[c].owner = conflicts'[d].owner,
               AliasOf(conflicts'[c].owner, aliases') = {}
        PROVE  /\ <<conflicts'[c].on, conflicts'[c].candidate>>
                    # <<conflicts'[d].on, conflicts'[d].candidate>>
               /\ ~ /\ Folded[conflicts'[c].candidate] = Folded[states'[conflicts'[d].on].value]
                    /\ Folded[conflicts'[d].candidate] = Folded[states'[conflicts'[c].on].value]
    <2>1. SameDispute(c) /\ SameDispute(d) /\ c \in DOMAIN conflicts /\ d \in DOMAIN conflicts
      BY <1>1
    <2>2. /\ <<conflicts[c].on, conflicts[c].candidate>>
               # <<conflicts[d].on, conflicts[d].candidate>>
          /\ ~ /\ Folded[conflicts[c].candidate] = Folded[states[conflicts[d].on].value]
               /\ Folded[conflicts[d].candidate] = Folded[states[conflicts[c].on].value]
      BY <1>1, <2>1 DEF NoDuplicateConflict, Open, SameDispute
    <2>3. /\ states'[conflicts[c].on].value = states[conflicts[c].on].value
          /\ states'[conflicts[d].on].value = states[conflicts[d].on].value
      BY <2>1 DEF TypeOK, Grows
    <2> QED
      BY <2>1, <2>2, <2>3 DEF SameDispute
  <1> QED
    BY <1>1 DEF NoDuplicateConflict, Open

LEMMA NewDispute ==
  ASSUME TypeOK, NoDuplicateConflict, NEW w \in Writers, WriteNewConflict(w)
  PROVE  NoDuplicateConflict'
  <1> DEFINE r == upsert[w]
             m == Len(conflicts) + 1
             row == [owner |-> r.owner, on |-> r.current, candidate |-> r.value,
                     scope |-> r.scope, status |-> "open"]
  <1>1. r \in Request /\ r.current \in DOMAIN states /\ r.current \in Nat
    BY Pending, LenProperties DEF WriteNewConflict, Request
  <1>2. row \in ConflictRow
    BY <1>1 DEF ConflictRow, ConflictStatuses, Request
  <1>3. row.owner = r.owner /\ row.on = r.current /\ row.candidate = r.value
    OBVIOUS
  <1>4. conflicts' = Append(conflicts, row) /\ states' = states /\ aliases' = aliases
    BY DEF WriteNewConflict
  <1> HIDE DEF row
  <1>5. /\ DOMAIN conflicts' = (DOMAIN conflicts) \cup {m}
        /\ \A c \in DOMAIN conflicts : conflicts'[c] = conflicts[c]
        /\ conflicts'[m] = row
        /\ m \notin DOMAIN conflicts
    BY <1>2, <1>4, AppendRow DEF TypeOK
  <1> HIDE DEF m
  <1>6. \A c \in DOMAIN conflicts :
          (conflicts[c].status = "open" /\ conflicts[c].owner = r.owner) =>
             /\ <<conflicts[c].on, conflicts[c].candidate>> # <<r.current, r.value>>
             /\ ~ /\ Folded[r.value] = Folded[states[conflicts[c].on].value]
                  /\ Folded[conflicts[c].candidate] = Folded[states[r.current].value]
    BY DEF WriteNewConflict, SameConflicts, InverseConflicts, Open
  <1> HIDE DEF r
  <1>7. ASSUME NEW c \in DOMAIN conflicts', NEW d \in DOMAIN conflicts', c # d,
               conflicts'[c].status = "open", conflicts'[d].status = "open",
               conflicts'[c].owner = conflicts'[d].owner,
               AliasOf(conflicts'[c].owner, aliases') = {}
        PROVE  /\ <<conflicts'[c].on, conflicts'[c].candidate>>
                    # <<conflicts'[d].on, conflicts'[d].candidate>>
               /\ ~ /\ Folded[conflicts'[c].candidate] = Folded[states'[conflicts'[d].on].value]
                    /\ Folded[conflicts'[d].candidate] = Folded[states'[conflicts'[c].on].value]
    <2>1. CASE c \in DOMAIN conflicts /\ d \in DOMAIN conflicts
      BY <1>4, <1>5, <1>7, <2>1 DEF NoDuplicateConflict, Open
    <2>2. CASE c = m /\ d \in DOMAIN conflicts
      BY <1>3, <1>4, <1>5, <1>6, <1>7, <2>2
    <2>3. CASE d = m /\ c \in DOMAIN conflicts
      BY <1>3, <1>4, <1>5, <1>6, <1>7, <2>3
    <2> QED
      BY <1>5, <1>7, <2>1, <2>2, <2>3
  <1> QED
    BY <1>7 DEF NoDuplicateConflict, Open

LEMMA MergedDisputes ==
  ASSUME TypeOK, NoDuplicateConflict, NEW a \in Names, NEW e \in Names, MoveRows(a, e)
  PROVE  NoDuplicateConflict'
  <1>1. /\ DOMAIN conflicts' = DOMAIN conflicts
        /\ \A c \in DOMAIN conflicts :
             /\ conflicts'[c].on = conflicts[c].on
             /\ conflicts'[c].status = conflicts[c].status
             /\ conflicts'[c].candidate = conflicts[c].candidate
             /\ conflicts'[c].owner = MovedOwner(conflicts[c].owner, a, e)
    BY MovedConflicts DEF MoveRows, TypeOK
  <1>2. \A i \in DOMAIN states : states'[i].value = states[i].value
    BY MovedStates DEF MoveRows, TypeOK, Grows
  <1>3. aliases' = aliases \cup {<<a, e>>}
    BY DEF MoveRows
  <1>4. a \in AliasOf(e, aliases')
    BY <1>3 DEF AliasOf
  <1>5. ASSUME NEW c \in DOMAIN conflicts, AliasOf(conflicts'[c].owner, aliases') = {}
        PROVE  /\ conflicts'[c].owner = conflicts[c].owner
               /\ AliasOf(conflicts[c].owner, aliases) = {}
    <2>1. conflicts'[c].owner = conflicts[c].owner
      BY <1>1, <1>4, <1>5 DEF MovedOwner
    <2> QED
      BY <1>3, <1>5, <2>1 DEF AliasOf
  <1>6. ASSUME NEW c \in DOMAIN conflicts', NEW d \in DOMAIN conflicts', c # d,
               conflicts'[c].status = "open", conflicts'[d].status = "open",
               conflicts'[c].owner = conflicts'[d].owner,
               AliasOf(conflicts'[c].owner, aliases') = {}
        PROVE  /\ <<conflicts'[c].on, conflicts'[c].candidate>>
                    # <<conflicts'[d].on, conflicts'[d].candidate>>
               /\ ~ /\ Folded[conflicts'[c].candidate] = Folded[states'[conflicts'[d].on].value]
                    /\ Folded[conflicts'[d].candidate] = Folded[states'[conflicts'[c].on].value]
    <2>1. /\ conflicts[c].owner = conflicts[d].owner
          /\ AliasOf(conflicts[c].owner, aliases) = {}
      BY <1>1, <1>5, <1>6
    <2>2. /\ <<conflicts[c].on, conflicts[c].candidate>>
               # <<conflicts[d].on, conflicts[d].candidate>>
          /\ ~ /\ Folded[conflicts[c].candidate] = Folded[states[conflicts[d].on].value]
               /\ Folded[conflicts[d].candidate] = Folded[states[conflicts[c].on].value]
      BY <1>1, <1>6, <2>1 DEF NoDuplicateConflict, Open
    <2> QED
      BY <1>1, <1>2, <2>2 DEF TypeOK
  <1> QED
    BY <1>6 DEF NoDuplicateConflict, Open

\* No two open conflicts of an entity that nothing was merged into are over
\* one state with the same candidate to the letter, nor pit the same two
\* values, however spelled, the other way round, with any number of writers.
THEOREM DisputesStayDistinct == Spec => []NoDuplicateConflict
  <1>1. Init => NoDuplicateConflict
    BY DOMAIN <<>> = {} DEF Init, NoDuplicateConflict
  <1>2. TypeOK /\ NoDuplicateConflict /\ [Next]_vars => NoDuplicateConflict'
    <2> SUFFICES ASSUME TypeOK, NoDuplicateConflict, [Next]_vars
                 PROVE  NoDuplicateConflict'
      OBVIOUS
    <2>1. Grows(states, states')
      BY StepEffect DEF Effect
    <2>2. CASE conflicts' = conflicts /\ aliases' = aliases
      BY <2>1, <2>2, DisputesKept DEF SameDispute
    <2>3. ASSUME NEW w \in Writers, WriteKnownConflict(w)
          PROVE  NoDuplicateConflict'
      <3> DEFINE r == upsert[w]
      <3>1. PICK c \in SameConflicts(r) \cup InverseConflicts(r) :
              conflicts' = [conflicts EXCEPT ![c].scope = MergedScope(@, r.scope)]
        BY <2>3 DEF WriteKnownConflict
      <3> DEFINE row == [conflicts[c] EXCEPT !.scope = MergedScope(conflicts[c].scope, r.scope)]
      <3>2. c \in DOMAIN conflicts /\ conflicts[c] \in ConflictRow /\ r \in Request
        BY <2>3, Pending, LenProperties, ElementOfSeq DEF TypeOK, WriteKnownConflict
      <3>3. /\ row \in ConflictRow /\ row.owner = conflicts[c].owner
            /\ row.on = conflicts[c].on /\ row.candidate = conflicts[c].candidate
            /\ row.status = conflicts[c].status
        BY <3>2 DEF ConflictRow, MergedScope, Request
      <3>4. conflicts' = [conflicts EXCEPT ![c] = row]
        BY <3>1
      <3> HIDE DEF row
      <3>5. /\ DOMAIN conflicts' = DOMAIN conflicts
            /\ \A d \in DOMAIN conflicts : SameDispute(d)
        BY <3>2, <3>3, <3>4, ChangedConflict DEF SameDispute, TypeOK
      <3> QED
        BY <2>1, <2>3, <3>5, DisputesKept DEF WriteKnownConflict
    <2>4. ASSUME NEW w \in Writers, WriteNewConflict(w)
          PROVE  NoDuplicateConflict'
      BY <2>4, NewDispute
    <2>5. ASSUME NEW w \in Writers, NEW a \in AliasNames, NEW t \in Names,
                 MergeAlias(w, a, t) \/ MergeAliasFails(w, a, t)
          PROVE  NoDuplicateConflict'
      <3>1. PICK e \in Resolved(t) : MoveRows(a, e)
        BY <2>5 DEF MergeAlias, MergeAliasFails
      <3>2. e \in Names /\ a \in Names
        BY DataAssumption DEF Resolved, AliasTargets, TypeOK
      <3> QED
        BY <3>1, <3>2, MergedDisputes
    <2>6. ASSUME NEW c \in DOMAIN conflicts, NEW d \in Decisions, NEW i \in Nat,
                 Close(c, d, i), aliases' = aliases
          PROVE  NoDuplicateConflict'
      <3> DEFINE row == [conflicts[c] EXCEPT !.status = ClosedStatus[d]]
      <3>1. conflicts[c] \in ConflictRow /\ conflicts[c].status = "open"
        BY <2>6, LenProperties, ElementOfSeq DEF TypeOK, Close, Open
      <3>2. ClosedStatus[d] \in ConflictStatuses
        BY DEF ClosedStatus, Decisions, ConflictStatuses
      <3>3. /\ row \in ConflictRow /\ row.owner = conflicts[c].owner
            /\ row.on = conflicts[c].on /\ row.candidate = conflicts[c].candidate
        BY <3>1, <3>2 DEF ConflictRow
      <3>4. conflicts' = [conflicts EXCEPT ![c] = row]
        BY <2>6 DEF Close
      <3> HIDE DEF row
      <3>5. /\ DOMAIN conflicts' = DOMAIN conflicts
            /\ \A b \in DOMAIN conflicts : SameDispute(b)
        BY <3>1, <3>3, <3>4, ChangedConflict DEF SameDispute, TypeOK
      <3> QED
        BY <2>1, <2>6, <3>5, DisputesKept
    <2>7. ASSUME NEW c \in DOMAIN conflicts, NEW d \in Decisions,
                 ResolveKeeping(c, d) \/ \E v \in Values : ResolvePromoting(c, d, v)
          PROVE  NoDuplicateConflict'
      <3>1. Len(states) + 1 \in Nat /\ NoState \in Nat
        BY LenProperties DEF NoState, TypeOK
      <3> QED
        BY <2>6, <2>7, <3>1 DEF ResolveKeeping, ResolvePromoting
    <2>8. CASE UNCHANGED vars
      BY <2>2, <2>8 DEF vars
    <2>9. ASSUME NEW w \in Writers,
                 \/ \E n \in Names, v \in Values, s \in ScopeKeys, b \in BOOLEAN :
                      BeginUpsert(w, n, v, s, b)
                 \/ WriteUnchanged(w) \/ WriteNew(w) \/ WriteSuperseding(w)
                 \/ WriteFails(w)
          PROVE  NoDuplicateConflict'
      BY <2>2, <2>9 DEF BeginUpsert, WriteUnchanged, WriteNew, WriteSuperseding, WriteFails
    <2> QED
      BY <2>3, <2>4, <2>5, <2>7, <2>8, <2>9 DEF Next
  <1> QED
    BY <1>1, <1>2, TypeCorrect, PTL DEF Spec

(***************************************************************************)
(* One writer at a time: the upserts of one thread, with the operator and  *)
(* the merges of that thread in between, lose no truth.                    *)
(***************************************************************************)
OneWriter == \A v, w \in Writers : v = w

\* What a pending upsert has read is still so when it writes.
UpsertIsFresh ==
  \A w \in Writers : upsert[w].active =>
    /\ EntityThere(w)
    /\ upsert[w].current \in DOMAIN states =>
         states[upsert[w].current].owner = upsert[w].owner

\* What a step does to the states and links when upserts are fresh: a row is
\* inserted, replaces one of the same entity, or all rows follow a merge.
TruthStep ==
  \/ states' = states /\ supersessions' = supersessions
  \/ \E new \in StateRow : /\ new.current
                           /\ states' = Append(states, new)
                           /\ supersessions' = supersessions
  \/ \E i \in DOMAIN states, new \in StateRow :
       /\ new.current
       /\ new.owner = states[i].owner
       /\ Supersede(i, new)
  \/ \E a, e \in Names : /\ states' = Moved(states, a, e)
                         /\ supersessions' = supersessions

\* And to the owners: they stay, a new conflict being of its state's owner,
\* or those of states and conflicts move together.
OwnersStep ==
  \/ /\ \A i \in DOMAIN states : states'[i].owner = states[i].owner
     /\ \A c \in DOMAIN conflicts : conflicts'[c].owner = conflicts[c].owner
     /\ \A c \in (DOMAIN conflicts') \ DOMAIN conflicts :
          conflicts'[c].owner = states[conflicts'[c].on].owner
  \/ \E a, e \in Names : states' = Moved(states, a, e) /\ conflicts' = Moved(conflicts, a, e)

SequentialInv ==
  UpsertIsFresh /\ HistoryIsLinked /\ TruthSurvives /\ ConflictFollowsEntity

SequentialEffect == TruthStep /\ OwnersStep /\ UpsertIsFresh'

\* With its one writer idle, no upsert is pending.
LEMMA IdleIsFresh ==
  ASSUME OneWriter, NEW w \in Writers, upsert'[w] = Idle
  PROVE  UpsertIsFresh'
  BY DEF OneWriter, UpsertIsFresh, Idle

LEMMA SequentialBegin ==
  ASSUME OneWriter, TypeOK, NEW w \in Writers, NEW n \in Names, NEW v \in Values,
         NEW s \in ScopeKeys, NEW b \in BOOLEAN, BeginUpsert(w, n, v, s, b)
  PROVE  SequentialEffect
  <1>1. PICK e \in Resolved(n) :
          /\ entities' = entities \cup {e}
          /\ \E i \in IF CurrentFor(e, s) = {} THEN {NoState} ELSE CurrentFor(e, s) :
               upsert' = [upsert EXCEPT ![w] =
                            [active |-> TRUE, owner |-> e, value |-> v, scope |-> s,
                             supersede |-> b, current |-> i]]
    BY DEF BeginUpsert
  <1>2. PICK i \in IF CurrentFor(e, s) = {} THEN {NoState} ELSE CurrentFor(e, s) :
          upsert' = [upsert EXCEPT ![w] =
                       [active |-> TRUE, owner |-> e, value |-> v, scope |-> s,
                        supersede |-> b, current |-> i]]
    BY <1>1
  <1>3. upsert'[w].owner = e /\ upsert'[w].current = i
    BY <1>2 DEF TypeOK
  <1>4. states' = states /\ conflicts' = conflicts /\ supersessions' = supersessions
    BY DEF BeginUpsert
  <1>5. i \in DOMAIN states => states[i].owner = e
    <2>1. NoState \notin DOMAIN states
      BY LenProperties DEF TypeOK, NoState
    <2> QED
      BY <2>1 DEF CurrentFor, CurrentOf
  <1>6. UpsertIsFresh'
    BY <1>1, <1>3, <1>4, <1>5 DEF OneWriter, UpsertIsFresh, EntityThere
  <1> QED
    BY <1>4, <1>6 DEF SequentialEffect, TruthStep, OwnersStep

LEMMA SequentialWrite ==
  ASSUME OneWriter, TypeOK, SequentialInv, NEW w \in Writers,
         \/ WriteUnchanged(w) \/ WriteNew(w) \/ WriteSuperseding(w)
         \/ WriteKnownConflict(w) \/ WriteNewConflict(w) \/ WriteFails(w)
  PROVE  SequentialEffect
  <1> DEFINE r == upsert[w]
             new == NewState(r.owner, r.value, r.scope)
  <1>1. r.active /\ Done(w)
    BY DEF WriteUnchanged, WriteNew, WriteSuperseding, WriteKnownConflict,
           WriteNewConflict, WriteFails
  <1>2. r \in Request /\ r.owner \in Names /\ r.value \in Values /\ r.scope \in ScopeKeys
    BY <1>1, Pending DEF Request
  <1>3. /\ new \in StateRow /\ new.current /\ new.owner = r.owner
    BY <1>2, NewStateRow DEF NewState
  <1>4. UpsertIsFresh'
    BY <1>1, IdleIsFresh DEF Done, TypeOK
  <1>5. /\ EntityThere(w)
        /\ r.current \in DOMAIN states => states[r.current].owner = r.owner
    BY <1>1 DEF SequentialInv, UpsertIsFresh
  <1>6. CASE WriteUnchanged(w)
    BY <1>4, <1>6 DEF WriteUnchanged, SequentialEffect, TruthStep, OwnersStep
  <1>7. CASE WriteNew(w)
    <2>1. /\ states' = Append(states, new)
          /\ supersessions' = supersessions
          /\ conflicts' = conflicts
      BY <1>7 DEF WriteNew
    <2> HIDE DEF new
    <2>2. \A i \in DOMAIN states : states'[i] = states[i]
      BY <1>3, <2>1, AppendRow DEF TypeOK
    <2> QED
      BY <1>3, <1>4, <2>1, <2>2 DEF SequentialEffect, TruthStep, OwnersStep
  <1>8. CASE WriteSuperseding(w)
    <2>1. r.current \in DOMAIN states
      BY <1>1, <1>8, Pending DEF WriteSuperseding
    <2>2. Supersede(r.current, new) /\ conflicts' = conflicts
      BY <1>8 DEF WriteSuperseding
    <2> HIDE DEF new
    <2>3. \A i \in DOMAIN states : states'[i].owner = states[i].owner
      BY <1>3, <2>1, <2>2, SupersedeRow DEF TypeOK
    <2> QED
      BY <1>3, <1>4, <1>5, <2>1, <2>2, <2>3 DEF SequentialEffect, TruthStep, OwnersStep
  <1>9. CASE WriteKnownConflict(w)
    <2>1. PICK c \in SameConflicts(r) \cup InverseConflicts(r) :
            conflicts' = [conflicts EXCEPT ![c].scope = MergedScope(@, r.scope)]
      BY <1>9 DEF WriteKnownConflict
    <2> DEFINE row == [conflicts[c] EXCEPT !.scope = MergedScope(conflicts[c].scope, r.scope)]
    <2>2. c \in DOMAIN conflicts /\ conflicts[c] \in ConflictRow
      BY <1>1, Pending, LenProperties, ElementOfSeq DEF TypeOK
    <2>3. row \in ConflictRow /\ row.owner = conflicts[c].owner
      BY <1>2, <2>2 DEF ConflictRow, MergedScope
    <2>4. conflicts' = [conflicts EXCEPT ![c] = row]
      BY <2>1
    <2> HIDE DEF row
    <2>5. /\ DOMAIN conflicts' = DOMAIN conflicts
          /\ \A d \in DOMAIN conflicts : conflicts'[d].owner = conflicts[d].owner
      BY <2>2, <2>3, <2>4, ChangedConflict DEF TypeOK
    <2> QED
      BY <1>4, <1>9, <2>5
      DEF WriteKnownConflict, SequentialEffect, TruthStep, OwnersStep
  <1>10. CASE WriteNewConflict(w)
    <2> DEFINE row == [owner |-> r.owner, on |-> r.current, candidate |-> r.value,
                       scope |-> r.scope, status |-> "open"]
    <2>1. r.current \in DOMAIN states /\ r.current \in Nat
      BY <1>1, <1>10, Pending, LenProperties DEF WriteNewConflict, Request
    <2>2. row \in ConflictRow /\ row.owner = states[row.on].owner
      BY <1>2, <1>5, <2>1 DEF ConflictRow, ConflictStatuses
    <2>3. conflicts' = Append(conflicts, row)
      BY <1>10 DEF WriteNewConflict
    <2> HIDE DEF row
    <2>4. /\ \A c \in DOMAIN conflicts : conflicts'[c] = conflicts[c]
          /\ \A c \in (DOMAIN conflicts') \ DOMAIN conflicts : conflicts'[c] = row
      BY <2>2, <2>3, AppendRow DEF TypeOK
    <2> QED
      BY <1>4, <1>10, <2>2, <2>4
      DEF WriteNewConflict, SequentialEffect, TruthStep, OwnersStep
  <1>11. CASE WriteFails(w)
    BY <1>5, <1>11 DEF WriteFails
  <1> QED
    BY <1>6, <1>7, <1>8, <1>9, <1>10, <1>11

LEMMA SequentialMerge ==
  ASSUME OneWriter, TypeOK, NEW w \in Writers, NEW a \in AliasNames, NEW t \in Names,
         MergeAlias(w, a, t) \/ MergeAliasFails(w, a, t)
  PROVE  SequentialEffect
  <1>1. PICK e \in Resolved(t) : MoveRows(a, e)
    BY DEF MergeAlias, MergeAliasFails
  <1>2. e \in Names /\ a \in Names
    BY DataAssumption DEF Resolved, AliasTargets, TypeOK
  <1>3. UpsertIsFresh'
    <2>1. upsert[w] = Idle /\ upsert' = upsert
      BY <1>1 DEF MergeAlias, MergeAliasFails, MoveRows
    <2> QED
      BY <2>1, IdleIsFresh DEF TypeOK
  <1> QED
    BY <1>1, <1>2, <1>3 DEF MoveRows, SequentialEffect, TruthStep, OwnersStep

LEMMA SequentialResolve ==
  ASSUME TypeOK, SequentialInv, NEW c \in DOMAIN conflicts, NEW d \in Decisions,
         NEW v \in Values, ResolveKeeping(c, d) \/ ResolvePromoting(c, d, v)
  PROVE  SequentialEffect
  <1>1. PICK i \in Nat : Close(c, d, i)
    <2>1. Len(states) + 1 \in Nat /\ NoState \in Nat
      BY LenProperties DEF NoState, TypeOK
    <2> QED
      BY <2>1 DEF ResolveKeeping, ResolvePromoting
  <1>2. /\ DOMAIN conflicts' = DOMAIN conflicts
        /\ \A b \in DOMAIN conflicts : conflicts'[b].owner = conflicts[b].owner
    BY <1>1, CloseRow DEF TypeOK
  <1>3. upsert' = upsert /\ entities' = entities
    BY DEF ResolveKeeping, ResolvePromoting
  <1>4. CASE ResolveKeeping(c, d)
    <2>1. states' = states /\ supersessions' = supersessions
      BY <1>4 DEF ResolveKeeping
    <2>2. UpsertIsFresh'
      BY <1>3, <2>1 DEF SequentialInv, UpsertIsFresh, EntityThere
    <2> QED
      BY <1>2, <2>1, <2>2 DEF SequentialEffect, TruthStep, OwnersStep
  <1>5. CASE ResolvePromoting(c, d, v)
    <2> DEFINE new == NewState(conflicts[c].owner, v, NoScope)
               i0 == conflicts[c].on
    <2>1. conflicts[c] \in ConflictRow /\ i0 \in DOMAIN states
      BY LenProperties, ElementOfSeq DEF TypeOK
    <2>2. new \in StateRow /\ new.current /\ new.owner = states[i0].owner
      BY <2>1, NewStateRow DEF ConflictRow, ScopeKeys, NewState,
         SequentialInv, ConflictFollowsEntity
    <2>3. Supersede(i0, new)
      BY <1>5 DEF ResolvePromoting
    <2> HIDE DEF new, i0
    <2>4. /\ DOMAIN states' = (DOMAIN states) \cup {Len(states) + 1}
          /\ \A j \in DOMAIN states : states'[j].owner = states[j].owner
      BY <2>1, <2>2, <2>3, SupersedeRow DEF TypeOK
    <2>5. ASSUME NEW w \in Writers, upsert[w].active, upsert[w].current \in DOMAIN states'
          PROVE  upsert[w].current \in DOMAIN states
      <3>1. Len(states) + 1 # NoState
        BY LenProperties DEF TypeOK, NoState
      <3>2. upsert[w].current \in (DOMAIN states) \cup {NoState}
        BY <2>5 DEF TypeOK
      <3> QED
        BY <2>4, <2>5, <3>1, <3>2
    <2>6. UpsertIsFresh'
      BY <1>3, <2>4, <2>5 DEF SequentialInv, UpsertIsFresh, EntityThere
    <2> QED
      BY <1>2, <2>1, <2>2, <2>3, <2>4, <2>6 DEF SequentialEffect, TruthStep, OwnersStep
  <1> QED
    BY <1>4, <1>5

LEMMA SequentialStep ==
  ASSUME OneWriter, TypeOK, SequentialInv, [Next]_vars
  PROVE  SequentialEffect
  <1>1. ASSUME NEW w \in Writers, NEW n \in Names, NEW v \in Values,
               NEW s \in ScopeKeys, NEW b \in BOOLEAN, BeginUpsert(w, n, v, s, b)
        PROVE  SequentialEffect
    BY <1>1, SequentialBegin
  <1>2. ASSUME NEW w \in Writers,
               \/ WriteUnchanged(w) \/ WriteNew(w) \/ WriteSuperseding(w)
               \/ WriteKnownConflict(w) \/ WriteNewConflict(w) \/ WriteFails(w)
        PROVE  SequentialEffect
    BY <1>2, SequentialWrite
  <1>3. ASSUME NEW w \in Writers, NEW a \in AliasNames, NEW t \in Names,
               MergeAlias(w, a, t) \/ MergeAliasFails(w, a, t)
        PROVE  SequentialEffect
    BY <1>3, SequentialMerge
  <1>4. ASSUME NEW c \in DOMAIN conflicts, NEW d \in Decisions,
               ResolveKeeping(c, d) \/ \E v \in Values : ResolvePromoting(c, d, v)
        PROVE  SequentialEffect
    <2>1. ASSUME NEW v \in Values, ResolvePromoting(c, d, v)
          PROVE  SequentialEffect
      BY <2>1, SequentialResolve
    <2>2. CASE ResolveKeeping(c, d)
      <3>1. conflicts[c] \in ConflictRow
        BY ElementOfSeq, LenProperties DEF TypeOK
      <3>2. conflicts[c].candidate \in Values
        BY <3>1 DEF ConflictRow
      <3> QED
        BY <2>2, <3>2, SequentialResolve
    <2> QED
      BY <1>4, <2>1, <2>2
  <1>5. CASE UNCHANGED vars
    BY <1>5 DEF vars, SequentialEffect, TruthStep, OwnersStep, SequentialInv,
                UpsertIsFresh, EntityThere
  <1> QED
    BY <1>1, <1>2, <1>3, <1>4, <1>5 DEF Next

LEMMA LinksFollow ==
  ASSUME TypeOK, HistoryIsLinked, TruthStep
  PROVE  HistoryIsLinked'
  <1>1. CASE states' = states /\ supersessions' = supersessions
    BY <1>1 DEF HistoryIsLinked
  <1>2. ASSUME NEW new \in StateRow, new.current, states' = Append(states, new),
               supersessions' = supersessions
        PROVE  HistoryIsLinked'
    BY <1>2, AppendRow DEF HistoryIsLinked, TypeOK
  <1>3. ASSUME NEW i \in DOMAIN states, NEW new \in StateRow, new.current, Supersede(i, new)
        PROVE  HistoryIsLinked'
    <2>1. /\ DOMAIN states' = (DOMAIN states) \cup {Len(states) + 1}
          /\ \A j \in (DOMAIN states) \ {i} : states'[j] = states[j]
          /\ states'[Len(states) + 1] = new
      BY <1>3, SupersedeRow DEF TypeOK
    <2>2. supersessions' = supersessions \cup {<<i, Len(states) + 1>>}
      BY <1>3 DEF Supersede
    <2>3. ASSUME NEW j \in DOMAIN states', ~states'[j].current
          PROVE  \E p \in supersessions' : p[1] = j
      <3>1. CASE j = i
        <4>1. <<i, Len(states) + 1>> \in supersessions' /\ <<i, Len(states) + 1>>[1] = i
          BY <2>2
        <4> QED
          BY <3>1, <4>1
      <3>2. CASE j # i
        <4>1. j \in DOMAIN states /\ ~states[j].current
          BY <1>3, <2>1, <2>3, <3>2
        <4> QED
          BY <2>2, <4>1 DEF HistoryIsLinked
      <3> QED
        BY <3>1, <3>2
    <2> QED
      BY <2>3 DEF HistoryIsLinked
  <1>4. ASSUME NEW a \in Names, NEW e \in Names, states' = Moved(states, a, e),
               supersessions' = supersessions
        PROVE  HistoryIsLinked'
    BY <1>4, MovedStates DEF HistoryIsLinked, TypeOK
  <1> QED
    BY <1>1, <1>2, <1>3, <1>4 DEF TruthStep

LEMMA TruthFollows ==
  ASSUME TypeOK, TruthSurvives, TruthStep
  PROVE  TruthSurvives'
  <1>1. CASE states' = states
    BY <1>1 DEF TruthSurvives, CurrentOf
  <1>2. ASSUME NEW new \in StateRow, new.current, states' = Append(states, new)
        PROVE  TruthSurvives'
    <2> DEFINE m == Len(states) + 1
    <2>1. /\ DOMAIN states' = (DOMAIN states) \cup {m}
          /\ \A j \in DOMAIN states : states'[j] = states[j]
          /\ states'[m] = new
      BY <1>2, AppendRow DEF TypeOK
    <2> HIDE DEF m
    <2>2. ASSUME NEW j \in DOMAIN states'
          PROVE  \E k \in DOMAIN states' :
                   states'[k].current /\ states'[k].owner = states'[j].owner
      BY <1>2, <2>1 DEF TruthSurvives, CurrentOf
    <2> QED
      BY <2>2 DEF TruthSurvives, CurrentOf
  <1>3. ASSUME NEW i \in DOMAIN states, NEW new \in StateRow, new.current,
               new.owner = states[i].owner, Supersede(i, new)
        PROVE  TruthSurvives'
    <2> DEFINE m == Len(states) + 1
    <2>1. /\ DOMAIN states' = (DOMAIN states) \cup {m}
          /\ states'[i].owner = states[i].owner
          /\ \A j \in (DOMAIN states) \ {i} : states'[j] = states[j]
          /\ states'[m] = new
      BY <1>3, SupersedeRow DEF TypeOK
    <2> HIDE DEF m
    <2>2. ASSUME NEW j \in DOMAIN states'
          PROVE  \E k \in DOMAIN states' :
                   states'[k].current /\ states'[k].owner = states'[j].owner
      <3>1. CASE states'[j].owner = new.owner
        BY <1>3, <2>1, <3>1
      <3>2. CASE states'[j].owner # new.owner
        <4>1. j \in DOMAIN states /\ j # i /\ states'[j] = states[j]
          BY <1>3, <2>1, <3>2
        <4>2. PICK k \in DOMAIN states : states[k].current /\ states[k].owner = states[j].owner
          BY <4>1 DEF TruthSurvives, CurrentOf
        <4> QED
          BY <1>3, <2>1, <3>2, <4>1, <4>2
      <3> QED
        BY <3>1, <3>2
    <2> QED
      BY <2>2 DEF TruthSurvives, CurrentOf
  <1>4. ASSUME NEW a \in Names, NEW e \in Names, states' = Moved(states, a, e)
        PROVE  TruthSurvives'
    <2>1. /\ DOMAIN states' = DOMAIN states
          /\ \A j \in DOMAIN states :
               /\ states'[j].current = states[j].current
               /\ states'[j].owner = MovedOwner(states[j].owner, a, e)
      BY <1>4, MovedStates DEF TypeOK
    <2> QED
      BY <2>1 DEF TruthSurvives, CurrentOf
  <1> QED
    BY <1>1, <1>2, <1>3, <1>4 DEF TruthStep

LEMMA ConflictsFollow ==
  ASSUME TypeOK, ConflictFollowsEntity, Effect, OwnersStep
  PROVE  ConflictFollowsEntity'
  <1>1. CASE /\ \A i \in DOMAIN states : states'[i].owner = states[i].owner
             /\ \A c \in DOMAIN conflicts : conflicts'[c].owner = conflicts[c].owner
             /\ \A c \in (DOMAIN conflicts') \ DOMAIN conflicts :
                  conflicts'[c].owner = states[conflicts'[c].on].owner
    <2>1. /\ \A c \in DOMAIN conflicts : conflicts'[c].on = conflicts[c].on
          /\ \A c \in (DOMAIN conflicts') \ DOMAIN conflicts : conflicts'[c].on \in DOMAIN states
      BY DEF Effect, KeepsConflicts, NewConflictsStep
    <2>2. ASSUME NEW c \in DOMAIN conflicts'
          PROVE  states'[conflicts'[c].on].owner = conflicts'[c].owner
      <3>1. CASE c \in DOMAIN conflicts
        <4>1. /\ conflicts[c].on \in DOMAIN states
              /\ states[conflicts[c].on].owner = conflicts[c].owner
          BY <3>1 DEF ConflictFollowsEntity, TypeOK
        <4> QED
          BY <1>1, <2>1, <3>1, <4>1
      <3>2. CASE c \notin DOMAIN conflicts
        <4>1. /\ conflicts'[c].on \in DOMAIN states
              /\ conflicts'[c].owner = states[conflicts'[c].on].owner
          BY <1>1, <2>1, <2>2, <3>2
        <4> QED
          BY <1>1, <4>1
      <3> QED
        BY <3>1, <3>2
    <2> QED
      BY <2>2 DEF ConflictFollowsEntity
  <1>2. ASSUME NEW a \in Names, NEW e \in Names, states' = Moved(states, a, e),
               conflicts' = Moved(conflicts, a, e)
        PROVE  ConflictFollowsEntity'
    BY <1>2, MovedStates, MovedConflicts DEF ConflictFollowsEntity, TypeOK
  <1> QED
    BY <1>1, <1>2 DEF OwnersStep

LEMMA SequentialTruth ==
  ASSUME OneWriter
  PROVE  Spec => []SequentialInv
  <1>1. Init => SequentialInv
    BY DOMAIN <<>> = {}
    DEF Init, SequentialInv, UpsertIsFresh, HistoryIsLinked, TruthSurvives,
        ConflictFollowsEntity, Idle
  <1>2. TypeOK /\ SequentialInv /\ [Next]_vars => SequentialInv'
    <2> SUFFICES ASSUME TypeOK, SequentialInv, [Next]_vars
                 PROVE  SequentialInv'
      OBVIOUS
    <2>1. TruthStep /\ OwnersStep /\ UpsertIsFresh' /\ Effect
      BY SequentialStep, StepEffect DEF SequentialEffect
    <2>2. HistoryIsLinked' /\ TruthSurvives' /\ ConflictFollowsEntity'
      BY <2>1, LinksFollow, TruthFollows, ConflictsFollow DEF SequentialInv
    <2> QED
      BY <2>1, <2>2 DEF SequentialInv
  <1> QED
    BY <1>1, <1>2, TypeCorrect, PTL DEF Spec

(***************************************************************************)
(* With one writer, a state leaves current truth only for a successor that *)
(* its link names: no path closes the prior row and stops there.           *)
(***************************************************************************)
THEOREM HistoryStaysLinked ==
  ASSUME OneWriter
  PROVE  Spec => []HistoryIsLinked
  BY SequentialTruth, PTL DEF SequentialInv

(***************************************************************************)
(* With one writer, an entity with any state has a current one, through    *)
(* supersessions, promotions of stale conflicts and alias merges.          *)
(***************************************************************************)
THEOREM TruthIsNotLost ==
  ASSUME OneWriter
  PROVE  Spec => []TruthSurvives
  BY SequentialTruth, PTL DEF SequentialInv

(***************************************************************************)
(* With one writer, a conflict and the state it disputes stay with one     *)
(* entity, also after merges and merges that fail half-way.                *)
(***************************************************************************)
THEOREM ConflictsStayWithEntity ==
  ASSUME OneWriter
  PROVE  Spec => []ConflictFollowsEntity
  BY SequentialTruth, PTL DEF SequentialInv
(***************************************************************************)
(* With one writer the shelf implements TruthHistory: TruthStep, seen      *)
(* without the owners.                                                     *)
(***************************************************************************)
SaidIn(table) == [i \in DOMAIN table |-> Statement(table[i])]

LEMMA SaidType ==
  ASSUME NEW table \in Seq(StateRow)
  PROVE  /\ SaidIn(table) \in Seq(Statements)
         /\ Len(SaidIn(table)) = Len(table)
         /\ \A i \in 1..Len(table) : SaidIn(table)[i] = Statement(table[i])
  <1>1. DOMAIN table = 1..Len(table) /\ Len(table) \in Nat
    BY LenProperties
  <1>2. ASSUME NEW i \in 1..Len(table)
        PROVE  Statement(table[i]) \in Statements
    <2>1. table[i] \in StateRow
      BY ElementOfSeq
    <2> QED
      BY <2>1 DEF Statement, Statements, StateRow
  <1>3. SaidIn(table) = [i \in 1..Len(table) |-> Statement(table[i])]
    BY <1>1 DEF SaidIn
  <1>4. SaidIn(table) \in [1..Len(table) -> Statements]
    BY <1>2, <1>3
  <1>5. SaidIn(table) \in Seq(Statements)
    BY <1>1, <1>4, SeqDef
  <1>6. DOMAIN SaidIn(table) = 1..Len(SaidIn(table)) /\ Len(SaidIn(table)) \in Nat
    BY <1>5, LenProperties
  <1>7. Len(SaidIn(table)) = Len(table)
    BY <1>1, <1>3, <1>6
  <1> QED
    BY <1>3, <1>5, <1>7

\* Tables of one length whose rows say the same have one history.
LEMMA SameSaid ==
  ASSUME NEW old \in Seq(StateRow), NEW new \in Seq(StateRow), DOMAIN new = DOMAIN old,
         \A i \in DOMAIN old : /\ new[i].value = old[i].value
                               /\ new[i].scope = old[i].scope
  PROVE  SaidIn(new) = SaidIn(old)
  <1>1. \A i \in DOMAIN old : Statement(new[i]) = Statement(old[i])
    BY DEF Statement
  <1> QED
    BY <1>1 DEF SaidIn

\* A row more at the end is one statement more.
LEMMA SaidGrows ==
  ASSUME NEW old \in Seq(StateRow), NEW new \in Seq(StateRow),
         DOMAIN new = (DOMAIN old) \cup {Len(old) + 1},
         \A i \in DOMAIN old : /\ new[i].value = old[i].value
                               /\ new[i].scope = old[i].scope
  PROVE  SaidIn(new) = Append(SaidIn(old), Statement(new[Len(old) + 1]))
  <1> DEFINE m == Len(old) + 1
             x == Statement(new[m])
             longer == Append(SaidIn(old), x)
  <1>1. /\ DOMAIN old = 1..Len(old) /\ Len(old) \in Nat
        /\ DOMAIN new = 1..Len(new) /\ Len(new) \in Nat
    BY LenProperties
  <1>2. Len(new) = m
    BY <1>1
  <1>3. x \in Statements
    <2>1. new[m] \in StateRow
      BY <1>1, <1>2, ElementOfSeq
    <2> QED
      BY <2>1 DEF Statement, Statements, StateRow
  <1> HIDE DEF x
  <1>4. /\ longer \in Seq(Statements) /\ Len(longer) = m
        /\ longer[m] = x
        /\ \A i \in 1..Len(old) : longer[i] = SaidIn(old)[i]
    BY <1>1, <1>3, SaidType, AppendProperties
  <1>5. ASSUME NEW i \in 1..m
        PROVE  SaidIn(new)[i] = longer[i]
    <2>1. CASE i = m
      BY <1>2, <1>4, <2>1, SaidType DEF x
    <2>2. CASE i \in 1..Len(old)
      <3>1. Statement(new[i]) = Statement(old[i])
        BY <1>1, <2>2 DEF Statement
      <3>2. SaidIn(new)[i] = Statement(new[i])
        BY <1>2, SaidType
      <3>3. SaidIn(old)[i] = Statement(old[i])
        BY <2>2, SaidType
      <3> HIDE DEF longer
      <3> QED
        BY <1>4, <2>2, <3>1, <3>2, <3>3
    <2>3. i = m \/ i \in 1..Len(old)
      BY <1>1
    <2> QED
      BY <2>1, <2>2, <2>3
  <1>6. SaidIn(new) \in Seq(Statements) /\ Len(SaidIn(new)) = m
    BY <1>2, SaidType
  <1> QED
    BY <1>4, <1>5, <1>6, SeqEqual DEF x

\* A step on the states and links, whatever the owners.
TableStep ==
  \/ states' = states /\ supersessions' = supersessions
  \/ \E new \in StateRow : /\ new.current
                           /\ states' = Append(states, new)
                           /\ supersessions' = supersessions
  \/ \E i \in DOMAIN states, new \in StateRow : new.current /\ Supersede(i, new)
  \/ \E a, e \in Names : /\ states' = Moved(states, a, e)
                         /\ supersessions' = supersessions

\* It is a step of the history.
LEMMA HistoryStep ==
  ASSUME TypeOK, TableStep
  PROVE  [TH!Next]_TH!vars
  <1> DEFINE m == Len(states) + 1
  <1>1. /\ states \in Seq(StateRow)
        /\ Said = SaidIn(states) /\ Said' = SaidIn(states')
        /\ Len(Said) = Len(states) /\ DOMAIN Said = DOMAIN states
    BY SaidType DEF TypeOK, Said, SaidIn
  <1>2. CASE states' = states /\ supersessions' = supersessions
    BY <1>2 DEF TH!vars, Said, Live
  <1>3. ASSUME NEW new \in StateRow, new.current, states' = Append(states, new),
               supersessions' = supersessions
        PROVE  TH!Next
    <2>1. /\ states' \in Seq(StateRow)
          /\ DOMAIN states' = (DOMAIN states) \cup {m}
          /\ \A j \in DOMAIN states : states'[j] = states[j]
          /\ states'[m] = new
      BY <1>1, <1>3, AppendRow
    <2>2. Said' = Append(Said, Statement(new))
      BY <1>1, <2>1, SaidGrows
    <2>3. Live' = Live \cup {m}
      BY <1>3, <2>1 DEF Live
    <2>4. Statement(new) \in Statements
      BY DEF Statement, Statements, StateRow
    <2> QED
      BY <1>1, <1>3, <2>2, <2>3, <2>4 DEF TH!Next, TH!Say, TH!Position
  <1>4. ASSUME NEW i \in DOMAIN states, NEW new \in StateRow, new.current,
               Supersede(i, new)
        PROVE  TH!Next
    <2>1. /\ Grows(states, states')
          /\ DOMAIN states' = (DOMAIN states) \cup {m}
          /\ ~states'[i].current
          /\ i < m
          /\ \A j \in (DOMAIN states) \ {i} : states'[j] = states[j]
          /\ states'[m] = new
      BY <1>1, <1>4, SupersedeRow
    <2>2. Said' = Append(Said, Statement(new))
      BY <1>1, <2>1, SaidGrows DEF Grows
    <2>3. Live' = (Live \ {i}) \cup {m}
      BY <1>4, <2>1 DEF Live
    <2>4. Statement(new) \in Statements
      BY DEF Statement, Statements, StateRow
    <2>5. supersessions' = supersessions \cup {<<i, m>>}
      BY <1>4 DEF Supersede
    <2>6. TH!Replace(i, Statement(new))
      BY <1>1, <2>2, <2>3, <2>5 DEF TH!Replace, TH!Position
    <2> QED
      BY <1>1, <2>4, <2>6 DEF TH!Next
  <1>5. ASSUME NEW a \in Names, NEW e \in Names, states' = Moved(states, a, e),
               supersessions' = supersessions
        PROVE  UNCHANGED TH!vars
    <2>1. /\ Grows(states, states')
          /\ DOMAIN states' = DOMAIN states
          /\ \A j \in DOMAIN states : states'[j].current = states[j].current
      BY <1>1, <1>5, MovedStates
    <2>2. Said' = Said
      BY <1>1, <2>1, SameSaid DEF Grows
    <2>3. Live' = Live
      BY <2>1 DEF Live
    <2> QED
      BY <1>5, <2>2, <2>3 DEF TH!vars
  <1> QED
    BY <1>2, <1>3, <1>4, <1>5 DEF TableStep

(***************************************************************************)
(* With one writer every step of the shelf is a step of a history, or none *)
(* of its business: what is said, and what replaced what, is never lost    *)
(* (the prior row and its link are written on one path).                   *)
(***************************************************************************)
THEOREM ImplementsTruthHistory ==
  ASSUME OneWriter
  PROVE  Spec => KeepsHistory
  <1>1. Init => TH!Init
    <2> SUFFICES ASSUME Init PROVE TH!Init
      OBVIOUS
    <2>1. states = <<>> /\ states \in Seq(StateRow)
      BY DEF Init
    <2>2. SaidIn(states) \in Seq(Statements) /\ Len(SaidIn(states)) = 0
      BY <2>1, SaidType
    <2>3. Said = <<>>
      BY <2>2, EmptySeq DEF Said, SaidIn
    <2>4. Live = {}
      BY <2>1 DEF Live
    <2> QED
      BY <2>3, <2>4 DEF TH!Init, Init
  <1>2. TypeOK /\ SequentialInv /\ [Next]_vars => [TH!Next]_TH!vars
    <2> SUFFICES ASSUME TypeOK, SequentialInv, [Next]_vars
                 PROVE  [TH!Next]_TH!vars
      OBVIOUS
    <2> QED
      BY SequentialStep, HistoryStep DEF SequentialEffect, TruthStep, TableStep
  <1> QED
    BY <1>1, <1>2, TypeCorrect, SequentialTruth, PTL DEF Spec, KeepsHistory, TH!Spec

(***************************************************************************)
(* With any number of writers the one step that takes a truth away and     *)
(* gives no successor is the superseding write that fails: the foreign key *)
(* breaks on its insert, after the prior row was closed.                   *)
(***************************************************************************)
LosesTruth == \E w \in Writers : WriteFails(w) /\ Finds(w) = "replaced"

LEMMA TableNext ==
  ASSUME TypeOK, [Next]_vars, ~LosesTruth
  PROVE  TableStep
  <1>1. ASSUME NEW w \in Writers, NEW n \in Names, NEW v \in Values,
               NEW s \in ScopeKeys, NEW b \in BOOLEAN, BeginUpsert(w, n, v, s, b)
        PROVE  TableStep
    BY <1>1 DEF BeginUpsert, TableStep
  <1>2. ASSUME NEW w \in Writers, WriteNew(w) \/ WriteSuperseding(w)
        PROVE  TableStep
    <2> DEFINE r == upsert[w]
               new == NewState(r.owner, r.value, r.scope)
    <2>1. r.active
      BY <1>2 DEF WriteNew, WriteSuperseding
    <2>2. new \in StateRow /\ new.current
      BY <2>1, Pending, NewStateRow DEF Request, NewState
    <2>3. CASE WriteNew(w)
      <3>1. states' = Append(states, new) /\ supersessions' = supersessions
        BY <2>3 DEF WriteNew
      <3> HIDE DEF new
      <3> QED
        BY <2>2, <3>1 DEF TableStep
    <2>4. CASE WriteSuperseding(w)
      <3>1. r.current \in DOMAIN states /\ Supersede(r.current, new)
        BY <2>1, <2>4, Pending DEF WriteSuperseding
      <3> HIDE DEF new
      <3> QED
        BY <2>2, <3>1 DEF TableStep
    <2> QED
      BY <1>2, <2>3, <2>4
  <1>3. ASSUME NEW w \in Writers,
               WriteUnchanged(w) \/ WriteKnownConflict(w) \/ WriteNewConflict(w)
        PROVE  TableStep
    BY <1>3 DEF WriteUnchanged, WriteKnownConflict, WriteNewConflict, TableStep
  <1>4. ASSUME NEW w \in Writers, WriteFails(w)
        PROVE  TableStep
    BY <1>4 DEF WriteFails, LosesTruth, TableStep
  <1>5. ASSUME NEW w \in Writers, NEW a \in AliasNames, NEW t \in Names,
               MergeAlias(w, a, t) \/ MergeAliasFails(w, a, t)
        PROVE  TableStep
    <2>1. PICK e \in Resolved(t) : MoveRows(a, e)
      BY <1>5 DEF MergeAlias, MergeAliasFails
    <2>2. e \in Names /\ a \in Names
      BY DataAssumption DEF Resolved, AliasTargets, TypeOK
    <2> QED
      BY <2>1, <2>2 DEF MoveRows, TableStep
  <1>6. ASSUME NEW c \in DOMAIN conflicts, NEW d \in Decisions, ResolveKeeping(c, d)
        PROVE  TableStep
    BY <1>6 DEF ResolveKeeping, TableStep
  <1>7. ASSUME NEW c \in DOMAIN conflicts, NEW d \in Decisions, NEW v \in Values,
               ResolvePromoting(c, d, v)
        PROVE  TableStep
    <2> DEFINE new == NewState(conflicts[c].owner, v, NoScope)
               old == conflicts[c].on
    <2>1. conflicts[c] \in ConflictRow /\ old \in DOMAIN states
      BY LenProperties, ElementOfSeq DEF TypeOK
    <2>2. new \in StateRow /\ new.current
      BY <2>1, NewStateRow DEF ConflictRow, ScopeKeys, NewState
    <2>3. Supersede(old, new)
      BY <1>7 DEF ResolvePromoting
    <2> HIDE DEF new, old
    <2> QED
      BY <2>1, <2>2, <2>3 DEF TableStep
  <1>8. CASE UNCHANGED vars
    BY <1>8 DEF vars, TableStep
  <1> QED
    BY <1>1, <1>2, <1>3, <1>4, <1>5, <1>6, <1>7, <1>8 DEF Next

\* Every step of the shelf but that one is a step of a TruthHistory, or none of
\* its business, with any number of writers.
THEOREM OnlyFailedWriteLosesTruth ==
  Spec => [][~LosesTruth => [TH!Next]_TH!vars]_vars
  <1>1. TypeOK /\ [Next]_vars => [~LosesTruth => [TH!Next]_TH!vars]_vars
    BY TableNext, HistoryStep
  <1> QED
    BY <1>1, TypeCorrect, PTL DEF Spec

(***************************************************************************)
(* How current truth doubles.  What a pending upsert has read of scopes is *)
(* still so when it writes: a promotion in between adds an unscoped state, *)
(* and only to an entity that has one already.                             *)
(***************************************************************************)
ScopeIsFree(e, s) ==
  /\ \A i \in CurrentOf(e) : states[i].scope # s
  /\ s = NoScope => \A i \in DOMAIN states : states[i].owner # e

ReadIsExact ==
  \A w \in Writers : upsert[w].active =>
    /\ upsert[w].current = NoState => ScopeIsFree(upsert[w].owner, upsert[w].scope)
    /\ upsert[w].current \in DOMAIN states =>
         \/ upsert[w].scope = states[upsert[w].current].scope
         \/ upsert[w].scope = NoScope

\* What a step does to the states, their scopes with them.
ScopedStep ==
  \/ states' = states
  \/ \E new \in StateRow :
       /\ states' = Append(states, new)
       /\ \A i \in CurrentOf(new.owner) : states[i].scope # new.scope
  \/ \E i \in DOMAIN states, new \in StateRow :
       /\ new.owner = states[i].owner
       /\ new.scope = states[i].scope \/ new.scope = NoScope
       /\ Supersede(i, new)
  \/ \E a, e \in Names : states' = Moved(states, a, e)

ScopedEffect == ScopedStep /\ ReadIsExact'

LEMMA IdleReadsNothing ==
  ASSUME OneWriter, NEW w \in Writers, upsert'[w] = Idle
  PROVE  ReadIsExact'
  BY DEF OneWriter, ReadIsExact, Idle

LEMMA ScopedBegin ==
  ASSUME OneWriter, TypeOK, TruthSurvives,
         NEW w \in Writers, NEW n \in Names, NEW v \in Values,
         NEW s \in ScopeKeys, NEW b \in BOOLEAN, BeginUpsert(w, n, v, s, b)
  PROVE  ScopedEffect
  <1>1. PICK e \in Resolved(n) :
          \E i \in IF CurrentFor(e, s) = {} THEN {NoState} ELSE CurrentFor(e, s) :
            upsert' = [upsert EXCEPT ![w] =
                         [active |-> TRUE, owner |-> e, value |-> v, scope |-> s,
                          supersede |-> b, current |-> i]]
    BY DEF BeginUpsert
  <1>2. PICK i \in IF CurrentFor(e, s) = {} THEN {NoState} ELSE CurrentFor(e, s) :
          upsert' = [upsert EXCEPT ![w] =
                       [active |-> TRUE, owner |-> e, value |-> v, scope |-> s,
                        supersede |-> b, current |-> i]]
    BY <1>1
  <1>3. upsert'[w].owner = e /\ upsert'[w].current = i /\ upsert'[w].scope = s
    BY <1>2 DEF TypeOK
  <1>4. states' = states
    BY DEF BeginUpsert
  <1>5. NoState \notin DOMAIN states
    BY LenProperties DEF TypeOK, NoState
  <1>6. ASSUME i = NoState
        PROVE  ScopeIsFree(e, s)
    <2>1. CurrentFor(e, s) = {}
      BY <1>2, <1>5, <1>6 DEF CurrentFor, CurrentOf
    <2>2. \A j \in CurrentOf(e) : states[j].scope # s
      BY <2>1 DEF CurrentFor
    <2>3. ASSUME s = NoScope
          PROVE  \A j \in DOMAIN states : states[j].owner # e
      BY <2>1, <2>3 DEF CurrentFor, TruthSurvives
    <2> QED
      BY <2>2, <2>3 DEF ScopeIsFree
  <1>7. ASSUME i \in DOMAIN states
        PROVE  s = states[i].scope \/ s = NoScope
    BY <1>2, <1>5, <1>7 DEF CurrentFor
  <1>8. ReadIsExact'
    BY <1>3, <1>4, <1>6, <1>7 DEF OneWriter, ReadIsExact, ScopeIsFree, CurrentOf
  <1> QED
    BY <1>4, <1>8 DEF ScopedEffect, ScopedStep

LEMMA ScopedWrite ==
  ASSUME OneWriter, TypeOK, SequentialInv, ReadIsExact, NEW w \in Writers,
         \/ WriteUnchanged(w) \/ WriteNew(w) \/ WriteSuperseding(w)
         \/ WriteKnownConflict(w) \/ WriteNewConflict(w) \/ WriteFails(w)
  PROVE  ScopedEffect
  <1> DEFINE r == upsert[w]
             new == NewState(r.owner, r.value, r.scope)
  <1>1. r.active /\ Done(w)
    BY DEF WriteUnchanged, WriteNew, WriteSuperseding, WriteKnownConflict,
           WriteNewConflict, WriteFails
  <1>2. r.owner \in Names /\ r.value \in Values /\ r.scope \in ScopeKeys
    BY <1>1, Pending DEF Request
  <1>3. new \in StateRow /\ new.owner = r.owner /\ new.scope = r.scope
    BY <1>2, NewStateRow DEF NewState
  <1>4. ReadIsExact'
    BY <1>1, IdleReadsNothing DEF Done, TypeOK
  <1>5. EntityThere(w)
    BY <1>1 DEF SequentialInv, UpsertIsFresh
  <1>6. CASE WriteNew(w)
    <2>1. r.current = NoState /\ states' = Append(states, new)
      BY <1>6 DEF WriteNew, Finds
    <2>2. \A i \in CurrentOf(r.owner) : states[i].scope # r.scope
      BY <1>1, <2>1 DEF ReadIsExact, ScopeIsFree
    <2> HIDE DEF new
    <2> QED
      BY <1>3, <1>4, <2>1, <2>2 DEF ScopedEffect, ScopedStep
  <1>7. CASE WriteSuperseding(w)
    <2>1. r.current \in DOMAIN states
      BY <1>1, <1>7, Pending DEF WriteSuperseding
    <2>2. Supersede(r.current, new)
      BY <1>7 DEF WriteSuperseding
    <2>3. /\ states[r.current].owner = r.owner
          /\ r.scope = states[r.current].scope \/ r.scope = NoScope
      BY <1>1, <2>1 DEF SequentialInv, UpsertIsFresh, ReadIsExact
    <2> HIDE DEF new
    <2> QED
      BY <1>3, <1>4, <2>1, <2>2, <2>3 DEF ScopedEffect, ScopedStep
  <1>8. CASE ~WriteNew(w) /\ ~WriteSuperseding(w)
    <2>1. states' = states
      BY <1>5, <1>8 DEF WriteUnchanged, WriteKnownConflict, WriteNewConflict, WriteFails
    <2> QED
      BY <1>4, <2>1 DEF ScopedEffect, ScopedStep
  <1> QED
    BY <1>6, <1>7, <1>8

LEMMA ScopedMerge ==
  ASSUME OneWriter, TypeOK, NEW w \in Writers, NEW a \in AliasNames, NEW t \in Names,
         MergeAlias(w, a, t) \/ MergeAliasFails(w, a, t)
  PROVE  ScopedEffect
  <1>1. PICK e \in Resolved(t) : MoveRows(a, e)
    BY DEF MergeAlias, MergeAliasFails
  <1>2. e \in Names /\ a \in Names
    BY DataAssumption DEF Resolved, AliasTargets, TypeOK
  <1>3. upsert[w] = Idle /\ upsert' = upsert
    BY <1>1 DEF MergeAlias, MergeAliasFails, MoveRows
  <1>4. ReadIsExact'
    BY <1>3, IdleReadsNothing
  <1> QED
    BY <1>1, <1>2, <1>4 DEF MoveRows, ScopedEffect, ScopedStep

LEMMA ScopedResolve ==
  ASSUME TypeOK, SequentialInv, ReadIsExact, NEW c \in DOMAIN conflicts,
         NEW d \in Decisions, NEW v \in Values,
         ResolveKeeping(c, d) \/ ResolvePromoting(c, d, v)
  PROVE  ScopedEffect
  <1>1. upsert' = upsert
    BY DEF ResolveKeeping, ResolvePromoting
  <1>2. CASE ResolveKeeping(c, d)
    BY <1>1, <1>2
    DEF ResolveKeeping, ScopedEffect, ScopedStep, ReadIsExact, ScopeIsFree, CurrentOf
  <1>3. CASE ResolvePromoting(c, d, v)
    <2> DEFINE new == NewState(conflicts[c].owner, v, NoScope)
               old == conflicts[c].on
               m == Len(states) + 1
    <2>1. conflicts[c] \in ConflictRow /\ old \in DOMAIN states
      BY LenProperties, ElementOfSeq DEF TypeOK
    <2>2. new \in StateRow /\ new.owner = states[old].owner /\ new.scope = NoScope
      BY <2>1, NewStateRow DEF ConflictRow, ScopeKeys, NewState,
         SequentialInv, ConflictFollowsEntity
    <2>3. Supersede(old, new)
      BY <1>3 DEF ResolvePromoting
    <2> HIDE DEF new, old
    <2>4. /\ Grows(states, states')
          /\ DOMAIN states' = (DOMAIN states) \cup {m}
          /\ \A j \in DOMAIN states : states'[j].owner = states[j].owner
          /\ states'[m] = new
          /\ m # NoState
      <3>1. m # NoState
        BY LenProperties DEF TypeOK, NoState
      <3> QED
        BY <2>1, <2>2, <2>3, <3>1, SupersedeRow DEF TypeOK
    <2> HIDE DEF m
    <2>5. ASSUME NEW w \in Writers, upsert[w].active, upsert[w].current = NoState
          PROVE  ScopeIsFree(upsert[w].owner, upsert[w].scope)'
      <3>1. ScopeIsFree(upsert[w].owner, upsert[w].scope)
        BY <2>5 DEF ReadIsExact
      <3>2. ASSUME NEW j \in DOMAIN states', states'[j].current,
                   states'[j].owner = upsert[w].owner
            PROVE  states'[j].scope # upsert[w].scope
        <4>1. CASE j = m
          BY <2>1, <2>2, <2>4, <3>1, <3>2, <4>1 DEF ScopeIsFree
        <4>2. CASE j \in DOMAIN states
          BY <2>4, <3>1, <3>2, <4>2 DEF Grows, ScopeIsFree, CurrentOf
        <4> QED
          BY <2>4, <4>1, <4>2
      <3>3. ASSUME upsert[w].scope = NoScope, NEW j \in DOMAIN states'
            PROVE  states'[j].owner # upsert[w].owner
        BY <2>1, <2>2, <2>4, <3>1, <3>3 DEF ScopeIsFree
      <3> QED
        BY <1>1, <3>2, <3>3 DEF ScopeIsFree, CurrentOf
    <2>6. ASSUME NEW w \in Writers, upsert[w].active, upsert[w].current \in DOMAIN states'
          PROVE  \/ upsert[w].scope = states'[upsert[w].current].scope
                 \/ upsert[w].scope = NoScope
      <3>1. upsert[w].current \in DOMAIN states
        <4>1. upsert[w].current \in (DOMAIN states) \cup {NoState}
          BY <2>6 DEF TypeOK
        <4>2. m # upsert[w].current \/ upsert[w].current \in DOMAIN states
          BY <2>4, <4>1
        <4> QED
          BY <2>4, <2>6, <4>2
      <3> QED
        BY <2>4, <2>6, <3>1 DEF ReadIsExact, Grows
    <2>7. ReadIsExact'
      BY <1>1, <2>5, <2>6 DEF ReadIsExact
    <2> QED
      BY <2>1, <2>2, <2>3, <2>7 DEF ScopedEffect, ScopedStep
  <1> QED
    BY <1>2, <1>3

LEMMA ScopedNext ==
  ASSUME OneWriter, TypeOK, SequentialInv, ReadIsExact, [Next]_vars
  PROVE  ScopedEffect
  <1>1. ASSUME NEW w \in Writers, NEW n \in Names, NEW v \in Values,
               NEW s \in ScopeKeys, NEW b \in BOOLEAN, BeginUpsert(w, n, v, s, b)
        PROVE  ScopedEffect
    BY <1>1, ScopedBegin DEF SequentialInv
  <1>2. ASSUME NEW w \in Writers,
               \/ WriteUnchanged(w) \/ WriteNew(w) \/ WriteSuperseding(w)
               \/ WriteKnownConflict(w) \/ WriteNewConflict(w) \/ WriteFails(w)
        PROVE  ScopedEffect
    BY <1>2, ScopedWrite
  <1>3. ASSUME NEW w \in Writers, NEW a \in AliasNames, NEW t \in Names,
               MergeAlias(w, a, t) \/ MergeAliasFails(w, a, t)
        PROVE  ScopedEffect
    BY <1>3, ScopedMerge
  <1>4. ASSUME NEW c \in DOMAIN conflicts, NEW d \in Decisions,
               ResolveKeeping(c, d) \/ \E v \in Values : ResolvePromoting(c, d, v)
        PROVE  ScopedEffect
    <2>1. ASSUME NEW v \in Values, ResolvePromoting(c, d, v)
          PROVE  ScopedEffect
      BY <2>1, ScopedResolve
    <2>2. CASE ResolveKeeping(c, d)
      <3>1. conflicts[c] \in ConflictRow
        BY ElementOfSeq, LenProperties DEF TypeOK
      <3>2. conflicts[c].candidate \in Values
        BY <3>1 DEF ConflictRow
      <3> QED
        BY <2>2, <3>2, ScopedResolve
    <2> QED
      BY <1>4, <2>1, <2>2
  <1>5. CASE UNCHANGED vars
    BY <1>5 DEF vars, ScopedEffect, ScopedStep, ReadIsExact, ScopeIsFree, CurrentOf
  <1> QED
    BY <1>1, <1>2, <1>3, <1>4, <1>5 DEF Next

LEMMA ReadStaysExact ==
  ASSUME OneWriter
  PROVE  Spec => []ReadIsExact
  <1>1. Init => ReadIsExact
    BY DEF Init, ReadIsExact, Idle
  <1>2. TypeOK /\ SequentialInv /\ ReadIsExact /\ [Next]_vars => ReadIsExact'
    BY ScopedNext DEF ScopedEffect
  <1> QED
    BY <1>1, <1>2, TypeCorrect, SequentialTruth, PTL DEF Spec

\* A scoped step keeps one current truth, or doubles it in one of the three ways.
LEMMA TruthDoubles ==
  ASSUME TypeOK, OneCurrentTruth, ScopedStep
  PROVE  \/ OneCurrentTruth'
         \/ Merged
         \/ \E p \in supersessions' \ supersessions : StaleOrUnscoped(p)
  <1> DEFINE m == Len(states) + 1
  <1>0. m \notin DOMAIN states
    BY LenProperties DEF TypeOK
  <1>1. CASE states' = states
    BY <1>1 DEF OneCurrentTruth
  <1>2. ASSUME NEW new \in StateRow, states' = Append(states, new),
               \A i \in CurrentOf(new.owner) : states[i].scope # new.scope
        PROVE  OneCurrentTruth'
    <2>1. /\ DOMAIN states' = (DOMAIN states) \cup {m}
          /\ \A j \in DOMAIN states : states'[j] = states[j]
          /\ states'[m] = new
      BY <1>2, AppendRow DEF TypeOK
    <2> HIDE DEF m
    <2> QED
      BY <1>2, <2>1 DEF OneCurrentTruth, CurrentOf
  <1>3. ASSUME NEW i \in DOMAIN states, NEW new \in StateRow,
               new.owner = states[i].owner,
               new.scope = states[i].scope \/ new.scope = NoScope,
               Supersede(i, new)
        PROVE  \/ OneCurrentTruth'
               \/ \E p \in supersessions' \ supersessions : StaleOrUnscoped(p)
    <2>1. /\ Grows(states, states')
          /\ DOMAIN states' = (DOMAIN states) \cup {m}
          /\ ~states'[i].current
          /\ \A j \in (DOMAIN states) \ {i} : states'[j] = states[j]
          /\ states'[m] = new
      BY <1>3, SupersedeRow DEF TypeOK
    <2>2. <<i, m>> \in supersessions' \ supersessions
      BY <1>0, <1>3 DEF Supersede, TypeOK
    <2> HIDE DEF m
    <2>3. CASE ~states[i].current \/ new.scope # states[i].scope
      <3>1. StaleOrUnscoped(<<i, m>>)
        BY <1>3, <2>1, <2>3 DEF StaleOrUnscoped
      <3> QED
        BY <2>2, <3>1
    <2>4. CASE states[i].current /\ new.scope = states[i].scope
      <3>1. ASSUME NEW j \in DOMAIN states', NEW k \in DOMAIN states',
                   states'[j].current, states'[k].current,
                   states'[j].owner = states'[k].owner,
                   states'[j].scope = states'[k].scope
            PROVE  j = k
        <4>1. j # i /\ k # i
          BY <2>1, <3>1
        <4>2. CASE j = m /\ k = m
          BY <4>2
        <4>3. CASE j = m /\ k # m
          BY <1>3, <2>1, <2>4, <3>1, <4>1, <4>3 DEF OneCurrentTruth
        <4>4. CASE j # m /\ k = m
          BY <1>3, <2>1, <2>4, <3>1, <4>1, <4>4 DEF OneCurrentTruth
        <4>5. CASE j # m /\ k # m
          BY <2>1, <3>1, <4>1, <4>5 DEF OneCurrentTruth
        <4> QED
          BY <4>2, <4>3, <4>4, <4>5
      <3> QED
        BY <3>1 DEF OneCurrentTruth
    <2> QED
      BY <2>3, <2>4
  <1>4. ASSUME NEW a \in Names, NEW e \in Names, states' = Moved(states, a, e), ~Merged
        PROVE  OneCurrentTruth'
    <2>1. /\ Grows(states, states')
          /\ DOMAIN states' = DOMAIN states
          /\ \A j \in DOMAIN states : states'[j].current = states[j].current
      BY <1>4, MovedStates DEF TypeOK
    <2>2. \A j \in DOMAIN states : states'[j].owner = states[j].owner
      BY <1>4 DEF Merged
    <2> QED
      BY <2>1, <2>2 DEF Grows, OneCurrentTruth
  <1> QED
    BY <1>1, <1>2, <1>3, <1>4 DEF ScopedStep

(***************************************************************************)
(* With one writer, two current truths of an entity and scope come up only *)
(* in the step of a merge, of a supersession of a state that is history    *)
(* already, or of a scoped state's by an unscoped one: what finding 1 of   *)
(* the README shows can happen happens in no other way.                    *)
(***************************************************************************)
THEOREM TruthDoublesInThreeWays ==
  ASSUME OneWriter
  PROVE  Spec => TruthDoublesOnlyBy
  <1>1. TypeOK /\ SequentialInv /\ ReadIsExact /\ [Next]_vars =>
          [OneCurrentTruth =>
             \/ OneCurrentTruth'
             \/ Merged
             \/ \E p \in supersessions' \ supersessions : StaleOrUnscoped(p)]_vars
    BY ScopedNext, TruthDoubles DEF ScopedEffect
  <1> QED
    BY <1>1, TypeCorrect, SequentialTruth, ReadStaysExact, PTL DEF Spec, TruthDoublesOnlyBy
=============================================================================
