------------------------- MODULE ProactivePulseProofs -------------------------
(***************************************************************************)
(* The proactive pulse: the theorems, for any pulses, signals, decisions   *)
(* and reports.  The invariant says, for each place of a pulse, what is    *)
(* projected of the candidates it found.                                   *)
(***************************************************************************)
EXTENDS ProactivePulse, FiniteSetTheorems, TLAPS

Pulsing ==
  [at : Live \cup {"new", "gone"}, mode : {"dry", "observe", "deliver"}, on : BOOLEAN,
   tasks : SUBSET Items, todo : SUBSET Items, item : Items \cup {Nothing}, seen : BOOLEAN]

Deliveries == {"pending", "delivered", "failed", "cancelled", "suppressed"}

\* A candidate's event is there and, if the pulse delivers, its row.
Projected(p, i) ==
  /\ event[i] # "absent"
  /\ Delivers(p) => <<pulse[p].tasks, i>> \in Rows

\* What a pulse counts on where it is.
PulseFor(p) ==
  /\ pulse[p].at \in {"write", "outbox"} => pulse[p].item \in pulse[p].todo
  /\ pulse[p].at = "outbox" => Delivers(p) /\ event[pulse[p].item] # "absent"
  /\ pulse[p].at \in {"project", "write", "outbox"} =>
       \A i \in Candidates(p) \ pulse[p].todo : Projected(p, i)
  /\ pulse[p].at = "gate" => pulse[p].todo = Candidates(p)
  /\ pulse[p].at \in {"gate", "project", "write", "outbox"} => pulse[p].mode # "dry"
  /\ pulse[p].at = "finish" => pulse[p].mode = "dry"
  /\ run[p] = "completed" =>
       /\ pulse[p].at \in {"prune", "gone"}
       /\ pulse[p].mode # "dry" => \A i \in Candidates(p) : Projected(p, i)

IInv ==
  /\ TypeOK
  /\ IsFiniteSet(Rows) /\ AsksAreCounted /\ decided.answered <= decided.all
  /\ \A p \in Pulses : PulseFor(p)

LEMMA InitInvariant == Init => IInv
<1> SUFFICES ASSUME Init PROVE IInv
  OBVIOUS
<1>1. Rows = {} /\ outbox = [r \in {} |-> "pending"]
  BY DEF Init, Rows
<1>2. pulse = [p \in Pulses |-> New] /\ New \in Pulsing /\ New.at = "new"
  BY DEF Init, New, Pulsing
<1>3. TypeOK
  BY <1>1, <1>2, MaxDecisionsAssumption DEF Init, TypeOK, Pulsing
<1>4. IsFiniteSet(Rows) /\ Cardinality(Rows) = 0
  BY <1>1, FS_EmptySet
<1>5. AsksAreCounted
  BY <1>4 DEF Init, AsksAreCounted
<1>6. \A p \in Pulses : PulseFor(p)
  BY <1>2 DEF PulseFor, Init
<1>7. decided.answered <= decided.all
  BY DEF Init
<1> QED BY <1>1, <1>3, <1>4, <1>5, <1>6, <1>7 DEF IInv, Rows

\* What a pulse has projected stays so while rows and events are only added
\* and its tasks and its answer of the gate stay.
LEMMA ProjectedStays ==
  ASSUME NEW p, NEW i, Projected(p, i), event[i] # "absent" => event'[i] # "absent",
         Rows \subseteq Rows', pulse'[p].tasks = pulse[p].tasks, pulse'[p].on = pulse[p].on,
         pulse'[p].mode = pulse[p].mode
  PROVE  Projected(p, i)'
BY DEF Projected, Delivers

\* A pulse that does not move keeps what it counts on.
LEMMA OtherPulse ==
  ASSUME NEW p \in Pulses, PulseFor(p), pulse'[p] = pulse[p], run'[p] = run[p],
         \A i \in Items : event[i] # "absent" => event'[i] # "absent",
         Rows \subseteq Rows', pulse[p] \in Pulsing
  PROVE  PulseFor(p)'
<1>1. Candidates(p)' = Candidates(p) /\ Candidates(p) \subseteq Items
  BY DEF Candidates, Pulsing, Items
<1>2. \A i \in Candidates(p) : Projected(p, i) => Projected(p, i)'
  BY <1>1, ProjectedStays
<1>3. Delivers(p)' = Delivers(p) /\ pulse[p].item \in pulse[p].todo => pulse[p].item \in Items
  BY DEF Delivers, Pulsing
<1> QED BY <1>1, <1>2, <1>3 DEF PulseFor, Delivers

\* A step that touches neither events, rows nor asks, of one pulse.
LEMMA PulseStep ==
  ASSUME IInv, NEW p \in Pulses, UNCHANGED <<event, outbox, asks, decided>>,
         allowed' = allowed, NEW w \in Pulsing, pulse' = [pulse EXCEPT ![p] = w],
         run' \in [Pulses -> {"none", "running", "completed", "interrupted"}],
         \A q \in Pulses \ {p} : run'[q] = run[q], PulseFor(p)'
  PROVE  IInv'
<1>1. pulse \in [Pulses -> Pulsing]
  BY DEF IInv, TypeOK, Pulsing
<1>2. pulse' \in [Pulses -> Pulsing] /\ \A q \in Pulses \ {p} : pulse'[q] = pulse[q]
  BY <1>1
<1>3. Rows' = Rows
  BY DEF Rows
<1>4. TypeOK'
  BY <1>2, <1>3 DEF IInv, TypeOK, Pulsing
<1>5. AsksAreCounted'
  BY <1>3 DEF IInv, AsksAreCounted
<1>6. \A q \in Pulses : PulseFor(q)'
  BY <1>1, <1>2, <1>3, OtherPulse DEF IInv
<1> QED BY <1>3, <1>4, <1>5, <1>6 DEF IInv, Rows

-----------------------------------------------------------------------------
Runs == {"none", "running", "completed", "interrupted"}

LEMMA StartStep ==
  ASSUME IInv, NEW p \in Pulses, NEW mode \in {"dry", "observe", "deliver"}, Start(p, mode)
  PROVE  IInv'
<1> DEFINE w == [pulse[p] EXCEPT !.at = "produce", !.mode = mode]
<1>1. pulse \in [Pulses -> Pulsing] /\ run \in [Pulses -> Runs]
  BY DEF IInv, TypeOK, Pulsing, Runs
<1>2. pulse' = [pulse EXCEPT ![p] = w]
  BY <1>1 DEF Start, Pulsing
<1>3. w \in Pulsing /\ w.at = "produce"
  BY <1>1 DEF Pulsing, Live
<1>4. run' = [run EXCEPT ![p] = "running"]
  BY DEF Start
<1>5. pulse'[p] = w /\ run'[p] = "running"
  BY <1>1, <1>2, <1>4
<1>6. PulseFor(p)'
  BY <1>3, <1>5 DEF PulseFor
<1> HIDE DEF w
<1> QED BY <1>1, <1>2, <1>3, <1>4, <1>6, PulseStep DEF Start, Runs

LEMMA ProduceStep ==
  ASSUME IInv, NEW p \in Pulses, NEW signals \in SUBSET Signals, NEW old \in SUBSET Pulses,
         Produce(p, signals, old)
  PROVE  IInv'
<1> DEFINE tasks == signals \cup {<<q, p>> : q \in Reclaimable(old)}
           w == [pulse[p] EXCEPT !.tasks = tasks,
                   !.todo = IF tasks = {} THEN {Healthy} ELSE tasks,
                   !.at = IF pulse[p].mode = "dry" THEN "finish" ELSE "gate"]
<1>1. pulse \in [Pulses -> Pulsing] /\ run \in [Pulses -> Runs]
  BY DEF IInv, TypeOK, Pulsing, Runs
<1>2. tasks \in SUBSET Items /\ Healthy \in Items
  BY DEF Reclaimable, Items
<1>3. pulse' = [pulse EXCEPT ![p] = w]
  BY <1>1 DEF Produce, Pulsing
<1>4. w \in Pulsing /\ w.at \in {"finish", "gate"} /\ w.mode = pulse[p].mode
      /\ w.tasks = tasks /\ w.todo = (IF tasks = {} THEN {Healthy} ELSE tasks)
      /\ (w.at = "finish" <=> w.mode = "dry")
  BY <1>1, <1>2 DEF Pulsing, Live
<1>5. run' = run /\ pulse[p].at = "produce" /\ UNCHANGED <<allowed, event, outbox, asks, decided>>
  BY DEF Produce
<1> HIDE DEF w, tasks
<1>6. pulse'[p] = w /\ run[p] # "completed"
  BY <1>1, <1>3, <1>5 DEF IInv, PulseFor
<1>7. PulseFor(p)'
  BY <1>4, <1>5, <1>6 DEF PulseFor, Candidates
<1> QED BY <1>1, <1>3, <1>4, <1>5, <1>7, PulseStep DEF Runs

LEMMA GateStep ==
  ASSUME IInv, NEW p \in Pulses, Gate(p)
  PROVE  IInv'
<1> DEFINE w == [pulse[p] EXCEPT !.at = "project", !.on = allowed]
<1>1. pulse \in [Pulses -> Pulsing] /\ run \in [Pulses -> Runs] /\ allowed \in BOOLEAN
  BY DEF IInv, TypeOK, Pulsing, Runs
<1>2. pulse' = [pulse EXCEPT ![p] = w]
  BY <1>1 DEF Gate, Pulsing
<1>3. w \in Pulsing /\ w.at = "project" /\ w.tasks = pulse[p].tasks /\ w.todo = pulse[p].todo
      /\ w.mode = pulse[p].mode
  BY <1>1 DEF Pulsing, Live
<1>4. run' = run /\ pulse[p].at = "gate" /\ UNCHANGED <<allowed, event, outbox, asks, decided>>
  BY DEF Gate
<1> HIDE DEF w
<1>5. pulse'[p] = w /\ run[p] # "completed" /\ pulse[p].mode # "dry"
      /\ pulse[p].todo = Candidates(p)
  BY <1>1, <1>2, <1>4 DEF IInv, PulseFor
<1>6. PulseFor(p)'
  BY <1>3, <1>4, <1>5 DEF PulseFor, Candidates
<1> QED BY <1>1, <1>2, <1>3, <1>4, <1>6, PulseStep DEF Runs

LEMMA ReadStep ==
  ASSUME IInv, NEW p \in Pulses, NEW i \in Items, Read(p, i)
  PROVE  IInv'
<1> DEFINE w == [pulse[p] EXCEPT !.at = "write", !.item = i, !.seen = event[i] # "absent"]
<1>1. pulse \in [Pulses -> Pulsing] /\ run \in [Pulses -> Runs]
  BY DEF IInv, TypeOK, Pulsing, Runs
<1>2. pulse' = [pulse EXCEPT ![p] = w]
  BY <1>1 DEF Read, Pulsing
<1>3. w \in Pulsing /\ w.at = "write" /\ w.tasks = pulse[p].tasks /\ w.todo = pulse[p].todo
      /\ w.mode = pulse[p].mode /\ w.item = i /\ w.on = pulse[p].on
  BY <1>1 DEF Pulsing, Live
<1>4. run' = run /\ pulse[p].at = "project" /\ UNCHANGED <<allowed, event, outbox, asks, decided>>
      /\ i \in pulse[p].todo
  BY DEF Read
<1> HIDE DEF w
<1>5. pulse'[p] = w /\ run[p] # "completed" /\ PulseFor(p)
  BY <1>1, <1>2, <1>4 DEF IInv, PulseFor
<1>6. PulseFor(p)'
  BY <1>3, <1>4, <1>5 DEF PulseFor, Candidates, Projected, Delivers, Rows
<1> QED BY <1>1, <1>2, <1>3, <1>4, <1>6, PulseStep DEF Runs

\* The ends of a pulse.
LEMMA LastStep ==
  ASSUME IInv, NEW p \in Pulses, Finish(p) \/ Exit(p) \/ Raise(p) \/ Kill(p)
  PROVE  IInv'
<1> DEFINE at == IF Finish(p) THEN "prune" ELSE "gone"
           w == [pulse[p] EXCEPT !.at = at]
<1>1. pulse \in [Pulses -> Pulsing] /\ run \in [Pulses -> Runs]
  BY DEF IInv, TypeOK, Pulsing, Runs
<1>2. /\ pulse' = [pulse EXCEPT ![p].at = at]
      /\ run' = run \/ run' = [run EXCEPT ![p] = "interrupted"]
           \/ (Finish(p) /\ run' = [run EXCEPT ![p] = "completed"])
      /\ UNCHANGED <<allowed, event, outbox, asks, decided>>
  BY DEF Finish, Exit, Raise, Kill
<1>3. pulse' = [pulse EXCEPT ![p] = w]
  BY <1>1, <1>2 DEF Pulsing
<1>4. w \in Pulsing /\ w.at \in {"prune", "gone"} /\ w.tasks = pulse[p].tasks
      /\ w.mode = pulse[p].mode /\ w.on = pulse[p].on
  BY <1>1 DEF Pulsing, Live
<1>5. run' \in [Pulses -> Runs] /\ \A q \in Pulses \ {p} : run'[q] = run[q]
  BY <1>1, <1>2 DEF Runs
<1>6. Finish(p) /\ pulse[p].mode # "dry" => \A i \in Candidates(p) : Projected(p, i)
  BY DEF Finish, IInv, PulseFor
<1> HIDE DEF w, at
<1>7. pulse'[p] = w /\ PulseFor(p)
  BY <1>1, <1>3 DEF IInv
<1>8. Candidates(p)' = Candidates(p) /\ \A i : Projected(p, i) => Projected(p, i)'
  BY <1>2, <1>4, <1>7 DEF Candidates, Projected, Delivers, Rows
<1>9. run'[p] = "completed" /\ pulse[p].mode # "dry" => \A i \in Candidates(p) : Projected(p, i)
  BY <1>1, <1>2, <1>6, <1>7 DEF PulseFor
<1>10. PulseFor(p)'
  BY <1>4, <1>7, <1>8, <1>9 DEF PulseFor
<1> QED BY <1>1, <1>2, <1>3, <1>4, <1>5, <1>10, PulseStep DEF Runs

-----------------------------------------------------------------------------
LEMMA UpsertStep ==
  ASSUME IInv, NEW p \in Pulses, Upsert(p)
  PROVE  IInv'
<1>0. PICK i \in Items : i = pulse[p].item
  BY DEF Upsert, IInv, PulseFor, TypeOK
<1> DEFINE at == IF Delivers(p) THEN "outbox" ELSE "project"
           w == [pulse[p] EXCEPT !.at = at, !.item = IF at = "project" THEN Nothing ELSE @,
                   !.todo = IF at = "project" THEN @ \ {i} ELSE @]
<1>1. pulse \in [Pulses -> Pulsing] /\ run \in [Pulses -> Runs] /\ PulseFor(p)
  BY DEF IInv, TypeOK, Pulsing, Runs
<1>2. pulse' = [pulse EXCEPT ![p] = w]
  BY <1>0, <1>1 DEF Upsert, Written, Pulsing
<1>3. /\ pulse[p].at = "write" /\ i \in pulse[p].todo /\ i \in Items
      /\ event' = [event EXCEPT ![i] = "observed"] /\ run[p] # "completed"
      /\ pulse[p].mode # "dry" /\ UNCHANGED <<allowed, outbox, asks, decided, run>>
  BY <1>0, <1>1 DEF Upsert, PulseFor, Pulsing
<1>4. /\ w \in Pulsing /\ w.tasks = pulse[p].tasks /\ w.mode = pulse[p].mode
      /\ w.on = pulse[p].on /\ w.at = at
      /\ w.todo = (IF at = "project" THEN pulse[p].todo \ {i} ELSE pulse[p].todo)
      /\ at = "outbox" => w.item = i
  BY <1>0, <1>1 DEF Pulsing, Live
<1>5. /\ event' \in [Items -> Closed \cup {"absent", "observed"}]
      /\ event'[i] = "observed" /\ \A j \in Items : event[j] # "absent" => event'[j] # "absent"
  BY <1>3 DEF IInv, TypeOK
<1>6. at = "outbox" <=> Delivers(p)
  OBVIOUS
<1>7. at \in {"outbox", "project"}
  OBVIOUS
<1> HIDE DEF w, at
<1>8. pulse' \in [Pulses -> Pulsing] /\ pulse'[p] = w /\ \A q \in Pulses \ {p} : pulse'[q] = pulse[q]
  BY <1>1, <1>2, <1>4
<1>9. Rows' = Rows /\ IsFiniteSet(Rows') /\ Rows \subseteq Wakes
  BY <1>3 DEF Rows, IInv, TypeOK
<1>10. TypeOK'
  <2>1. \A r \in Rows : event'[r[2]] # "absent"
    BY <1>5, <1>9 DEF IInv, TypeOK, Wakes
  <2> QED BY <1>3, <1>5, <1>8, <1>9, <2>1 DEF IInv, TypeOK, Pulsing
<1>11. AsksAreCounted'
  BY <1>3, <1>9 DEF IInv, AsksAreCounted
<1>12. PulseFor(p)'
  <2>1. Candidates(p)' = Candidates(p) /\ Candidates(p) \subseteq Items
    BY <1>1, <1>4, <1>8 DEF Candidates, Pulsing, Items
  <2>2. Delivers(p)' = Delivers(p)
    BY <1>4, <1>8 DEF Delivers
  <2>3. \A j \in Candidates(p) : Projected(p, j) => Projected(p, j)'
    BY <1>4, <1>5, <1>8, <1>9, <2>1, <2>2 DEF Projected
  <2>4. at = "project" => Projected(p, i)'
    BY <1>5, <1>6, <1>7, <2>2 DEF Projected
  <2>5. \A j \in Candidates(p) \ w.todo : Projected(p, j)'
    BY <1>1, <1>3, <1>4, <1>7, <2>3, <2>4 DEF PulseFor
  <2> QED BY <1>3, <1>4, <1>5, <1>6, <1>7, <1>8, <2>1, <2>2, <2>5 DEF PulseFor
<1>13. \A q \in Pulses : PulseFor(q)'
  BY <1>1, <1>3, <1>5, <1>8, <1>9, <1>12, OtherPulse DEF IInv
<1> QED BY <1>3, <1>9, <1>10, <1>11, <1>13 DEF IInv

LEMMA CreateOutboxStep ==
  ASSUME IInv, NEW p \in Pulses, CreateOutbox(p)
  PROVE  IInv'
<1>0. PICK i \in Items, tasks \in SUBSET Items : i = pulse[p].item /\ tasks = pulse[p].tasks
  BY DEF CreateOutbox, IInv, PulseFor, TypeOK
<1> DEFINE key == <<tasks, i>>
           w == [pulse[p] EXCEPT !.at = "project", !.item = Nothing, !.todo = @ \ {i}]
<1>1. pulse \in [Pulses -> Pulsing] /\ run \in [Pulses -> Runs] /\ PulseFor(p)
  BY DEF IInv, TypeOK, Pulsing, Runs
<1>2. pulse' = [pulse EXCEPT ![p] = w]
  BY <1>0, <1>1 DEF CreateOutbox, Written, Pulsing
<1>3. /\ pulse[p].at = "outbox" /\ i \in pulse[p].todo /\ i \in Items /\ event[i] # "absent"
      /\ pulse[p].tasks \in SUBSET Items /\ run[p] # "completed" /\ pulse[p].mode # "dry"
      /\ asks' = asks + 1 /\ UNCHANGED <<allowed, event, decided, run>>
      /\ outbox' = [r \in Rows \cup {key} |-> IF r \in Rows THEN outbox[r] ELSE "pending"]
  BY <1>0, <1>1 DEF CreateOutbox, PulseFor, Pulsing
<1>4. /\ w \in Pulsing /\ w.tasks = pulse[p].tasks /\ w.mode = pulse[p].mode
      /\ w.on = pulse[p].on /\ w.at = "project" /\ w.todo = pulse[p].todo \ {i}
  BY <1>1 DEF Pulsing, Live
<1> HIDE DEF w
<1>5. pulse' \in [Pulses -> Pulsing] /\ pulse'[p] = w /\ \A q \in Pulses \ {p} : pulse'[q] = pulse[q]
  BY <1>1, <1>2, <1>4
<1>6. Rows' = Rows \cup {key} /\ key \in Wakes
  BY <1>3 DEF Rows, Wakes
<1>7. TypeOK'
  <2>1. \A r \in Rows' : outbox'[r] \in Deliveries /\ event[r[2]] # "absent"
    BY <1>3, <1>6 DEF IInv, TypeOK, Deliveries
  <2>2. asks' \in Nat /\ Rows' \subseteq Wakes
    <3>1. asks \in Nat /\ Rows \subseteq Wakes
      BY DEF IInv, TypeOK
    <3>2. asks' \in Nat
      BY <1>3, <3>1
    <3>3. Rows' \subseteq Wakes
      BY <1>6, <3>1
    <3> QED BY <3>2, <3>3
  <2>3. /\ allowed \in BOOLEAN /\ event \in [Items -> Closed \cup {"absent", "observed"}]
        /\ decided \in [all : 0..MaxDecisions, answered : 0..MaxDecisions] /\ run \in [Pulses -> Runs]
    BY DEF IInv, TypeOK, Runs
  <2> QED BY <1>3, <1>5, <2>1, <2>2, <2>3 DEF TypeOK, Pulsing, Deliveries, Runs
<1>8. IsFiniteSet(Rows') /\ Cardinality(Rows') <= Cardinality(Rows) + 1
      /\ Cardinality(Rows) \in Nat /\ Cardinality(Rows') \in Nat
  <2>1. IsFiniteSet(Rows)
    BY DEF IInv
  <2>2. /\ IsFiniteSet(Rows \cup {key})
        /\ Cardinality(Rows \cup {key}) \in {Cardinality(Rows), Cardinality(Rows) + 1}
    BY <2>1, FS_AddElement
  <2>3. Cardinality(Rows) \in Nat
    BY <2>1, FS_CardinalityType
  <2> QED BY <1>6, <2>2, <2>3
<1>9. AsksAreCounted'
  BY <1>3, <1>8 DEF IInv, TypeOK, AsksAreCounted
<1>10. PulseFor(p)'
  <2>1. Candidates(p)' = Candidates(p)
    BY <1>4, <1>5 DEF Candidates
  <2>2. \A j : Projected(p, j) => Projected(p, j)'
    BY <1>3, <1>4, <1>5, <1>6 DEF Projected, Delivers
  <2>3. Projected(p, i)'
    BY <1>0, <1>3, <1>4, <1>5, <1>6 DEF Projected
  <2> QED BY <1>1, <1>3, <1>4, <1>5, <2>1, <2>2, <2>3 DEF PulseFor
<1>11. \A q \in Pulses : PulseFor(q)'
  BY <1>1, <1>3, <1>5, <1>6, <1>10, OtherPulse DEF IInv
<1> QED BY <1>3, <1>7, <1>8, <1>9, <1>11 DEF IInv

\* The operator's and the host's steps move no pulse.
LEMMA OutsideStep ==
  ASSUME IInv, UNCHANGED <<pulse, run>>, Rows' = Rows, allowed' \in BOOLEAN,
         event' \in [Items -> Closed \cup {"absent", "observed"}],
         \A j \in Items : event[j] # "absent" => event'[j] # "absent",
         \A r \in Rows : outbox'[r] \in Deliveries,
         asks' \in Nat, decided' \in [all : 0..MaxDecisions, answered : 0..MaxDecisions],
         decided'.answered <= decided'.all,
         asks' + decided'.answered >= asks + decided.answered
  PROVE  IInv'
<1>1. pulse \in [Pulses -> Pulsing]
  BY DEF IInv, TypeOK, Pulsing
<1>2. TypeOK'
  <2>1. \A r \in Rows : event'[r[2]] # "absent"
    BY DEF IInv, TypeOK, Wakes
  <2> QED BY <2>1 DEF IInv, TypeOK, Deliveries
<1>3. AsksAreCounted'
  <2>1. Cardinality(Rows) \in Nat /\ decided.answered \in Nat /\ asks \in Nat
        /\ decided'.answered \in Nat /\ asks' \in Nat
    BY FS_CardinalityType DEF IInv, TypeOK
  <2> QED BY <2>1 DEF IInv, AsksAreCounted
<1>4. \A q \in Pulses : PulseFor(q)'
  BY <1>1, OtherPulse DEF IInv
<1> QED BY <1>2, <1>3, <1>4 DEF IInv

LEMMA DecideStep ==
  ASSUME IInv, NEW i \in Items, NEW state \in Decisions, Decide(i, state)
  PROVE  IInv'
<1> DEFINE k == Asked(state)
<1>1. /\ event[i] # "absent" /\ event' = [event EXCEPT ![i] = state]
      /\ decided.all < MaxDecisions
      /\ asks' = Less(asks, k)
      /\ decided' = [all |-> decided.all + 1, answered |-> decided.answered + k]
      /\ UNCHANGED <<allowed, pulse, run>> /\ allowed \in BOOLEAN
  BY DEF Decide, Asked, IInv, TypeOK
<1>2. state \in Closed \cup {"observed"}
  BY DecisionsAssumption
<1>3. /\ event' \in [Items -> Closed \cup {"absent", "observed"}]
      /\ \A j \in Items : event[j] # "absent" => event'[j] # "absent"
  BY <1>1, <1>2 DEF IInv, TypeOK, Closed
<1>4. Rows' = Rows /\ \A r \in Rows : outbox'[r] \in Deliveries
  BY DEF Decide, IInv, TypeOK, Rows, Deliveries
<1>5. k \in {0, 1} /\ asks \in Nat /\ decided.all \in 0..MaxDecisions
      /\ decided.answered \in 0..MaxDecisions /\ decided.answered <= decided.all
  BY DEF Asked, IInv, TypeOK
<1>6. /\ asks' \in Nat
      /\ decided' \in [all : 0..MaxDecisions, answered : 0..MaxDecisions]
      /\ decided'.answered <= decided'.all
      /\ asks' + decided'.answered >= asks + decided.answered
  <2>1. /\ decided'.all = decided.all + 1 /\ decided'.answered = decided.answered + k
    BY <1>1
  <2>2. asks' = (IF asks < k THEN 0 ELSE asks - k)
    BY <1>1 DEF Less
  <2> HIDE DEF k
  <2> QED BY <1>1, <1>5, <2>1, <2>2, MaxDecisionsAssumption
<1> QED BY <1>1, <1>3, <1>4, <1>6, OutsideStep

LEMMA NextInvariant == IInv /\ [Next]_vars => IInv'
<1> SUFFICES ASSUME IInv, [Next]_vars PROVE IInv'
  OBVIOUS
<1>1. ASSUME NEW p \in Pulses, NEW mode \in {"dry", "observe", "deliver"}, Start(p, mode)
      PROVE  IInv'
  BY <1>1, StartStep
<1>2. ASSUME NEW p \in Pulses, NEW signals \in SUBSET Signals, NEW old \in SUBSET Pulses,
             Produce(p, signals, old)
      PROVE  IInv'
  BY <1>2, ProduceStep
<1>3. ASSUME NEW p \in Pulses, Gate(p) \/ Upsert(p) \/ CreateOutbox(p)
      PROVE  IInv'
  BY <1>3, GateStep, UpsertStep, CreateOutboxStep
<1>4. ASSUME NEW p \in Pulses, Finish(p) \/ Exit(p) \/ Raise(p) \/ Kill(p)
      PROVE  IInv'
  BY <1>4, LastStep
<1>5. ASSUME NEW p \in Pulses, NEW i \in Items, Read(p, i)
      PROVE  IInv'
  BY <1>5, ReadStep
<1>6. ASSUME NEW i \in Items, NEW state \in Decisions, Decide(i, state)
      PROVE  IInv'
  BY <1>6, DecideStep
<1>7. CASE Switch
  <2>1. /\ Rows' = Rows /\ UNCHANGED <<event, outbox, asks, decided, pulse, run>>
        /\ allowed' \in BOOLEAN
    BY <1>7 DEF Switch, Rows
  <2>2. /\ asks \in Nat /\ decided.answered \in Nat /\ decided.answered <= decided.all
        /\ event \in [Items -> Closed \cup {"absent", "observed"}]
        /\ decided \in [all : 0..MaxDecisions, answered : 0..MaxDecisions]
        /\ \A r \in Rows : outbox[r] \in Deliveries
    BY DEF IInv, TypeOK, Deliveries
  <2>3. asks + decided.answered >= asks + decided.answered
    BY <2>2
  <2> QED BY <2>1, <2>2, <2>3, OutsideStep
<1>8. ASSUME NEW r \in Rows, NEW state \in Reports, Mark(r, state)
      PROVE  IInv'
  <2>1. /\ Rows' = Rows /\ UNCHANGED <<allowed, event, asks, decided, pulse, run>>
        /\ \A s \in Rows : outbox'[s] \in {outbox[s], state}
    BY <1>8 DEF Mark, Rows
  <2>2. /\ asks \in Nat /\ decided.answered \in Nat /\ decided.answered <= decided.all
        /\ event \in [Items -> Closed \cup {"absent", "observed"}] /\ allowed \in BOOLEAN
        /\ decided \in [all : 0..MaxDecisions, answered : 0..MaxDecisions]
        /\ \A s \in Rows : outbox[s] \in Deliveries
    BY DEF IInv, TypeOK, Deliveries
  <2>3. asks + decided.answered >= asks + decided.answered
    BY <2>2
  <2>4. state \in Deliveries
    BY ReportsAssumption DEF Deliveries
  <2> QED BY <2>1, <2>2, <2>3, <2>4, OutsideStep
<1>9. CASE UNCHANGED vars
  <2>1. Rows' = Rows /\ UNCHANGED vars
    BY <1>9 DEF vars, Rows
  <2>2. \A p \in Pulses : PulseFor(p)'
    BY <1>9 DEF vars, IInv, PulseFor, Candidates, Projected, Delivers, Rows
  <2>3. TypeOK'
    BY <1>9, <2>1 DEF vars, IInv, TypeOK
  <2>4. AsksAreCounted'
    BY <1>9, <2>1 DEF vars, IInv, AsksAreCounted
  <2> QED BY <1>9, <2>1, <2>2, <2>3, <2>4 DEF vars, IInv
<1>10. \A p \in Pulses : \A old \in SUBSET (Pulses \ {p}) :
         old \cap {q \in Pulses : run[q] = "running"} \in SUBSET Pulses
  OBVIOUS
<1> QED BY <1>1, <1>2, <1>3, <1>4, <1>5, <1>6, <1>7, <1>8, <1>9, <1>10 DEF Next

LEMMA Invariance == Spec => []IInv
<1> QED BY InitInvariant, NextInvariant, PTL DEF Spec

-----------------------------------------------------------------------------
\* The variables keep their types, and every row of the outbox has its event.
THEOREM TypeCorrect == Spec => []TypeOK
<1>1. IInv => TypeOK
  BY DEF IInv
<1> QED BY <1>1, Invariance, PTL

\* However pulses run beside each other, raise and are killed, a run that its
\* file calls completed has projected all it found.
THEOREM CompletedIsProjected == Spec => []CompletedMeansProjected
<1>1. IInv => CompletedMeansProjected
  BY DEF IInv, PulseFor, CompletedMeansProjected, Projected
<1> QED BY <1>1, Invariance, PTL

\* The count never falls below the asks that nobody has answered yet, however
\* pulses and the operator interleave.
THEOREM AsksStayCounted == Spec => []AsksAreCounted
<1>1. IInv => AsksAreCounted
  BY DEF IInv
<1> QED BY <1>1, Invariance, PTL

\* A pulse never has a row delivered that is already, or that is closed.
THEOREM RowsStayClosed == Spec => NotReopened
<1>1. ASSUME IInv, [Next]_vars
      PROVE  [\A r \in Rows : /\ r \in DOMAIN outbox'
                              /\ outbox[r] # "pending" => outbox'[r] # "pending"]_vars
  <2>1. CASE UNCHANGED outbox
    BY <2>1 DEF Rows
  <2>2. ASSUME NEW p \in Pulses, CreateOutbox(p)
        PROVE  \A r \in Rows : r \in DOMAIN outbox' /\ (outbox[r] # "pending" => outbox'[r] # "pending")
    BY <2>2 DEF CreateOutbox
  <2>3. ASSUME NEW i \in Items, NEW state \in Decisions, Decide(i, state)
        PROVE  \A r \in Rows : r \in DOMAIN outbox' /\ (outbox[r] # "pending" => outbox'[r] # "pending")
    BY <2>3 DEF Decide
  <2>4. ASSUME NEW s \in Rows, NEW state \in Reports, Mark(s, state)
        PROVE  \A r \in Rows : r \in DOMAIN outbox' /\ (outbox[r] # "pending" => outbox'[r] # "pending")
    BY <2>4, ReportsAssumption DEF Mark, Rows
  <2> QED BY <1>1, <2>1, <2>2, <2>3, <2>4
        DEF Next, Start, Produce, Gate, Read, Upsert, Finish, Exit, Raise, Kill, Switch, vars
<1>2. IInv /\ [Next]_vars =>
        [\A r \in Rows : r \in DOMAIN outbox' /\ (outbox[r] # "pending" => outbox'[r] # "pending")]_vars
  BY <1>1
<1> QED BY <1>2, Invariance, PTL DEF Spec, NotReopened

\* Once delivery is off and no pulse is under way that asked before, the
\* outbox gets no row.
THEOREM KillSwitchHolds == Spec => KillSwitchStops
<1>1. ASSUME IInv, [Next]_vars PROVE [Stopped => DOMAIN outbox' \subseteq Rows]_vars
  <2>1. CASE UNCHANGED outbox
    BY <2>1 DEF Rows
  <2>2. ASSUME NEW p \in Pulses, CreateOutbox(p), Stopped
        PROVE  FALSE
    BY <1>1, <2>2 DEF CreateOutbox, Stopped, Live, IInv, PulseFor, Delivers
  <2>3. ASSUME NEW i \in Items, NEW state \in Decisions, Decide(i, state)
        PROVE  DOMAIN outbox' \subseteq Rows
    BY <2>3 DEF Decide
  <2>4. ASSUME NEW s \in Rows, NEW state \in Reports, Mark(s, state)
        PROVE  DOMAIN outbox' \subseteq Rows
    BY <2>4 DEF Mark, Rows
  <2> QED BY <1>1, <2>1, <2>2, <2>3, <2>4
        DEF Next, Start, Produce, Gate, Read, Upsert, Finish, Exit, Raise, Kill, Switch, vars
<1>2. IInv /\ [Next]_vars => [Stopped => DOMAIN outbox' \subseteq Rows]_vars
  BY <1>1
<1> QED BY <1>2, Invariance, PTL DEF Spec, KillSwitchStops
=============================================================================
