--------------------------- MODULE ProactivePulse ---------------------------
(***************************************************************************)
(* The proactive pulse.  The host starts short-lived pulse processes.  One *)
(* keeps a work-run file, looks at the signals and at the files of runs    *)
(* that did not end, and, when triggered with a database, writes an event  *)
(* for each candidate and, if the configuration allows delivery, a row of  *)
(* the outbox.  The operator decides about events and turns delivery on    *)
(* and off meanwhile; the host delivers.                                   *)
(*                                                                         *)
(* Every process has its own connection: a store method reads, and its     *)
(* writes are a transaction after it.  An event's key covers all that the  *)
(* candidate says, a recovery card's age included, so two pulses never     *)
(* make the same card.  There are fewer runs than the listing's five cards *)
(* and than the two hundred completed runs that are kept.                  *)
(***************************************************************************)
EXTENDS Integers, FiniteSets

CONSTANTS
  Pulses,        \* pulse processes, one start each
  Signals,       \* candidates from the evolver file and the inbox
  Healthy,       \* the heartbeat event of a pulse that found nothing
  Nothing,       \* no candidate in hand
  Decisions,     \* the states the operator gives to events
  Reports,       \* the delivery states the host reports
  MaxDecisions   \* bound: decisions of the operator

Closed == {"accepted", "rejected", "expired", "suppressed", "blocked"}
Answered == {"accepted", "rejected"}

Items == Signals \cup {Healthy} \cup (Pulses \X Pulses)

ASSUME ItemsAssumption ==
  /\ Healthy \notin Signals \cup (Pulses \X Pulses)
  /\ Nothing \notin Items
ASSUME DecisionsAssumption == Decisions \subseteq Closed \cup {"observed"}
ASSUME ReportsAssumption == Reports \subseteq {"delivered", "failed"}
ASSUME MaxDecisionsAssumption == MaxDecisions \in Nat

VARIABLES
  allowed,  \* proactive_mode is live and the kill switch is off
  event,    \* proactive_events: the state of each candidate's event
  outbox,   \* proactive_outbox: delivery states by wake (the tasks) and item
  asks,     \* proactive_attention_ledger: open_proactive_asks
  decided,  \* the operator's decisions, those that answered an ask apart
  pulse,    \* each process: where it is, with what
  run       \* its work-run file; running stands for checkpointed too

vars == <<allowed, event, outbox, asks, decided, pulse, run>>

Wakes == (SUBSET Items) \X Items
Rows == DOMAIN outbox
Live == {"produce", "gate", "project", "write", "outbox", "finish", "prune"}

New == [at |-> "new", mode |-> "dry", on |-> FALSE, tasks |-> {}, todo |-> {},
        item |-> Nothing, seen |-> FALSE]

Init ==
  /\ allowed \in BOOLEAN
  /\ event = [i \in Items |-> "absent"]
  /\ outbox = [r \in {} |-> "pending"]
  /\ asks = 0
  /\ decided = [all |-> 0, answered |-> 0]
  /\ pulse = [p \in Pulses |-> New]
  /\ run = [p \in Pulses |-> "none"]

\* classify_pulse_wake of a process without another wake in flight, and the
\* configuration as the process asked it.
\* Mutant of Delivers: what was asked for, whatever the configuration says.
DeliversAsAsked(p) == pulse[p].mode = "deliver" /\ pulse[p].tasks # {}

Delivers(p) == pulse[p].mode = "deliver" /\ pulse[p].on /\ pulse[p].tasks # {}

\* The candidates of a pulse: its tasks, or the heartbeat.
Candidates(p) == IF pulse[p].tasks = {} THEN {Healthy} ELSE pulse[p].tasks

(***************************************************************************)
(* main, up to the configuration.  A run that says running is offered once *)
(* it is ten minutes old, whether its process is alive or not.             *)
(***************************************************************************)
Start(p, mode) ==
  /\ pulse[p].at = "new"
  /\ pulse' = [pulse EXCEPT ![p].at = "produce", ![p].mode = mode]
  /\ run' = [run EXCEPT ![p] = "running"]
  /\ UNCHANGED <<allowed, event, outbox, asks, decided>>

Reclaimable(old) ==
  {q \in Pulses : run[q] = "interrupted" \/ (run[q] = "running" /\ q \in old)}

Produce(p, signals, old) ==
  LET tasks == signals \cup {<<q, p>> : q \in Reclaimable(old)} IN
  /\ pulse[p].at = "produce"
  /\ pulse' = [pulse EXCEPT ![p].tasks = tasks,
       ![p].todo = IF tasks = {} THEN {Healthy} ELSE tasks,
       ![p].at = IF pulse[p].mode = "dry" THEN "finish" ELSE "gate"]
  /\ UNCHANGED <<allowed, event, outbox, asks, decided, run>>

Gate(p) ==
  /\ pulse[p].at = "gate"
  /\ pulse' = [pulse EXCEPT ![p].at = "project", ![p].on = allowed]
  /\ UNCHANGED <<allowed, event, outbox, asks, decided, run>>

(***************************************************************************)
(* project_pulse_output: upsert_proactive_event, then                      *)
(* create_proactive_outbox, for one candidate after the other.             *)
(***************************************************************************)
Read(p, i) ==
  /\ pulse[p].at = "project" /\ i \in pulse[p].todo
  /\ pulse' = [pulse EXCEPT ![p].at = "write", ![p].item = i, ![p].seen = event[i] # "absent"]
  /\ UNCHANGED <<allowed, event, outbox, asks, decided, run>>

Written(p, at) ==
  [pulse EXCEPT ![p].at = at, ![p].item = IF at = "project" THEN Nothing ELSE @,
   ![p].todo = IF at = "project" THEN @ \ {pulse[p].item} ELSE @]

\* An event already there is set back to observed.
Upsert(p) ==
  /\ pulse[p].at = "write"
  /\ pulse[p].seen \/ event[pulse[p].item] = "absent"
  /\ event' = [event EXCEPT ![pulse[p].item] = "observed"]
  /\ pulse' = Written(p, IF Delivers(p) THEN "outbox" ELSE "project")
  /\ UNCHANGED <<allowed, outbox, asks, decided, run>>

\* Mutant of CreateOutbox: a row already there is pending again.
ReopenOutbox(p) ==
  LET key == <<pulse[p].tasks, pulse[p].item>> IN
  /\ pulse[p].at = "outbox"
  /\ outbox' = [r \in Rows \cup {key} |-> IF r = key THEN "pending" ELSE outbox[r]]
  /\ asks' = asks + 1
  /\ pulse' = Written(p, "project")
  /\ UNCHANGED <<allowed, event, decided, run>>

CreateOutbox(p) ==
  LET key == <<pulse[p].tasks, pulse[p].item>> IN
  /\ pulse[p].at = "outbox"
  /\ outbox' = [r \in Rows \cup {key} |-> IF r \in Rows THEN outbox[r] ELSE "pending"]
  /\ asks' = asks + 1
  /\ pulse' = Written(p, "project")
  /\ UNCHANGED <<allowed, event, decided, run>>

(***************************************************************************)
(* The end of main.  An exception, a key that another process inserted     *)
(* after the read among them, marks the run interrupted, even after it was *)
(* marked completed; a kill marks nothing.                                 *)
(***************************************************************************)
\* Mutant of Finish: the run is completed before the projection is.
FinishEarly(p) ==
  /\ pulse[p].at \in {"finish", "project"}
  /\ pulse' = [pulse EXCEPT ![p].at = "prune"]
  /\ run' = [run EXCEPT ![p] = "completed"]
  /\ UNCHANGED <<allowed, event, outbox, asks, decided>>

Finish(p) ==
  /\ \/ pulse[p].at = "finish"
     \/ pulse[p].at = "project" /\ pulse[p].todo = {}
  /\ pulse' = [pulse EXCEPT ![p].at = "prune"]
  /\ run' = [run EXCEPT ![p] = "completed"]
  /\ UNCHANGED <<allowed, event, outbox, asks, decided>>

Exit(p) ==
  /\ pulse[p].at = "prune"
  /\ pulse' = [pulse EXCEPT ![p].at = "gone"]
  /\ UNCHANGED <<allowed, event, outbox, asks, decided, run>>

Raise(p) ==
  /\ pulse[p].at \in Live
  /\ pulse' = [pulse EXCEPT ![p].at = "gone"]
  /\ run' = [run EXCEPT ![p] = "interrupted"]
  /\ UNCHANGED <<allowed, event, outbox, asks, decided>>

Kill(p) ==
  /\ pulse[p].at \in Live
  /\ pulse' = [pulse EXCEPT ![p].at = "gone"]
  /\ UNCHANGED <<allowed, event, outbox, asks, decided, run>>

(***************************************************************************)
(* The operator: set_proactive_item_state and the configuration.           *)
(***************************************************************************)
\* Mutant of Asked: every decision that closes the item closes an ask.
AskedByAll(state) == IF state \in Closed THEN 1 ELSE 0

\* What a decision takes from the open asks.
Asked(state) == IF state \in Answered THEN 1 ELSE 0

\* Mutant of Less: the count is not stopped at zero.
LessUnbounded(n, k) == n - k

Less(n, k) == IF n < k THEN 0 ELSE n - k

Decide(i, state) ==
  /\ event[i] # "absent" /\ decided.all < MaxDecisions
  /\ event' = [event EXCEPT ![i] = state]
  /\ outbox' = [r \in Rows |->
       IF state \in Closed /\ r[2] = i /\ outbox[r] = "pending"
       THEN IF state = "suppressed" THEN "suppressed" ELSE "cancelled"
       ELSE outbox[r]]
  /\ asks' = Less(asks, Asked(state))
  /\ decided' = [all |-> decided.all + 1,
       answered |-> decided.answered + (IF state \in Answered THEN 1 ELSE 0)]
  /\ UNCHANGED <<allowed, pulse, run>>

Switch ==
  /\ allowed' = ~allowed
  /\ UNCHANGED <<event, outbox, asks, decided, pulse, run>>

\* The host reports on a row it has listed: mark_proactive_outbox asks for no
\* state of the row.
Mark(r, state) ==
  /\ outbox[r] # state
  /\ outbox' = [outbox EXCEPT ![r] = state]
  /\ UNCHANGED <<allowed, event, asks, decided, pulse, run>>

Next ==
  \/ \E p \in Pulses :
       \/ \E mode \in {"dry", "observe", "deliver"} : Start(p, mode)
       \/ \E signals \in SUBSET Signals, old \in SUBSET (Pulses \ {p}) :
            Produce(p, signals, old \cap {q \in Pulses : run[q] = "running"})
       \/ Gate(p) \/ Upsert(p) \/ CreateOutbox(p)
       \/ Finish(p) \/ Exit(p) \/ Raise(p) \/ Kill(p)
       \/ \E i \in Items : Read(p, i)
  \/ \E i \in Items, state \in Decisions : Decide(i, state)
  \/ Switch
  \/ \E r \in Rows : \E state \in Reports : Mark(r, state)

Spec == Init /\ [][Next]_vars

-----------------------------------------------------------------------------
\* The variables' types; a row of the outbox has its event.
TypeOK ==
  /\ allowed \in BOOLEAN
  /\ event \in [Items -> Closed \cup {"absent", "observed"}]
  /\ Rows \subseteq Wakes
  /\ \A r \in Rows : /\ outbox[r] \in {"pending", "delivered", "failed", "cancelled", "suppressed"}
                     /\ event[r[2]] # "absent"
  /\ asks \in Nat
  /\ decided \in [all : 0..MaxDecisions, answered : 0..MaxDecisions]
  /\ pulse \in [Pulses -> [at : Live \cup {"new", "gone"}, mode : {"dry", "observe", "deliver"},
                           on : BOOLEAN, tasks : SUBSET Items, todo : SUBSET Items,
                           item : Items \cup {Nothing}, seen : BOOLEAN]]
  /\ run \in [Pulses -> {"none", "running", "completed", "interrupted"}]

\* A run that its file calls completed has projected all it found: no later
\* pulse offers it for recovery, so what it left out would never be seen.
CompletedMeansProjected ==
  \A p \in Pulses : run[p] = "completed" /\ pulse[p].mode # "dry" =>
    \A i \in Candidates(p) :
      /\ event[i] # "absent"
      /\ Delivers(p) => <<pulse[p].tasks, i>> \in Rows

\* Pulses and the operator read and write the count of open asks from
\* processes of their own, and no new row's ask gets lost: only answers close.
AsksAreCounted == asks >= Cardinality(Rows) - decided.answered

\* A row that was delivered or closed is not pending again: a later pulse
\* with the same tasks does not have it delivered a second time.
NotReopened ==
  [][\A r \in Rows : r \in DOMAIN outbox' /\ (outbox[r] # "pending" => outbox'[r] # "pending")]_vars

\* "config_backed_status_and_next_proactive_pulse": once delivery is off and
\* the pulses that asked before are done, the outbox gets no row.
Stopped == ~allowed /\ \A p \in Pulses : pulse[p].at \in Live => ~pulse[p].on
KillSwitchStops == [][Stopped => DOMAIN outbox' \subseteq Rows]_vars
=============================================================================
