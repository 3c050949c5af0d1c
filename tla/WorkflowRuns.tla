----------------------------- MODULE WorkflowRuns -----------------------------
(***************************************************************************)
(* One persisted workflow run (murder/state/persistence/workflow_runs.py)  *)
(* and the processes that decide it (murder/work/workflows/service.py).    *)
(* Producers enqueue addressed signals and then wake the run: decide_once  *)
(* loads the run and its pending signals in separate reads, lets the pure  *)
(* machine decide and applies the plan if the revision has not moved.      *)
(* Every action is one read or one transaction of one process.             *)
(* Rows are keyed by workflow_id, so runs do not meet: one is modelled.    *)
(***************************************************************************)
EXTENDS StaticDag

CONSTANTS
    Process,             \* processes with a connection to the database
    TicketStatus,        \* ticket statuses that notify_ticket_status passes on
    ExternalKey,         \* deduplication keys of RPC, trigger and activity signals
    Offered,             \* bound: payloads of the signals with these keys
    Rank,                \* Rank[k]: place of k in ORDER BY created_at, signal_id
    SignalLimit,         \* signal_limit of a decision batch
    MaxConflictRetries,  \* max_conflict_retries of decide_once
    CrashBound,          \* bound: crashes of all processes together
    NoPayload, NoKey, NoRun

\* Each ticket status that is passed on has a key of its own.
TicketKey == [stage : Stage, status : TicketStatus]
Key       == TicketKey \cup ExternalKey

Schema == {"static_dag", "foreign"}
Run == [schema : Schema, status : RunStatus, revision : Nat, stages : [Stage -> StageStatus]]

ASSUME RunsAssumption ==
    /\ Stage # {}
    /\ IsFiniteSet(Key)
    /\ DependsOn \in [Stage -> SUBSET Stage]
    /\ Acyclic(DependsOn)
    /\ NoStage \notin Stage
    /\ TicketStatus \subseteq {"done", "failed", "archived"}
    /\ Offered \subseteq Payload
    /\ TicketKey \cap ExternalKey = {}
    /\ Rank \in [Key -> Nat]
    /\ \A j, k \in Key : Rank[j] = Rank[k] => j = k
    /\ SignalLimit \in Nat \ {0}
    /\ MaxConflictRetries \in Nat
    /\ CrashBound \in Nat
    /\ NoPayload \notin Payload
    /\ NoKey \notin Key
    /\ NoRun \notin Run

VARIABLES
    schema,       \* "static_dag", or "foreign": no machine here reads the state
    status,       \* workflow_runs.status
    revision,     \* workflow_runs.revision
    stages,       \* the stages of workflow_runs.state_json
    waits,        \* workflow_waits, by the stage whose ticket is awaited
    inbox,        \* workflow_signals: the payload under each key
    consumedAt,   \* workflow_signals.consumed_at_revision, 0 for NULL
    proc,         \* the local variables of each process
    crashes       \* crashes so far

runVars    == <<schema, status, revision, stages>>
signalVars == <<inbox, consumedAt>>
vars       == <<runVars, waits, signalVars, proc, crashes>>

\* Where decide_once is: about to read the run, about to read the pending
\* signals, about to apply its plan.  The other steps are recovery's.
Deciding == {"load", "signals", "apply"}
ProcStep == {"idle", "recover", "counting"} \cup Deciding

\* The local variables of a process.
Local == [step   : ProcStep,
          key    : Key \cup {NoKey},         \* the signal it wakes the run for
          run    : Run \cup {NoRun},         \* the run as loaded
          batch  : SUBSET Key,               \* the signals as loaded
          tries  : 0..MaxConflictRetries,
          before : Nat]                      \* pending_before of recovery

\* Also: no call retries more often than max_conflict_retries allows.
RunsTypeOK ==
    /\ schema \in Schema
    /\ status \in RunStatus
    /\ revision \in Nat
    /\ stages \in [Stage -> StageStatus]
    /\ waits \in [Stage -> {"none", "open", "satisfied"}]
    /\ inbox \in [Key -> Payload \cup {NoPayload}]
    /\ consumedAt \in [Key -> Nat]
    /\ proc \in [Process -> Local]
    /\ crashes \in 0..CrashBound

CurrentRun ==
    [schema |-> schema, status |-> status, revision |-> revision, stages |-> stages]

AwaitFresh(awaited) == [s \in Stage |-> IF s \in awaited THEN "open" ELSE "none"]

\* A process outside decide_once and recovery.
Idle == [step |-> "idle", key |-> NoKey, run |-> NoRun, batch |-> {}, tries |-> 0,
         before |-> 0]

\* create_workflow_run of a launched static DAG; a run that another build of
\* the program left behind may have a state that no machine here reads.
RunsInit ==
    /\ schema \in Schema
    /\ status = "waiting"
    /\ revision = 0
    /\ stages = InitialStages
    /\ waits = AwaitFresh(Stage)
    /\ inbox = [k \in Key |-> NoPayload]
    /\ consumedAt = [k \in Key |-> 0]
    /\ proc = [p \in Process |-> Idle]
    /\ crashes = 0

-----------------------------------------------------------------------------
(***************************************************************************)
(* The inbox                                                               *)
(***************************************************************************)

PendingIn(box) == {k \in Key : box[k] # NoPayload /\ consumedAt[k] = 0}
Pending == PendingIn(inbox)

\* list_workflow_signals: the oldest signal_limit pending ones.
BatchOf(pending) ==
    {k \in pending : Cardinality({j \in pending : Rank[j] < Rank[k]}) < SignalLimit}

\* enqueue_workflow_signal of a new key: the signal is stored and the waits
\* it matches are satisfied.
Store(k, payload) ==
    /\ inbox[k] = NoPayload
    /\ inbox' = [inbox EXCEPT ![k] = payload]

Satisfied(payload) ==
    [s \in Stage |-> IF waits[s] = "open" /\ payload.stage = s THEN "satisfied" ELSE waits[s]]

\* A key that is there already, with the same payload and still pending.
Repeats(k, payload) == inbox[k] = payload /\ consumedAt[k] = 0

-----------------------------------------------------------------------------
(***************************************************************************)
(* Transitions                                                             *)
(***************************************************************************)

\* A transition that leaves the consumed signals pending.
Transition_Unmarked(run, batch) ==
    /\ stages' = Decide(run.stages, batch, inbox', Rank)
    /\ status' = StatusOf(stages')
    /\ revision' = run.revision + 1
    /\ waits' = AwaitFresh(Awaited(stages'))
    /\ UNCHANGED <<schema, consumedAt>>

\* apply_transition_plan of the plan decided on the given run: consumption,
\* state and waits in one transaction.
Transition(run, batch) ==
    /\ stages' = Decide(run.stages, batch, inbox', Rank)
    /\ status' = StatusOf(stages')
    /\ revision' = run.revision + 1
    /\ waits' = AwaitFresh(Awaited(stages'))
    /\ consumedAt' = [k \in Key |-> IF k \in batch THEN run.revision + 1 ELSE consumedAt[k]]
    /\ UNCHANGED schema

\* update_ticket_status of a stage's ticket: enqueue, decide and apply inside
\* the transaction that changes the ticket.  Where the run is terminal or the
\* signal consumed, nothing of the run changes; where no machine reads the
\* run, the whole ticket change is rolled back.
TicketFinished(s, ticketStatus) ==
    LET k       == [stage |-> s, status |-> ticketStatus]
        payload == [stage |-> s, verdict |-> IF ticketStatus = "failed" THEN "failed"
                                             ELSE "succeeded"]
    IN  /\ status \notin RunTerminal
        /\ schema = "static_dag"
        /\ Store(k, payload) \/ (Repeats(k, payload) /\ UNCHANGED inbox)
        /\ Transition(CurrentRun, BatchOf(PendingIn(inbox')))
        /\ UNCHANGED <<proc, crashes>>

\* apply_workflow_state_migration: migrate_state finds a machine for the
\* target state only, so it leads to the schema the machine reads.
MigrateState ==
    /\ schema = "foreign"
    /\ schema' = "static_dag"
    /\ revision' = revision + 1
    /\ UNCHANGED <<status, stages, waits, signalVars, proc, crashes>>

-----------------------------------------------------------------------------
(***************************************************************************)
(* The processes                                                           *)
(***************************************************************************)

InRecovery(p) == proc[p].before > 0

\* decide_once returns; recovery goes on with counting what is left.
Return(p) ==
    proc' = [proc EXCEPT ![p] =
                IF InRecovery(p) THEN [Idle EXCEPT !.step = "counting", !.before = proc[p].before]
                ELSE Idle]

\* The process is left at a step with none of its local variables.
Restart(p, step) == proc' = [proc EXCEPT ![p] = [Idle EXCEPT !.step = step]]

\* The signal of a finished activity, an approval, a trigger or an RPC: one
\* transaction stores it, then decide_once is called.  A consumed signal and
\* a key with another payload lead to no call.
Enqueue(p, k, payload) ==
    /\ proc[p].step = "idle"
    /\ \/ Store(k, payload) /\ waits' = Satisfied(payload)
       \/ Repeats(k, payload) /\ UNCHANGED <<inbox, waits>>
    /\ proc' = [proc EXCEPT ![p].step = "load", ![p].key = k]
    /\ UNCHANGED <<runVars, consumedAt, crashes>>

\* load_workflow_decision_input reads the run and then the signals; no
\* transaction spans the two reads.
LoadRun(p) ==
    /\ proc[p].step = "load"
    /\ proc' = [proc EXCEPT ![p].step = "signals", ![p].run = CurrentRun]
    /\ UNCHANGED <<runVars, waits, signalVars, crashes>>

LoadSignals(p) ==
    /\ proc[p].step = "signals"
    /\ proc[p].run.status \notin RunTerminal
    /\ proc[p].run.schema = "static_dag"
    /\ proc' = [proc EXCEPT ![p].step = "apply", ![p].batch = BatchOf(Pending)]
    /\ UNCHANGED <<runVars, waits, signalVars, crashes>>

\* A terminal run is returned as it is.
FindTerminal(p) ==
    /\ proc[p].step = "signals"
    /\ proc[p].run.status \in RunTerminal
    /\ Return(p)
    /\ UNCHANGED <<runVars, waits, signalVars, crashes>>

\* WorkflowDefinitionUnavailableError: the request fails; recovery leaves the
\* run alone.
FindForeign(p) ==
    /\ proc[p].step = "signals"
    /\ proc[p].run.status \notin RunTerminal
    /\ proc[p].run.schema = "foreign"
    /\ Restart(p, "idle")
    /\ UNCHANGED <<runVars, waits, signalVars, crashes>>

\* A plan that is applied without looking at the revision.
Fresh_Always(p) == TRUE

Fresh(p) == proc[p].run.revision = revision

\* The other checks of apply_transition_plan, whose exceptions decide_once
\* does not catch.
Committable(p) ==
    /\ status \notin RunTerminal
    /\ schema = proc[p].run.schema
    /\ \A k \in proc[p].batch : consumedAt[k] = 0

Apply(p) ==
    /\ proc[p].step = "apply"
    /\ Fresh(p)
    /\ Committable(p)
    /\ UNCHANGED inbox
    /\ Transition(proc[p].run, proc[p].batch)
    /\ Return(p)
    /\ UNCHANGED crashes

\* A retry that reloads the run and keeps the signals.
Retry_KeepSignals(p) ==
    /\ proc[p].step = "apply"
    /\ ~Fresh(p)
    /\ proc[p].tries < MaxConflictRetries
    /\ proc' = [proc EXCEPT ![p].tries = @ + 1, ![p].run = CurrentRun]
    /\ UNCHANGED <<runVars, waits, signalVars, crashes>>

Retry(p) ==
    /\ proc[p].step = "apply"
    /\ ~Fresh(p)
    /\ proc[p].tries < MaxConflictRetries
    /\ proc' = [proc EXCEPT ![p].step = "load", ![p].tries = @ + 1,
                            ![p].run = NoRun, ![p].batch = {}]
    /\ UNCHANGED <<runVars, waits, signalVars, crashes>>

\* No retry.
GiveUp_AtOnce(p) ==
    /\ proc[p].step = "apply"
    /\ ~Fresh(p)
    /\ Restart(p, IF InRecovery(p) THEN "recover" ELSE "idle")
    /\ UNCHANGED <<runVars, waits, signalVars, crashes>>

\* The last attempt met a stale revision: the exception ends the request, or
\* the startup, which has to begin anew.
GiveUp(p) ==
    /\ proc[p].step = "apply"
    /\ ~Fresh(p)
    /\ proc[p].tries = MaxConflictRetries
    /\ Restart(p, IF InRecovery(p) THEN "recover" ELSE "idle")
    /\ UNCHANGED <<runVars, waits, signalVars, crashes>>

\* A startup that does not look for pending signals.
Recover_Skipped(p) ==
    /\ proc[p].step = "recover"
    /\ Restart(p, "idle")
    /\ UNCHANGED <<runVars, waits, signalVars, crashes>>

\* recover_pending_signals: decide the run while it has pending signals ...
Recover(p) ==
    /\ proc[p].step = "recover"
    /\ IF status = "waiting" /\ Pending # {}
       THEN proc' = [proc EXCEPT ![p].step = "load", ![p].before = Cardinality(Pending)]
       ELSE Restart(p, "idle")
    /\ UNCHANGED <<runVars, waits, signalVars, crashes>>

\* ... and the decision has left fewer of them.
CountPending(p) ==
    /\ proc[p].step = "counting"
    /\ Restart(p, IF Cardinality(Pending) >= proc[p].before THEN "idle" ELSE "recover")
    /\ UNCHANGED <<runVars, waits, signalVars, crashes>>

\* A process dies and is started again; its startup runs the recovery.
Crash(p) ==
    /\ crashes < CrashBound
    /\ crashes' = crashes + 1
    /\ Restart(p, "recover")
    /\ UNCHANGED <<runVars, waits, signalVars>>

Decision(p) ==
    \/ LoadRun(p) \/ LoadSignals(p) \/ FindTerminal(p) \/ FindForeign(p)
    \/ Apply(p) \/ Retry(p) \/ GiveUp(p)
    \/ Recover(p) \/ CountPending(p)

RunsNext ==
    \/ \E s \in Stage, ticketStatus \in TicketStatus : TicketFinished(s, ticketStatus)
    \/ \E p \in Process, k \in ExternalKey, payload \in Offered : Enqueue(p, k, payload)
    \/ \E p \in Process : Decision(p) \/ Crash(p)
    \/ MigrateState

RunsSpec == RunsInit /\ [][RunsNext]_vars

\* A process that has begun to decide or to recover goes on; nobody has to
\* finish a ticket, send a signal, migrate a run or crash.
FairRunsSpec == RunsSpec /\ \A p \in Process : WF_vars(Decision(p))

-----------------------------------------------------------------------------
(***************************************************************************)
(* Correctness                                                             *)
(***************************************************************************)

Consumed == {k \in Key : consumedAt[k] # 0}

\* No decision is lost and none is made up: a stage whose outcome a consumed
\* signal reports is over, and a stage that succeeded or failed did so because
\* of a signal consumed no later than any other signal about that stage.
StageFollowsSignals ==
    \A s \in Stage :
        LET about == {k \in Consumed : inbox[k].stage = s}
        IN  /\ about # {} => stages[s] \in StageTerminal
            /\ stages[s] \in {"succeeded", "failed"} =>
                  \E k \in about : /\ inbox[k].verdict = stages[s]
                                   /\ \A j \in about : consumedAt[k] <= consumedAt[j]

\* "The old decision set is replaced as a unit": the run waits for exactly the
\* stages that are not over, and for nothing once it is decided; a wait that
\* is marked satisfied has its signal in the inbox, still to be consumed.
WaitsFollowStages ==
    \A s \in Stage :
        /\ waits[s] # "none" <=> s \in Awaited(stages)
        /\ waits[s] = "satisfied" => \E k \in Pending : inbox[k].stage = s

\* What a process has loaded: the run as it was at that revision, which is
\* the current one as long as the revision is, and posted signals that nobody
\* consumes before the revision moves.
SnapshotHolds(p) ==
    /\ proc[p].step \in {"signals", "apply"} <=> proc[p].run # NoRun
    /\ proc[p].run # NoRun =>
          /\ proc[p].run.revision <= revision
          /\ Fresh(p) => proc[p].run = CurrentRun
    /\ proc[p].step = "apply" =>
          /\ proc[p].run.status \notin RunTerminal
          /\ proc[p].run.schema = "static_dag"
          /\ \A k \in proc[p].batch : inbox[k] # NoPayload
          /\ Fresh(p) => \A k \in proc[p].batch : consumedAt[k] = 0

SnapshotsHold == \A p \in Process : SnapshotHolds(p)

\* Only posted signals are consumed, at revisions the run has had.
ConsumptionIsDated ==
    \A k \in Key : /\ consumedAt[k] <= revision
                   /\ inbox[k] = NoPayload => consumedAt[k] = 0

\* The revision alone decides whether a plan is still good: while it has not
\* moved, the run is not terminal, has the schema that was read and none of
\* the selected signals is consumed, so that a decision never fails with an
\* exception that decide_once does not retry.
OnlyStaleRevisionsRaise ==
    \A p \in Process : proc[p].step = "apply" /\ Fresh(p) => Committable(p)

\* A call that wakes the run for a signal does not end before the signal is
\* consumed, unless the run is decided or unreadable: also the call that gives
\* up has been overtaken by a decision that consumed its signal.
WakeHandlesItsSignal ==
    [][\A p \in Process :
         proc[p].key # NoKey /\ proc'[p].key = NoKey /\ crashes' = crashes =>
            \/ consumedAt'[proc[p].key] # 0
            \/ status' \in RunTerminal
            \/ proc[p].run.schema = "foreign"]_vars

\* However reads, retries, crashes and restarts interleave, what happens to
\* the run is what one worker handling each signal once, in one step, does.
Serial == INSTANCE SerialWorkflow WITH handled <- Consumed
RunsAreSerial == Serial!SerialSpec

\* A signal for which somebody is about to load a readable run is consumed in
\* the end unless the run is decided first: what a crash leaves behind, the
\* recovery at the next start handles.
WokenSignalsAreConsumed ==
    \A k \in ExternalKey :
        schema = "static_dag" /\ (\E p \in Process : proc[p].key = k /\ proc[p].step = "load")
            ~> consumedAt[k] # 0 \/ status \in RunTerminal
=============================================================================
