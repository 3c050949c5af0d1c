--------------------------- MODULE StaticDagMachine ---------------------------
(***************************************************************************)
(* The loops of the static ticket DAG machine                              *)
(* (murder/work/workflows/static_dag.py) on every stage graph, one         *)
(* iteration a step: the machine is fed batches of signals, one decision   *)
(* after the other, until its run is decided.                              *)
(***************************************************************************)
EXTENDS Integers, FiniteSets, Sequences

CONSTANTS
    Stage, NoStage,
    Order,         \* the stages as a sequence, in definition order
    BatchBound     \* bound: signals in one batch

ASSUME MachineAssumption ==
    /\ Order \in Seq(Stage) /\ Stage = {Order[i] : i \in DOMAIN Order}
    /\ BatchBound \in Nat

VARIABLES
    deps,       \* the depends_on of the definition
    stages,     \* the stages of the persisted state
    batch,      \* the signals of the decision at work, a sequence of payloads
    at,         \* the loop the decision is in
    next,       \* the position of the loop's next iteration
    byStage,    \* by_stage: the stages as decided so far
    changed     \* changed: whether this sweep has changed a stage

machineVars == <<deps, stages, batch, at, next, byStage, changed>>

Dag == INSTANCE StaticDag WITH DependsOn <- deps

\* validate_workflow: known stages, no self edge, no cycle.
ValidGraph(graph) == graph \in [Stage -> SUBSET Stage] /\ Dag!Acyclic(graph)

Batches == UNION {[1..n -> Dag!Payload] : n \in 0..BatchBound}

-----------------------------------------------------------------------------
\* A signal about a stage that is not over yet ends it.
Read(now, signal) ==
    IF signal.stage \in Stage /\ now[signal.stage] \notin Dag!StageTerminal
    THEN [now EXCEPT ![signal.stage] = signal.verdict]
    ELSE now

\* A loop that does not cancel what lies behind a stage that did not succeed.
Revisit_NoCancel(now, s) ==
    IF now[s] = "blocked" /\ {now[d] : d \in deps[s]} = {"succeeded"}
    THEN [now EXCEPT ![s] = "ready"]
    ELSE now

\* A blocked stage becomes ready when all its predecessors succeeded and is
\* cancelled when one of them never will.
Revisit(now, s) ==
    LET before == {now[d] : d \in deps[s]}
    IN  IF now[s] # "blocked" THEN now
        ELSE IF before = {"succeeded"} THEN [now EXCEPT ![s] = "ready"]
        ELSE IF before \cap {"failed", "cancelled"} # {}
             THEN [now EXCEPT ![s] = "cancelled"]
        ELSE now

-----------------------------------------------------------------------------
MachineInit ==
    /\ deps \in {graph \in [Stage -> SUBSET Stage] : ValidGraph(graph)}
    /\ stages = Dag!InitialStages /\ byStage = stages
    /\ batch = <<>> /\ at = "waiting" /\ next = 1 /\ changed = FALSE

\* decide is called for a run that waits, with the signals of its inbox.
Consume ==
    /\ at = "waiting" /\ Dag!StatusOf(stages) = "waiting"
    /\ batch' \in Batches
    /\ at' = "reading"
    /\ UNCHANGED <<deps, stages, next, byStage, changed>>

\* "for signal in signals"
ReadSignal ==
    /\ at = "reading" /\ next \in DOMAIN batch
    /\ byStage' = Read(byStage, batch[next])
    /\ next' = next + 1
    /\ UNCHANGED <<deps, stages, batch, at, changed>>

\* "changed = True; while changed: changed = False"
BeginSweep ==
    /\ \/ at = "reading" /\ next \notin DOMAIN batch
       \/ at = "sweeping" /\ next \notin DOMAIN Order /\ changed
    /\ at' = "sweeping"
    /\ next' = 1
    /\ changed' = FALSE
    /\ UNCHANGED <<deps, stages, batch, byStage>>

\* "for stage_def in self.definition.stages"
RevisitStage ==
    /\ at = "sweeping" /\ next \in DOMAIN Order
    /\ byStage' = Revisit(byStage, Order[next])
    /\ changed' = (changed \/ byStage' # byStage)
    /\ next' = next + 1
    /\ UNCHANGED <<deps, stages, batch, at>>

\* A loop that sweeps over the definition once.
Settled_Once == next \notin DOMAIN Order

\* The end of "while changed".
Settled == next \notin DOMAIN Order /\ ~changed

\* The plan is persisted, and the locals of decide are gone.
Transition ==
    /\ at = "sweeping" /\ Settled
    /\ stages' = byStage
    /\ batch' = <<>> /\ at' = "waiting" /\ next' = 1 /\ changed' = FALSE
    /\ UNCHANGED <<deps, byStage>>

MachineNext == Consume \/ ReadSignal \/ BeginSweep \/ RevisitStage \/ Transition

MachineSpec == MachineInit /\ [][MachineNext]_machineVars

-----------------------------------------------------------------------------
MachineTypeOK ==
    /\ deps \in [Stage -> SUBSET Stage] /\ Dag!Acyclic(deps)
    /\ stages \in [Stage -> Dag!StageStatus] /\ byStage \in [Stage -> Dag!StageStatus]
    /\ batch \in Batches
    /\ at \in {"waiting", "reading", "sweeping"}
    /\ next \in Nat \ {0}
    /\ changed \in BOOLEAN

\* Whatever the definition order, what the loops (decide in static_dag.py)
\* have made of the stages when the plan is persisted is what StaticDag.tla
\* states without any order: they cancel exactly the stages that can no longer
\* run, release exactly those whose predecessors all succeeded, and the first
\* of several signals about a stage is the one that counts.
LoopsDecide ==
    [][Transition =>
          stages' = Dag!Decide(stages, DOMAIN batch, batch, [i \in DOMAIN batch |-> i])]_machineVars

\* A run that still waits has a stage whose ticket may run: signals in any
\* order, for released or still blocked stages, never leave decide with stages
\* that wait for each other.
WaitingRunHasReadyStage ==
    Dag!StatusOf(stages) = "waiting" => \E s \in Stage : stages[s] = "ready"
=============================================================================
