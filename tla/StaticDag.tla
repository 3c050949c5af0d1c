------------------------------ MODULE StaticDag ------------------------------
(***************************************************************************)
(* What the static ticket DAG machine decides                              *)
(* (murder/work/workflows/static_dag.py): stage statuses and a batch of    *)
(* ticket signals in, stage statuses and a run status out.  The loops that *)
(* compute it are in StaticDagMachine.tla, where they are checked against  *)
(* this definition; WorkflowRuns.tla persists what is decided.             *)
(***************************************************************************)
EXTENDS Integers, FiniteSets

CONSTANTS
    Stage,       \* stage identifiers; the stage map gives each one ticket
    DependsOn,   \* DependsOn[s]: the stages s waits for
    NoStage      \* the subject of a signal that is no stage ticket's outcome

StageTerminal == {"succeeded", "failed", "cancelled"}
StageStatus   == {"blocked", "ready"} \cup StageTerminal
RunTerminal   == {"completed", "failed", "cancelled"}
RunStatus     == {"waiting"} \cup RunTerminal

\* A signal as the machine reads it: the stage of the ticket and its outcome.
Payload == [stage : Stage \cup {NoStage}, verdict : StageTerminal]

\* No cycle: some stage of every set waits for none of the others in it.
Acyclic(graph) ==
    \A S \in SUBSET Stage \ {{}} : \E s \in S : graph[s] \cap S = {}

InitialStages ==
    [s \in Stage |-> IF DependsOn[s] = {} THEN "ready" ELSE "blocked"]

\* The first of the signals with these keys that is about the stage, in the
\* order of the inbox.
FirstAbout(s, keys, inbox, rank) ==
    CHOOSE k \in keys : /\ inbox[k].stage = s
                        /\ \A j \in keys : inbox[j].stage = s => rank[k] <= rank[j]

\* Of several signals about one stage the first one counts: once the stage is
\* terminal the others change nothing.
Absorb(stages, keys, inbox, rank) ==
    [s \in Stage |->
        IF stages[s] \in StageTerminal \/ ~\E k \in keys : inbox[k].stage = s
        THEN stages[s]
        ELSE inbox[FirstAbout(s, keys, inbox, rank)].verdict]

\* A set that holds what failed or was cancelled, and every blocked stage that
\* waits for one of its own.
HoldsLost(set, stages) ==
    \A s \in Stage :
        \/ stages[s] \in {"failed", "cancelled"}
        \/ stages[s] = "blocked" /\ DependsOn[s] \cap set # {}
        => s \in set

\* The stages that will not succeed: some chain of blocked stages connects
\* them with one that is failed or cancelled, so that every such set has them.
Lost(stages) ==
    {s \in Stage : \A set \in SUBSET Stage : HoldsLost(set, stages) => s \in set}

\* "A child becomes ready only from authoritative persisted predecessor state."
Settle(stages) ==
    [s \in Stage |->
        IF stages[s] # "blocked" THEN stages[s]
        ELSE IF s \in Lost(stages) THEN "cancelled"
        ELSE IF {stages[d] : d \in DependsOn[s]} = {"succeeded"} THEN "ready"
        ELSE "blocked"]

Decide(stages, keys, inbox, rank) == Settle(Absorb(stages, keys, inbox, rank))

\* The status of the run that the decided stages imply.
StatusOf(stages) ==
    IF \A s \in Stage : stages[s] = "succeeded" THEN "completed"
    ELSE IF \E s \in Stage : stages[s] = "failed" THEN "failed"
    ELSE IF \A s \in Stage : stages[s] \in StageTerminal THEN "cancelled"
    ELSE "waiting"

\* replace_waits: the stages whose ticket is still awaited.
Awaited(stages) ==
    IF StatusOf(stages) = "waiting"
    THEN {s \in Stage : stages[s] \notin StageTerminal}
    ELSE {}
=============================================================================
