---------------------------- MODULE SerialWorkflow ----------------------------
(***************************************************************************)
(* A workflow as if one worker decided it: signals are posted under their  *)
(* deduplication keys, and each batch is handled once, in one step, on the *)
(* stages as they are.  Revisions, snapshots, retries, waits, crashes and  *)
(* recovery are left out: they must not show.                              *)
(***************************************************************************)
EXTENDS Integers

CONSTANTS
    Key,                 \* deduplication keys
    Payload,             \* what signals say
    Rank,                \* Rank[k]: place of k in the order of the inbox
    NoPayload,
    InitialStages,       \* the machine: its initial stages,
    Decide(_, _, _, _),  \* what it decides on stages, keys, inbox and ranks,
    StatusOf(_),         \* the status that stages imply
    RunTerminal          \* and the statuses after which it decides no more

VARIABLES
    status,       \* the run's status
    stages,       \* the run's stages
    inbox,        \* the payload posted under each key
    handled       \* the keys whose signals have been handled

serialVars == <<status, stages, inbox, handled>>

SerialInit ==
    /\ status = "waiting"
    /\ stages = InitialStages
    /\ inbox = [k \in Key |-> NoPayload]
    /\ handled = {}

Posted(box) == {k \in Key : box[k] # NoPayload}

\* A key is posted at most once, whatever its producer repeats.
PostOnce ==
    \E k \in Key \ Posted(inbox), payload \in Payload :
        inbox' = [inbox EXCEPT ![k] = payload]

Post ==
    /\ PostOnce
    /\ UNCHANGED <<status, stages, handled>>

\* A batch of posted signals, none of which was handled before, decides the run.
Handle(batch) ==
    /\ status \notin RunTerminal
    /\ handled' = handled \cup batch
    /\ stages' = Decide(stages, batch, inbox', Rank)
    /\ status' = StatusOf(stages')

\* A ticket's signal is posted and handled at once, the others later.
HandleNext ==
    /\ PostOnce \/ UNCHANGED inbox
    /\ \E batch \in SUBSET (Posted(inbox') \ handled) : Handle(batch)

SerialNext == Post \/ HandleNext

SerialSpec == SerialInit /\ [][SerialNext]_serialVars
=============================================================================
