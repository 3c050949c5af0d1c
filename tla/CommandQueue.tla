------------------------------ MODULE CommandQueue ------------------------------
(***************************************************************************)
(* Durable worker commands (murder/state/persistence/commands.py), claimed *)
(* and executed by a worker of the service's supervisor                    *)
(* (murder/app/service/supervisor.py) through its CommandDispatcher.       *)
(* The claim loop, the command loop, the renewal task of the running       *)
(* command and the reaper are tasks of one event loop: an action is what   *)
(* one of them does between two awaits.  Commands of other workers have    *)
(* other rows and other tasks, so one worker is modelled.                  *)
(***************************************************************************)
EXTENDS Integers, Sequences

CONSTANTS
    Command,        \* idempotency keys: the unique index keeps one row of each
    Retryable,      \* the commands submitted with the retryable flag
    Rank,           \* Rank[c]: place of c in ORDER BY created_at, id
    MaxAttempts,    \* max_attempts
    LeaseTtl,       \* lease_ttl_s
    LoopBlocks,     \* may the event loop be blocked past the end of a lease?
    NoDispatch

ASSUME QueueAssumption ==
    /\ Retryable \subseteq Command
    /\ Rank \in [Command -> Nat]
    /\ MaxAttempts \in Nat \ {0}
    /\ LeaseTtl \in Nat \ {0}
    /\ LoopBlocks \in BOOLEAN

\* A ClaimedCommand: the command and the attempt it was claimed for.
Dispatch == [command : Command, attempt : 1..MaxAttempts]

ASSUME NoDispatchAssumption == NoDispatch \notin Dispatch

VARIABLES
    status,      \* commands.status, "absent" before the row is inserted
    lease,       \* commands.lease_expires_at, as the time that is left
    attempts,    \* commands.attempt_count
    lastError,   \* commands.last_error
    alive,       \* do the worker's tasks run?
    queue,       \* the worker's asyncio.Queue of claimed commands
    running,     \* the claimed command whose handler was called last
    outcome,     \* what the handler returned, "none" while it runs
    renewing,    \* does the renewal task run?
    reaper,      \* does the reaper loop run?
    reported,    \* the commands the reaper still has to escalate
    escalated,   \* the commands escalated to the user
    started      \* history: the claimed commands whose handler was called

rowVars    == <<status, lease, attempts, lastError>>
workerVars == <<alive, queue, running, outcome, renewing>>
reaperVars == <<reaper, reported, escalated>>
queueVars  == <<rowVars, workerVars, reaperVars, started>>

Finished == {"done", "failed"}
Result   == {"ok", "domain error"}

\* Also: no command is claimed more often than max_attempts.
QueueTypeOK ==
    /\ status \in [Command -> {"absent", "pending", "in_flight"} \cup Finished]
    /\ lease \in [Command -> 0..LeaseTtl]
    /\ attempts \in [Command -> 0..MaxAttempts]
    /\ lastError \in [Command -> {"none", "raised", "domain error", "lease expired"}]
    /\ alive \in BOOLEAN
    /\ queue \in Seq(Dispatch)
    /\ running \in Dispatch \cup {NoDispatch}
    /\ outcome \in Result \cup {"none"}
    /\ renewing \in BOOLEAN
    /\ reaper \in BOOLEAN
    /\ reported \subseteq Command
    /\ escalated \subseteq Command
    /\ started \subseteq Dispatch

QueueInit ==
    /\ status = [c \in Command |-> "absent"]
    /\ lease = [c \in Command |-> 0]
    /\ attempts = [c \in Command |-> 0]
    /\ lastError = [c \in Command |-> "none"]
    /\ alive = TRUE
    /\ queue = <<>>
    /\ running = NoDispatch
    /\ outcome = "none"
    /\ renewing = FALSE
    /\ reaper = TRUE
    /\ reported = {}
    /\ escalated = {}
    /\ started = {}

-----------------------------------------------------------------------------
\* submit: a key that has a row already is refused by the unique index.
Submit(c) ==
    /\ status[c] = "absent"
    /\ status' = [status EXCEPT ![c] = "pending"]
    /\ UNCHANGED <<lease, attempts, lastError, workerVars, reaperVars, started>>

\* The claim loop: claim_next_command and the queue, without an await between.
\* Nothing keeps it from claiming while a handler runs.
Claim(c) ==
    /\ alive
    /\ status[c] = "pending"
    /\ \A b \in Command : status[b] = "pending" => Rank[c] <= Rank[b]
    /\ status' = [status EXCEPT ![c] = "in_flight"]
    /\ lease' = [lease EXCEPT ![c] = LeaseTtl]
    /\ attempts' = [attempts EXCEPT ![c] = @ + 1]
    /\ queue' = Append(queue, [command |-> c, attempt |-> attempts[c] + 1])
    /\ UNCHANGED <<lastError, alive, running, outcome, renewing, reaperVars, started>>

\* renew_command_lease succeeds: claimed_by is the worker's name, which every
\* claim of this worker carries.
Renewable(c) == status[c] = "in_flight"

Renewed(c) == IF Renewable(c) THEN [lease EXCEPT ![c] = LeaseTtl] ELSE lease

\* A command loop that leaves the command in the queue while it runs.
StartHandler_Kept ==
    /\ alive
    /\ running = NoDispatch
    /\ queue # <<>>
    /\ running' = Head(queue)
    /\ lease' = Renewed(Head(queue).command)
    /\ renewing' = TRUE
    /\ started' = started \cup {Head(queue)}
    /\ UNCHANGED <<status, attempts, lastError, alive, queue, outcome, reaperVars>>

\* _handle_command_event: the first renewal, whose result is not looked at,
\* the renewal task and the call of the handler.
StartHandler ==
    /\ alive
    /\ running = NoDispatch
    /\ queue # <<>>
    /\ running' = Head(queue)
    /\ queue' = Tail(queue)
    /\ lease' = Renewed(Head(queue).command)
    /\ renewing' = TRUE
    /\ started' = started \cup {Head(queue)}
    /\ UNCHANGED <<status, attempts, lastError, alive, outcome, reaperVars>>

\* The renewal task wakes up; it ends when the row is not in flight any more.
Heartbeat ==
    /\ renewing
    /\ lease' = Renewed(running.command)
    /\ renewing' = Renewable(running.command)
    /\ UNCHANGED <<status, attempts, lastError, alive, queue, running, outcome, reaperVars,
                   started>>

\* The command loop is free for the next claimed command.
NextCommand ==
    /\ running' = NoDispatch
    /\ outcome' = "none"
    /\ renewing' = FALSE
    /\ UNCHANGED <<alive, queue>>

\* fail_command.  It also writes the retryable flag, which nothing reads of a
\* command that has failed: it is never in flight again.
Fail(c, error) ==
    /\ status' = [status EXCEPT ![c] = "failed"]
    /\ lastError' = [lastError EXCEPT ![c] = error]
    /\ UNCHANGED <<lease, attempts>>

\* The handler raises: the failure is written before the renewal ends.
HandlerRaises ==
    /\ running # NoDispatch /\ outcome = "none"
    /\ Fail(running.command, "raised")
    /\ NextCommand
    /\ UNCHANGED <<reaperVars, started>>

\* The handler returns: first the renewal is cancelled and awaited ...
HandlerReturns(result) ==
    /\ running # NoDispatch /\ outcome = "none"
    /\ outcome' = result
    /\ renewing' = FALSE
    /\ UNCHANGED <<rowVars, alive, queue, running, reaperVars, started>>

\* ... then finish writes the result, whatever the row says by then.
FinishCommand ==
    /\ outcome \in Result
    /\ \/ /\ outcome = "ok"
          /\ status' = [status EXCEPT ![running.command] = "done"]
          /\ UNCHANGED <<lease, attempts, lastError>>
       \/ outcome = "domain error" /\ Fail(running.command, outcome)
    /\ NextCommand
    /\ UNCHANGED <<reaperVars, started>>

-----------------------------------------------------------------------------
\* A reaper that looks at the lease alone.
Expired_AnyStatus == {c \in Command : status[c] # "absent" /\ lease[c] = 0}

\* A reaper that looks at the commands it may retry only.
Expired_Retryable ==
    {c \in Command : status[c] = "in_flight" /\ lease[c] = 0 /\ c \in Retryable}

Expired == {c \in Command : status[c] = "in_flight" /\ lease[c] = 0}

\* A reaper that ignores the command's own flag.
Retried_Always(c) == attempts[c] < MaxAttempts

\* An expired command is dispatched again until its attempts are used up.
Retried(c) == c \in Retryable /\ attempts[c] < MaxAttempts

\* reap_stale_commands, then the escalation of what it failed, one after the
\* other with awaits between.
Reap ==
    LET failed == {c \in Expired : ~Retried(c)}
    IN  /\ reaper
        /\ reported = {}
        /\ Expired # {}
        /\ status' = [c \in Command |-> IF c \notin Expired THEN status[c]
                                        ELSE IF c \in failed THEN "failed" ELSE "pending"]
        /\ lastError' = [c \in Command |-> IF c \in failed /\ lastError[c] = "none"
                                           THEN "lease expired" ELSE lastError[c]]
        /\ reported' = failed
        /\ UNCHANGED <<lease, attempts, workerVars, reaper, escalated, started>>

Escalate(c) ==
    /\ c \in reported
    /\ reported' = reported \ {c}
    /\ escalated' = escalated \cup {c}
    /\ UNCHANGED <<rowVars, workerVars, reaper, started>>

\* Time passes.  An event loop that is never blocked wakes the renewal task
\* before the lease ends, and the command loop at once when there is work.
Tick ==
    /\ \E c \in Command : lease[c] > 0
    /\ ~LoopBlocks => /\ outcome = "none"
                      /\ alive /\ queue # <<>> => running # NoDispatch
                      /\ renewing => Renewable(running.command) /\ lease[running.command] > 1
    /\ lease' = [c \in Command |-> IF lease[c] > 0 THEN lease[c] - 1 ELSE 0]
    /\ UNCHANGED <<status, attempts, lastError, workerVars, reaperVars, started>>

\* What the worker's tasks held in memory is gone.
WorkerLost ==
    /\ queue' = <<>>
    /\ running' = NoDispatch
    /\ outcome' = "none"
    /\ renewing' = FALSE
    /\ UNCHANGED <<rowVars, escalated, started>>

\* _supervise_worker: a loop of the worker failed, say with a database error;
\* all of them are stopped until the service is started again.
WorkerFails ==
    /\ alive
    /\ alive' = FALSE
    /\ WorkerLost
    /\ UNCHANGED <<reaper, reported>>

\* An error of the database ends the reaper loop, which nobody supervises.
ReaperFails ==
    /\ reaper
    /\ reaper' = FALSE
    /\ reported' = {}
    /\ UNCHANGED <<rowVars, workerVars, escalated, started>>

\* The service dies and is started again.
RestartService ==
    /\ alive' = TRUE
    /\ WorkerLost
    /\ reaper' = TRUE
    /\ reported' = {}

Handling == StartHandler \/ FinishCommand
Reaping  == Reap \/ \E c \in Command : Escalate(c)
Claiming == \E c \in Command : Claim(c)

QueueNext ==
    \/ \E c \in Command : Submit(c)
    \/ Claiming
    \/ Handling
    \/ Heartbeat
    \/ HandlerRaises
    \/ \E result \in Result : HandlerReturns(result)
    \/ Reaping
    \/ Tick
    \/ WorkerFails
    \/ ReaperFails
    \/ RestartService

QueueSpec == QueueInit /\ [][QueueNext]_queueVars

\* The loops go on while they live, and so does time; a handler need not end.
FairQueueSpec ==
    /\ QueueSpec
    /\ WF_queueVars(Claiming)
    /\ WF_queueVars(Handling)
    /\ WF_queueVars(Heartbeat)
    /\ WF_queueVars(Reaping)
    /\ WF_queueVars(Tick)

-----------------------------------------------------------------------------
(***************************************************************************)
(* Correctness                                                             *)
(***************************************************************************)

\* What was claimed is executed at most once: no claim's handler is called a
\* second time, neither from the queue nor after a restart.  With the type
\* invariant: no command is executed more often than max_attempts.
EachClaimStartsOnce ==
    [][running' # running /\ running' # NoDispatch => running' \notin started]_queueVars

\* A command that must not be retried, such as a scheduler's kickoff, is
\* executed at most once, whatever expires, crashes and restarts.
OneShotCommandsStartOnce ==
    \A d, e \in started : d.command = e.command /\ d.command \notin Retryable => d = e

\* "A late heartbeat cannot revive a command that was completed, failed": a
\* finished command is never handed out again, by no late renewal and no reaper.
FinishedStaysFinished ==
    [][\A c \in Command : status[c] \in Finished => status'[c] \in Finished]_queueVars

\* As long as both loops live from some time on, every submitted command is
\* finished or gets its handler called, also while the handler of another
\* command hangs and when the service restarts over and over.
CommandsAreServed ==
    <>[](alive /\ reaper) =>
        \A c \in Command :
            status[c] = "pending" ~>
                status[c] \in Finished \/ (running # NoDispatch /\ running.command = c)

\* supervisor.py:260: "ordinary lease expiry can no longer start a duplicate
\* operation": no handler is called for a command that is done.
LeaseExpiryStartsNoDuplicate ==
    running # NoDispatch /\ outcome = "none" => status[running.command] # "done"

\* supervisor.py:275: a failure that must not be retried "fails fast to
\* escalation": when a handler raises, such a command is escalated in the end.
RaisedFailuresEscalate ==
    <>[](alive /\ reaper) =>
        \A c \in Command \ Retryable : lastError[c] = "raised" ~> c \in escalated
=============================================================================
