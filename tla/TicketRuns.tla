------------------------------ MODULE TicketRuns ------------------------------
(***************************************************************************)
(* A workflow whose stages are tickets: the launch that writes one ticket  *)
(* per stage and then the run (murder/work/workflows/materialize.py), the  *)
(* kickoffs that start crows for ready tickets (runtime/orchestration),    *)
(* the handlers that watch the crows and complete or fail the tickets      *)
(* (runtime/agents/crow_handler.py, verdict/completion), the user who      *)
(* reopens, retries and resets, and the recovery after a restart.  Every   *)
(* ticket that ends moves the run in the same transaction.                 *)
(*                                                                         *)
(* All coroutines of the service share one event loop: they interleave     *)
(* where they await.  The command line is a process of its own.            *)
(***************************************************************************)
EXTENDS StaticDag

CONSTANTS
    Parent,       \* the ticket that stands for the run itself
    Worker,       \* the kickoffs the orchestrator worker runs, one at a time
    Launcher,     \* the kickoffs of the request that launched the workflow
    Forced,       \* bound: the statuses a user forces on a ticket
    FaultBound,   \* bound: exceptions raised by the database, tmux, git or a config
    CrashBound,   \* bound: crashes
    UserBound     \* bound: interventions of the user

ASSUME TicketRunsAssumption ==
    /\ Parent \notin Stage
    /\ NoStage \notin Stage
    /\ Worker # Launcher
    /\ DependsOn \in [Stage -> SUBSET Stage]
    /\ Acyclic(DependsOn)
    /\ Stage # {}
    /\ Forced \subseteq {"planned", "ready", "in_progress", "blocked", "done",
                         "failed", "archived"}

VARIABLES
    ticket,    \* tickets.status; absent: no row
    deps,      \* ticket_deps: what a ticket waits for before it is kicked off
    run,       \* workflow_runs: its status and its stages
    launch,    \* materialize_workflow
    kick,      \* kickoff_ready, by who awaits it
    crow,      \* the crow of a ticket, in the agent registry and its row
    handler,   \* the crow handler of a ticket
    loose,     \* tickets whose handler was reaped while it started: its loop runs
    pending,   \* tickets whose reattach or cascade is half done
    spent,     \* faults, crashes and interventions so far
    first,     \* history: how a ticket ended first since its run exists
    excused    \* history, what the properties except: see below

vars == <<ticket, deps, run, launch, kick, crow, handler, loose, pending, spent, first, excused>>

Status == {"absent", "planned", "ready", "in_progress", "blocked", "done",
           "failed", "archived"}
Kickoff == {Worker, Launcher}

\* idle and running are registered; failed: registered, but its row says failed;
\* left: no longer registered, and the row still says running.
Crow == {"none", "idle", "running", "failed", "left"}

\* idle: registered, its loop does not run; checking: in handle_done; over: it
\* completed the ticket, its loop only idles; stopped: its row says so too.
Handler == {"none", "idle", "running", "checking", "over", "stopped"}

\* VALID_TRANSITIONS
Allowed(from) ==
    CASE from = "planned"     -> {"ready", "archived"}
      [] from = "ready"       -> {"in_progress", "planned", "archived"}
      [] from = "in_progress" -> {"done", "blocked", "failed", "archived"}
      [] from = "blocked"     -> {"in_progress", "failed", "archived"}
      [] from = "failed"      -> {"planned", "ready", "archived"}
      [] from = "done"        -> {"planned", "archived"}
      [] from = "archived"    -> {"planned"}
      [] OTHER                -> {}

\* touched: tickets a user changed or the cleanup could not delete; crossed: those
\* changed while the launcher was still kicking off; loosened: those whose
\* ticket_deps once lacked a dependency of their stage; unattended: those that a
\* kickoff, reset or reattach that raised left as they were, or that a user
\* forced to be in progress, until they are claimed again or the service restarts.
Excuses == [touched : SUBSET (Stage \cup {Parent}), crossed : SUBSET Stage,
            loosened : SUBSET Stage, unattended : SUBSET Stage]

\* What a kickoff does, the tickets left of its list and the one it is at.
Kicking == [step : {"idle", "loop", "reaped", "spawn", "start", "handler", "reap", "reset"},
            todo : SUBSET Stage, at : Stage \cup {NoStage}]

Idle == [step |-> "idle", todo |-> {}, at |-> NoStage]

TicketRunsInit ==
    /\ ticket = [t \in Stage \cup {Parent} |-> "absent"]
    /\ deps = [s \in Stage |-> {}]
    /\ run = [status |-> "none", stages |-> InitialStages]
    /\ launch = [step |-> "building", created |-> {}]
    /\ kick = [k \in Kickoff |-> Idle]
    /\ crow = [s \in Stage |-> "none"]
    /\ handler = [s \in Stage |-> "none"]
    /\ loose = {}
    /\ pending = [reattach |-> {}, rebind |-> {}, cascade |-> {}]
    /\ spent = [faults |-> 0, crashes |-> 0, user |-> 0]
    /\ first = [s \in Stage |-> "none"]
    /\ excused = [touched |-> {}, crossed |-> {}, loosened |-> {}, unattended |-> {}]

Fault == spent.faults < FaultBound /\ spent' = [spent EXCEPT !.faults = @ + 1]
User == spent.user < UserBound /\ spent' = [spent EXCEPT !.user = @ + 1]

--------------------------------------------------------------------------------
\* update_ticket_status: the row, and in the same transaction the signal of a
\* ticket that ended and the decision of the run that awaits it.

Verdict(status) == IF status = "failed" THEN "failed" ELSE "succeeded"

\* MUTANT of Outcome: a later outcome of the ticket replaces the first.
Outcome_Last(s, status) == [run.stages EXCEPT ![s] = Verdict(status)]

Outcome(s, status) ==
    IF run.stages[s] \in StageTerminal THEN run.stages
    ELSE [run.stages EXCEPT ![s] = Verdict(status)]

Told(s, status) ==
    LET stages == Settle(Outcome(s, status))
    IN  /\ run' = IF run.status = "waiting"
                  THEN [status |-> StatusOf(stages), stages |-> stages] ELSE run
        /\ first' = IF run.status = "waiting" /\ first[s] = "none"
                    THEN [first EXCEPT ![s] = Verdict(status)] ELSE first

SetStatus(s, status) ==
    /\ ticket' = [ticket EXCEPT ![s] = status]
    /\ IF status \in {"done", "failed", "archived"} THEN Told(s, status)
       ELSE UNCHANGED <<run, first>>

\* MUTANT of ComputeReady: a dependency that waits for the user does no harm.
ComputeReady_Blocked ==
    {s \in Stage : /\ ticket[s] = "ready"
                   /\ \A d \in deps[s] : ticket[d] \in {"done", "archived", "blocked"}}

\* MUTANT of ComputeReady: only a dependency that is done lets a ticket start.
ComputeReady_DoneOnly ==
    {s \in Stage : ticket[s] = "ready" /\ \A d \in deps[s] : ticket[d] = "done"}

\* Tickets that are ready and whose dependencies are finished.
ComputeReady ==
    {s \in Stage : /\ ticket[s] = "ready"
                   /\ \A d \in deps[s] : ticket[d] \in {"done", "archived"}}

--------------------------------------------------------------------------------
\* materialize_workflow. It awaits nothing, so no coroutine of the service runs
\* before it ended; each ticket is committed by itself.

LoopIsFree == launch.step # "building"

ReconcileTicket(t) ==
    /\ launch.step = "building"
    /\ ticket[t] = "absent"
    /\ \A u \in DOMAIN ticket \ launch.created : ticket[u] = "absent"
    /\ t = Parent \/ (Parent \in launch.created /\ DependsOn[t] \subseteq launch.created)
    /\ ticket' = [ticket EXCEPT ![t] = "planned"]
    /\ deps' = [s \in Stage |-> IF s = t THEN DependsOn[s] ELSE deps[s]]
    /\ launch' = [launch EXCEPT !.created = IF t = Parent THEN {Parent} ELSE @]
    /\ UNCHANGED <<loose, run, kick, crow, handler, pending, spent, first, excused>>

ReadyTicket(s) ==
    /\ launch.step = "building"
    /\ ticket[s] = "planned"
    /\ ticket' = [ticket EXCEPT ![s] = "ready"]
    /\ launch' = [launch EXCEPT !.created = @ \cup {s}]
    /\ UNCHANGED <<deps, loose, run, kick, crow, handler, pending, spent, first, excused>>

\* The run comes last; then the request kicks off the stages of this run.
InsertRun ==
    /\ launch.step = "building"
    /\ launch.created = Stage \cup {Parent}
    /\ run' = [run EXCEPT !.status = "waiting"]
    /\ launch' = [launch EXCEPT !.step = "done"]
    /\ kick' = [kick EXCEPT ![Launcher] = [Idle EXCEPT !.step = "loop", !.todo = Stage]]
    /\ UNCHANGED <<ticket, deps, loose, crow, handler, pending, spent, first, excused>>

\* MUTANT of Deleted: the cleanup counts on the run's cascade for the stages.
Deleted_ParentOnly == launch.created \cap {Parent}

Deleted == launch.created

\* A step of the launch raises: the tickets that were created are deleted, one
\* by one, their ticket_deps first; a delete that fails is skipped, before
\* (intact) or after its first statement. The ticket at which the launch raised
\* was not counted as created.
LaunchFails ==
    /\ launch.step = "building"
    /\ Fault
    /\ \E kept \in SUBSET Deleted : \E intact \in SUBSET kept :
        /\ ticket' = [t \in DOMAIN ticket |->
                        IF t \in Deleted \ kept THEN "absent" ELSE ticket[t]]
        /\ deps' = [s \in Stage |-> IF s \in Deleted \ intact THEN {}
                                    ELSE deps[s] \ (Deleted \ intact)]
        /\ excused' = [excused EXCEPT !.touched = @ \cup kept]
    /\ launch' = [launch EXCEPT !.step = "failed"]
    /\ UNCHANGED <<loose, run, kick, crow, handler, pending, first>>

--------------------------------------------------------------------------------
\* kickoff_ready. The worker takes every ready ticket of one look at the table;
\* the launcher asks for one stage at a time.

Step(k, step) == kick' = [kick EXCEPT ![k].step = step]
EndKickoff(k) == kick' = [kick EXCEPT ![k] = Idle]
NextTicket(k) == kick' = [kick EXCEPT ![k].step = "loop", ![k].at = NoStage]

\* The scheduler's tick in mode autorun_ready, and the command it submits.
BeginKickoff ==
    /\ LoopIsFree
    /\ kick[Worker].step = "idle"
    /\ ComputeReady # {}
    /\ kick' = [kick EXCEPT ![Worker] = [Idle EXCEPT !.step = "loop", !.todo = ComputeReady]]
    /\ UNCHANGED <<ticket, deps, loose, run, launch, crow, handler, pending, spent, first, excused>>

\* MUTANT of ReapHandler: the handler of a reaped crow is left behind.
ReapHandler_Left(s) == UNCHANGED handler

\* A reap takes the crow from the registry, waits until it has stopped, and then
\* takes the handler. An agent that is not registered is left alone.
ReapCrow(s) == crow' = [crow EXCEPT ![s] = IF @ = "left" THEN "left" ELSE "none"]
ReapHandler(s) == handler' = [handler EXCEPT ![s] = IF s \in loose THEN @ ELSE "none"]

NoHandler(s) == handler[s] = "none" \/ s \in loose

HasRunningRow(s) ==
    crow[s] \in {"idle", "running", "left"} \/ handler[s] \notin {"none", "stopped"}

Take(k, s) ==
    /\ LoopIsFree
    /\ kick[k].step = "loop"
    /\ s \in kick[k].todo

\* What the next ticket of the list is passed over for: it is no longer ready
\* (the launcher), or it is in progress with agents of its own (the worker).
SkipTicket(k, s) ==
    /\ Take(k, s)
    /\ \/ k = Launcher /\ s \notin ComputeReady
       \/ k = Worker /\ HasRunningRow(s) /\ ticket[s] = "in_progress"
    /\ kick' = [kick EXCEPT ![k].todo = @ \ {s}]
    /\ UNCHANGED <<ticket, deps, loose, run, launch, crow, handler, pending, spent, first, excused>>

\* Agents of a ticket that is not in progress are stale.
ReapStale(k, s) ==
    /\ Take(k, s)
    /\ k = Launcher => s \in ComputeReady
    /\ HasRunningRow(s) /\ ticket[s] # "in_progress"
    /\ ReapCrow(s)
    /\ kick' = [kick EXCEPT ![k] = [step |-> "reaped", todo |-> @.todo \ {s}, at |-> s]]
    /\ UNCHANGED <<ticket, deps, loose, run, launch, handler, pending, spent, first, excused>>

\* The transition to in_progress, for which a list may be too old; the
\* exception ends the kickoff.
Claim(k, s) ==
    /\ \/ /\ Take(k, s) /\ ~HasRunningRow(s)
          /\ k = Launcher => s \in ComputeReady
          /\ UNCHANGED handler
       \/ kick[k].step = "reaped" /\ kick[k].at = s /\ ReapHandler(s)
    /\ IF ticket[s] = "in_progress" \/ "in_progress" \in Allowed(ticket[s])
       THEN /\ SetStatus(s, "in_progress")
            /\ kick' = [kick EXCEPT ![k] = [step |-> "spawn", todo |-> @.todo \ {s}, at |-> s]]
            /\ excused' = [excused EXCEPT !.unattended = @ \ {s}]
       ELSE EndKickoff(k) /\ UNCHANGED <<ticket, run, first, excused>>
    /\ UNCHANGED <<deps, loose, launch, crow, pending, spent>>

\* spawn_crow: the worktree is awaited before the crow is registered.
RegisterCrow(k) ==
    LET s == kick[k].at
    IN  /\ kick[k].step = "spawn"
        /\ crow[s] \in {"none", "left"}
        /\ crow' = [crow EXCEPT ![s] = "idle"]
        /\ Step(k, "start")
        /\ UNCHANGED <<ticket, deps, loose, run, launch, handler, pending, spent, first, excused>>

\* A crow of this ticket is registered already: it is marked as failed, and the
\* ticket fails.
RegistrationClashes(k) ==
    LET s == kick[k].at
    IN  /\ kick[k].step = "spawn"
        /\ crow[s] \notin {"none", "left"}
        /\ crow' = [crow EXCEPT ![s] = "failed"]
        /\ SetStatus(s, "failed")
        /\ NextTicket(k)
        /\ UNCHANGED <<deps, loose, launch, handler, pending, spent, excused>>

\* The worktree or the harness raises: whatever crow is registered is reaped.
SpawnFails(k) ==
    LET s == kick[k].at
    IN  /\ kick[k].step \in {"spawn", "start"}
        /\ Fault
        /\ crow' = [crow EXCEPT ![s] =
                      IF kick[k].step = "start" THEN "none"
                      ELSE IF @ \in {"none", "left"} THEN "none" ELSE "failed"]
        /\ SetStatus(s, "failed")
        /\ NextTicket(k)
        /\ UNCHANGED <<deps, loose, launch, handler, pending, excused>>

CrowRuns(s) == crow' = [crow EXCEPT ![s] = IF @ = "none" THEN "left" ELSE "running"]

\* The crow runs; its handler is registered, also next to a loose one, whose loop
\* is from now on not told from the new one's. An assertion or a handler that is
\* registered already ends the kickoff.
CrowStarts(k) ==
    LET s == kick[k].at
    IN  /\ kick[k].step = "start"
        /\ CrowRuns(s)
        /\ IF crow[s] \notin {"none", "left"} /\ NoHandler(s)
           THEN /\ handler' = [handler EXCEPT ![s] = "idle"]
                /\ loose' = loose \ {s}
                /\ Step(k, "handler")
           ELSE EndKickoff(k) /\ UNCHANGED <<handler, loose>>
        /\ UNCHANGED <<ticket, deps, run, launch, pending, spent, first, excused>>

\* The handler's loop starts, even if a reap took the handler while it made its
\* tmux session. The status is looked at again: a ticket that is no longer in
\* progress fails, whatever it became meanwhile.
HandlerStarts(k) ==
    LET s == kick[k].at
    IN  /\ kick[k].step = "handler"
        /\ \/ /\ handler' = [handler EXCEPT ![s] = IF @ \in {"idle", "none"} THEN "running" ELSE @]
              /\ loose' = IF handler[s] = "none" THEN loose \cup {s} ELSE loose
           \/ handler[s] = "none" /\ UNCHANGED <<handler, loose>>
        /\ IF ticket[s] = "in_progress" THEN UNCHANGED <<ticket, run, first>>
           ELSE SetStatus(s, "failed")
        /\ NextTicket(k)
        /\ UNCHANGED <<deps, launch, crow, pending, spent, excused>>

Abandon(s) == excused' = [excused EXCEPT !.unattended = @ \cup ({s} \cap Stage)]

\* What awaits or writes outside the try around spawn_crow, or in a reset or a
\* reap, raises: a status is not published, a client not resolved, the handler's
\* tmux session not made. The kickoff or command ends and leaves its ticket as it is.
KickoffRaises(k) ==
    LET s == kick[k].at
    IN  /\ kick[k].step # "idle"
        /\ Fault
        /\ IF kick[k].step = "start" THEN CrowRuns(s) ELSE UNCHANGED crow
        /\ UNCHANGED handler \/ (kick[k].step \in {"reaped", "reset"} /\ ReapHandler(s))
        /\ EndKickoff(k)
        /\ Abandon(s)
        /\ UNCHANGED <<ticket, deps, run, launch, loose, pending, first>>

KickoffEnds(k) ==
    /\ kick[k].step = "loop"
    /\ kick[k].todo = {}
    /\ EndKickoff(k)
    /\ UNCHANGED <<ticket, deps, loose, run, launch, crow, handler, pending, spent, first, excused>>

--------------------------------------------------------------------------------
\* The crow handler and the completion coordinator.

Promotable == {"planned", "ready", "in_progress", "blocked"}

\* A tick looks at the pane of the registered crow; without one it does nothing.
Ticks(s) == handler[s] = "running" /\ crow[s] \in {"idle", "running", "failed"}

\* The crow says DONE, and the checks begin.
SeesDone(s) ==
    /\ LoopIsFree
    /\ Ticks(s)
    /\ ticket[s] \in Promotable
    /\ handler' = [handler EXCEPT ![s] = "checking"]
    /\ UNCHANGED <<ticket, deps, loose, run, launch, kick, crow, pending, spent, first, excused>>

\* The checks pass: complete_ticket walks the ticket to done from wherever it is
\* now; one that ended meanwhile is left as it is.
ChecksPass(s) ==
    /\ LoopIsFree
    /\ handler[s] = "checking"
    /\ IF ticket[s] \in Promotable THEN SetStatus(s, "done")
       ELSE UNCHANGED <<ticket, run, first>>
    /\ handler' = [handler EXCEPT ![s] = "over"]
    /\ UNCHANGED <<deps, loose, launch, kick, crow, pending, spent, excused>>

\* They fail: by the number of attempts the crow or the planner is asked, the
\* ticket is blocked until the user answers, or it fails.
ChecksFail(s) ==
    /\ LoopIsFree
    /\ handler[s] = "checking"
    /\ Fault
    /\ \/ UNCHANGED <<ticket, run, first>>
       \/ SetStatus(s, "blocked")
       \/ SetStatus(s, "failed")
    /\ handler' = [handler EXCEPT ![s] = "running"]
    /\ UNCHANGED <<deps, loose, launch, kick, crow, pending, excused>>

\* Too many ticks raise in a row: the ticket fails, also one that is done.
TicksFail(s) ==
    /\ LoopIsFree
    /\ Ticks(s)
    /\ Fault
    /\ SetStatus(s, "failed")
    /\ handler' = [handler EXCEPT ![s] = "stopped"]
    /\ UNCHANGED <<deps, loose, launch, kick, crow, pending, excused>>

\* The ticket ended otherwise: the loop stops, the handler stays registered.
HandlerStops(s) ==
    /\ LoopIsFree
    /\ Ticks(s)
    /\ ticket[s] \in {"done", "failed"}
    /\ handler' = [handler EXCEPT ![s] = "stopped"]
    /\ UNCHANGED <<ticket, deps, loose, run, launch, kick, crow, pending, spent, first, excused>>

--------------------------------------------------------------------------------
\* The user. Commands are executed by the worker, one at a time; what they leave
\* to reap is reaped after the ticket has moved. Reopen and retry of the command
\* line run in another process, which cannot reap the agents of the service.

Touch(s) == [excused EXCEPT !.touched = @ \cup {s},
                            !.crossed = IF kick[Launcher].step = "idle" THEN @ ELSE @ \cup {s}]
Touched(s) == excused' = Touch(s)

Command(s) ==
    /\ LoopIsFree /\ kick[Worker].step = "idle"
    /\ User
    /\ UNCHANGED <<launch, loose, pending>>

ThenReap(tickets) ==
    kick' = [kick EXCEPT ![Worker] = [Idle EXCEPT !.step = "reap", !.todo = tickets]]

Dependents(s) == {d \in Stage : s \in deps[d]}

\* Of the statuses a reopen looks for in a dependent only ready may become planned.
Cascades(s) ==
    ticket[s] \in {"ready", "in_progress", "blocked"} /\ "planned" \in Allowed(ticket[s])

Reopen(s) ==
    LET reopened == {s} \cup {d \in Dependents(s) : Cascades(d)}
    IN  /\ Command(s) /\ Touched(s)
        /\ ticket[s] = "done"
        /\ ticket' = [t \in DOMAIN ticket |-> IF t \in reopened THEN "planned" ELSE ticket[t]]
        /\ ThenReap(reopened)
        /\ UNCHANGED <<deps, run, first, crow, handler>>

Retry(s) ==
    /\ Command(s) /\ Touched(s)
    /\ ticket[s] = "failed"
    /\ ticket' = [ticket EXCEPT ![s] = "ready"]
    /\ ThenReap({s})
    /\ UNCHANGED <<deps, run, first, crow, handler>>

\* The rows of ticket_deps of a ticket are replaced by any others. Parent stands
\* for the tickets outside the workflow, as one that does not end.
ReplaceDeps(s) ==
    \E d \in SUBSET ({t \in Stage \ {s} : ticket[t] # "absent"} \cup {Parent}) :
        /\ deps' = [deps EXCEPT ![s] = d]
        /\ excused' = [Touch(s) EXCEPT !.loosened = IF DependsOn[s] \subseteq d THEN @
                                                    ELSE @ \cup {s}]

\* The planner or the user carves a ticket that is planned, ready already, or
\* has no row yet: it gets the dependencies of the form and becomes ready.
Carve(s) ==
    /\ Command(s)
    /\ ticket[s] \in {"absent", "planned", "ready"}
    /\ ReplaceDeps(s)
    /\ ticket' = [ticket EXCEPT ![s] = "ready"]
    /\ UNCHANGED <<run, first, kick, crow, handler>>

\* A changed markdown file of a ticket is read in, or its metadata are updated:
\* new dependencies, whatever its status.
ReconcilePath(s) ==
    /\ LoopIsFree
    /\ User
    /\ ReplaceDeps(s)
    /\ ticket' = [ticket EXCEPT ![s] = IF @ = "absent" THEN "planned" ELSE @]
    /\ UNCHANGED <<run, launch, kick, crow, handler, loose, pending, first>>

\* Any status, from any status; the agents of a ticket that ended are reaped, and
\* one that is put in progress gets none.
ForceStatus(s) ==
    /\ Command(s)
    /\ ticket[s] # "absent"
    /\ \E status \in Forced :
        /\ SetStatus(s, status)
        /\ IF status \in {"done", "failed", "archived"} THEN ThenReap({s})
           ELSE UNCHANGED kick
        /\ excused' = [Touch(s) EXCEPT !.unattended = IF status = "in_progress"
                                                      THEN @ \cup {s} ELSE @]
    /\ UNCHANGED <<deps, crow, handler>>

Reap(s) ==
    /\ kick[Worker].step = "reap"
    /\ \/ /\ kick[Worker].at = NoStage /\ s \in kick[Worker].todo
          /\ ReapCrow(s)
          /\ kick' = [kick EXCEPT ![Worker].at = s, ![Worker].todo = @ \ {s}]
          /\ UNCHANGED handler
       \/ /\ kick[Worker].at = s
          /\ ReapHandler(s)
          /\ kick' = [kick EXCEPT ![Worker] = IF @.todo = {} THEN Idle
                                             ELSE [@ EXCEPT !.at = NoStage]]
          /\ UNCHANGED crow
    /\ UNCHANGED <<ticket, deps, loose, run, launch, pending, spent, first, excused>>

\* reset_crow: the agents are reaped and their sessions killed, then the ticket
\* is ready again, whatever it was.
ResetCrow(s) ==
    /\ Command(s) /\ Touched(s)
    /\ ticket[s] # "absent"
    /\ ReapCrow(s)
    /\ kick' = [kick EXCEPT ![Worker] = [Idle EXCEPT !.step = "reset", !.at = s]]
    /\ UNCHANGED <<ticket, deps, run, first, handler>>

ResetTicket ==
    LET s == kick[Worker].at
    IN  /\ kick[Worker].step = "reset"
        /\ ReapHandler(s)
        /\ SetStatus(s, "ready")
        /\ EndKickoff(Worker)
        /\ UNCHANGED <<deps, loose, launch, crow, pending, spent, excused>>

\* murder reopen: the dependents follow, each in a transaction of its own.
ReopenOutside(s) ==
    /\ User /\ Touched(s)
    /\ ticket[s] = "done"
    /\ ticket' = [ticket EXCEPT ![s] = "planned"]
    /\ pending' = [pending EXCEPT !.cascade = @ \cup Dependents(s)]
    /\ UNCHANGED <<deps, loose, run, launch, kick, crow, handler, first>>

CascadeOutside(s) ==
    /\ s \in pending.cascade
    /\ ticket' = [ticket EXCEPT ![s] = IF Cascades(s) THEN "planned" ELSE @]
    /\ pending' = [pending EXCEPT !.cascade = @ \ {s}]
    /\ UNCHANGED <<deps, loose, run, launch, kick, crow, handler, spent, first, excused>>

\* murder retry: the ticket becomes planned, not ready.
RetryOutside(s) ==
    /\ User /\ Touched(s)
    /\ ticket[s] = "failed"
    /\ ticket' = [ticket EXCEPT ![s] = "planned"]
    /\ UNCHANGED <<deps, loose, run, launch, kick, crow, handler, pending, first>>

--------------------------------------------------------------------------------
\* The service dies and starts again: the crows in alive survived in tmux. A
\* ticket in progress whose crow did not fails; the others get a new handler.

Survives(s, alive) == s \in alive /\ crow[s] \in {"idle", "running", "left"}

Restart ==
    /\ spent.crashes < CrashBound
    /\ spent' = [spent EXCEPT !.crashes = @ + 1]
    /\ \E alive \in SUBSET {s \in Stage : crow[s] # "none"} :
        LET gone == {s \in Stage : ticket[s] = "in_progress" /\ ~Survives(s, alive)}
            heard == {s \in gone : run.stages[s] \notin StageTerminal}
        IN  /\ ticket' = [t \in DOMAIN ticket |-> IF t \in gone THEN "failed" ELSE ticket[t]]
            /\ IF heard = {} THEN UNCHANGED <<run, first>>
               ELSE \E s \in heard : Told(s, "failed")
            /\ crow' = [s \in Stage |-> IF Survives(s, alive) THEN "left" ELSE "none"]
            /\ pending' = [pending EXCEPT !.rebind = {},
                                          !.reattach = {s \in Stage : ticket'[s] = "in_progress"}]
    /\ handler' = [s \in Stage |-> "none"]
    /\ loose' = {}
    /\ kick' = [k \in Kickoff |-> Idle]
    /\ launch' = [launch EXCEPT !.step = IF @ = "building" THEN "lost" ELSE @]
    /\ excused' = [excused EXCEPT !.unattended = {}]
    /\ UNCHANGED deps

\* reattach_crow looks at the handler and the ticket, then awaits the worktree.
ReattachBegin(s) ==
    /\ s \in pending.reattach
    /\ pending' = [pending EXCEPT !.reattach = @ \ {s},
                                  !.rebind = IF NoHandler(s) /\ ticket[s] = "in_progress"
                                             THEN @ \cup {s} ELSE @]
    /\ UNCHANGED <<ticket, deps, loose, run, launch, kick, crow, handler, spent, first, excused>>

\* The worktree is found, and the crow and its handler are registered. It may
\* raise on the way, at a crow or a handler that is registered already if nowhere
\* else; that is only logged, and the ticket stays in progress.
ReattachEnd(s) ==
    LET free == crow[s] \in {"none", "left"}
        bound == IF free THEN [crow EXCEPT ![s] = "running"] ELSE crow
        Registers(value) == /\ free /\ NoHandler(s)
                            /\ crow' = bound
                            /\ handler' = [handler EXCEPT ![s] = value]
                            /\ loose' = loose \ {s}
    IN  /\ s \in pending.rebind
        /\ pending' = [pending EXCEPT !.rebind = @ \ {s}]
        /\ \/ Registers("running") /\ UNCHANGED <<spent, excused>>
           \/ ~(free /\ NoHandler(s)) /\ crow' = bound /\ UNCHANGED <<handler, loose, spent, excused>>
           \/ /\ Fault /\ Abandon(s)
              /\ Registers("idle") \/ (crow' \in {crow, bound} /\ UNCHANGED <<handler, loose>>)
        /\ UNCHANGED <<ticket, deps, run, launch, kick, first>>

--------------------------------------------------------------------------------
LaunchStep ==
    \/ \E t \in Stage \cup {Parent} : ReconcileTicket(t)
    \/ \E s \in Stage : ReadyTicket(s)
    \/ InsertRun
KickoffStep(k) ==
    \/ \E s \in Stage : SkipTicket(k, s) \/ ReapStale(k, s) \/ Claim(k, s)
    \/ RegisterCrow(k) \/ RegistrationClashes(k) \/ CrowStarts(k) \/ HandlerStarts(k)
    \/ KickoffEnds(k)
HandlerStep(s) == SeesDone(s) \/ ChecksPass(s) \/ HandlerStops(s)
Follow(s) == Reap(s) \/ CascadeOutside(s) \/ ReattachBegin(s) \/ ReattachEnd(s)
Intervene(s) ==
    \/ Reopen(s) \/ Retry(s) \/ Carve(s) \/ ReconcilePath(s) \/ ForceStatus(s)
    \/ ResetCrow(s) \/ ReopenOutside(s) \/ RetryOutside(s)
Failure ==
    \/ LaunchFails
    \/ \E k \in Kickoff : SpawnFails(k) \/ KickoffRaises(k)
    \/ \E s \in Stage : ChecksFail(s) \/ TicksFail(s)
    \/ Restart

TicketRunsNext ==
    \/ LaunchStep
    \/ BeginKickoff
    \/ \E k \in Kickoff : KickoffStep(k)
    \/ ResetTicket
    \/ \E s \in Stage : HandlerStep(s) \/ Follow(s) \/ Intervene(s)
    \/ Failure

TicketRunsSpec == TicketRunsInit /\ [][TicketRunsNext]_vars

\* The scheduler is in mode autorun_ready; coroutines that can go on do, and a
\* crow that runs says DONE in the end.
FairTicketRuns ==
    /\ TicketRunsSpec
    /\ WF_vars(LaunchStep)
    /\ WF_vars(BeginKickoff)
    /\ WF_vars(ResetTicket)
    /\ \A k \in Kickoff : WF_vars(KickoffStep(k))
    /\ \A s \in Stage : WF_vars(HandlerStep(s)) /\ WF_vars(Follow(s))

--------------------------------------------------------------------------------
\* Tickets, run, kickoffs and agents keep their types.
TicketRunsTypeOK ==
    /\ ticket \in [Stage \cup {Parent} -> Status]
    /\ deps \in [Stage -> SUBSET (Stage \cup {Parent})]
    /\ run \in [status : {"none"} \cup RunStatus, stages : [Stage -> StageStatus]]
    /\ launch \in [step : {"building", "done", "failed", "lost"},
                   created : SUBSET (Stage \cup {Parent})]
    /\ kick \in [Kickoff -> Kicking]
    /\ crow \in [Stage -> Crow]
    /\ handler \in [Stage -> Handler]
    /\ loose \subseteq Stage
    /\ pending \in [reattach : SUBSET Stage, rebind : SUBSET Stage, cascade : SUBSET Stage]
    /\ excused \in Excuses
    /\ first \in [Stage -> {"none", "succeeded", "failed"}]

\* A run exists only with its whole tree, and a launch that failed leaves no
\* ticket that a kickoff would start, unless the user touched it or it could not
\* be deleted.
LaunchIsAllOrNothing ==
    /\ run.status # "none" => \A t \in Stage \cup {Parent} : ticket[t] # "absent"
    /\ launch.step = "failed" =>
        /\ run.status = "none"
        /\ \A s \in Stage : ticket[s] \in {"absent", "planned"} \/ s \in excused.touched

\* A run that waits has decided exactly the stages whose ticket has ended once,
\* by how it ended first: no reopened, retried, reset or forced ticket, and none
\* that its own handler or kickoff failed after it was done, changes that. And
\* the status of the run is always the one its stages imply.
FirstOutcomeDecides ==
    /\ run.status # "none" => run.status = StatusOf(run.stages)
    /\ \A s \in Stage :
        /\ run.stages[s] \in {"succeeded", "failed"} => run.stages[s] = first[s]
        /\ run.status = "waiting" /\ ticket[s] \in {"done", "failed", "archived"} =>
            run.stages[s] \in StageTerminal

\* A kickoff starts no ticket whose stage the run still blocks, however old the
\* list it works from and whatever a user did to statuses: tickets and runs agree
\* on what comes next although one looks at tickets only and the other at signals
\* only. The exception: somebody took from ticket_deps what the stage waits for,
\* of which the run hears nothing.
KickoffsFollowTheRun ==
    [][\A k \in Kickoff : \A s \in Stage \ excused.loosened :
        (kick'[k].step = "spawn" /\ kick[k].step # "spawn" /\ kick'[k].at = s
            /\ run.status = "waiting")
        => run.stages[s] # "blocked"]_vars

\* Somebody looks after a ticket that is in progress: a handler, a kickoff on its
\* way, a reset or a reattach.
Watched(s) ==
    \/ handler[s] \in {"running", "checking"}
    \/ \E k \in Kickoff : kick[k].at = s /\ kick[k].step # "reap"
    \/ s \in pending.reattach \cup pending.rebind

\* What only a reset or a restart ends: the ticket is in progress, and a handler
\* that stopped, and is still registered, was in the way of the next.
Stuck(s) == ticket[s] = "in_progress" /\ handler[s] = "stopped"

\* Every ticket in progress is watched or stuck, across restarts, kickoffs that overlap
\* and resets: its completion is never forgotten. The exceptions: a kickoff, reset
\* or reattach raised where nobody fails the ticket, or a user forced it to be in
\* progress; or touched it while the launcher was still kicking off the run.
InProgressIsWatched ==
    \A s \in Stage \ (excused.crossed \cup excused.unattended) :
        ticket[s] = "in_progress" => Watched(s) \/ Stuck(s)

\* Only the user can help: a ticket waits for an answer, a retry or its carving, or
\* for a dependency that somebody gave it, or is in progress and stuck or left alone.
NeedsUser ==
    \E s \in Stage :
        \/ ticket[s] \in {"planned", "blocked", "failed"}
        \/ ticket[s] = "ready" /\ \E d \in deps[s] \ DependsOn[s] :
                                    ticket[d] \notin {"done", "archived"}
        \/ Stuck(s)
        \/ ticket[s] = "in_progress" /\ s \in excused.crossed \cup excused.unattended

\* Every run comes to its end, or to a point where only the user can help, after
\* crashes, failed checks, kickoffs that overlapped and whatever raised.
RunsEnd == []<>(run.status # "waiting" \/ NeedsUser)
================================================================================
