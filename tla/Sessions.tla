-------------------------------- MODULE Sessions --------------------------------
(***************************************************************************)
(* One harness session: its row and its writer leases                      *)
(* (murder/runtime/sessions/persistence.py), the controllers whose mailbox *)
(* serializes what is done to it (controller.py), the registry that keeps  *)
(* one controller (registry.py), the registration that creates or revives  *)
(* the session (service.py) and the reconciliation at the start of the     *)
(* service (app/service/recovery.py).                                      *)
(*                                                                         *)
(* A mailbox is a number of waiting items: nothing is checked before an    *)
(* item is dequeued, so what it asks for is chosen there.                  *)
(***************************************************************************)
EXTENDS Integers, Sequences, FiniteSets

CONSTANTS
    Principal,
    Forcer,            \* principals whose force takeover is authorized
    Ttl,               \* how long a lease lasts
    Controller,        \* bound: the controllers, in the order they are created
    MaxClock,          \* bound: the wall clock
    SetBackBound,      \* bound: how often the wall clock is set back
    RequestBound,      \* bound: items put into mailboxes
    RegistrationBound, \* bound: registrations
    CrashBound         \* bound: crashes of the service

ASSUME SessionsAssumption ==
    /\ Forcer \subseteq Principal
    /\ Ttl \in Nat \ {0}
    /\ MaxClock \in Nat
    /\ Controller \subseteq Nat \ {0}

VARIABLES
    clock,       \* the wall clock
    session,     \* the row: status and revision
    leases,      \* writer_leases, by lease id
    lastFence,   \* session_writer_fences.last_fence
    live,        \* does the tmux session exist?
    ctrl,        \* the controllers
    current,     \* the registered controller, 0 if there is none
    registering, \* the step of ensure_persisted_tmux_session
    removing,    \* the controller that it waits for, 0 if there is none
    leaving,     \* controllers whose termination the driver has yet to follow up
    counts,      \* set backs, requests, registrations, crashes so far
    stopped      \* history: the newest fence when the resource was last
                 \* terminated, whether it was registered again since, and the
                 \* controllers whose termination a registration overtook

store == <<session, leases, lastFence>>
registry == <<current, registering, removing, leaving>>
vars == <<clock, store, live, ctrl, registry, counts, stopped>>

Mode == {"raw", "structured"}
Active == {"ready", "working"}
Terminal == {"stopped", "failed", "lost"}
Status == Active \cup {"stopping"} \cup Terminal

\* What a controller is doing, with the record it read when it began.
NoWork == [op |-> "none", fence |-> 0, revision |-> 0, status |-> "ready"]
Effects == {"input", "message", "control"}
Op == Effects \cup {"none", "terminate"}

\* A controller that was not created yet.
Unused == [phase |-> "unused", queued |-> 0, work |-> NoWork]

Counted == {"back", "request", "registration", "crash"}
Lease == [holder : Principal, mode : Mode, fence : Nat, expires : Nat, revoked : BOOLEAN]
Effect == [op : Op, fence : Nat, revision : Nat, status : Status]
Mailbox == [phase : {"unused", "open", "closing", "closed"}, queued : Nat, work : Effect]

SessionsTypeOK ==
    /\ clock \in 0..MaxClock
    /\ session \in [status : Status, revision : Nat]
    /\ leases \in Seq(Lease)
    /\ lastFence \in Nat
    /\ live \in BOOLEAN
    /\ ctrl \in [Controller -> Mailbox]
    /\ current \in Controller \cup {0}
    /\ registering \in {"idle", "resource", "removing", "creating"}
    /\ removing \in Controller \cup {0}
    /\ leaving \subseteq Controller
    /\ counts \in [Counted -> Nat]
    /\ stopped \in [fence : Nat, again : BOOLEAN, overtaken : SUBSET Controller]

\* A session that was just registered, without a controller yet.
SessionsInit ==
    /\ clock = 0
    /\ session = [status |-> "ready", revision |-> 0]
    /\ leases = <<>>
    /\ lastFence = 0
    /\ live = TRUE
    /\ ctrl = [c \in Controller |-> Unused]
    /\ current = 0
    /\ registering = "idle"
    /\ removing = 0
    /\ leaving = {}
    /\ counts = [n \in Counted |-> 0]
    /\ stopped = [fence |-> 0, again |-> TRUE, overtaken |-> {}]

-----------------------------------------------------------------------------
(***************************************************************************)
(* Leases                                                                  *)
(***************************************************************************)

Unrevoked(i) == ~ leases[i].revoked /\ leases[i].expires > clock

\* _active_lease_row: of the leases that are neither revoked nor expired the one
\* with the highest fence.
ActiveLease ==
    {i \in DOMAIN leases :
        /\ Unrevoked(i)
        /\ \A j \in DOMAIN leases : Unrevoked(j) => leases[j].fence <= leases[i].fence}

\* Mutant: whoever is not revoked and not expired may write.
ValidLease_NoFence(i) == Unrevoked(i)

\* validate_writer_lease
ValidLease(i) ==
    /\ Unrevoked(i)
    /\ leases[i].fence = lastFence

Revoked(lease) == [lease EXCEPT !.revoked = TRUE]

\* Mutant: a termination leaves the leases alone.
RevokeAll_None == leases
RevokeAll == [i \in DOMAIN leases |-> Revoked(leases[i])]

-----------------------------------------------------------------------------
(***************************************************************************)
(* The mailbox                                                             *)
(***************************************************************************)

Count(n) == counts' = [counts EXCEPT ![n] = @ + 1]

\* SessionController.execute and its siblings refuse only when it is closed.
Enqueue(c) ==
    /\ ctrl[c].phase = "open"
    /\ counts["request"] < RequestBound
    /\ ctrl' = [ctrl EXCEPT ![c].queued = @ + 1]
    /\ Count("request")
    /\ UNCHANGED <<clock, store, live, registry, stopped>>

\* Mutant: lease requests do not wait for the effect that is under way.
Dequeues_Busy(c) ==
    /\ ctrl[c].queued > 0
    /\ ctrl' = [ctrl EXCEPT ![c].queued = @ - 1]

\* One worker takes one item at a time, also after close: what was queued
\* before the stop marker is still executed.
Dequeues(c) ==
    /\ ctrl[c].work = NoWork
    /\ ctrl[c].queued > 0
    /\ ctrl' = [ctrl EXCEPT ![c].queued = @ - 1]

\* The worker takes an item and goes on to the backend.
Begins(c, op, fence, record) ==
    /\ ctrl[c].work = NoWork
    /\ ctrl[c].queued > 0
    /\ ctrl' = [ctrl EXCEPT ![c] =
                   [phase |-> @.phase, queued |-> @.queued - 1,
                    work |-> [op |-> op, fence |-> fence,
                              revision |-> record.revision, status |-> record.status]]]

Elsewhere == UNCHANGED <<clock, live, registry, counts, stopped>>

\* A stale revision, a missing capability, a lease or a permission the caller
\* does not have, or a request that is denied.
Refuse(c) ==
    /\ Dequeues(c)
    /\ Elsewhere
    /\ UNCHANGED store

\* acquire_writer_lease.  The status of the session is not looked at.
Acquire(c, p, mode, force) ==
    /\ Dequeues(c)
    /\ Elsewhere
    /\ IF force THEN p \in Forcer ELSE ActiveLease = {}
    /\ lastFence' = lastFence + 1
    /\ leases' = Append([i \in DOMAIN leases |->
                            IF i \in ActiveLease THEN Revoked(leases[i]) ELSE leases[i]],
                        [holder |-> p, mode |-> mode, fence |-> lastFence + 1,
                         expires |-> clock + Ttl, revoked |-> FALSE])
    /\ UNCHANGED session

\* Mutant: an expired or revoked lease is brought back.
Renew_Any(c, i) ==
    /\ Dequeues(c)
    /\ Elsewhere
    /\ leases' = [leases EXCEPT ![i].expires = clock + Ttl, ![i].revoked = FALSE]
    /\ UNCHANGED <<session, lastFence>>

\* renew_writer_lease, by its holder.
Renew(c, i) ==
    /\ Dequeues(c)
    /\ Elsewhere
    /\ Unrevoked(i)
    /\ leases' = [leases EXCEPT ![i].expires = clock + Ttl]
    /\ UNCHANGED <<session, lastFence>>

\* release_writer_lease, by its holder.
Release(c, i) ==
    /\ Dequeues(c)
    /\ Elsewhere
    /\ ~ leases[i].revoked
    /\ leases' = [leases EXCEPT ![i] = Revoked(@)]
    /\ UNCHANGED <<session, lastFence>>

Saved(status, revision) == session' = [status |-> status, revision |-> revision]

\* SessionController.observe
Observe(c, status) ==
    /\ Dequeues(c)
    /\ Elsewhere
    /\ session.status \in Active
    /\ Saved(status, session.revision + 1)
    /\ UNCHANGED <<leases, lastFence>>

\* A raw write needs the lease that it names; nothing is awaited between the
\* check and the backend.
BeginInput(c, i) ==
    /\ Begins(c, "input", leases[i].fence, session)
    /\ Elsewhere
    /\ session.status \in Active
    /\ ValidLease(i)
    /\ leases[i].mode = "raw"
    /\ UNCHANGED store

\* A structured message, and an internal effect: no writer but the caller.
BeginMessage(c, p) ==
    /\ Begins(c, "message", lastFence, session)
    /\ Elsewhere
    /\ session.status \in Active
    /\ \A i \in ActiveLease : leases[i].mode = "structured" /\ leases[i].holder = p
    /\ UNCHANGED store

\* Resize and interrupt look at no lease.
BeginControl(c) ==
    /\ Begins(c, "control", lastFence, session)
    /\ Elsewhere
    /\ session.status \in Active
    /\ UNCHANGED store

\* The effect reached the backend; then the row is saved unless its revision
\* moved meanwhile.
FinishEffect(c) ==
    LET work == ctrl[c].work IN
    /\ work.op \in Effects
    /\ ctrl' = [ctrl EXCEPT ![c].work = NoWork]
    /\ IF session.revision = work.revision
       THEN Saved(IF work.op = "message" THEN "working" ELSE work.status, work.revision + 1)
       ELSE UNCHANGED session
    /\ UNCHANGED <<leases, lastFence>>
    /\ Elsewhere

\* The backend raised; nothing is saved.
FailEffect(c) ==
    /\ ctrl[c].work.op \in Effects
    /\ ctrl' = [ctrl EXCEPT ![c].work = NoWork]
    /\ UNCHANGED store
    /\ Elsewhere

\* The row is saved as stopping before the backend is asked.
BeginTerminate(c) ==
    /\ session.status \in Active
    /\ Saved("stopping", session.revision + 1)
    /\ Begins(c, "terminate", lastFence, session')
    /\ UNCHANGED <<leases, lastFence>>
    /\ Elsewhere

\* save_terminal_session: the leases are revoked and the row is saved in one
\* transaction, or neither because the revision moved.
SaveTerminal(status, revision) ==
    IF session.revision = revision
    THEN /\ Saved(status, revision + 1)
         /\ leases' = RevokeAll
         /\ UNCHANGED lastFence
    ELSE UNCHANGED store

\* The resource is gone, unless a registration has overtaken the termination.
Stopped(c) ==
    stopped' = IF c \in stopped.overtaken
               THEN [stopped EXCEPT !.overtaken = @ \ {c}]
               ELSE [stopped EXCEPT !.fence = lastFence, !.again = FALSE]

\* Mutant: the outcome is not saved when the pane is gone.
FinishTerminate_Unsaved(c) ==
    /\ ctrl[c].work.op = "terminate"
    /\ ctrl' = [ctrl EXCEPT ![c].work = NoWork]
    /\ live' = FALSE
    /\ Stopped(c)
    /\ leaving' = leaving \cup {c}
    /\ Saved("ready", session.revision + 1)
    /\ UNCHANGED <<leases, lastFence>>
    /\ UNCHANGED <<clock, current, registering, removing, counts>>

FinishTerminate(c) ==
    /\ ctrl[c].work.op = "terminate"
    /\ ctrl' = [ctrl EXCEPT ![c].work = NoWork]
    /\ live' = FALSE
    /\ Stopped(c)
    /\ leaving' = leaving \cup {c}
    /\ SaveTerminal("stopped", ctrl[c].work.revision)
    /\ UNCHANGED <<clock, current, registering, removing, counts>>

FailTerminate(c) ==
    /\ ctrl[c].work.op = "terminate"
    /\ ctrl' = [ctrl EXCEPT ![c].work = NoWork]
    /\ stopped' = [stopped EXCEPT !.overtaken = @ \ {c}]
    /\ SaveTerminal("failed", ctrl[c].work.revision)
    /\ UNCHANGED <<clock, live, registry, counts>>

\* The worker meets the stop marker.
EndWorker(c) ==
    /\ ctrl[c].phase = "closing"
    /\ ctrl[c].queued = 0
    /\ ctrl[c].work = NoWork
    /\ ctrl' = [ctrl EXCEPT ![c].phase = "closed"]
    /\ UNCHANGED <<clock, store, live, registry, counts, stopped>>

-----------------------------------------------------------------------------
(***************************************************************************)
(* The registry and the registration                                       *)
(***************************************************************************)

\* SessionControllerRegistry.get_or_create, by a handler or by the registration.
Opens(c) ==
    /\ current = 0
    /\ ctrl[c].phase = "unused"
    /\ \A d \in Controller : ctrl[d].phase = "unused" => c <= d
    /\ current' = c
    /\ ctrl' = [ctrl EXCEPT ![c].phase = "open"]

OpenController(c) ==
    /\ Opens(c)
    /\ UNCHANGED <<clock, store, live, registering, removing, leaving, counts, stopped>>

\* SessionControllerRegistry.remove: whichever controller is registered is popped,
\* and closed.
Pops ==
    /\ ctrl' = [c \in Controller |->
                   IF c = current THEN [ctrl[c] EXCEPT !.phase = "closing"] ELSE ctrl[c]]
    /\ current' = 0

\* remove_session_controller: the driver that asked for the termination removes
\* the controller of the session, which need not be the one it asked.
LeaveRegistry(c) ==
    /\ c \in leaving
    /\ leaving' = leaving \ {c}
    /\ Pops
    /\ UNCHANGED <<clock, store, live, registering, removing, counts, stopped>>

\* DocumentEditorService.start and its likes: the resource exists, or is created.
EnsureResource ==
    /\ registering = "idle"
    /\ counts["registration"] < RegistrationBound
    /\ live' = TRUE
    /\ registering' = "resource"
    /\ Count("registration")
    /\ UNCHANGED <<clock, store, ctrl, current, removing, leaving, stopped>>

Terminates(c) == ctrl[c].work.op = "terminate"

\* persist_or_revive_tmux_session, also while a termination awaits the backend; then
\* the controller of before is popped, closed, and waited for.
Revive ==
    /\ registering = "resource"
    /\ session.status \notin Active
    /\ Saved("ready", session.revision + 1)
    /\ Pops
    /\ removing' = current
    /\ registering' = "removing"
    /\ stopped' = [stopped EXCEPT !.again = TRUE, !.overtaken = {c \in Controller : Terminates(c)}]
    /\ UNCHANGED <<clock, leases, lastFence, live, leaving, counts>>

FindLive ==
    /\ registering = "resource"
    /\ session.status \in Active
    /\ registering' = "creating"
    /\ UNCHANGED <<clock, store, live, ctrl, current, removing, leaving, counts, stopped>>

\* Mutant: waits until the session has no controller at all.
Removed_None ==
    /\ registering = "removing"
    /\ \A c \in Controller : ctrl[c].phase \notin {"closing", "open"}
    /\ registering' = "creating"
    /\ removing' = 0
    /\ UNCHANGED <<clock, store, live, ctrl, current, leaving, counts, stopped>>

Removed ==
    /\ registering = "removing"
    /\ \A c \in Controller : c = removing => ctrl[c].phase # "closing"
    /\ registering' = "creating"
    /\ removing' = 0
    /\ UNCHANGED <<clock, store, live, ctrl, current, leaving, counts, stopped>>

Registered ==
    /\ registering = "creating"
    /\ registering' = "idle"
    /\ \/ current # 0 /\ UNCHANGED <<ctrl, current>>
       \/ \E c \in Controller : Opens(c)
    /\ UNCHANGED <<clock, store, live, removing, leaving, counts, stopped>>

-----------------------------------------------------------------------------
(***************************************************************************)
(* The environment                                                         *)
(***************************************************************************)

\* The process in the pane ends by itself.
ResourceDies ==
    /\ live
    /\ live' = FALSE
    /\ UNCHANGED <<clock, store, ctrl, registry, counts, stopped>>

\* The service dies and comes up again: a termination under way may have reached
\* the pane, and what has no pane any more is marked lost before anything else.
Restart ==
    /\ counts["crash"] < CrashBound
    /\ Count("crash")
    /\ \/ /\ live' = live
          /\ stopped' = [stopped EXCEPT !.overtaken = {}]
       \/ \E c \in Controller :
            /\ Terminates(c)
            /\ live' = FALSE
            /\ stopped' = IF c \in stopped.overtaken THEN [stopped EXCEPT !.overtaken = {}]
                          ELSE [fence |-> lastFence, again |-> FALSE, overtaken |-> {}]
    /\ ctrl' = [c \in Controller |->
                   IF ctrl[c].phase = "unused" THEN ctrl[c] ELSE [Unused EXCEPT !.phase = "closed"]]
    /\ current' = 0
    /\ registering' = "idle"
    /\ removing' = 0
    /\ leaving' = {}
    /\ IF session.status \notin Terminal /\ ~ live'
       THEN SaveTerminal("lost", session.revision)
       ELSE UNCHANGED store
    /\ UNCHANGED clock

TimePasses ==
    /\ clock < MaxClock
    /\ clock' = clock + 1
    /\ UNCHANGED <<store, live, ctrl, registry, counts, stopped>>

ClockSetBack ==
    /\ clock > 0
    /\ counts["back"] < SetBackBound
    /\ clock' = clock - 1
    /\ Count("back")
    /\ UNCHANGED <<store, live, ctrl, registry, stopped>>

LeaseStep(c) ==
    \/ \E p \in Principal, mode \in Mode, force \in BOOLEAN : Acquire(c, p, mode, force)
    \/ \E i \in DOMAIN leases : Renew(c, i) \/ Release(c, i)

CommandStep(c) ==
    \/ Refuse(c)
    \/ \E status \in Active : Observe(c, status)
    \/ \E i \in DOMAIN leases : BeginInput(c, i)
    \/ \E p \in Principal : BeginMessage(c, p)
    \/ BeginControl(c)
    \/ BeginTerminate(c)

EffectStep(c) ==
    FinishEffect(c) \/ FailEffect(c) \/ FinishTerminate(c) \/ FailTerminate(c)

Work(c) == LeaseStep(c) \/ CommandStep(c) \/ EffectStep(c) \/ EndWorker(c)

Registration == EnsureResource \/ Revive \/ FindLive \/ Removed \/ Registered

Next ==
    \/ \E c \in Controller : Enqueue(c) \/ Work(c) \/ OpenController(c) \/ LeaveRegistry(c)
    \/ Registration
    \/ ResourceDies
    \/ Restart
    \/ TimePasses
    \/ ClockSetBack

Spec == SessionsInit /\ [][Next]_vars

\* The event loop runs every worker and the registration; backends return.
FairSpec ==
    /\ Spec
    /\ \A c \in Controller : WF_vars(Work(c))
    /\ WF_vars(Revive \/ FindLive \/ Removed \/ Registered)

-----------------------------------------------------------------------------
(***************************************************************************)
(* Properties                                                              *)
(***************************************************************************)

\* At most one lease is accepted for writing, even when the wall clock was set
\* back and a lease that had expired counts again.
OneWriter ==
    \A i, j \in DOMAIN leases : ValidLease(i) /\ ValidLease(j) => i = j

\* The leases are the turns of WriterTurn.
Newest == {i \in DOMAIN leases : leases[i].fence = lastFence}

Holders == [i \in DOMAIN leases |-> leases[i].holder]

Became ==
    CASE \A i \in Newest : leases[i].revoked     -> "withdrawn"
      [] \E i \in Newest : ValidLease(i)          -> "writing"
      [] OTHER                                    -> "lapsed"

Turn == INSTANCE WriterTurn WITH holders <- Holders, turn <- Became

\* A writer is never replaced but by a newer turn, and a lease that was released,
\* taken over or revoked by a termination never writes again.
ImplementsWriterTurn == Turn!TurnSpec

\* A controller that was taken from the registry executes what was queued beside
\* the one that follows it.
Draining == \E d \in Controller : "closing" \in {ctrl[d].phase, ctrl'[d].phase}

\* No lease is granted between the check of an input and its delivery: a force
\* takeover cannot race a physically blocked write, whatever is registered or
\* terminated, as long as every controller that was removed has drained its mailbox.
TakeoversWait ==
    [][\A c \in Controller :
          ctrl[c].work.op \in {"input", "message"} /\ lastFence' # lastFence => Draining]_vars

\* What reaches the pane is recorded: the revision that the end of an effect will be
\* compared with does not move under it, with the same exception. A registration
\* that finds the session live disturbs nothing.
EffectsRecorded ==
    [][\A c \in Controller :
          (/\ ctrl[c].work.op \in Effects
           /\ ctrl'[c].work = ctrl[c].work
           /\ session'.revision # session.revision) => Draining]_vars

\* Whoever was a writer when the pane was terminated writes nothing into the
\* session that is registered after it; the exception is a termination that a
\* registration overtook, whose outcome is lost.
StoppedWritersStayOut ==
    [][\A c \in Controller :
          (ctrl[c].work.op # "input" /\ ctrl'[c].work.op = "input") =>
             ctrl'[c].work.fence > stopped.fence]_vars

\* A session whose pane was terminated is not shown as ready or working until it
\* is registered again, with the same exception.
TerminationsShow ==
    session.status \in Active => stopped.again

\* "Fence off every outstanding writer when a session stops or is lost": when a
\* termination has ended the pane, every lease is revoked.
TerminationsFenceOff ==
    [][\A c \in Controller :
          (Terminates(c) /\ ~ ctrl'[c].work.op = "terminate" /\ ~ live' /\ counts' = counts) =>
             \A i \in DOMAIN leases' : leases'[i].revoked]_vars

\* "One serialized mailbox for every mutation of a live harness session": no two
\* controllers of the session are busy at a time.
OneMailbox ==
    \A c, d \in Controller : ctrl[c].work # NoWork /\ ctrl[d].work # NoWork => c = d

\* A registration under way comes to an end, whatever the controller that it
\* removes is still busy with.
RegistrationsEnd == (registering # "idle") ~> (registering = "idle")
=============================================================================
