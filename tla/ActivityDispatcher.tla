------------------------- MODULE ActivityDispatcher -------------------------
(***************************************************************************)
(* The activity dispatcher (murder/runtime/activity_dispatcher.py) and the *)
(* session-bound executor (murder/runtime/activity_executor.py) over the   *)
(* activity store.  A dispatcher works in ticks: it reads the clock ONCE,  *)
(* reaps, lists the runnable activities and then routes, admits, claims    *)
(* and executes them one after the other.  Each action is one transaction  *)
(* or one await of that loop; between two of them the process may crash,   *)
(* time passes and other dispatchers take their own steps.                 *)
(***************************************************************************)
EXTENDS ActivityStore

CONSTANTS
    Dispatcher,   \* dispatcher processes over one database
    WorkerId,     \* WorkerId[d]: the worker_id d claims with
    Rank,         \* Rank[a]: place of a in the tick's sort order
    TickLimit,    \* limit of a tick
    MaxRunning,   \* max_running of the admission policy
    CrashBound,   \* bound: crashes of all dispatchers together
    NoToken

ASSUME DispatcherAssumption ==
    /\ WorkerId \in [Dispatcher -> Owner]
    /\ Rank \in [Activity -> Nat]
    /\ \A a, b \in Activity : Rank[a] = Rank[b] => a = b
    /\ TickLimit \in Nat \ {0}
    /\ MaxRunning \in Nat \ {0}
    /\ CrashBound \in Nat
    /\ NoToken \notin Token

VARIABLES
    clock,        \* the wall clock
    crashes,      \* crashes so far
    proc,         \* the local variables of each dispatcher's tick
    sent          \* SendStructuredMessage operations: activity and attempt

vars == <<storeVars, clock, crashes, proc, sent>>

\* The executor's await points, in order: to renew before anything else, in
\* get_or_create of the session, in controller.execute, holding its receipt.
Executing == {"opening", "binding", "sending", "sent"}
Step == {"idle", "reaping", "listing", "next", "deciding", "admitting",
         "claiming", "starting", "finishing"} \cup Executing

Candidate == [activity : Activity, routed : BOOLEAN]

Process ==
    [step    : Step,
     now     : Time,                          \* the clock when the tick began
     todo    : SUBSET Candidate,              \* rows of the snapshot left to visit
     cur     : Activity \cup {NoActivity},    \* the activity being visited
     until   : Expiry,                        \* reservation_expires_at decided
     cap     : Capability \cup {NoRoute},     \* capability revision admitted
     claim   : Token \cup {NoToken},          \* the ActivityClaim ...
     lease   : Expiry,                        \* ... and its claim_expires_at
     beating : BOOLEAN,                       \* FALSE: the heartbeat task failed
     outcome : Outcome]                       \* what the executor returned

DispatcherTypeOK ==
    /\ clock \in Time
    /\ crashes \in 0..CrashBound
    /\ proc \in [Dispatcher -> Process]
    /\ sent \subseteq Signal

\* A dispatcher that has just been constructed: it keeps nothing of its own.
Fresh == [step |-> "idle", now |-> 0, todo |-> {}, cur |-> NoActivity, until |-> 0,
          cap |-> NoRoute, claim |-> NoToken, lease |-> 0, beating |-> TRUE,
          outcome |-> "success"]

DispatcherInit ==
    /\ StoreInit
    /\ clock = 0
    /\ crashes = 0
    /\ proc = [d \in Dispatcher |-> Fresh]
    /\ sent = {}

At(d, step) == proc[d].step = step

\* d takes a step of its own: no other process, no crash, no time passing.
Become(d, p) ==
    /\ proc' = [proc EXCEPT ![d] = p]
    /\ UNCHANGED <<clock, crashes>>

\* The same for a step that sends nothing.
Quietly(d, p) == Become(d, p) /\ UNCHANGED sent

\* Go on to the next candidate, leaving this one to a later tick or to nobody.
Leave(d) ==
    Quietly(d, [proc[d] EXCEPT !.step = "next", !.cur = NoActivity, !.cap = NoRoute,
                               !.claim = NoToken, !.until = 0, !.lease = 0,
                               !.beating = TRUE, !.outcome = "success"])

\* A transaction that raises, or finds nothing to do, changes no row.
Deferred(d) == UNCHANGED storeVars /\ Leave(d)

-----------------------------------------------------------------------------
(***************************************************************************)
(* The start of a tick                                                     *)
(***************************************************************************)

\* now = self._clock(); reap_expired_claims(now)
BeginTick(d) ==
    /\ At(d, "idle")
    /\ IF ExpiredClaims(clock) # {} THEN ReapClaims(clock) ELSE UNCHANGED storeVars
    /\ Quietly(d, [proc[d] EXCEPT !.step = "reaping", !.now = clock])

\* reap_expired_reservations(now)
TickReapReservations(d) ==
    /\ At(d, "reaping")
    /\ IF ExpiredReservations(proc[d].now) # {}
       THEN ReapReservations(proc[d].now)
       ELSE UNCHANGED storeVars
    /\ Quietly(d, [proc[d] EXCEPT !.step = "listing"])

RunnableActivities == {a \in Activity : status[a] \in Unrouted \cup {"waiting_admission"}}

\* runnable[:limit] of the sorted pending, routing and waiting rows.
Runnable ==
    {[activity |-> a, routed |-> status[a] = "waiting_admission"] :
        a \in {b \in RunnableActivities :
                 Cardinality({c \in RunnableActivities : Rank[c] < Rank[b]}) < TickLimit}}

ListRunnable(d) ==
    /\ At(d, "listing")
    /\ UNCHANGED storeVars
    /\ Quietly(d, [proc[d] EXCEPT !.step = "next", !.todo = Runnable])

\* The loop over the candidates is done; the loop task sleeps and ticks again.
EndTick(d) ==
    /\ At(d, "next")
    /\ proc[d].todo = {}
    /\ UNCHANGED storeVars
    /\ Quietly(d, Fresh)

-----------------------------------------------------------------------------
(***************************************************************************)
(* One candidate: route, admit, claim, start                               *)
(***************************************************************************)

\* x is the candidate the loop comes to next.
Visits(d, x) ==
    /\ At(d, "next")
    /\ x \in proc[d].todo
    /\ \A y \in proc[d].todo : Rank[x.activity] <= Rank[y.activity]

Visiting(d, x) ==
    [proc[d] EXCEPT !.step = "deciding", !.todo = @ \ {x}, !.cur = x.activity]

\* Listed unrouted, and the router has no route for it, or persist_route
\* raises because the row has moved on: deferred.
SkipCandidate(d, x) ==
    /\ Visits(d, x)
    /\ ~x.routed
    /\ UNCHANGED storeVars
    /\ Quietly(d, [proc[d] EXCEPT !.todo = @ \ {x}])

RouteCandidate(d, x, r) ==
    /\ Visits(d, x)
    /\ ~x.routed
    /\ PersistRoute(x.activity, r)
    /\ Quietly(d, Visiting(d, x))

TakeRouted(d, x) ==
    /\ Visits(d, x)
    /\ x.routed
    /\ UNCHANGED storeVars
    /\ Quietly(d, Visiting(d, x))

LiveActivities == {a \in Activity : status[a] \in Live}
HeldKeys == UNION {Needs[b] : b \in LiveActivities}

\* An admission policy that trusts the lock table alone.
MayAdmit_NoHeldKeys(a) == Cardinality(LiveActivities) < MaxRunning

\* decide_admission over the claimed and running rows.  Its Rejected branch
\* needs an activity without a route, and every candidate has one by now.
MayAdmit(a) ==
    /\ Cardinality(LiveActivities) < MaxRunning
    /\ Needs[a] \cap HeldKeys = {}

\* admission(activity): a decision at the real time.  A waiting decision
\* leaves the row as it is.
DecideAdmission(d) ==
    /\ At(d, "deciding")
    /\ \/ /\ MayAdmit(proc[d].cur)
          /\ UNCHANGED storeVars
          /\ Quietly(d, [proc[d] EXCEPT !.step = "admitting", !.until = clock + Reserve])
       \/ ~MayAdmit(proc[d].cur) /\ Deferred(d)

\* persist_admission(now), or the row has moved on or another holds a lock.
PersistAdmission(d) ==
    LET a == proc[d].cur
        t == proc[d].now
    IN  /\ At(d, "admitting")
        /\ \/ /\ Admit(a, proc[d].until, t)
              /\ Quietly(d, [proc[d] EXCEPT !.step = "claiming", !.cap = route[a]])
           \/ ~Admissible(a, t) /\ Deferred(d)

\* claim_activity(now)
ClaimCurrent(d) ==
    LET a == proc[d].cur
        w == WorkerId[d]
        t == proc[d].now
    IN  /\ At(d, "claiming")
        /\ \/ /\ Claim(a, w, proc[d].cap, t)
              /\ Quietly(d, [proc[d] EXCEPT !.step = "starting", !.lease = t + Lease,
                                            !.claim = FreshToken(a, w)])
           \/ ~Claimable(a, proc[d].cap, t) /\ Deferred(d)

\* start_activity(now); then the heartbeat task and the executor begin.
StartCurrent(d) ==
    LET c == proc[d].claim
        t == proc[d].now
    IN  /\ At(d, "starting")
        /\ \/ /\ Start(c, t)
              /\ Quietly(d, [proc[d] EXCEPT !.step = "opening"])
           \/ ~Startable(c, t) /\ Deferred(d)

-----------------------------------------------------------------------------
(***************************************************************************)
(* The executor                                                            *)
(***************************************************************************)

\* renew(), at the real time: the claim object gets the new expiry.
RenewAndGoTo(d, step, o) ==
    /\ Renew(proc[d].claim, clock)
    /\ Quietly(d, [proc[d] EXCEPT !.step = step, !.lease = clock + Lease, !.outcome = o])

\* The kind of activity is unsupported, or no session was selected.
ReturnFailure(d) ==
    /\ At(d, "opening")
    /\ \E o \in {"failure", "retryable"} : RenewAndGoTo(d, "finishing", o)

OpenSession(d) == At(d, "opening") /\ RenewAndGoTo(d, "binding", "success")

\* The session controller is there: renew, then start the send.
BeginSend(d) == At(d, "binding") /\ RenewAndGoTo(d, "sending", "success")

Message(d) == [activity |-> proc[d].claim.activity, attempt |-> proc[d].claim.attempt]

\* An executor that reports the turn before the harness has it.
Deliver_Unsent(d) ==
    /\ At(d, "sending")
    /\ UNCHANGED storeVars
    /\ Quietly(d, [proc[d] EXCEPT !.step = "sent"])

\* controller.execute hands the message to the harness and returns a receipt.
Deliver(d) ==
    /\ At(d, "sending")
    /\ sent' = sent \cup {Message(d)}
    /\ UNCHANGED storeVars
    /\ Become(d, [proc[d] EXCEPT !.step = "sent"])

ReturnSuccess(d) == At(d, "sent") /\ RenewAndGoTo(d, "finishing", "success")

\* retryable=claim.attempt < activity.max_attempts
ExceptionOutcome(c) ==
    IF c.attempt < MaxAttempts[c.activity] THEN "retryable" ELSE "failure"

\* renew() raises because the claim is lost, get_or_create raises, or execute
\* raises, which may be after the harness got the message.
RaiseInExecutor(d) ==
    /\ \/ /\ proc[d].step \in {"opening", "binding", "sent"}
          /\ ~Renewable(proc[d].claim, clock)
          /\ UNCHANGED sent
       \/ At(d, "binding") /\ UNCHANGED sent
       \/ At(d, "sending") /\ sent' \in {sent, sent \cup {Message(d)}}
    /\ UNCHANGED storeVars
    /\ Become(d, [proc[d] EXCEPT !.step = "finishing",
                                 !.outcome = ExceptionOutcome(proc[d].claim)])

\* The heartbeat task wakes while the executor awaits.  A renewal that raises
\* ends the task.
Heartbeat(d) ==
    /\ proc[d].step \in {"binding", "sending"}
    /\ proc[d].beating
    /\ \/ /\ Renew(proc[d].claim, clock)
          /\ Quietly(d, [proc[d] EXCEPT !.lease = clock + Lease])
       \/ /\ ~Renewable(proc[d].claim, clock)
          /\ UNCHANGED storeVars
          /\ Quietly(d, [proc[d] EXCEPT !.beating = FALSE])

\* complete_activity at the real time.  Awaiting a heartbeat that failed
\* raises first, and so does completing a claim that was lost: deferred.
FinishCurrent(d) ==
    LET p == proc[d]
    IN  /\ At(d, "finishing")
        /\ \/ p.beating /\ Complete(p.claim, p.outcome, clock) /\ Leave(d)
           \/ ~(p.beating /\ Completable(p.claim, clock)) /\ Deferred(d)

-----------------------------------------------------------------------------
(***************************************************************************)
(* The world around the dispatchers                                        *)
(***************************************************************************)

\* The daemon dies or is stopped, and starts again with nothing.  A model
\* clock that stands still would make a lost lease last for ever, so the last
\* crash leaves time for what it held to run out.
Crash(d) ==
    /\ crashes < CrashBound
    /\ ~At(d, "idle")
    /\ clock + Lease + Reserve <= MaxTime
    /\ crashes' = crashes + 1
    /\ proc' = [proc EXCEPT ![d] = Fresh]
    /\ UNCHANGED <<storeVars, clock, sent>>

PassTime ==
    /\ clock < MaxTime
    /\ clock' = clock + 1
    /\ UNCHANGED <<storeVars, crashes, proc, sent>>

\* A transition of the owning workflow commits the activity request.
RequestActivity(a) == InsertActivity(a) /\ UNCHANGED <<clock, crashes, proc, sent>>

\* A step of the tick's own code.
Proceed(d) ==
    \/ BeginTick(d) \/ TickReapReservations(d) \/ ListRunnable(d) \/ EndTick(d)
    \/ \E x \in proc[d].todo :
          \/ SkipCandidate(d, x)
          \/ TakeRouted(d, x)
          \/ \E r \in Capability : RouteCandidate(d, x, r)
    \/ DecideAdmission(d) \/ PersistAdmission(d) \/ ClaimCurrent(d) \/ StartCurrent(d)
    \/ ReturnFailure(d) \/ OpenSession(d) \/ BeginSend(d) \/ Deliver(d) \/ ReturnSuccess(d)
    \/ RaiseInExecutor(d) \/ FinishCurrent(d)

DispatcherNext ==
    \/ \E d \in Dispatcher : Proceed(d) \/ Heartbeat(d) \/ Crash(d)
    \/ \E a \in Activity : RequestActivity(a)
    \/ PassTime

\* Some routing of a by d.
Routes(d, a) ==
    \E x \in proc[d].todo, r \in Capability : x.activity = a /\ RouteCandidate(d, x, r)

\* The dispatcher loop never stops ticking and its awaits return, time
\* passes, and a router that is asked again and again finds a route.
Fairness ==
    /\ \A d \in Dispatcher : WF_vars(Proceed(d))
    /\ \A d \in Dispatcher, a \in Activity : SF_vars(Routes(d, a))
    /\ WF_vars(PassTime)

DispatcherSpec == DispatcherInit /\ [][DispatcherNext]_vars
FairDispatcherSpec == DispatcherSpec /\ Fairness

-----------------------------------------------------------------------------
(***************************************************************************)
(* What the dispatcher guarantees                                          *)
(***************************************************************************)

\* A claim object whose own expiry lies in the future is the row's current
\* claim: nobody, however stale the time of its tick, has taken the activity
\* over, so no two dispatchers hold unexpired claims on one activity.
UnexpiredClaimIsCurrent ==
    \A d \in Dispatcher :
        proc[d].claim # NoToken /\ proc[d].lease > clock =>
            /\ status[proc[d].claim.activity] \in Live
            /\ Holds(proc[d].claim, clock)

\* The workflow is told of a success only if the turn was delivered in that
\* very attempt, never because an earlier attempt got through.
SuccessWasDelivered ==
    \A s \in signals : status[s.activity] = "succeeded" => s \in sent

\* Activities that need a common resource are never claimed or running
\* together, although a reservation and its locks run out long before an
\* execution has to end.  (For one dispatcher.)
LiveActivitiesShareNoKey ==
    \A a, b \in LiveActivities : a # b => Needs[a] \cap Needs[b] = {}

\* Every requested activity reaches a terminal status: no crash, lost lease,
\* expired reservation or stale tick leaves it stuck.
EventuallyTerminal ==
    \A a \in Activity : status[a] # "absent" ~> status[a] \in Terminal
=============================================================================
