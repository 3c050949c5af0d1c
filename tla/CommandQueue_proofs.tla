-------------------------- MODULE CommandQueue_proofs --------------------------
(***************************************************************************)
(* Proofs about CommandQueue.tla for every set of commands and all bounds. *)
(***************************************************************************)
EXTENDS TLAPS, CommandQueue

\* A command that waits has an attempt left, and one that must not be retried
\* has had none: claim_next_command takes only what waits.
ClaimsAreBudgeted ==
    \A c \in Command :
        /\ status[c] = "absent" => attempts[c] = 0
        /\ status[c] = "pending" => /\ attempts[c] < MaxAttempts
                                    /\ c \notin Retryable => attempts[c] = 0
        /\ c \notin Retryable => attempts[c] <= 1

\* A claim counts an attempt that no other claim has counted: what is queued is
\* there once and was not started.
ClaimsAreDistinct ==
    /\ \A d \in started : d.attempt <= attempts[d.command]
    /\ \A i \in 1..Len(queue) :
          /\ queue[i].attempt <= attempts[queue[i].command]
          /\ queue[i] \notin started
    /\ \A i, j \in 1..Len(queue) : queue[i] = queue[j] => i = j

QueueInv == QueueTypeOK /\ ClaimsAreBudgeted /\ ClaimsAreDistinct

-----------------------------------------------------------------------------
\* What the assumptions say of the numbers.
LEMMA Bounds ==
    /\ MaxAttempts \in Nat /\ 0 < MaxAttempts
    /\ LeaseTtl \in Nat /\ 0 < LeaseTtl /\ LeaseTtl \in 0..LeaseTtl
  BY QueueAssumption

\* The first of the queue and the rest of it are claimed commands, and the
\* rest keeps their order.
LEMMA TailOfDispatches ==
    ASSUME NEW q \in Seq(Dispatch), q # <<>>
    PROVE  /\ Head(q) \in Dispatch /\ Head(q) = q[1] /\ Len(q) \in Nat \ {0}
           /\ Tail(q) \in Seq(Dispatch) /\ Len(Tail(q)) = Len(q) - 1
           /\ \A i \in 1..Len(Tail(q)) : Tail(q)[i] = q[i + 1]
  OBVIOUS

\* A claimed command that joins the queue becomes its last.
LEMMA AppendOfDispatch ==
    ASSUME NEW q \in Seq(Dispatch), NEW d \in Dispatch
    PROVE  /\ Append(q, d) \in Seq(Dispatch) /\ Len(Append(q, d)) = Len(q) + 1
           /\ Len(q) \in Nat
           /\ \A i \in 1..Len(q) : Append(q, d)[i] = q[i] /\ q[i] \in Dispatch
           /\ Append(q, d)[Len(q) + 1] = d
  OBVIOUS

LEMMA QueueInvInit == QueueInit => QueueInv
<1> SUFFICES ASSUME QueueInit PROVE QueueInv
  OBVIOUS
<1>1. QueueTypeOK
  <2>1. queue \in Seq(Dispatch)
    <3>1. <<>> \in Seq(Dispatch)
      OBVIOUS
    <3> QED BY <3>1 DEF QueueInit
  <2>2. 0 \in 0..LeaseTtl /\ 0 \in 0..MaxAttempts
    BY Bounds
  <2>3. lease \in [Command -> 0..LeaseTtl] /\ attempts \in [Command -> 0..MaxAttempts]
    BY <2>2 DEF QueueInit
  <2> QED BY <2>1, <2>3 DEF QueueInit, QueueTypeOK
<1>2. ClaimsAreBudgeted
  <2>1. \A c \in Command : attempts[c] = 0
    BY DEF QueueInit
  <2> QED BY <2>1, Bounds DEF ClaimsAreBudgeted
<1>3. ClaimsAreDistinct
  <2>1. Len(queue) = 0
    BY DEF QueueInit
  <2> QED BY <2>1 DEF QueueInit, ClaimsAreDistinct
<1> QED BY <1>1, <1>2, <1>3 DEF QueueInv

\* A step that claims and starts nothing keeps the distinctness of claims.
LEMMA DistinctUnchanged ==
    ClaimsAreDistinct /\ UNCHANGED <<attempts, queue, started>> => ClaimsAreDistinct'
  BY DEF ClaimsAreDistinct

\* So does one that empties the queue.
LEMMA DistinctEmptied ==
    ClaimsAreDistinct /\ UNCHANGED <<attempts, started>> /\ queue' = <<>> => ClaimsAreDistinct'
  BY DEF ClaimsAreDistinct

\* A step that neither makes a command wait nor counts an attempt keeps budgets.
LEMMA BudgetUnchanged ==
    ASSUME ClaimsAreBudgeted, UNCHANGED attempts,
           \A c \in Command : status'[c] \in {"absent", "pending"} => status'[c] = status[c]
    PROVE  ClaimsAreBudgeted'
  BY DEF ClaimsAreBudgeted

LEMMA ClaimKeepsInv ==
    ASSUME QueueInv, NEW c \in Command, Claim(c)
    PROVE  QueueInv'
<1> USE Bounds
<1> DEFINE d == [command |-> c, attempt |-> attempts[c] + 1]
<1>1. /\ attempts[c] \in Nat /\ attempts[c] < MaxAttempts
      /\ c \notin Retryable => attempts[c] = 0
  <2>1. attempts[c] \in 0..MaxAttempts
    BY DEF QueueInv, QueueTypeOK
  <2>2. status[c] = "pending"
    BY DEF Claim
  <2> QED BY <2>1, <2>2 DEF QueueInv, ClaimsAreBudgeted
<1>2. d \in Dispatch
  BY <1>1 DEF Dispatch
<1>3. QueueTypeOK'
  <2>1. queue' \in Seq(Dispatch)
    BY <1>2, AppendOfDispatch DEF QueueInv, QueueTypeOK, Claim, reaperVars
  <2>2. attempts' \in [Command -> 0..MaxAttempts]
    <3>1. attempts \in [Command -> 0..MaxAttempts] /\ attempts' = [attempts EXCEPT ![c] = @ + 1]
      BY DEF QueueInv, QueueTypeOK, Claim
    <3>2. attempts[c] + 1 \in 0..MaxAttempts
      BY <1>1
    <3> QED BY <3>1, <3>2
  <2>3. lease' \in [Command -> 0..LeaseTtl]
    BY DEF QueueInv, QueueTypeOK, Claim
  <2>4. status' \in [Command -> {"absent", "pending", "in_flight"} \cup Finished]
    BY DEF QueueInv, QueueTypeOK, Claim
  <2> QED BY <2>1, <2>2, <2>3, <2>4 DEF QueueInv, QueueTypeOK, Claim, reaperVars
<1>4. ClaimsAreBudgeted'
  <2> SUFFICES ASSUME NEW b \in Command
               PROVE  /\ status'[b] = "absent" => attempts'[b] = 0
                      /\ status'[b] = "pending" => /\ attempts'[b] < MaxAttempts
                                                   /\ b \notin Retryable => attempts'[b] = 0
                      /\ b \notin Retryable => attempts'[b] <= 1
    BY DEF ClaimsAreBudgeted
  <2>1. /\ status' = [status EXCEPT ![c] = "in_flight"]
        /\ attempts' = [attempts EXCEPT ![c] = @ + 1]
    BY DEF Claim
  <2>2. c \in DOMAIN status /\ c \in DOMAIN attempts
    BY DEF QueueInv, QueueTypeOK
  <2>3. CASE b = c
    <3>1. status'[b] = "in_flight" /\ attempts'[b] = attempts[c] + 1
      BY <2>1, <2>2, <2>3
    <3> QED BY <1>1, <2>3, <3>1
  <2>4. CASE b # c
    <3>1. status'[b] = status[b] /\ attempts'[b] = attempts[b]
      BY <2>1, <2>4
    <3> QED BY <3>1 DEF QueueInv, ClaimsAreBudgeted
  <2> QED BY <2>3, <2>4
<1>5. ClaimsAreDistinct'
  <2>1. ASSUME NEW b \in Command PROVE attempts[b] \in Nat /\ attempts[b] <= attempts'[b]
    <3>1. attempts \in [Command -> 0..MaxAttempts] /\ attempts' = [attempts EXCEPT ![c] = @ + 1]
      BY DEF QueueInv, QueueTypeOK, Claim
    <3>2. attempts[b] \in Nat
      BY <3>1
    <3>3. CASE b = c
      BY <3>1, <3>2, <3>3
    <3>4. CASE b # c
      BY <3>1, <3>2, <3>4
    <3> QED BY <3>2, <3>3, <3>4
  <2>2. attempts'[c] = d.attempt /\ d.attempt = attempts[c] + 1 /\ d.command = c
    BY DEF QueueInv, QueueTypeOK, Claim, reaperVars
  <2>3. \A e \in Dispatch : e.command \in Command /\ e.attempt \in Nat
    BY DEF Dispatch
  <2>4. queue \in Seq(Dispatch) /\ queue' = Append(queue, d) /\ started' = started
        /\ started \subseteq Dispatch
    BY DEF QueueInv, QueueTypeOK, Claim, reaperVars
  <2>5. /\ Len(queue') = Len(queue) + 1 /\ Len(queue) \in Nat
        /\ queue'[Len(queue) + 1] = d
        /\ \A i \in 1..Len(queue) : queue'[i] = queue[i] /\ queue[i] \in Dispatch
    BY <1>2, <2>4, AppendOfDispatch
  <2>6. ASSUME NEW e \in Dispatch, e.attempt <= attempts[e.command]
        PROVE  e # d /\ e.attempt <= attempts'[e.command]
    <3>1. attempts[e.command] \in Nat /\ attempts[e.command] <= attempts'[e.command]
      BY <2>1, <2>3
    <3>2. attempts'[e.command] \in Nat
      <4>1. attempts' \in [Command -> 0..MaxAttempts]
        BY <1>3 DEF QueueTypeOK
      <4> QED BY <2>3, <4>1
    <3>3. e # d
      BY <1>1, <2>2, <2>6
    <3> QED BY <2>3, <2>6, <3>1, <3>2, <3>3
  <2>7. \A e \in started' : e.attempt <= attempts'[e.command]
    BY <2>4, <2>6 DEF QueueInv, ClaimsAreDistinct
  <2>8. d \notin started
    BY <2>4, <2>6 DEF QueueInv, ClaimsAreDistinct
  <2>9. \A i \in 1..Len(queue) : /\ queue[i] # d
                                 /\ queue[i].attempt <= attempts'[queue[i].command]
                                 /\ queue[i] \notin started
    BY <2>5, <2>6 DEF QueueInv, ClaimsAreDistinct
  <2>10. \A i \in 1..Len(queue') : i \in 1..Len(queue) \/ i = Len(queue) + 1
    BY <2>5
  <2>11. \A i \in 1..Len(queue') : /\ queue'[i].attempt <= attempts'[queue'[i].command]
                                   /\ queue'[i] \notin started'
    BY <1>1, <2>2, <2>4, <2>5, <2>8, <2>9, <2>10
  <2>12. \A i, j \in 1..Len(queue') : queue'[i] = queue'[j] => i = j
    BY <2>5, <2>9, <2>10 DEF QueueInv, ClaimsAreDistinct
  <2> QED BY <2>7, <2>11, <2>12 DEF ClaimsAreDistinct
<1> QED BY <1>3, <1>4, <1>5 DEF QueueInv

LEMMA StartKeepsInv ==
    ASSUME QueueInv, StartHandler
    PROVE  QueueInv'
<1>1. queue \in Seq(Dispatch) /\ queue # <<>>
  BY DEF QueueInv, QueueTypeOK, StartHandler, reaperVars
<1>2. /\ Head(queue) \in Dispatch /\ Head(queue) = queue[1] /\ Len(queue) \in Nat \ {0}
      /\ queue' \in Seq(Dispatch) /\ Len(queue') = Len(queue) - 1
      /\ \A i \in 1..Len(queue') : queue'[i] = queue[i + 1]
  BY <1>1, TailOfDispatches DEF StartHandler
<1>3. lease' \in [Command -> 0..LeaseTtl]
  BY Bounds DEF QueueInv, QueueTypeOK, StartHandler, Renewed
<1>4. QueueTypeOK'
  BY <1>2, <1>3 DEF QueueInv, QueueTypeOK, StartHandler, reaperVars
<1>5. ClaimsAreBudgeted'
  BY BudgetUnchanged DEF QueueInv, StartHandler
<1>6. ClaimsAreDistinct'
  <2>1. attempts' = attempts /\ started' = started \cup {Head(queue)}
    BY DEF StartHandler
  <2>2. 1 \in 1..Len(queue) /\ \A i \in 1..Len(queue') : i + 1 \in 1..Len(queue) /\ i + 1 # 1
    BY <1>2
  <2>3. \A d \in started' : d.attempt <= attempts'[d.command]
    BY <1>2, <2>1, <2>2 DEF QueueInv, ClaimsAreDistinct
  <2>4. \A i \in 1..Len(queue') : /\ queue'[i].attempt <= attempts'[queue'[i].command]
                                  /\ queue'[i] \notin started'
    BY <1>2, <2>1, <2>2 DEF QueueInv, ClaimsAreDistinct
  <2>5. \A i, j \in 1..Len(queue') : queue'[i] = queue'[j] => i = j
    <3> SUFFICES ASSUME NEW i \in 1..Len(queue'), NEW j \in 1..Len(queue'),
                        queue'[i] = queue'[j]
                 PROVE  i = j
      OBVIOUS
    <3>1. i + 1 = j + 1
      BY <1>2, <2>2 DEF QueueInv, ClaimsAreDistinct
    <3> QED BY <3>1, <1>2
  <2> QED BY <2>3, <2>4, <2>5 DEF ClaimsAreDistinct
<1> QED BY <1>4, <1>5, <1>6 DEF QueueInv

LEMMA ReapKeepsInv ==
    ASSUME QueueInv, Reap
    PROVE  QueueInv'
<1> DEFINE failed == {c \in Expired : ~Retried(c)}
<1>1. /\ status' = [c \in Command |-> IF c \notin Expired THEN status[c]
                                      ELSE IF c \in failed THEN "failed" ELSE "pending"]
      /\ lastError' = [c \in Command |-> IF c \in failed /\ lastError[c] = "none"
                                         THEN "lease expired" ELSE lastError[c]]
      /\ reported' = failed
      /\ UNCHANGED <<lease, attempts, workerVars, reaper, escalated, started>>
  BY DEF Reap
<1>2. Expired \subseteq Command
  BY DEF Expired
<1>3. QueueTypeOK'
  BY <1>1, <1>2 DEF QueueInv, QueueTypeOK, workerVars, Finished
<1>4. ClaimsAreBudgeted'
  <2> SUFFICES ASSUME NEW c \in Command
               PROVE  /\ status'[c] = "absent" => attempts[c] = 0
                      /\ status'[c] = "pending" => /\ attempts[c] < MaxAttempts
                                                   /\ c \notin Retryable => attempts[c] = 0
                      /\ c \notin Retryable => attempts[c] <= 1
    BY <1>1 DEF ClaimsAreBudgeted
  <2>1. CASE c \in Expired
    BY <1>1, <2>1 DEF QueueInv, ClaimsAreBudgeted, Retried
  <2>2. CASE c \notin Expired
    BY <1>1, <2>2 DEF QueueInv, ClaimsAreBudgeted
  <2> QED BY <2>1, <2>2
<1>5. ClaimsAreDistinct'
  BY <1>1, DistinctUnchanged DEF QueueInv, workerVars
<1> QED BY <1>3, <1>4, <1>5 DEF QueueInv

LEMMA QueueInvStep == QueueInv /\ [QueueNext]_queueVars => QueueInv'
<1> SUFFICES ASSUME QueueInv, [QueueNext]_queueVars
             PROVE  QueueInv'
  OBVIOUS
<1> USE Bounds
<1>1. ASSUME NEW c \in Command, Submit(c) PROVE QueueInv'
  <2>1. QueueTypeOK'
    BY <1>1 DEF QueueInv, QueueTypeOK, Submit, workerVars, reaperVars
  <2>2. ClaimsAreBudgeted'
    BY <1>1 DEF QueueInv, QueueTypeOK, ClaimsAreBudgeted, Submit
  <2>3. ClaimsAreDistinct'
    BY <1>1, DistinctUnchanged DEF QueueInv, Submit, workerVars
  <2> QED BY <2>1, <2>2, <2>3 DEF QueueInv
<1>2. ASSUME NEW c \in Command, Claim(c) PROVE QueueInv'
  BY <1>2, ClaimKeepsInv
<1>3. CASE StartHandler
  BY <1>3, StartKeepsInv
<1>4. CASE Heartbeat
  <2>1. QueueTypeOK'
    BY <1>4 DEF QueueInv, QueueTypeOK, Heartbeat, Renewed, Renewable, reaperVars
  <2>2. ClaimsAreBudgeted' /\ ClaimsAreDistinct'
    BY <1>4, BudgetUnchanged, DistinctUnchanged DEF QueueInv, Heartbeat
  <2> QED BY <2>1, <2>2 DEF QueueInv
<1>5. CASE HandlerRaises
  <2>1. QueueTypeOK'
    BY <1>5 DEF QueueInv, QueueTypeOK, HandlerRaises, Fail, NextCommand, Finished, reaperVars
  <2>2. ClaimsAreBudgeted'
    BY <1>5, BudgetUnchanged DEF QueueInv, QueueTypeOK, HandlerRaises, Fail
  <2>3. ClaimsAreDistinct'
    BY <1>5, DistinctUnchanged DEF QueueInv, HandlerRaises, Fail, NextCommand
  <2> QED BY <2>1, <2>2, <2>3 DEF QueueInv
<1>6. ASSUME NEW result \in Result, HandlerReturns(result) PROVE QueueInv'
  <2>1. QueueTypeOK'
    BY <1>6 DEF QueueInv, QueueTypeOK, HandlerReturns, rowVars, reaperVars
  <2>2. ClaimsAreBudgeted' /\ ClaimsAreDistinct'
    BY <1>6, BudgetUnchanged, DistinctUnchanged DEF QueueInv, HandlerReturns, rowVars
  <2> QED BY <2>1, <2>2 DEF QueueInv
<1>7. CASE FinishCommand
  <2>1. QueueTypeOK'
    BY <1>7 DEF QueueInv, QueueTypeOK, FinishCommand, Fail, NextCommand, Finished, reaperVars
  <2>2. ClaimsAreBudgeted'
    BY <1>7, BudgetUnchanged DEF QueueInv, QueueTypeOK, FinishCommand, Fail
  <2>3. ClaimsAreDistinct'
    BY <1>7, DistinctUnchanged DEF QueueInv, FinishCommand, Fail, NextCommand
  <2> QED BY <2>1, <2>2, <2>3 DEF QueueInv
<1>8. CASE Reap
  BY <1>8, ReapKeepsInv
<1>9. ASSUME NEW c \in Command, Escalate(c) PROVE QueueInv'
  <2>1. QueueTypeOK'
    BY <1>9 DEF QueueInv, QueueTypeOK, Escalate, rowVars, workerVars
  <2>2. ClaimsAreBudgeted' /\ ClaimsAreDistinct'
    BY <1>9, BudgetUnchanged, DistinctUnchanged DEF QueueInv, Escalate, rowVars, workerVars
  <2> QED BY <2>1, <2>2 DEF QueueInv
<1>10. CASE Tick
  <2>1. lease' \in [Command -> 0..LeaseTtl]
    <3>1. lease \in [Command -> 0..LeaseTtl]
      BY DEF QueueInv, QueueTypeOK
    <3>2. ASSUME NEW c \in Command
          PROVE  (IF lease[c] > 0 THEN lease[c] - 1 ELSE 0) \in 0..LeaseTtl
      <4>1. lease[c] \in 0..LeaseTtl
        BY <3>1
      <4> QED BY <4>1
    <3> QED BY <1>10, <3>2 DEF Tick
  <2>2. QueueTypeOK'
    BY <1>10, <2>1 DEF QueueInv, QueueTypeOK, Tick, workerVars, reaperVars
  <2>3. ClaimsAreBudgeted' /\ ClaimsAreDistinct'
    BY <1>10, BudgetUnchanged, DistinctUnchanged DEF QueueInv, Tick, workerVars
  <2> QED BY <2>2, <2>3 DEF QueueInv
<1>11. CASE WorkerFails \/ RestartService
  <2>1. WorkerLost /\ alive' \in BOOLEAN /\ reaper' \in BOOLEAN /\ reported' \subseteq Command
    BY <1>11 DEF QueueInv, QueueTypeOK, WorkerFails, RestartService
  <2>2. QueueTypeOK'
    <3>1. queue' \in Seq(Dispatch)
      <4>1. <<>> \in Seq(Dispatch)
        OBVIOUS
      <4> QED BY <2>1, <4>1 DEF WorkerLost
    <3> QED BY <2>1, <3>1 DEF QueueInv, QueueTypeOK, WorkerLost, rowVars
  <2>3. ClaimsAreBudgeted' /\ ClaimsAreDistinct'
    BY <2>1, BudgetUnchanged, DistinctEmptied DEF QueueInv, WorkerLost, rowVars
  <2> QED BY <2>2, <2>3 DEF QueueInv
<1>12. CASE ReaperFails
  <2>1. QueueTypeOK'
    BY <1>12 DEF QueueInv, QueueTypeOK, ReaperFails, rowVars, workerVars
  <2>2. ClaimsAreBudgeted' /\ ClaimsAreDistinct'
    BY <1>12, BudgetUnchanged, DistinctUnchanged DEF QueueInv, ReaperFails, rowVars, workerVars
  <2> QED BY <2>1, <2>2 DEF QueueInv
<1>13. CASE UNCHANGED queueVars
  <2>1. QueueTypeOK'
    BY <1>13 DEF QueueInv, QueueTypeOK, queueVars, rowVars, workerVars, reaperVars
  <2>2. ClaimsAreBudgeted' /\ ClaimsAreDistinct'
    BY <1>13, BudgetUnchanged, DistinctUnchanged DEF QueueInv, queueVars, rowVars, workerVars
  <2> QED BY <2>1, <2>2 DEF QueueInv
<1> QED
  BY <1>1, <1>2, <1>3, <1>4, <1>5, <1>6, <1>7, <1>8, <1>9, <1>10, <1>11, <1>12, <1>13
     DEF QueueNext, Claiming, Handling, Reaping

LEMMA QueueInvariant == QueueSpec => []QueueInv
  BY QueueInvInit, QueueInvStep, PTL DEF QueueSpec

-----------------------------------------------------------------------------
\* Type correctness; no command is claimed more often than max_attempts
\* (reap_stale_commands: "the full max_attempts dispatches").
THEOREM QueueTypeCorrect == QueueSpec => []QueueTypeOK
<1>1. QueueInv => QueueTypeOK
  BY DEF QueueInv
<1> QED BY <1>1, QueueInvariant, PTL

\* No claim's handler is called twice: an attempt is numbered when it is
\* claimed, and a number that was queued or started is not given again.
THEOREM ClaimsStartOnce == QueueSpec => EachClaimStartsOnce
<1>1. QueueInv /\ [QueueNext]_queueVars =>
         [running' # running /\ running' # NoDispatch => running' \notin started]_queueVars
  <2> SUFFICES ASSUME QueueInv, QueueNext, running' # running, running' # NoDispatch
               PROVE  running' \notin started
    BY DEF queueVars, workerVars
  <2>1. StartHandler
    BY DEF QueueNext, Claiming, Handling, Reaping, Submit, Claim, Heartbeat, HandlerRaises,
           HandlerReturns, FinishCommand, NextCommand, Reap, Escalate, Tick, WorkerFails,
           RestartService, ReaperFails, WorkerLost, workerVars
  <2>2. queue \in Seq(Dispatch) /\ queue # <<>> /\ running' = Head(queue)
    BY <2>1 DEF QueueInv, QueueTypeOK, StartHandler, reaperVars
  <2>3. Head(queue) = queue[1] /\ 1 \in 1..Len(queue)
    BY <2>2, TailOfDispatches
  <2> QED BY <2>2, <2>3 DEF QueueInv, ClaimsAreDistinct
<1> QED BY <1>1, QueueInvariant, PTL DEF QueueSpec, EachClaimStartsOnce

\* A command that must not be retried is executed at most once, whatever
\* expires, crashes and restarts: it waits only before its first attempt.
THEOREM OneShotCommandsAreSafe == QueueSpec => []OneShotCommandsStartOnce
<1>1. QueueInv => OneShotCommandsStartOnce
  <2> SUFFICES ASSUME QueueInv, NEW d \in started, NEW e \in started,
                      d.command = e.command, d.command \notin Retryable
               PROVE  d = e
    BY DEF OneShotCommandsStartOnce
  <2>1. d \in Dispatch /\ e \in Dispatch
    BY DEF QueueInv, QueueTypeOK
  <2>2. d.command \in Command /\ d.attempt \in Nat \ {0} /\ e.attempt \in Nat \ {0}
    BY <2>1, Bounds DEF Dispatch
  <2>3. attempts[d.command] \in Nat /\ attempts[d.command] <= 1
    <3>1. attempts \in [Command -> 0..MaxAttempts]
      BY DEF QueueInv, QueueTypeOK
    <3>2. attempts[d.command] <= 1
      BY <2>2 DEF QueueInv, ClaimsAreBudgeted
    <3> QED BY <2>2, <3>1, <3>2
  <2>4. d.attempt = 1 /\ e.attempt = 1
    BY <2>2, <2>3 DEF QueueInv, ClaimsAreDistinct
  <2> QED BY <2>1, <2>4 DEF Dispatch
<1> QED BY <1>1, QueueInvariant, PTL

\* No late heartbeat and no reaper makes a finished command wait or run again
\* (renew_command_lease: "cannot revive a command that was completed, failed").
THEOREM FinishedIsFinal == QueueSpec => FinishedStaysFinished
<1>1. QueueInv /\ [QueueNext]_queueVars =>
         [\A c \in Command : status[c] \in Finished => status'[c] \in Finished]_queueVars
  <2> SUFFICES ASSUME QueueInv, QueueNext, NEW c \in Command, status[c] \in Finished
               PROVE  status'[c] \in Finished
    OBVIOUS
  <2>1. status \in [Command -> {"absent", "pending", "in_flight"} \cup Finished]
    BY DEF QueueInv, QueueTypeOK
  <2>2. CASE Reap
    BY <2>1, <2>2 DEF Reap, Expired, Finished
  <2>3. CASE HandlerRaises \/ FinishCommand
    BY <2>1, <2>3 DEF HandlerRaises, FinishCommand, Fail, Finished
  <2>4. ASSUME NEW b \in Command, Submit(b) \/ Claim(b) PROVE status'[c] \in Finished
    BY <2>1, <2>4 DEF Submit, Claim, Finished
  <2>5. CASE \/ StartHandler \/ Heartbeat \/ Tick \/ WorkerFails \/ ReaperFails \/ RestartService
             \/ \E result \in Result : HandlerReturns(result)
             \/ \E b \in Command : Escalate(b)
    BY <2>5 DEF StartHandler, Heartbeat, Tick, WorkerFails, ReaperFails, RestartService,
                HandlerReturns, Escalate, WorkerLost, rowVars
  <2> QED BY <2>2, <2>3, <2>4, <2>5 DEF QueueNext, Claiming, Handling, Reaping
<1> QED BY <1>1, QueueInvariant, PTL DEF QueueSpec, FinishedStaysFinished
=============================================================================
