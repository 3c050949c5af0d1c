------------------------- MODULE WorkflowRuns_proofs -------------------------
(***************************************************************************)
(* Proofs about the workflow runtime: its types, that a current revision   *)
(* is enough for a plan to be good, that the run goes through what one     *)
(* serial worker would do, and that a wake handles the signal it is for.   *)
(***************************************************************************)
EXTENDS WorkflowRuns, FiniteSetTheorems, WellFoundedInduction, NaturalsInduction, TLAPS

\* The inductive invariant.
RunsInv == RunsTypeOK /\ SnapshotsHold

LEMMA LeastExists ==
    ASSUME NEW S \in SUBSET Nat, S # {}
    PROVE  \E least \in S : \A n \in S : least <= n
<1>1. PICK below : /\ IsWellFoundedOn(below, Nat)
                   /\ \A m, n \in Nat : m < n => <<m, n>> \in below
  BY NatLessThanWellFounded DEF OpToRel
<1>2. \E least \in S : \A n \in S : ~ (<<n, least>> \in below)
  <2>1. S \subseteq Nat /\ S # {}
    OBVIOUS
  <2>2. \A R, T, U : IsWellFoundedOn(R, T) /\ U \subseteq T /\ U # {}
                      => \E x \in U : \A y \in U : ~ (<<y, x>> \in R)
    BY WFMin
  <2>3. IsWellFoundedOn(below, Nat)
    BY <1>1
  <2> QED
    BY <2>1, <2>2, <2>3, Zenon
<1>3. PICK least \in S : \A n \in S : ~ (<<n, least>> \in below)
  BY <1>2
<1>4. \A n \in S : ~ (n < least)
  BY <1>1, <1>3
<1> QED
  BY <1>4

\* Of the signals of a batch about a stage one is the first in the inbox.
LEMMA FirstAboutExists ==
    ASSUME NEW keys \in SUBSET Key, NEW box, NEW s,
           \E k \in keys : box[k].stage = s
    PROVE  /\ FirstAbout(s, keys, box, Rank) \in keys
           /\ box[FirstAbout(s, keys, box, Rank)].stage = s
<1> DEFINE places == {Rank[k] : k \in {j \in keys : box[j].stage = s}}
<1>1. places \in SUBSET Nat /\ places # {}
  BY RunsAssumption
<1>2. \E least \in places : \A n \in places : least <= n
  BY <1>1, LeastExists
<1>3. PICK k \in keys : /\ box[k].stage = s
                        /\ \A j \in keys : box[j].stage = s => Rank[k] <= Rank[j]
  BY <1>2
<1> QED
  BY <1>3 DEF FirstAbout

\* A decision on posted signals maps stages to stages.
LEMMA DecideType ==
    ASSUME NEW st \in [Stage -> StageStatus], NEW keys \in SUBSET Key,
           NEW box \in [Key -> Payload \cup {NoPayload}],
           \A k \in keys : box[k] # NoPayload
    PROVE  Decide(st, keys, box, Rank) \in [Stage -> StageStatus]
<1>1. Absorb(st, keys, box, Rank) \in [Stage -> StageStatus]
  <2> SUFFICES ASSUME NEW s \in Stage, \E k \in keys : box[k].stage = s
               PROVE  box[FirstAbout(s, keys, box, Rank)].verdict \in StageStatus
    BY DEF Absorb
  <2>1. FirstAbout(s, keys, box, Rank) \in keys
    BY FirstAboutExists
  <2>2. box[FirstAbout(s, keys, box, Rank)] \in Payload
    BY <2>1
  <2> QED
    BY <2>2 DEF Payload, StageStatus
<1>2. \A given \in [Stage -> StageStatus] : Settle(given) \in [Stage -> StageStatus]
  BY DEF Settle, StageStatus, StageTerminal
<1> QED
  BY <1>1, <1>2 DEF Decide

LEMMA StatusType == \A st : StatusOf(st) \in RunStatus
  BY DEF StatusOf, RunStatus, RunTerminal

LEMMA PendingCount == Cardinality(Pending) \in Nat
<1>1. IsFiniteSet(Pending)
  BY FS_Subset, RunsAssumption DEF Pending, PendingIn
<1> QED
  BY <1>1, FS_CardinalityType

\* What a transition leaves, whoever applies it.
LEMMA TransitionType ==
    ASSUME RunsTypeOK, NEW run \in Run, NEW batch \in SUBSET Key,
           inbox' \in [Key -> Payload \cup {NoPayload}],
           \A k \in batch : inbox'[k] # NoPayload,
           Transition(run, batch)
    PROVE  /\ schema' \in Schema
           /\ status' \in RunStatus
           /\ revision' \in Nat
           /\ stages' \in [Stage -> StageStatus]
           /\ waits' \in [Stage -> {"none", "open", "satisfied"}]
           /\ consumedAt' \in [Key -> Nat]
<1>1. run.stages \in [Stage -> StageStatus] /\ run.revision \in Nat
  BY DEF Run
<1>2. stages' \in [Stage -> StageStatus]
  BY <1>1, DecideType DEF Transition
<1>3. status' \in RunStatus
  BY StatusType DEF Transition
<1>4. schema' \in Schema /\ revision' \in Nat /\ consumedAt' \in [Key -> Nat]
  BY <1>1 DEF Transition, RunsTypeOK
<1>5. waits' \in [Stage -> {"none", "open", "satisfied"}]
  BY DEF Transition, AwaitFresh
<1> QED
  BY <1>2, <1>3, <1>4, <1>5

-----------------------------------------------------------------------------
\* The invariant holds initially.
LEMMA RunsInvInit == RunsInit => RunsInv
<1> SUFFICES ASSUME RunsInit PROVE RunsInv
  OBVIOUS
<1>1. Idle \in Local
  BY RunsAssumption DEF Idle, Local, ProcStep
<1>2. RunsTypeOK
  BY <1>1, RunsAssumption
     DEF RunsInit, RunsTypeOK, InitialStages, StageStatus, RunStatus, AwaitFresh
<1>3. SnapshotsHold
  BY DEF RunsInit, SnapshotsHold, SnapshotHolds, Idle
<1> QED
  BY <1>2, <1>3 DEF RunsInv

\* A transition makes every snapshot stale, so what is left to show of the
\* processes that do not take it does not depend on what they have loaded.
LEMMA SnapshotsAfterTransition ==
    ASSUME RunsInv, NEW run \in Run, NEW batch \in SUBSET Key, Transition(run, batch),
           run.revision = revision,
           \A k \in Key : inbox[k] # NoPayload => inbox'[k] # NoPayload,
           NEW p \in Process, proc'[p] = proc[p]
    PROVE  SnapshotHolds(p)'
<1>1. revision' = revision + 1 /\ revision \in Nat
  BY DEF Transition, RunsInv, RunsTypeOK
<1>2. proc[p] \in Local /\ SnapshotHolds(p)
  BY DEF RunsInv, RunsTypeOK, SnapshotsHold
<1>3. proc[p].run # NoRun => proc[p].run.revision \in Nat /\ proc[p].run.revision <= revision
  BY <1>2 DEF Local, Run, SnapshotHolds
<1>4. proc[p].run # NoRun => ~ (proc[p].run.revision = revision')
  BY <1>1, <1>3
<1>5. proc[p].batch \subseteq Key
  BY <1>2 DEF Local
<1> QED
  BY <1>1, <1>2, <1>3, <1>4, <1>5 DEF SnapshotHolds, Fresh

\* Processes that do not move keep their snapshots while nothing is decided.
LEMMA SnapshotsWithoutTransition ==
    ASSUME RunsInv, UNCHANGED <<runVars, consumedAt>>,
           \A k \in Key : inbox[k] # NoPayload => inbox'[k] # NoPayload,
           NEW p \in Process, proc'[p] = proc[p]
    PROVE  SnapshotHolds(p)'
<1>1. proc[p] \in Local /\ SnapshotHolds(p)
  BY DEF RunsInv, RunsTypeOK, SnapshotsHold
<1>2. proc[p].batch \subseteq Key
  BY <1>1 DEF Local
<1> QED
  BY <1>1, <1>2 DEF SnapshotHolds, Fresh, CurrentRun, runVars

\* A process left without local variables has no snapshot to keep.
LEMMA RestartType ==
    ASSUME RunsInv, NEW p \in Process, NEW new \in Local,
           new.step \notin {"signals", "apply"}, new.run = NoRun,
           proc' = [proc EXCEPT ![p] = new]
    PROVE  /\ proc' \in [Process -> Local]
           /\ SnapshotHolds(p)'
           /\ \A q \in Process \ {p} : proc'[q] = proc[q]
<1>1. proc \in [Process -> Local]
  BY DEF RunsInv, RunsTypeOK
<1>2. proc'[p] = new
  BY <1>1
<1> QED
  BY <1>1, <1>2 DEF SnapshotHolds

LEMMA IdleTypes ==
    ASSUME NEW step \in ProcStep, NEW before \in Nat,
           NEW new \in {Idle, [Idle EXCEPT !.step = step],
                        [Idle EXCEPT !.step = step, !.before = before]}
    PROVE  new \in Local /\ new.run = NoRun /\ new.step \in {"idle", step}
<1>1. 0 \in 0..MaxConflictRetries
  BY RunsAssumption
<1>2. CASE new = Idle
  BY <1>1, <1>2 DEF Idle, Local, ProcStep
<1>3. CASE new = [Idle EXCEPT !.step = step]
  <2>1. new = [step |-> step, key |-> NoKey, run |-> NoRun, batch |-> {}, tries |-> 0,
               before |-> 0]
    BY <1>3 DEF Idle
  <2> QED
    BY <1>1, <2>1 DEF Local
<1>4. CASE new = [Idle EXCEPT !.step = step, !.before = before]
  <2>1. new = [step |-> step, key |-> NoKey, run |-> NoRun, batch |-> {}, tries |-> 0,
               before |-> before]
    BY <1>4 DEF Idle
  <2> QED
    BY <1>1, <2>1 DEF Local
<1> QED
  BY <1>2, <1>3, <1>4

-----------------------------------------------------------------------------
(***************************************************************************)
(* One lemma per action                                                    *)
(***************************************************************************)

LEMMA TicketFinishedKeeps ==
    ASSUME RunsInv, NEW s \in Stage, NEW ticketStatus \in TicketStatus,
           TicketFinished(s, ticketStatus)
    PROVE  RunsInv'
<1> DEFINE k       == [stage |-> s, status |-> ticketStatus]
           payload == [stage |-> s, verdict |-> IF ticketStatus = "failed" THEN "failed"
                                                ELSE "succeeded"]
           batch   == BatchOf(PendingIn(inbox'))
<1>1. k \in Key /\ payload \in Payload
  BY DEF Key, TicketKey, Payload, StageTerminal
<1>2. Store(k, payload) \/ UNCHANGED inbox
  BY DEF TicketFinished
<1>3. inbox' \in [Key -> Payload \cup {NoPayload}]
  BY <1>1, <1>2 DEF Store, RunsInv, RunsTypeOK
<1>4. \A j \in Key : inbox[j] # NoPayload => inbox'[j] # NoPayload
  BY <1>1, <1>2 DEF Store, RunsInv, RunsTypeOK
<1>5. batch \in SUBSET Key /\ \A j \in batch : inbox'[j] # NoPayload
  BY DEF BatchOf, PendingIn
<1>6. CurrentRun \in Run /\ CurrentRun.revision = revision
  BY DEF CurrentRun, Run, RunsInv, RunsTypeOK
<1>7. Transition(CurrentRun, batch) /\ proc' = proc /\ crashes' = crashes
  BY DEF TicketFinished
<1> HIDE DEF batch
<1>8. RunsTypeOK'
  BY <1>3, <1>5, <1>6, <1>7, TransitionType DEF RunsInv, RunsTypeOK
<1>9. SnapshotsHold'
  BY <1>4, <1>5, <1>6, <1>7, SnapshotsAfterTransition DEF SnapshotsHold
<1> QED
  BY <1>8, <1>9 DEF RunsInv

LEMMA EnqueueKeeps ==
    ASSUME RunsInv, NEW p \in Process, NEW k \in ExternalKey, NEW payload \in Offered,
           Enqueue(p, k, payload)
    PROVE  RunsInv'
<1>1. k \in Key /\ payload \in Payload
  BY RunsAssumption DEF Key
<1>2. inbox' \in [Key -> Payload \cup {NoPayload}]
  BY <1>1 DEF Enqueue, Store, RunsInv, RunsTypeOK
<1>3. \A j \in Key : inbox[j] # NoPayload => inbox'[j] # NoPayload
  BY <1>1 DEF Enqueue, Store, RunsInv, RunsTypeOK
<1>4. waits' \in [Stage -> {"none", "open", "satisfied"}]
  BY DEF Enqueue, Satisfied, RunsInv, RunsTypeOK
<1>5. PICK new : new = [proc[p] EXCEPT !.step = "load", !.key = k]
  OBVIOUS
<1>6. proc[p] \in Local /\ proc[p].step = "idle" /\ SnapshotHolds(p)
  BY DEF Enqueue, RunsInv, RunsTypeOK, SnapshotsHold
<1>7. new \in Local /\ new.step = "load" /\ new.run = NoRun
  BY <1>1, <1>5, <1>6 DEF Local, ProcStep, Deciding, SnapshotHolds
<1>8. proc' = [proc EXCEPT ![p] = new]
  BY <1>5 DEF Enqueue
<1>9. proc' \in [Process -> Local] /\ proc'[p] = new
      /\ \A q \in Process \ {p} : proc'[q] = proc[q]
  BY <1>7, <1>8 DEF RunsInv, RunsTypeOK
<1>10. RunsTypeOK'
  BY <1>2, <1>4, <1>9 DEF Enqueue, RunsInv, RunsTypeOK, runVars
<1>11. SnapshotsHold'
  <2> SUFFICES ASSUME NEW q \in Process PROVE SnapshotHolds(q)'
    BY DEF SnapshotsHold
  <2>1. CASE q = p
    BY <1>7, <1>9, <2>1 DEF SnapshotHolds
  <2>2. CASE q # p
    BY <1>3, <1>9, <2>2, SnapshotsWithoutTransition DEF Enqueue
  <2> QED
    BY <2>1, <2>2
<1> QED
  BY <1>10, <1>11 DEF RunsInv

\* The steps that only change what a process has in its own variables.
LEMMA LocalStepKeeps ==
    ASSUME RunsInv, NEW p \in Process, UNCHANGED <<runVars, waits, signalVars>>,
           crashes' \in 0..CrashBound,
           proc' \in [Process -> Local], SnapshotHolds(p)',
           \A q \in Process \ {p} : proc'[q] = proc[q]
    PROVE  RunsInv'
<1>1. RunsTypeOK'
  BY DEF RunsInv, RunsTypeOK, runVars, signalVars
<1>2. SnapshotsHold'
  <2> SUFFICES ASSUME NEW q \in Process PROVE SnapshotHolds(q)'
    BY DEF SnapshotsHold
  <2>1. CASE q = p
    BY <2>1
  <2>2. CASE q # p
    BY <2>2, SnapshotsWithoutTransition DEF signalVars
  <2> QED
    BY <2>1, <2>2
<1> QED
  BY <1>1, <1>2 DEF RunsInv

LEMMA CrashesType == RunsInv => crashes \in 0..CrashBound
  BY DEF RunsInv, RunsTypeOK

LEMMA RestartKeeps ==
    ASSUME RunsInv, NEW p \in Process, NEW step \in {"idle", "recover"},
           Restart(p, step), UNCHANGED <<runVars, waits, signalVars>>,
           crashes' \in 0..CrashBound
    PROVE  RunsInv'
<1>1. PICK new : new = [Idle EXCEPT !.step = step]
  OBVIOUS
<1>2. new \in Local /\ new.run = NoRun /\ new.step \in {"idle", step}
  BY <1>1, IdleTypes DEF ProcStep
<1>3. proc' = [proc EXCEPT ![p] = new]
  BY <1>1 DEF Restart
<1> QED
  BY <1>2, <1>3, RestartType, LocalStepKeeps

LEMMA ReturnType ==
    ASSUME RunsInv, NEW p \in Process, Return(p)
    PROVE  /\ proc' \in [Process -> Local]
           /\ SnapshotHolds(p)'
           /\ \A q \in Process \ {p} : proc'[q] = proc[q]
<1>1. proc[p].before \in Nat /\ "counting" \in ProcStep
  BY DEF RunsInv, RunsTypeOK, Local, ProcStep
<1>2. PICK new : new = IF InRecovery(p)
                       THEN [Idle EXCEPT !.step = "counting", !.before = proc[p].before]
                       ELSE Idle
  OBVIOUS
<1>3. new \in Local /\ new.run = NoRun /\ new.step \in {"idle", "counting"}
  BY <1>1, <1>2, IdleTypes
<1>4. proc' = [proc EXCEPT ![p] = new]
  BY <1>2 DEF Return
<1> QED
  BY <1>3, <1>4, RestartType

LEMMA LoadRunKeeps ==
    ASSUME RunsInv, NEW p \in Process, LoadRun(p)
    PROVE  RunsInv'
<1>1. PICK new : new = [proc[p] EXCEPT !.step = "signals", !.run = CurrentRun]
  OBVIOUS
<1>2. proc[p] \in Local
  BY DEF RunsInv, RunsTypeOK
<1>3. CurrentRun \in Run /\ CurrentRun.revision = revision /\ revision \in Nat
  BY DEF CurrentRun, Run, RunsInv, RunsTypeOK
<1>4. new \in Local /\ new.step = "signals" /\ new.run = CurrentRun
  BY <1>1, <1>2, <1>3 DEF Local, ProcStep, Deciding
<1>5. proc' = [proc EXCEPT ![p] = new]
  BY <1>1 DEF LoadRun
<1>6. proc' \in [Process -> Local] /\ proc'[p] = new
      /\ \A q \in Process \ {p} : proc'[q] = proc[q]
  BY <1>4, <1>5 DEF RunsInv, RunsTypeOK
<1>7. CurrentRun' = CurrentRun /\ revision' = revision
  BY DEF LoadRun, runVars, CurrentRun
<1>8. CurrentRun # NoRun
  BY <1>3, RunsAssumption
<1>9. SnapshotHolds(p)'
  BY <1>3, <1>4, <1>6, <1>7, <1>8 DEF SnapshotHolds
<1> QED
  BY <1>6, <1>9, LocalStepKeeps, CrashesType DEF LoadRun

LEMMA LoadSignalsKeeps ==
    ASSUME RunsInv, NEW p \in Process, LoadSignals(p)
    PROVE  RunsInv'
<1>1. PICK new : new = [proc[p] EXCEPT !.step = "apply", !.batch = BatchOf(Pending)]
  OBVIOUS
<1>2. proc[p] \in Local /\ SnapshotHolds(p) /\ proc[p].step = "signals"
  BY DEF LoadSignals, RunsInv, RunsTypeOK, SnapshotsHold
<1>3. /\ BatchOf(Pending) \subseteq Key
      /\ \A k \in BatchOf(Pending) : inbox[k] # NoPayload /\ consumedAt[k] = 0
  BY DEF BatchOf, Pending, PendingIn
<1>4. /\ new \in Local
      /\ new.step = "apply" /\ new.run = proc[p].run /\ new.batch = BatchOf(Pending)
  BY <1>1, <1>2, <1>3 DEF Local, ProcStep, Deciding
<1>5. proc' = [proc EXCEPT ![p] = new]
  BY <1>1 DEF LoadSignals
<1>6. proc' \in [Process -> Local] /\ proc'[p] = new
      /\ \A q \in Process \ {p} : proc'[q] = proc[q]
  BY <1>4, <1>5 DEF RunsInv, RunsTypeOK
<1>7. /\ CurrentRun' = CurrentRun /\ revision' = revision
      /\ inbox' = inbox /\ consumedAt' = consumedAt
      /\ proc[p].run.status \notin RunTerminal /\ proc[p].run.schema = "static_dag"
  BY DEF LoadSignals, runVars, signalVars, CurrentRun
<1>8. SnapshotHolds(p)'
  BY <1>2, <1>3, <1>4, <1>6, <1>7 DEF SnapshotHolds, Fresh
<1> QED
  BY <1>6, <1>8, LocalStepKeeps, CrashesType DEF LoadSignals

LEMMA ApplyKeeps ==
    ASSUME RunsInv, NEW p \in Process, Apply(p)
    PROVE  RunsInv'
<1>1. proc[p] \in Local /\ SnapshotHolds(p) /\ proc[p].step = "apply"
  BY DEF Apply, RunsInv, RunsTypeOK, SnapshotsHold
<1>2. proc[p].run \in Run /\ proc[p].batch \in SUBSET Key
  BY <1>1 DEF Local, SnapshotHolds
<1>3. proc[p].run.revision = revision /\ \A k \in proc[p].batch : inbox[k] # NoPayload
  BY <1>1 DEF Apply, Fresh, SnapshotHolds
<1>4. Transition(proc[p].run, proc[p].batch) /\ inbox' = inbox /\ crashes' = crashes
  BY DEF Apply
<1>5. inbox' \in [Key -> Payload \cup {NoPayload}]
  BY <1>4 DEF RunsInv, RunsTypeOK
<1>6. /\ proc' \in [Process -> Local] /\ SnapshotHolds(p)'
      /\ \A q \in Process \ {p} : proc'[q] = proc[q]
  BY ReturnType DEF Apply
<1>7. RunsTypeOK'
  BY <1>2, <1>3, <1>4, <1>5, <1>6, TransitionType DEF RunsInv, RunsTypeOK
<1>8. SnapshotsHold'
  <2> SUFFICES ASSUME NEW q \in Process PROVE SnapshotHolds(q)'
    BY DEF SnapshotsHold
  <2>1. CASE q = p
    BY <1>6, <2>1
  <2>2. CASE q # p
    BY <1>2, <1>3, <1>4, <1>6, <2>2, SnapshotsAfterTransition
  <2> QED
    BY <2>1, <2>2
<1> QED
  BY <1>7, <1>8 DEF RunsInv

LEMMA RetryKeeps ==
    ASSUME RunsInv, NEW p \in Process, Retry(p)
    PROVE  RunsInv'
<1>1. PICK new : new = [proc[p] EXCEPT !.step = "load", !.tries = @ + 1,
                                       !.run = NoRun, !.batch = {}]
  OBVIOUS
<1>2. proc[p] \in Local /\ proc[p].tries < MaxConflictRetries
  BY DEF Retry, RunsInv, RunsTypeOK
<1>3. proc[p].tries + 1 \in 0..MaxConflictRetries
  BY <1>2, RunsAssumption DEF Local
<1>4. new \in Local /\ new.step = "load" /\ new.run = NoRun
  BY <1>1, <1>2, <1>3 DEF Local, ProcStep, Deciding
<1>5. proc' = [proc EXCEPT ![p] = new]
  BY <1>1 DEF Retry
<1> QED
  BY <1>4, <1>5, RestartType, LocalStepKeeps, CrashesType DEF Retry

LEMMA RecoverKeeps ==
    ASSUME RunsInv, NEW p \in Process, Recover(p)
    PROVE  RunsInv'
<1>1. CASE status = "waiting" /\ Pending # {}
  <2>1. PICK new : new = [proc[p] EXCEPT !.step = "load", !.before = Cardinality(Pending)]
    OBVIOUS
  <2>2. proc[p] \in Local /\ SnapshotHolds(p) /\ proc[p].step = "recover"
    BY DEF Recover, RunsInv, RunsTypeOK, SnapshotsHold
  <2>3. new \in Local /\ new.step = "load" /\ new.run = NoRun
    BY <2>1, <2>2, PendingCount DEF Local, ProcStep, Deciding, SnapshotHolds
  <2>4. proc' = [proc EXCEPT ![p] = new]
    BY <1>1, <2>1 DEF Recover
  <2> QED
    BY <2>3, <2>4, RestartType, LocalStepKeeps, CrashesType DEF Recover
<1>2. CASE ~ (status = "waiting" /\ Pending # {})
  BY <1>2, RestartKeeps, CrashesType DEF Recover
<1> QED
  BY <1>1, <1>2

LEMMA MigrateStateKeeps ==
    ASSUME RunsInv, MigrateState
    PROVE  RunsInv'
<1>1. RunsTypeOK'
  BY DEF MigrateState, RunsInv, RunsTypeOK, Schema, signalVars
<1>2. ASSUME NEW p \in Process PROVE SnapshotHolds(p)'
  <2>1. proc[p] \in Local /\ SnapshotHolds(p) /\ revision \in Nat
    BY DEF RunsInv, RunsTypeOK, SnapshotsHold
  <2>2. proc[p].run # NoRun => proc[p].run.revision \in Nat /\ proc[p].run.revision <= revision
    BY <2>1 DEF Local, Run, SnapshotHolds
  <2>3. proc[p].run # NoRun => ~ (proc[p].run.revision = revision')
    BY <2>1, <2>2 DEF MigrateState
  <2> QED
    BY <2>1, <2>2, <2>3 DEF MigrateState, SnapshotHolds, Fresh, signalVars
<1> QED
  BY <1>1, <1>2 DEF RunsInv, SnapshotsHold

LEMMA StutterKeeps ==
    ASSUME RunsInv, UNCHANGED vars
    PROVE  RunsInv'
<1>1. RunsTypeOK'
  BY DEF RunsInv, RunsTypeOK, vars, runVars, signalVars
<1>2. SnapshotsHold'
  BY SnapshotsWithoutTransition DEF SnapshotsHold, vars, signalVars
<1> QED
  BY <1>1, <1>2 DEF RunsInv

-----------------------------------------------------------------------------
LEMMA RunsInvNext == RunsInv /\ [RunsNext]_vars => RunsInv'
<1> SUFFICES ASSUME RunsInv, [RunsNext]_vars PROVE RunsInv'
  OBVIOUS
<1>1. CASE \E s \in Stage, ticketStatus \in TicketStatus : TicketFinished(s, ticketStatus)
  BY <1>1, TicketFinishedKeeps
<1>2. CASE \E p \in Process, k \in ExternalKey, payload \in Offered : Enqueue(p, k, payload)
  BY <1>2, EnqueueKeeps
<1>3. ASSUME NEW p \in Process, Decision(p) PROVE RunsInv'
  <2>1. CASE LoadRun(p)
    BY <2>1, LoadRunKeeps
  <2>2. CASE LoadSignals(p)
    BY <2>2, LoadSignalsKeeps
  <2>3. CASE FindTerminal(p)
    BY <2>3, ReturnType, LocalStepKeeps, CrashesType DEF FindTerminal
  <2>4. CASE FindForeign(p)
    BY <2>4, RestartKeeps, CrashesType DEF FindForeign
  <2>5. CASE Apply(p)
    BY <2>5, ApplyKeeps
  <2>6. CASE Retry(p)
    BY <2>6, RetryKeeps
  <2>7. CASE GiveUp(p)
    BY <2>7, RestartKeeps, CrashesType DEF GiveUp
  <2>8. CASE Recover(p)
    BY <2>8, RecoverKeeps
  <2>9. CASE CountPending(p)
    BY <2>9, RestartKeeps, CrashesType DEF CountPending
  <2> QED
    BY <1>3, <2>1, <2>2, <2>3, <2>4, <2>5, <2>6, <2>7, <2>8, <2>9 DEF Decision
<1>4. ASSUME NEW p \in Process, Crash(p) PROVE RunsInv'
  <2>1. crashes' \in 0..CrashBound
    BY <1>4, CrashesType, RunsAssumption DEF Crash
  <2> QED
    BY <1>4, <2>1, RestartKeeps DEF Crash
<1>5. CASE MigrateState
  BY <1>5, MigrateStateKeeps
<1>6. CASE UNCHANGED vars
  BY <1>6, StutterKeeps
<1> QED
  BY <1>1, <1>2, <1>3, <1>4, <1>5, <1>6 DEF RunsNext

LEMMA RunsInvariant == RunsSpec => []RunsInv
<1>1. RunsInit => RunsInv
  BY RunsInvInit
<1>2. RunsInv /\ [RunsNext]_vars => RunsInv'
  BY RunsInvNext
<1> QED
  BY <1>1, <1>2, PTL DEF RunsSpec

\* The state of the run, its inbox and its deciders keep their types: no call
\* of decide_once retries more often than max_conflict_retries allows, however
\* many other processes overtake it.
THEOREM RunsTypeCorrect == RunsSpec => []RunsTypeOK
<1>1. RunsInv => RunsTypeOK
  BY DEF RunsInv
<1> QED
  BY <1>1, RunsInvariant, PTL

\* The revision check of apply_transition_plan is enough: the other exceptions
\* of the transaction, which decide_once does not catch, are never raised.
THEOREM RevisionsSuffice == RunsSpec => []OnlyStaleRevisionsRaise
<1>1. RunsInv => OnlyStaleRevisionsRaise
  <2> SUFFICES ASSUME RunsInv, NEW p \in Process, proc[p].step = "apply", Fresh(p)
               PROVE  Committable(p)
    BY DEF OnlyStaleRevisionsRaise
  <2>1. SnapshotHolds(p)
    BY DEF RunsInv, SnapshotsHold
  <2>2. proc[p].run = CurrentRun
    BY <2>1 DEF SnapshotHolds
  <2>3. proc[p].run.status = status /\ proc[p].run.schema = schema
    BY <2>2 DEF CurrentRun
  <2> QED
    BY <2>1, <2>3 DEF SnapshotHolds, Committable
<1> QED
  BY <1>1, RunsInvariant, PTL

-----------------------------------------------------------------------------
(***************************************************************************)
(* The serial worker                                                       *)
(***************************************************************************)

\* A transition that starts from the current stages and consumes posted,
\* unconsumed signals is a serial decision.
LEMMA TransitionIsSerial ==
    ASSUME RunsTypeOK, NEW run \in Run, NEW batch \in SUBSET Key, Transition(run, batch),
           run.stages = stages, run.revision = revision,
           status \notin RunTerminal,
           \A k \in batch : inbox'[k] # NoPayload /\ consumedAt[k] = 0,
           Serial!PostOnce \/ UNCHANGED inbox
    PROVE  Serial!HandleNext
<1>1. run.revision + 1 # 0 /\ run.revision + 1 \in Nat
  BY DEF RunsTypeOK
<1>2. Consumed' = Consumed \cup batch
  BY <1>1 DEF Consumed, Transition
<1>3. batch \in SUBSET (Serial!Posted(inbox') \ Consumed)
  BY DEF Serial!Posted, Consumed
<1>4. Serial!Handle(batch)
  BY <1>2 DEF Serial!Handle, Transition
<1> QED
  BY <1>3, <1>4 DEF Serial!HandleNext

LEMMA StoreIsPost ==
    ASSUME NEW k \in Key, NEW payload \in Payload, Store(k, payload)
    PROVE  Serial!PostOnce
BY DEF Store, Serial!PostOnce, Serial!Posted

LEMMA SerialStutter ==
    ASSUME UNCHANGED <<status, stages, inbox, consumedAt>>
    PROVE  UNCHANGED Serial!serialVars
BY DEF Serial!serialVars, Consumed

LEMMA RunsStepIsSerial ==
    ASSUME RunsInv, [RunsNext]_vars
    PROVE  [Serial!SerialNext]_(Serial!serialVars)
<1>1. ASSUME NEW s \in Stage, NEW ticketStatus \in TicketStatus,
             TicketFinished(s, ticketStatus)
      PROVE  Serial!HandleNext
  <2> DEFINE k       == [stage |-> s, status |-> ticketStatus]
             payload == [stage |-> s, verdict |-> IF ticketStatus = "failed" THEN "failed"
                                                  ELSE "succeeded"]
             batch   == BatchOf(PendingIn(inbox'))
  <2>1. k \in Key /\ payload \in Payload
    BY DEF Key, TicketKey, Payload, StageTerminal
  <2>2. Store(k, payload) \/ UNCHANGED inbox
    BY <1>1 DEF TicketFinished
  <2>3. Serial!PostOnce \/ UNCHANGED inbox
    BY <2>1, <2>2, StoreIsPost
  <2>4. batch \in SUBSET Key /\ \A j \in batch : inbox'[j] # NoPayload /\ consumedAt[j] = 0
    BY DEF BatchOf, PendingIn
  <2>5. /\ CurrentRun \in Run
        /\ CurrentRun.stages = stages /\ CurrentRun.revision = revision
    BY DEF CurrentRun, Run, RunsInv, RunsTypeOK
  <2>6. Transition(CurrentRun, batch) /\ status \notin RunTerminal
    BY <1>1 DEF TicketFinished
  <2> HIDE DEF batch
  <2> QED
    BY <2>3, <2>4, <2>5, <2>6, TransitionIsSerial DEF RunsInv
<1>2. ASSUME NEW p \in Process, NEW k \in ExternalKey, NEW payload \in Offered,
             Enqueue(p, k, payload)
      PROVE  Serial!Post \/ UNCHANGED Serial!serialVars
  <2>1. k \in Key /\ payload \in Payload
    BY RunsAssumption DEF Key
  <2>2. CASE Store(k, payload)
    <3>1. Serial!PostOnce
      BY <2>1, <2>2, StoreIsPost
    <3>2. UNCHANGED <<status, stages, Consumed>>
      BY <1>2 DEF Enqueue, runVars, Consumed
    <3> QED
      BY <3>1, <3>2 DEF Serial!Post
  <2>3. CASE UNCHANGED inbox
    BY <1>2, <2>3, SerialStutter DEF Enqueue, runVars
  <2> QED
    BY <1>2, <2>2, <2>3 DEF Enqueue
<1>3. ASSUME NEW p \in Process, Apply(p)
      PROVE  Serial!HandleNext
  <2>1. proc[p] \in Local /\ SnapshotHolds(p) /\ proc[p].step = "apply"
    BY <1>3 DEF Apply, RunsInv, RunsTypeOK, SnapshotsHold
  <2>2. proc[p].run \in Run /\ proc[p].batch \in SUBSET Key
    BY <2>1 DEF Local, SnapshotHolds
  <2>3. proc[p].run = CurrentRun /\ \A k \in proc[p].batch : inbox[k] # NoPayload
    BY <1>3, <2>1 DEF Apply, SnapshotHolds
  <2>4. proc[p].run.stages = stages /\ proc[p].run.revision = revision
    BY <2>3 DEF CurrentRun
  <2>5. /\ Transition(proc[p].run, proc[p].batch) /\ inbox' = inbox
        /\ status \notin RunTerminal /\ \A k \in proc[p].batch : consumedAt[k] = 0
    BY <1>3 DEF Apply, Committable
  <2> QED
    BY <2>2, <2>3, <2>4, <2>5, TransitionIsSerial DEF RunsInv
<1>4. ASSUME NEW p \in Process, Decision(p), ~ Apply(p)
      PROVE  UNCHANGED <<status, stages, inbox, consumedAt>>
  BY <1>4 DEF Decision, LoadRun, LoadSignals, FindTerminal, FindForeign, Retry, GiveUp,
              Recover, CountPending, runVars, signalVars
<1>5. ASSUME NEW p \in Process, Crash(p)
      PROVE  UNCHANGED <<status, stages, inbox, consumedAt>>
  BY <1>5 DEF Crash, runVars, signalVars
<1>6. MigrateState => UNCHANGED <<status, stages, inbox, consumedAt>>
  BY DEF MigrateState, signalVars
<1>7. UNCHANGED vars => UNCHANGED <<status, stages, inbox, consumedAt>>
  BY DEF vars, runVars, signalVars
<1> QED
  BY <1>1, <1>2, <1>3, <1>4, <1>5, <1>6, <1>7, SerialStutter
     DEF RunsNext, Serial!SerialNext

\* Optimistic concurrency is invisible: whatever processes load, retry, crash
\* and recover (service.py), what apply_transition_plan commits to a run is a
\* behaviour of one worker that handles every signal at most once.
THEOREM DecisionsAreSerial == RunsSpec => RunsAreSerial
<1>1. RunsInit => Serial!SerialInit
  BY DEF RunsInit, Serial!SerialInit, Consumed
<1>2. RunsInv /\ [RunsNext]_vars => [Serial!SerialNext]_(Serial!serialVars)
  BY RunsStepIsSerial
<1> QED
  BY <1>1, <1>2, RunsInvariant, PTL DEF RunsSpec, RunsAreSerial, Serial!SerialSpec

-----------------------------------------------------------------------------
(***************************************************************************)
(* Stages, waits and consumed signals                                      *)
(***************************************************************************)

SignalsInv == RunsInv /\ ConsumptionIsDated /\ StageFollowsSignals /\ WaitsFollowStages

\* What a decision makes of one stage.
LEMMA DecideStage ==
    ASSUME NEW st \in [Stage -> StageStatus], NEW keys \in SUBSET Key,
           NEW box \in [Key -> Payload \cup {NoPayload}],
           \A k \in keys : box[k] # NoPayload,
           NEW s \in Stage
    PROVE  LET new == Decide(st, keys, box, Rank)[s]
           IN  /\ st[s] \in StageTerminal => new = st[s]
               /\ (\E k \in keys : box[k].stage = s) => new \in StageTerminal
               /\ st[s] \notin StageTerminal /\ new \in {"succeeded", "failed"} =>
                     \E k \in keys : box[k].stage = s /\ box[k].verdict = new
<1> DEFINE given == Absorb(st, keys, box, Rank)
           new   == Decide(st, keys, box, Rank)[s]
<1>1. new = IF given[s] # "blocked" THEN given[s]
            ELSE IF s \in Lost(given) THEN "cancelled"
            ELSE IF {given[d] : d \in DependsOn[s]} = {"succeeded"} THEN "ready"
            ELSE "blocked"
  BY DEF Decide, Settle
<1>2. given[s] \in StageTerminal => new = given[s]
  BY <1>1 DEF StageTerminal
<1>3. new \in {"succeeded", "failed"} => new = given[s]
  BY <1>1
<1>4. st[s] \in StageTerminal => given[s] = st[s]
  BY DEF Absorb
<1>5. ASSUME \E k \in keys : box[k].stage = s, st[s] \notin StageTerminal
      PROVE  \E k \in keys : box[k].stage = s /\ box[k].verdict = given[s]
                             /\ given[s] \in StageTerminal
  <2>1. PICK k \in keys : k = FirstAbout(s, keys, box, Rank)
    BY <1>5, FirstAboutExists
  <2>2. box[k].stage = s
    BY <1>5, <2>1, FirstAboutExists
  <2>3. given[s] = box[k].verdict
    BY <1>5, <2>1 DEF Absorb
  <2>4. box[k].verdict \in StageTerminal
    BY <2>1 DEF Payload
  <2> QED
    BY <2>2, <2>3, <2>4
<1>6. ~ (\E k \in keys : box[k].stage = s) => given[s] = st[s]
  BY DEF Absorb
<1> HIDE DEF given, new
<1>7. /\ st[s] \in StageTerminal => new = st[s]
      /\ (\E k \in keys : box[k].stage = s) => new \in StageTerminal
  BY <1>2, <1>4, <1>5
<1>8. st[s] \notin StageTerminal /\ new \in {"succeeded", "failed"} =>
         \E k \in keys : box[k].stage = s /\ box[k].verdict = new
  BY <1>3, <1>5, <1>6 DEF StageTerminal
<1> QED
  BY <1>7, <1>8 DEF new

\* A transition on the current stages keeps what relates signals, stages and
\* waits.
LEMMA TransitionKeepsSignals ==
    ASSUME SignalsInv, RunsInv', NEW run \in Run, NEW batch \in SUBSET Key,
           Transition(run, batch), run.stages = stages, run.revision = revision,
           \A k \in batch : inbox'[k] # NoPayload /\ consumedAt[k] = 0,
           \A k \in Key : inbox[k] # NoPayload => inbox'[k] = inbox[k]
    PROVE  SignalsInv'
<1>1. /\ stages \in [Stage -> StageStatus] /\ revision \in Nat
      /\ consumedAt \in [Key -> Nat] /\ inbox' \in [Key -> Payload \cup {NoPayload}]
  BY DEF SignalsInv, RunsInv, RunsTypeOK
<1>2. /\ stages' = Decide(stages, batch, inbox', Rank)
      /\ revision' = revision + 1
      /\ waits' = AwaitFresh(Awaited(stages'))
      /\ consumedAt' = [k \in Key |-> IF k \in batch THEN revision + 1 ELSE consumedAt[k]]
  BY DEF Transition
<1>3. \A k \in Key : consumedAt[k] <= revision /\ (inbox[k] = NoPayload => consumedAt[k] = 0)
  BY DEF SignalsInv, ConsumptionIsDated
<1>4. ConsumptionIsDated'
  BY <1>1, <1>2, <1>3 DEF ConsumptionIsDated
<1>5. WaitsFollowStages'
  BY <1>2 DEF WaitsFollowStages, AwaitFresh, Awaited
<1>6. \A k \in Key \ batch : consumedAt'[k] # 0 =>
         /\ consumedAt[k] # 0 /\ consumedAt'[k] = consumedAt[k] /\ inbox'[k] = inbox[k]
         /\ consumedAt[k] <= revision
  BY <1>2, <1>3
<1>7. \A k \in batch : consumedAt'[k] = revision + 1 /\ consumedAt'[k] # 0
  BY <1>1, <1>2
<1>8. \A k \in Key : consumedAt[k] # 0 =>
         k \notin batch /\ consumedAt'[k] = consumedAt[k] /\ inbox'[k] = inbox[k]
  BY <1>2, <1>3
<1>9. ASSUME NEW s \in Stage
      PROVE  LET about == {k \in Key : consumedAt'[k] # 0 /\ inbox'[k].stage = s}
             IN  /\ about # {} => stages'[s] \in StageTerminal
                 /\ stages'[s] \in {"succeeded", "failed"} =>
                       \E k \in about : /\ inbox'[k].verdict = stages'[s]
                                        /\ \A j \in about : consumedAt'[k] <= consumedAt'[j]
  <2> DEFINE before == {k \in Key : consumedAt[k] # 0 /\ inbox[k].stage = s}
             about  == {k \in Key : consumedAt'[k] # 0 /\ inbox'[k].stage = s}
  <2>1. /\ before # {} => stages[s] \in StageTerminal
        /\ stages[s] \in {"succeeded", "failed"} =>
              \E k \in before : /\ inbox[k].verdict = stages[s]
                                /\ \A j \in before : consumedAt[k] <= consumedAt[j]
    BY DEF SignalsInv, StageFollowsSignals, Consumed
  <2>2. /\ stages[s] \in StageTerminal => stages'[s] = stages[s]
        /\ (\E k \in batch : inbox'[k].stage = s) => stages'[s] \in StageTerminal
        /\ stages[s] \notin StageTerminal /\ stages'[s] \in {"succeeded", "failed"} =>
              \E k \in batch : inbox'[k].stage = s /\ inbox'[k].verdict = stages'[s]
    <3>1. PICK box : box = inbox'
      OBVIOUS
    <3>2. /\ box \in [Key -> Payload \cup {NoPayload}]
          /\ \A k \in batch : box[k] # NoPayload
          /\ stages'[s] = Decide(stages, batch, box, Rank)[s]
      BY <1>1, <1>2, <3>1
    <3> QED
      BY <1>1, <3>1, <3>2, DecideStage
  <2>3. before \subseteq about /\ about \subseteq before \cup batch
    BY <1>6, <1>8
  <2>4. about # {} => stages'[s] \in StageTerminal
    <3>1. CASE before # {}
      BY <2>1, <2>2, <3>1
    <3>2. CASE before = {}
      BY <2>2, <2>3, <3>2
    <3> QED
      BY <3>1, <3>2
  <2>5. ASSUME stages'[s] \in {"succeeded", "failed"}
        PROVE  \E k \in about : /\ inbox'[k].verdict = stages'[s]
                                /\ \A j \in about : consumedAt'[k] <= consumedAt'[j]
    <3>1. CASE stages[s] \in StageTerminal
      <4>1. stages'[s] = stages[s]
        BY <2>2, <3>1
      <4>2. PICK k \in before : /\ inbox[k].verdict = stages[s]
                                /\ \A j \in before : consumedAt[k] <= consumedAt[j]
        BY <2>1, <2>5, <4>1
      <4>3. /\ k \in about /\ inbox'[k].verdict = stages'[s]
            /\ consumedAt'[k] = consumedAt[k] /\ consumedAt[k] <= revision
        BY <1>3, <1>8, <2>3, <4>1, <4>2
      <4>4. \A j \in about : consumedAt'[k] <= consumedAt'[j]
        <5> SUFFICES ASSUME NEW j \in about PROVE consumedAt'[k] <= consumedAt'[j]
          OBVIOUS
        <5>1. CASE j \in batch
          BY <1>1, <1>7, <4>3, <5>1
        <5>2. CASE j \notin batch
          BY <1>6, <2>3, <4>2, <4>3, <5>2
        <5> QED
          BY <5>1, <5>2
      <4> QED
        BY <4>3, <4>4
    <3>2. CASE stages[s] \notin StageTerminal
      <4>1. before = {}
        BY <2>1, <3>2
      <4>2. PICK k \in batch : inbox'[k].stage = s /\ inbox'[k].verdict = stages'[s]
        BY <2>2, <2>5, <3>2
      <4>3. about \subseteq batch /\ k \in about
        BY <1>7, <2>3, <4>1, <4>2
      <4> QED
        BY <1>1, <1>7, <4>2, <4>3
    <3> QED
      BY <3>1, <3>2
  <2> QED
    BY <2>4, <2>5
<1>10. StageFollowsSignals'
  <2> SUFFICES ASSUME NEW s \in Stage
               PROVE  LET about == {k \in Consumed' : inbox'[k].stage = s}
                      IN  /\ about # {} => stages'[s] \in StageTerminal
                          /\ stages'[s] \in {"succeeded", "failed"} =>
                                \E k \in about :
                                   /\ inbox'[k].verdict = stages'[s]
                                   /\ \A j \in about : consumedAt'[k] <= consumedAt'[j]
    BY DEF StageFollowsSignals
  <2>1. {k \in Consumed' : inbox'[k].stage = s}
           = {k \in Key : consumedAt'[k] # 0 /\ inbox'[k].stage = s}
    BY DEF Consumed
  <2> QED
    BY <1>9, <2>1
<1> QED
  BY <1>4, <1>5, <1>10 DEF SignalsInv

LEMMA SignalsInvInit == RunsInit => SignalsInv
<1> SUFFICES ASSUME RunsInit PROVE SignalsInv
  OBVIOUS
<1>1. Consumed = {} /\ ConsumptionIsDated
  BY DEF RunsInit, Consumed, ConsumptionIsDated
<1>2. stages = InitialStages /\ waits = AwaitFresh(Stage)
  BY DEF RunsInit
<1>3. \A s \in Stage : stages[s] \in {"ready", "blocked"}
  BY <1>2 DEF InitialStages
<1>4. StageFollowsSignals
  BY <1>1, <1>3 DEF StageFollowsSignals
<1>5. Awaited(stages) = Stage
  BY <1>3, RunsAssumption DEF Awaited, StatusOf, StageTerminal
<1>6. WaitsFollowStages
  BY <1>2, <1>5 DEF WaitsFollowStages, AwaitFresh
<1> QED
  BY <1>1, <1>4, <1>6, RunsInvInit DEF SignalsInv

\* Storing a signal marks waits and consumes nothing.
LEMMA EnqueueKeepsSignals ==
    ASSUME SignalsInv, RunsInv', NEW p \in Process, NEW k \in ExternalKey,
           NEW payload \in Offered, Enqueue(p, k, payload)
    PROVE  SignalsInv'
<1>1. k \in Key /\ payload \in Payload /\ payload # NoPayload
  BY RunsAssumption DEF Key
<1>2. /\ stages' = stages /\ revision' = revision /\ consumedAt' = consumedAt
      /\ inbox \in [Key -> Payload \cup {NoPayload}]
  BY DEF Enqueue, runVars, SignalsInv, RunsInv, RunsTypeOK
<1>3. \A j \in Key : inbox[j] # NoPayload => inbox'[j] = inbox[j]
  BY <1>1, <1>2 DEF Enqueue, Store
<1>4. \A j \in Key : inbox[j] = NoPayload => consumedAt[j] = 0
  BY DEF SignalsInv, ConsumptionIsDated
<1>5. ConsumptionIsDated'
  BY <1>2, <1>3, <1>4 DEF SignalsInv, ConsumptionIsDated
<1>6. Consumed' = Consumed /\ \A j \in Consumed : inbox'[j] = inbox[j]
  BY <1>2, <1>3, <1>4 DEF Consumed
<1>7. StageFollowsSignals'
  <2> SUFFICES ASSUME NEW s \in Stage
               PROVE  LET about == {j \in Consumed' : inbox'[j].stage = s}
                      IN  /\ about # {} => stages'[s] \in StageTerminal
                          /\ stages'[s] \in {"succeeded", "failed"} =>
                                \E j \in about :
                                   /\ inbox'[j].verdict = stages'[s]
                                   /\ \A i \in about : consumedAt'[j] <= consumedAt'[i]
    BY DEF StageFollowsSignals
  <2>1. {j \in Consumed' : inbox'[j].stage = s} = {j \in Consumed : inbox[j].stage = s}
    BY <1>6
  <2> QED
    BY <1>2, <1>6, <2>1 DEF SignalsInv, StageFollowsSignals
<1>8. \A j \in Pending : j \in Pending' /\ inbox'[j] = inbox[j]
  BY <1>2, <1>3 DEF Pending, PendingIn
<1>9. WaitsFollowStages'
  <2>1. CASE Store(k, payload) /\ waits' = Satisfied(payload)
    <3>1. k \in Pending' /\ inbox'[k] = payload
      BY <1>1, <1>2, <1>4, <2>1 DEF Store, Pending, PendingIn
    <3>2. ASSUME NEW s \in Stage
          PROVE  /\ waits'[s] # "none" <=> waits[s] # "none"
                 /\ waits'[s] = "satisfied" => waits[s] = "satisfied" \/ payload.stage = s
      BY <2>1 DEF Satisfied
    <3> QED
      BY <1>2, <1>8, <3>1, <3>2 DEF SignalsInv, WaitsFollowStages
  <2>2. CASE waits' = waits
    BY <1>2, <1>8, <2>2 DEF SignalsInv, WaitsFollowStages
  <2> QED
    BY <2>1, <2>2 DEF Enqueue
<1> QED
  BY <1>5, <1>7, <1>9 DEF SignalsInv

LEMMA NothingKeepsSignals ==
    ASSUME SignalsInv, RunsInv', UNCHANGED <<stages, waits, inbox, consumedAt>>,
           revision' \in {revision, revision + 1}
    PROVE  SignalsInv'
<1>1. revision \in Nat /\ consumedAt \in [Key -> Nat]
  BY DEF SignalsInv, RunsInv, RunsTypeOK
<1>2. \A k \in Key : consumedAt[k] <= revision'
  BY <1>1 DEF SignalsInv, ConsumptionIsDated
<1>3. ConsumptionIsDated'
  BY <1>2 DEF SignalsInv, ConsumptionIsDated
<1>4. Consumed' = Consumed /\ Pending' = Pending
  BY DEF Consumed, Pending, PendingIn
<1>5. StageFollowsSignals'
  BY <1>4 DEF SignalsInv, StageFollowsSignals
<1>6. WaitsFollowStages'
  BY <1>4 DEF SignalsInv, WaitsFollowStages
<1> QED
  BY <1>3, <1>5, <1>6 DEF SignalsInv

LEMMA SignalsInvNext == SignalsInv /\ [RunsNext]_vars => SignalsInv'
<1> SUFFICES ASSUME SignalsInv, [RunsNext]_vars PROVE SignalsInv'
  OBVIOUS
<1>1. RunsInv'
  BY RunsInvNext DEF SignalsInv
<1>2. ASSUME NEW s \in Stage, NEW ticketStatus \in TicketStatus,
             TicketFinished(s, ticketStatus)
      PROVE  SignalsInv'
  <2> DEFINE k       == [stage |-> s, status |-> ticketStatus]
             payload == [stage |-> s, verdict |-> IF ticketStatus = "failed" THEN "failed"
                                                  ELSE "succeeded"]
             batch   == BatchOf(PendingIn(inbox'))
  <2>1. k \in Key /\ inbox \in [Key -> Payload \cup {NoPayload}]
    BY DEF Key, TicketKey, SignalsInv, RunsInv, RunsTypeOK
  <2>2. Store(k, payload) \/ UNCHANGED inbox
    BY <1>2 DEF TicketFinished
  <2>3. \A j \in Key : inbox[j] # NoPayload => inbox'[j] = inbox[j]
    BY <2>1, <2>2 DEF Store
  <2>4. batch \in SUBSET Key /\ \A j \in batch : inbox'[j] # NoPayload /\ consumedAt[j] = 0
    BY DEF BatchOf, PendingIn
  <2>5. /\ CurrentRun \in Run
        /\ CurrentRun.stages = stages /\ CurrentRun.revision = revision
    BY DEF CurrentRun, Run, SignalsInv, RunsInv, RunsTypeOK
  <2>6. Transition(CurrentRun, batch)
    BY <1>2 DEF TicketFinished
  <2> HIDE DEF batch
  <2> QED
    BY <1>1, <2>3, <2>4, <2>5, <2>6, TransitionKeepsSignals
<1>3. ASSUME NEW p \in Process, Apply(p)
      PROVE  SignalsInv'
  <2>1. proc[p] \in Local /\ SnapshotHolds(p) /\ proc[p].step = "apply"
    BY <1>3 DEF Apply, SignalsInv, RunsInv, RunsTypeOK, SnapshotsHold
  <2>2. proc[p].run \in Run /\ proc[p].batch \in SUBSET Key
    BY <2>1 DEF Local, SnapshotHolds
  <2>3. proc[p].run = CurrentRun /\ \A k \in proc[p].batch : inbox[k] # NoPayload
    BY <1>3, <2>1 DEF Apply, SnapshotHolds
  <2>4. proc[p].run.stages = stages /\ proc[p].run.revision = revision
    BY <2>3 DEF CurrentRun
  <2>5. /\ Transition(proc[p].run, proc[p].batch) /\ inbox' = inbox
        /\ \A k \in proc[p].batch : consumedAt[k] = 0
    BY <1>3 DEF Apply, Committable
  <2> QED
    BY <1>1, <2>2, <2>3, <2>4, <2>5, TransitionKeepsSignals
<1>4. ASSUME NEW p \in Process, NEW k \in ExternalKey, NEW payload \in Offered,
             Enqueue(p, k, payload)
      PROVE  SignalsInv'
  BY <1>1, <1>4, EnqueueKeepsSignals
<1>5. ASSUME NEW p \in Process, (Decision(p) /\ ~ Apply(p)) \/ Crash(p)
      PROVE  SignalsInv'
  <2>1. UNCHANGED <<revision, stages, waits, inbox, consumedAt>>
    BY <1>5 DEF Decision, LoadRun, LoadSignals, FindTerminal, FindForeign, Retry, GiveUp,
                Recover, CountPending, Crash, runVars, signalVars
  <2> QED
    BY <1>1, <2>1, NothingKeepsSignals
<1>6. CASE MigrateState
  <2>1. UNCHANGED <<stages, waits, inbox, consumedAt>> /\ revision' = revision + 1
    BY <1>6 DEF MigrateState, signalVars
  <2> QED
    BY <1>1, <2>1, NothingKeepsSignals
<1>7. CASE UNCHANGED vars
  <2>1. UNCHANGED <<revision, stages, waits, inbox, consumedAt>>
    BY <1>7 DEF vars, runVars, signalVars
  <2> QED
    BY <1>1, <2>1, NothingKeepsSignals
<1> QED
  BY <1>2, <1>3, <1>4, <1>5, <1>6, <1>7 DEF RunsNext

LEMMA SignalsInvariant == RunsSpec => []SignalsInv
<1>1. RunsInit => SignalsInv
  BY SignalsInvInit
<1>2. SignalsInv /\ [RunsNext]_vars => SignalsInv'
  BY SignalsInvNext
<1> QED
  BY <1>1, <1>2, PTL DEF RunsSpec

\* No outcome that was consumed is lost by a concurrent decision and none is
\* made up (decide in static_dag.py, apply_transition_plan): the earliest
\* consumed signal about a stage decides it, for every graph and every batch.
THEOREM StagesFollowSignals == RunsSpec => []StageFollowsSignals
<1>1. SignalsInv => StageFollowsSignals
  BY DEF SignalsInv
<1> QED
  BY <1>1, SignalsInvariant, PTL

\* The waits that enqueue_workflow_signal matches against are those of the
\* current stages, and a satisfied wait still has its signal to consume.
THEOREM WaitsAreCurrent == RunsSpec => []WaitsFollowStages
<1>1. SignalsInv => WaitsFollowStages
  BY DEF SignalsInv
<1> QED
  BY <1>1, SignalsInvariant, PTL

-----------------------------------------------------------------------------
(***************************************************************************)
(* Wakes and their signals                                                 *)
(***************************************************************************)

\* What the process has selected includes the signal, unless it is consumed.
Selects(q, k) == k \in proc[q].batch \/ consumedAt[k] # 0

\* q has loaded the run after p was woken: p has loaded it before q or tries
\* again, and q's run is newer, or current.
LoadedAfter(q, p) ==
    \/ proc[p].run # NoRun /\ proc[q].run.revision > proc[p].run.revision
    \/ proc[p].tries > 0 /\ Fresh(q)

\* Whoever has loaded the run after p was woken for a signal selects it too.
AlsoSelects(q, p) ==
    proc[p].key # NoKey /\ proc[q].step = "apply" /\ LoadedAfter(q, p) => Selects(q, proc[p].key)

\* A call that tries again has met a readable run, which only decisions move on.
RetryHolds(p) ==
    proc[p].tries > 0 =>
        /\ schema = "static_dag"
        /\ proc[p].run # NoRun /\ ~Fresh(p) => consumedAt[proc[p].key] # 0

WakeHolds(p) ==
    /\ proc[p].step \notin Deciding => proc[p].key = NoKey /\ proc[p].tries = 0
    /\ proc[p].run # NoRun =>
          /\ proc[p].run.status \in RunTerminal => status \in RunTerminal
          /\ proc[p].run.schema = "static_dag" => schema = "static_dag"
    /\ proc[p].key # NoKey =>
          /\ inbox[proc[p].key] # NoPayload
          /\ proc[p].step = "apply" => Selects(p, proc[p].key)
          /\ RetryHolds(p)

WakesHold == \A p \in Process : WakeHolds(p) /\ \A q \in Process : AlsoSelects(q, p)

\* With a limit that no inbox exceeds every pending signal is selected.
LEMMA BatchIsAll ==
    ASSUME Cardinality(Key) <= SignalLimit, NEW pending \in SUBSET Key
    PROVE  BatchOf(pending) = pending
<1> SUFFICES ASSUME NEW k \in pending
             PROVE  Cardinality({j \in pending : Rank[j] < Rank[k]}) < SignalLimit
  BY DEF BatchOf
<1> DEFINE older == {j \in pending : Rank[j] < Rank[k]}
<1>1. older \subseteq Key /\ k \in Key /\ k \notin older
  BY RunsAssumption
<1>2. /\ IsFiniteSet(Key) /\ IsFiniteSet(older)
      /\ Cardinality(older) <= Cardinality(Key)
      /\ Cardinality(older) = Cardinality(Key) => older = Key
  BY <1>1, FS_Subset, RunsAssumption
<1>3. Cardinality(older) \in Nat /\ Cardinality(Key) \in Nat
  BY <1>2, FS_CardinalityType
<1>4. older # Key
  BY <1>1
<1> QED BY <1>2, <1>3, <1>4, RunsAssumption

LEMMA WakesInit == RunsInit => WakesHold
BY DEF RunsInit, WakesHold, WakeHolds, AlsoSelects, LoadedAfter, Idle, Deciding

\* What is posted stays posted while one process moves and nothing is decided.
LEMMA OneMoves ==
    ASSUME RunsInv, WakesHold, NEW p \in Process,
           UNCHANGED <<runVars, consumedAt>>,
           \A k \in Key : inbox[k] # NoPayload => inbox'[k] # NoPayload,
           \A q \in Process \ {p} : proc'[q] = proc[q],
           WakeHolds(p)',
           \A q \in Process : AlsoSelects(q, p)' /\ AlsoSelects(p, q)'
    PROVE  WakesHold'
<1>1. ASSUME NEW q \in Process, q # p
      PROVE  WakeHolds(q)'
  <2>1. WakeHolds(q) /\ proc'[q] = proc[q] /\ proc[q] \in Local
    BY <1>1 DEF WakesHold, RunsInv, RunsTypeOK
  <2>2. proc[q].key # NoKey => proc[q].key \in Key
    BY <2>1 DEF Local
  <2> QED BY <2>1, <2>2 DEF WakeHolds, RetryHolds, Selects, Fresh, runVars
<1>2. ASSUME NEW q \in Process, NEW r \in Process, q # p, r # p
      PROVE  AlsoSelects(r, q)'
  <2>1. AlsoSelects(r, q) /\ proc'[q] = proc[q] /\ proc'[r] = proc[r]
    BY <1>2 DEF WakesHold
  <2> QED BY <2>1 DEF AlsoSelects, LoadedAfter, Selects, Fresh, runVars
<1> QED BY <1>1, <1>2 DEF WakesHold

\* A process that is left without a key wakes the run for nothing.
LEMMA OneResets ==
    ASSUME RunsInv, WakesHold, NEW p \in Process,
           UNCHANGED <<runVars, signalVars>>,
           \A q \in Process \ {p} : proc'[q] = proc[q],
           proc'[p].key = NoKey, proc'[p].step # "apply",
           proc'[p].run = NoRun, proc'[p].tries = 0
    PROVE  WakesHold'
<1>1. WakeHolds(p)'
  BY DEF WakeHolds
<1>2. \A q \in Process : AlsoSelects(q, p)' /\ AlsoSelects(p, q)'
  BY DEF AlsoSelects
<1> QED BY <1>1, <1>2, OneMoves DEF signalVars

LEMMA Resets ==
    ASSUME RunsInv, NEW p \in Process,
           Return(p) \/ \E step \in {"idle", "recover"} : Restart(p, step)
    PROVE  /\ \A q \in Process \ {p} : proc'[q] = proc[q]
           /\ proc'[p].key = NoKey /\ proc'[p].step \notin Deciding
           /\ proc'[p].run = NoRun /\ proc'[p].tries = 0
<1>1. proc \in [Process -> Local]
  BY DEF RunsInv, RunsTypeOK
<1>2. CASE Return(p)
  BY <1>1, <1>2 DEF Return, Idle, Deciding
<1>3. CASE \E step \in {"idle", "recover"} : Restart(p, step)
  BY <1>1, <1>3 DEF Restart, Idle, Deciding
<1> QED BY <1>2, <1>3

LEMMA EnqueueKeepsWakes ==
    ASSUME RunsInv, WakesHold, NEW p \in Process, NEW k \in ExternalKey,
           NEW payload \in Offered, Enqueue(p, k, payload)
    PROVE  WakesHold'
<1>1. k \in Key /\ payload \in Payload /\ payload # NoPayload /\ k # NoKey
  BY RunsAssumption DEF Key
<1>2. /\ proc \in [Process -> Local] /\ proc[p].step = "idle"
      /\ inbox \in [Key -> Payload \cup {NoPayload}]
  BY DEF Enqueue, RunsInv, RunsTypeOK
<1>3. proc[p].run = NoRun /\ proc[p].tries = 0
  BY <1>2 DEF WakesHold, WakeHolds, Deciding, RunsInv, SnapshotsHold, SnapshotHolds
<1>4. /\ proc'[p] = [proc[p] EXCEPT !.step = "load", !.key = k]
      /\ \A q \in Process \ {p} : proc'[q] = proc[q]
  BY <1>2 DEF Enqueue
<1>5. proc'[p].step = "load" /\ proc'[p].run = NoRun /\ proc'[p].tries = 0 /\ proc'[p].key = k
  BY <1>2, <1>3, <1>4 DEF Local
<1>6. inbox'[k] # NoPayload /\ \A j \in Key : inbox[j] # NoPayload => inbox'[j] # NoPayload
  BY <1>1, <1>2 DEF Enqueue, Store, Repeats
<1>7. WakeHolds(p)'
  BY <1>5, <1>6 DEF WakeHolds, RetryHolds, Deciding
<1>8. \A q \in Process : AlsoSelects(q, p)' /\ AlsoSelects(p, q)'
  BY <1>5 DEF AlsoSelects, LoadedAfter
<1> QED BY <1>4, <1>6, <1>7, <1>8, OneMoves DEF Enqueue

LEMMA LoadRunKeepsWakes ==
    ASSUME RunsInv, WakesHold, NEW p \in Process, LoadRun(p)
    PROVE  WakesHold'
<1>1. /\ proc \in [Process -> Local] /\ WakeHolds(p) /\ proc[p].step = "load"
      /\ revision \in Nat /\ UNCHANGED <<runVars, signalVars>>
  BY DEF LoadRun, RunsInv, RunsTypeOK, WakesHold
<1>2. /\ proc'[p] = [proc[p] EXCEPT !.step = "signals", !.run = CurrentRun]
      /\ \A q \in Process \ {p} : proc'[q] = proc[q]
  BY <1>1 DEF LoadRun
<1>3. /\ proc'[p].step = "signals" /\ proc'[p].run = CurrentRun
      /\ proc'[p].tries = proc[p].tries /\ proc'[p].key = proc[p].key
  BY <1>1, <1>2 DEF Local
<1>4. /\ CurrentRun.status = status /\ CurrentRun.schema = schema /\ CurrentRun.revision = revision
      /\ CurrentRun # NoRun
  BY RunsAssumption DEF CurrentRun, Run, RunsInv, RunsTypeOK
<1>5. WakeHolds(p)'
  BY <1>1, <1>3, <1>4 DEF WakeHolds, RetryHolds, Fresh, Deciding, runVars, signalVars
<1>6. ASSUME NEW q \in Process PROVE AlsoSelects(q, p)'
  <2>1. CASE q = p
    BY <1>3, <2>1 DEF AlsoSelects
  <2>2. CASE q # p
    <3>1. proc'[q] = proc[q] /\ AlsoSelects(q, p) /\ SnapshotHolds(q) /\ proc[q] \in Local
      BY <1>1, <1>2, <2>2 DEF WakesHold, RunsInv, SnapshotsHold
    <3>2. proc[q].step = "apply" => proc[q].run.revision \in Nat /\ proc[q].run.revision <= revision
      BY <3>1 DEF SnapshotHolds, Local, Run
    <3>3. proc[q].step = "apply" => ~ (proc[q].run.revision > revision)
      BY <1>1, <3>2
    <3> QED BY <1>1, <1>3, <1>4, <3>1, <3>3 DEF AlsoSelects, LoadedAfter, Selects, Fresh, runVars, signalVars
  <2> QED BY <2>1, <2>2
<1>7. \A q \in Process : AlsoSelects(p, q)'
  BY <1>3 DEF AlsoSelects
<1> QED BY <1>1, <1>2, <1>5, <1>6, <1>7, OneMoves DEF signalVars

LEMMA LoadSignalsKeepsWakes ==
    ASSUME RunsInv, WakesHold, Cardinality(Key) <= SignalLimit,
           NEW p \in Process, LoadSignals(p)
    PROVE  WakesHold'
<1>1. /\ proc \in [Process -> Local] /\ WakeHolds(p) /\ proc[p].step = "signals"
      /\ UNCHANGED <<runVars, signalVars>>
  BY DEF LoadSignals, RunsInv, RunsTypeOK, WakesHold
<1>2. /\ proc'[p] = [proc[p] EXCEPT !.step = "apply", !.batch = BatchOf(Pending)]
      /\ \A q \in Process \ {p} : proc'[q] = proc[q]
  BY <1>1 DEF LoadSignals
<1>3. /\ proc'[p].step = "apply" /\ proc'[p].batch = BatchOf(Pending) /\ proc'[p].run = proc[p].run
      /\ proc'[p].tries = proc[p].tries /\ proc'[p].key = proc[p].key
  BY <1>1, <1>2 DEF Local
<1>4. BatchOf(Pending) = Pending
  BY BatchIsAll DEF Pending, PendingIn
<1>5. \A k \in Key : inbox[k] # NoPayload => Selects(p, k)'
  BY <1>1, <1>3, <1>4 DEF Selects, Pending, PendingIn, signalVars
<1>6. \A q \in Process : proc[q].key # NoKey => proc[q].key \in Key /\ inbox[proc[q].key] # NoPayload
  BY <1>1 DEF Local, WakesHold, WakeHolds
<1>7. \A q \in Process : proc'[q].key = proc[q].key
  BY <1>2, <1>3
<1>8. \A q \in Process : AlsoSelects(p, q)'
  BY <1>5, <1>6, <1>7 DEF AlsoSelects
<1>9. WakeHolds(p)'
  BY <1>1, <1>3, <1>5, <1>6 DEF WakeHolds, RetryHolds, Fresh, Deciding, Selects, runVars, signalVars
<1>10. ASSUME NEW q \in Process PROVE AlsoSelects(q, p)'
  <2>1. CASE q = p
    BY <1>8, <2>1
  <2>2. CASE q # p
    <3>1. proc'[q] = proc[q] /\ AlsoSelects(q, p)
      BY <1>2, <2>2 DEF WakesHold
    <3> QED BY <1>1, <1>3, <3>1 DEF AlsoSelects, LoadedAfter, Selects, Fresh, runVars, signalVars
  <2> QED BY <2>1, <2>2
<1> QED BY <1>1, <1>2, <1>8, <1>9, <1>10, OneMoves DEF signalVars

LEMMA RetryKeepsWakes ==
    ASSUME RunsInv, WakesHold, NEW p \in Process, Retry(p)
    PROVE  WakesHold'
<1>1. /\ proc \in [Process -> Local] /\ WakeHolds(p) /\ SnapshotHolds(p)
      /\ proc[p].step = "apply" /\ ~ Fresh(p) /\ UNCHANGED <<runVars, signalVars>>
      /\ revision \in Nat
  BY DEF Retry, RunsInv, RunsTypeOK, WakesHold, SnapshotsHold
<1>2. /\ proc'[p] = [proc[p] EXCEPT !.step = "load", !.tries = @ + 1, !.run = NoRun, !.batch = {}]
      /\ \A q \in Process \ {p} : proc'[q] = proc[q]
  BY <1>1 DEF Retry
<1>3. proc'[p].step = "load" /\ proc'[p].run = NoRun /\ proc'[p].key = proc[p].key
  BY <1>1, <1>2 DEF Local
<1>4. proc[p].run # NoRun /\ schema = "static_dag"
  BY <1>1 DEF SnapshotHolds, WakeHolds
<1>5. revision > proc[p].run.revision
  <2>1. proc[p].run.revision \in Nat /\ proc[p].run.revision <= revision
    BY <1>1, <1>4 DEF SnapshotHolds, Local, Run
  <2>2. proc[p].run.revision # revision
    BY <1>1 DEF Fresh
  <2> QED BY <1>1, <2>1, <2>2
<1>6. WakeHolds(p)'
  BY <1>1, <1>3, <1>4 DEF WakeHolds, RetryHolds, Deciding, runVars, signalVars
<1>7. ASSUME NEW q \in Process PROVE AlsoSelects(q, p)'
  <2>1. CASE q = p
    BY <1>3, <2>1 DEF AlsoSelects
  <2>2. CASE q # p
    <3>1. proc'[q] = proc[q] /\ AlsoSelects(q, p)
      BY <1>2, <2>2 DEF WakesHold
    <3>2. Fresh(q) => LoadedAfter(q, p)
      BY <1>4, <1>5 DEF LoadedAfter, Fresh
    <3> QED BY <1>1, <1>3, <3>1, <3>2 DEF AlsoSelects, LoadedAfter, Selects, Fresh, runVars, signalVars
  <2> QED BY <2>1, <2>2
<1>8. \A q \in Process : AlsoSelects(p, q)'
  BY <1>3 DEF AlsoSelects
<1> QED BY <1>1, <1>2, <1>6, <1>7, <1>8, OneMoves DEF signalVars

LEMMA RecoverKeepsWakes ==
    ASSUME RunsInv, WakesHold, NEW p \in Process, Recover(p)
    PROVE  WakesHold'
<1>1. CASE status = "waiting" /\ Pending # {}
  <2>1. /\ proc \in [Process -> Local] /\ proc[p].step = "recover"
        /\ UNCHANGED <<runVars, signalVars>>
    BY DEF Recover, RunsInv, RunsTypeOK
  <2>2. proc[p].key = NoKey /\ proc[p].tries = 0 /\ proc[p].run = NoRun
    BY <2>1 DEF WakesHold, WakeHolds, Deciding, RunsInv, SnapshotsHold, SnapshotHolds
  <2>3. /\ proc'[p] = [proc[p] EXCEPT !.step = "load", !.before = Cardinality(Pending)]
        /\ \A q \in Process \ {p} : proc'[q] = proc[q]
    BY <1>1, <2>1 DEF Recover
  <2>4. /\ proc'[p].key = NoKey /\ proc'[p].tries = 0 /\ proc'[p].run = NoRun
        /\ proc'[p].step # "apply"
    BY <2>1, <2>2, <2>3 DEF Local
  <2> QED BY <2>1, <2>3, <2>4, OneResets
<1>2. CASE ~ (status = "waiting" /\ Pending # {})
  BY <1>2, Resets, OneResets DEF Recover, Deciding
<1> QED BY <1>1, <1>2

\* A decision by p consumes what it has selected, which is what those have been
\* woken for who try again.
LEMMA ApplyKeepsWakes ==
    ASSUME RunsInv, WakesHold, NEW p \in Process, Apply(p)
    PROVE  WakesHold'
<1>1. /\ proc \in [Process -> Local] /\ revision \in Nat /\ consumedAt \in [Key -> Nat]
      /\ proc[p].step = "apply" /\ Fresh(p) /\ status \notin RunTerminal
      /\ inbox' = inbox /\ proc[p].batch \subseteq Key
  BY DEF Apply, Committable, RunsInv, RunsTypeOK, Local
<1>2. /\ proc'[p].key = NoKey /\ proc'[p].step # "apply" /\ proc'[p].run = NoRun /\ proc'[p].tries = 0
      /\ \A q \in Process \ {p} : proc'[q] = proc[q]
  BY Resets DEF Apply, Deciding
<1>3. /\ revision' = revision + 1 /\ schema' = schema
      /\ consumedAt' = [k \in Key |-> IF k \in proc[p].batch THEN revision + 1 ELSE consumedAt[k]]
  BY <1>1 DEF Apply, Transition, Fresh
<1>4. \A k \in Key : Selects(p, k) => consumedAt'[k] # 0
  BY <1>1, <1>3 DEF Selects
<1>5. \A k \in Key : consumedAt[k] # 0 => consumedAt'[k] # 0
  BY <1>1, <1>3
<1>6. ASSUME NEW q \in Process, q # p
      PROVE  WakeHolds(q)'
  <2>1. WakeHolds(q) /\ AlsoSelects(p, q) /\ proc'[q] = proc[q] /\ proc[q] \in Local
    BY <1>1, <1>2, <1>6 DEF WakesHold
  <2>2. proc[q].key # NoKey => proc[q].key \in Key
    BY <2>1 DEF Local
  <2>3. proc[q].key # NoKey /\ proc[q].tries > 0 => consumedAt'[proc[q].key] # 0
    BY <1>1, <1>4, <2>1, <2>2 DEF AlsoSelects, LoadedAfter
  <2>4. proc[q].run # NoRun => proc[q].run.status \notin RunTerminal
    BY <1>1, <2>1 DEF WakeHolds
  <2> QED BY <1>1, <1>3, <1>5, <2>1, <2>2, <2>3, <2>4 DEF WakeHolds, RetryHolds, Selects
<1>7. ASSUME NEW q \in Process, NEW r \in Process, q # p, r # p
      PROVE  AlsoSelects(r, q)'
  <2>1. /\ AlsoSelects(r, q) /\ proc'[q] = proc[q] /\ proc'[r] = proc[r]
        /\ proc[r] \in Local /\ proc[q] \in Local /\ SnapshotHolds(r)
    BY <1>1, <1>2, <1>7 DEF WakesHold, RunsInv, SnapshotsHold
  <2>2. proc[r].step = "apply" => proc[r].run.revision # revision + 1
    <3>1. proc[r].step = "apply" => proc[r].run.revision \in Nat /\ proc[r].run.revision <= revision
      BY <2>1 DEF SnapshotHolds, Local, Run
    <3> QED BY <1>1, <3>1
  <2>3. proc[q].key # NoKey => proc[q].key \in Key
    BY <2>1 DEF Local
  <2> QED BY <1>3, <1>5, <2>1, <2>2, <2>3 DEF AlsoSelects, LoadedAfter, Selects, Fresh
<1>8. WakeHolds(p)'
  BY <1>2 DEF WakeHolds
<1>9. \A q \in Process : AlsoSelects(q, p)' /\ AlsoSelects(p, q)'
  BY <1>2 DEF AlsoSelects
<1> QED BY <1>6, <1>7, <1>8, <1>9 DEF WakesHold

\* The decision of a finished ticket consumes all there is.
LEMMA TicketFinishedKeepsWakes ==
    ASSUME RunsInv, WakesHold, Cardinality(Key) <= SignalLimit,
           NEW s \in Stage, NEW ticketStatus \in TicketStatus, TicketFinished(s, ticketStatus)
    PROVE  WakesHold'
<1> DEFINE k       == [stage |-> s, status |-> ticketStatus]
           payload == [stage |-> s, verdict |-> IF ticketStatus = "failed" THEN "failed"
                                                ELSE "succeeded"]
<1>1. /\ proc \in [Process -> Local] /\ proc' = proc /\ revision \in Nat
      /\ status \notin RunTerminal /\ inbox \in [Key -> Payload \cup {NoPayload}]
      /\ schema = "static_dag" /\ consumedAt \in [Key -> Nat]
  BY DEF TicketFinished, RunsInv, RunsTypeOK
<1>2. k \in Key /\ payload \in Payload /\ payload # NoPayload
  BY RunsAssumption DEF Key, TicketKey, Payload, StageTerminal
<1>3. Store(k, payload) \/ UNCHANGED inbox
  BY DEF TicketFinished
<1>4. \A j \in Key : inbox[j] # NoPayload => inbox'[j] # NoPayload
  BY <1>1, <1>2, <1>3 DEF Store
<1>5. BatchOf(PendingIn(inbox')) = PendingIn(inbox')
  BY BatchIsAll DEF PendingIn
<1>6. /\ schema' = schema
      /\ consumedAt' = [j \in Key |-> IF j \in PendingIn(inbox') THEN revision + 1 ELSE consumedAt[j]]
  BY <1>5 DEF TicketFinished, Transition, CurrentRun
<1>7. \A j \in Key : inbox[j] # NoPayload => consumedAt'[j] # 0
  BY <1>1, <1>4, <1>6 DEF PendingIn
<1>8. \A q \in Process : proc[q].key # NoKey =>
          /\ inbox'[proc[q].key] # NoPayload /\ consumedAt'[proc[q].key] # 0
  BY <1>1, <1>4, <1>7 DEF WakesHold, WakeHolds, Local
<1>9. ASSUME NEW q \in Process PROVE WakeHolds(q)'
  <2>1. WakeHolds(q)
    BY DEF WakesHold
  <2> QED BY <1>1, <1>6, <1>8, <2>1 DEF WakeHolds, RetryHolds, Selects
<1>10. ASSUME NEW q \in Process, NEW r \in Process PROVE AlsoSelects(r, q)'
  BY <1>1, <1>8 DEF AlsoSelects, Selects
<1> QED BY <1>9, <1>10 DEF WakesHold

LEMMA MigrateStateKeepsWakes ==
    ASSUME RunsInv, WakesHold, MigrateState
    PROVE  WakesHold'
<1>1. /\ proc \in [Process -> Local] /\ proc' = proc /\ schema # "static_dag" /\ schema' = "static_dag"
      /\ UNCHANGED <<status, inbox, consumedAt>>
  BY DEF MigrateState, RunsInv, RunsTypeOK, signalVars
<1>2. \A q \in Process : proc[q].key # NoKey => ~ (proc[q].tries > 0)
  BY <1>1 DEF WakesHold, WakeHolds, RetryHolds
<1>3. ASSUME NEW q \in Process PROVE WakeHolds(q)'
  <2>1. WakeHolds(q)
    BY DEF WakesHold
  <2> QED BY <1>1, <1>2, <2>1 DEF WakeHolds, RetryHolds, Selects
<1>4. ASSUME NEW q \in Process, NEW r \in Process PROVE AlsoSelects(r, q)'
  <2>1. AlsoSelects(r, q)
    BY DEF WakesHold
  <2> QED BY <1>1, <1>2, <2>1 DEF AlsoSelects, LoadedAfter, Selects
<1> QED BY <1>3, <1>4 DEF WakesHold

LEMMA WakesStep ==
    ASSUME Cardinality(Key) <= SignalLimit, RunsInv, WakesHold, [RunsNext]_vars
    PROVE  WakesHold'
<1>1. CASE \E s \in Stage, ticketStatus \in TicketStatus : TicketFinished(s, ticketStatus)
  BY <1>1, TicketFinishedKeepsWakes
<1>2. CASE \E p \in Process, k \in ExternalKey, payload \in Offered : Enqueue(p, k, payload)
  BY <1>2, EnqueueKeepsWakes
<1>3. ASSUME NEW p \in Process, Decision(p) PROVE WakesHold'
  <2>1. CASE LoadRun(p)
    BY <2>1, LoadRunKeepsWakes
  <2>2. CASE LoadSignals(p)
    BY <2>2, LoadSignalsKeepsWakes
  <2>3. CASE FindTerminal(p)
    BY <2>3, Resets, OneResets DEF FindTerminal, Deciding
  <2>4. CASE FindForeign(p)
    BY <2>4, Resets, OneResets DEF FindForeign, Deciding
  <2>5. CASE Apply(p)
    BY <2>5, ApplyKeepsWakes
  <2>6. CASE Retry(p)
    BY <2>6, RetryKeepsWakes
  <2>7. CASE GiveUp(p)
    BY <2>7, Resets, OneResets DEF GiveUp, Deciding
  <2>8. CASE Recover(p)
    BY <2>8, RecoverKeepsWakes
  <2>9. CASE CountPending(p)
    BY <2>9, Resets, OneResets DEF CountPending, Deciding
  <2> QED
    BY <1>3, <2>1, <2>2, <2>3, <2>4, <2>5, <2>6, <2>7, <2>8, <2>9 DEF Decision
<1>4. ASSUME NEW p \in Process, Crash(p) PROVE WakesHold'
  BY <1>4, Resets, OneResets DEF Crash, Deciding
<1>5. CASE MigrateState
  BY <1>5, MigrateStateKeepsWakes
<1>6. CASE UNCHANGED vars
  BY <1>6 DEF vars, runVars, signalVars, WakesHold, WakeHolds, AlsoSelects, LoadedAfter, RetryHolds,
              Selects, Fresh
<1> QED
  BY <1>1, <1>2, <1>3, <1>4, <1>5, <1>6 DEF RunsNext

\* Whoever calls decide_once for a signal (enqueue_and_wake in service.py) can
\* rely on it when the call ends, also when it raises after its last conflict:
\* the signal is consumed, the run decided or nobody here can read it.  One
\* retry is enough, as long as the inbox does not exceed signal_limit.
THEOREM WakesHandleTheirSignals ==
    ASSUME Cardinality(Key) <= SignalLimit, MaxConflictRetries >= 1
    PROVE  RunsSpec => WakeHandlesItsSignal
<1>1. ASSUME RunsInv, WakesHold, [RunsNext]_vars, NEW p \in Process,
             proc[p].key # NoKey, proc'[p].key = NoKey, crashes' = crashes
      PROVE  \/ consumedAt'[proc[p].key] # 0
             \/ status' \in RunTerminal
             \/ proc[p].run.schema = "foreign"
  <2>1. /\ proc \in [Process -> Local] /\ crashes \in Nat /\ WakeHolds(p) /\ SnapshotHolds(p)
        /\ proc[p].key \in Key /\ proc[p].step \in Deciding
        /\ consumedAt \in [Key -> Nat] /\ revision \in Nat
    BY <1>1 DEF RunsInv, RunsTypeOK, SnapshotsHold, WakesHold, WakeHolds, Local
  <2>2. PICK q \in Process : q = p /\ (FindTerminal(q) \/ FindForeign(q) \/ Apply(q) \/ GiveUp(q))
    <3>1. ASSUME proc' = proc PROVE FALSE
      BY <1>1, <3>1
    <3>2. ASSUME NEW q \in Process, NEW k \in ExternalKey, NEW payload \in Offered, Enqueue(q, k, payload)
          PROVE  FALSE
      <4>1. q # p
        BY <2>1, <3>2 DEF Enqueue, Deciding
      <4> QED BY <1>1, <2>1, <3>2, <4>1 DEF Enqueue
    <3>3. ASSUME NEW q \in Process, Crash(q) PROVE FALSE
      BY <1>1, <2>1, <3>3 DEF Crash
    <3>4. ASSUME NEW q \in Process, Decision(q) PROVE q = p
      BY <1>1, <2>1, <3>4 DEF Decision, LoadRun, LoadSignals, FindTerminal, FindForeign, Apply, Retry,
                              GiveUp, Recover, CountPending, Return, Restart
    <3>5. ASSUME LoadRun(p) \/ LoadSignals(p) \/ Retry(p) PROVE FALSE
      BY <1>1, <2>1, <3>5 DEF LoadRun, LoadSignals, Retry, Local
    <3>6. ASSUME Recover(p) \/ CountPending(p) PROVE FALSE
      BY <2>1, <3>6 DEF Recover, CountPending, Deciding
    <3> QED BY <1>1, <3>1, <3>2, <3>3, <3>4, <3>5, <3>6
            DEF RunsNext, Decision, TicketFinished, MigrateState, vars
  <2>3. CASE FindTerminal(p)
    <3>1. proc[p].run # NoRun /\ proc[p].run.status \in RunTerminal /\ status' = status
      BY <2>1, <2>3 DEF FindTerminal, SnapshotHolds, runVars
    <3> QED BY <2>1, <3>1 DEF WakeHolds
  <2>4. CASE FindForeign(p)
    BY <2>4 DEF FindForeign
  <2>5. CASE Apply(p)
    <3>1. /\ Selects(p, proc[p].key) /\ proc[p].run.revision = revision
      BY <1>1, <2>1, <2>5 DEF Apply, WakeHolds, Fresh
    <3>2. consumedAt' = [k \in Key |-> IF k \in proc[p].batch THEN revision + 1 ELSE consumedAt[k]]
      BY <2>5, <3>1 DEF Apply, Transition
    <3> QED BY <2>1, <3>1, <3>2 DEF Selects
  <2>6. CASE GiveUp(p)
    <3>1. /\ ~ Fresh(p) /\ proc[p].tries = MaxConflictRetries /\ proc[p].step = "apply"
          /\ consumedAt' = consumedAt
      BY <2>6 DEF GiveUp, signalVars
    <3>2. proc[p].tries > 0 /\ proc[p].run # NoRun
      BY <2>1, <3>1, RunsAssumption DEF SnapshotHolds
    <3> QED BY <1>1, <2>1, <3>1, <3>2 DEF WakeHolds, RetryHolds
  <2> QED BY <2>2, <2>3, <2>4, <2>5, <2>6
<1>2. RunsSpec => []WakesHold
  <2>1. RunsInv /\ WakesHold /\ [RunsNext]_vars => WakesHold'
    BY WakesStep
  <2> QED BY <2>1, WakesInit, RunsInvariant, PTL DEF RunsSpec
<1>3. RunsInv /\ WakesHold /\ [RunsNext]_vars =>
         [\A p \in Process :
            proc[p].key # NoKey /\ proc'[p].key = NoKey /\ crashes' = crashes =>
               \/ consumedAt'[proc[p].key] # 0
               \/ status' \in RunTerminal
               \/ proc[p].run.schema = "foreign"]_vars
  BY <1>1
<1> QED BY <1>2, <1>3, RunsInvariant, PTL DEF RunsSpec, WakeHandlesItsSignal
=============================================================================
