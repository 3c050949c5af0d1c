--------------------------- MODULE TicketRuns_proofs ---------------------------
(***************************************************************************)
(* Theorems about TicketRuns: the run decides every stage by the first     *)
(* outcome of its ticket, a launch leaves all of a workflow or nothing     *)
(* that would start, kickoffs start what the run has released, and what is *)
(* in progress is watched, for any stage graph, any number of faults and   *)
(* crashes and whatever the user does.                                     *)
(***************************************************************************)
EXTENDS TicketRuns, TLAPS

(***************************************************************************)
(* What a ticket that ends does to its run                                 *)
(***************************************************************************)

Ended == {"done", "failed", "archived"}

\* Settling touches blocked stages only, and none of them succeeds or fails.
LEMMA SettleKeeps ==
    ASSUME NEW stages \in [Stage -> StageStatus]
    PROVE  /\ Settle(stages) \in [Stage -> StageStatus]
           /\ \A s \in Stage : stages[s] # "blocked" => Settle(stages)[s] = stages[s]
           /\ \A s \in Stage : Settle(stages)[s] \in {"succeeded", "failed"}
                                 => Settle(stages)[s] = stages[s]
BY DEF Settle, StageStatus, StageTerminal

LEMMA StatusOfStages ==
    ASSUME NEW stages \in [Stage -> StageStatus]
    PROVE  /\ StatusOf(stages) \in RunStatus
           /\ (\E s \in Stage : stages[s] = "failed") => StatusOf(stages) = "failed"
BY DEF StatusOf, RunStatus, RunTerminal

LEMMA InitialStagesWait ==
    /\ InitialStages \in [Stage -> StageStatus]
    /\ StatusOf(InitialStages) = "waiting"
    /\ \A s \in Stage : InitialStages[s] \notin StageTerminal
<1>1. \A s \in Stage : InitialStages[s] \in {"ready", "blocked"}
  BY DEF InitialStages
<1>2. InitialStages \in [Stage -> StageStatus]
  BY <1>1 DEF InitialStages, StageStatus
<1>3. \A s \in Stage : InitialStages[s] \notin StageTerminal
  BY <1>1 DEF StageTerminal
<1>4. PICK s \in Stage : TRUE
  BY TicketRunsAssumption
<1>5. InitialStages[s] # "succeeded" /\ InitialStages[s] \notin StageTerminal
  BY <1>1, <1>3
<1>6. \A t \in Stage : InitialStages[t] # "failed"
  BY <1>1
<1>7. StatusOf(InitialStages) = "waiting"
  BY <1>5, <1>6 DEF StatusOf
<1> QED BY <1>2, <1>3, <1>7

-----------------------------------------------------------------------------
(***************************************************************************)
(* Types                                                                   *)
(***************************************************************************)

\* The ticket a kickoff is at, in the steps that change its status.
KickoffsHaveTickets ==
    \A k \in Kickoff :
        kick[k].step \in {"reaped", "spawn", "start", "handler", "reset"} => kick[k].at \in Stage

TypeInv == TicketRunsTypeOK /\ KickoffsHaveTickets

LEMMA ToldTypes ==
    ASSUME TicketRunsTypeOK, NEW s \in Stage, NEW status \in Ended, Told(s, status)
    PROVE  /\ run' \in [status : {"none"} \cup RunStatus, stages : [Stage -> StageStatus]]
           /\ first' \in [Stage -> {"none", "succeeded", "failed"}]
<1> DEFINE stages == Outcome(s, status)
<1>1. Verdict(status) \in {"succeeded", "failed"}
  BY DEF Verdict
<1>2. /\ run \in [status : {"none"} \cup RunStatus, stages : [Stage -> StageStatus]]
      /\ first \in [Stage -> {"none", "succeeded", "failed"}]
  BY DEF TicketRunsTypeOK
<1>3. stages \in [Stage -> StageStatus]
  BY <1>1, <1>2 DEF Outcome, StageStatus, StageTerminal
<1>4. Settle(stages) \in [Stage -> StageStatus] /\ StatusOf(Settle(stages)) \in RunStatus
  BY <1>3, SettleKeeps, StatusOfStages
<1>5. run' = IF run.status = "waiting"
             THEN [status |-> StatusOf(Settle(stages)), stages |-> Settle(stages)] ELSE run
  BY DEF Told
<1>6. run' \in [status : {"none"} \cup RunStatus, stages : [Stage -> StageStatus]]
  <2> HIDE DEF stages
  <2> QED BY <1>2, <1>4, <1>5
<1>7. first' \in [Stage -> {"none", "succeeded", "failed"}]
  BY <1>1, <1>2 DEF Told
<1> QED BY <1>6, <1>7

LEMMA SetStatusTypes ==
    ASSUME TicketRunsTypeOK, NEW s \in Stage, NEW status \in Status \ {"absent"},
           SetStatus(s, status)
    PROVE  /\ ticket' = [ticket EXCEPT ![s] = status]
           /\ ticket' \in [Stage \cup {Parent} -> Status]
           /\ run' \in [status : {"none"} \cup RunStatus, stages : [Stage -> StageStatus]]
           /\ first' \in [Stage -> {"none", "succeeded", "failed"}]
<1>1. /\ ticket' = [ticket EXCEPT ![s] = status]
      /\ ticket' \in [Stage \cup {Parent} -> Status]
  BY DEF SetStatus, TicketRunsTypeOK
<1>2. CASE status \in Ended
  BY <1>1, <1>2, ToldTypes DEF SetStatus, Ended
<1>3. CASE status \notin Ended
  BY <1>1, <1>3 DEF SetStatus, Ended, TicketRunsTypeOK
<1> QED BY <1>1, <1>2, <1>3

\* What a user's hand, and a kickoff that raised, leave in the history.
LEMMA TouchFacts ==
    ASSUME excused \in Excuses, NEW s \in Stage
    PROVE  /\ Touch(s) \in Excuses
           /\ Touch(s).loosened = excused.loosened /\ Touch(s).unattended = excused.unattended
           /\ Touch(s).touched = excused.touched \cup {s}
           /\ Touch(s).crossed = IF kick[Launcher].step = "idle" THEN excused.crossed
                                 ELSE excused.crossed \cup {s}
BY DEF Touch, Excuses

LEMMA ForceFacts ==
    ASSUME excused \in Excuses, NEW s \in Stage, ForceStatus(s)
    PROVE  \E status \in Forced :
             /\ SetStatus(s, status)
             /\ \/ kick' = kick
                \/ /\ kick' = [kick EXCEPT ![Worker] = [Idle EXCEPT !.step = "reap", !.todo = {s}]]
                   /\ status \in {"done", "failed", "archived"}
             /\ excused' \in Excuses
             /\ excused'.loosened = excused.loosened
             /\ excused'.unattended = excused.unattended \cup {t \in {s} : status = "in_progress"}
             /\ excused'.touched = excused.touched \cup {s}
             /\ excused'.crossed = IF kick[Launcher].step = "idle" THEN excused.crossed
                                   ELSE excused.crossed \cup {s}
<1>1. PICK status \in Forced :
         /\ SetStatus(s, status)
         /\ IF status \in {"done", "failed", "archived"} THEN ThenReap({s})
            ELSE UNCHANGED kick
         /\ excused' = [Touch(s) EXCEPT !.unattended = IF status = "in_progress"
                                                       THEN @ \cup {s} ELSE @]
  BY Zenon DEF ForceStatus
<1>2. /\ excused' \in Excuses
      /\ excused'.loosened = Touch(s).loosened /\ excused'.touched = Touch(s).touched
      /\ excused'.crossed = Touch(s).crossed
      /\ excused'.unattended = Touch(s).unattended \cup {t \in {s} : status = "in_progress"}
  BY <1>1, TouchFacts DEF Excuses
<1>3. \/ kick' = kick
      \/ /\ kick' = [kick EXCEPT ![Worker] = [Idle EXCEPT !.step = "reap", !.todo = {s}]]
         /\ status \in {"done", "failed", "archived"}
  BY <1>1, Zenon DEF ThenReap
<1> QED BY <1>1, <1>2, <1>3, TouchFacts

LEMMA AbandonFacts ==
    ASSUME excused \in Excuses, NEW s, Abandon(s)
    PROVE  /\ excused' \in Excuses
           /\ excused'.touched = excused.touched /\ excused'.crossed = excused.crossed
           /\ excused'.loosened = excused.loosened
           /\ excused'.unattended = excused.unattended \cup ({s} \cap Stage)
BY DEF Abandon, Excuses

LEMMA ReplaceDepsFacts ==
    ASSUME excused \in Excuses, deps \in [Stage -> SUBSET (Stage \cup {Parent})],
           NEW s \in Stage, ReplaceDeps(s)
    PROVE  /\ deps' \in [Stage -> SUBSET (Stage \cup {Parent})]
           /\ excused' \in Excuses
           /\ \A t \in Stage \ {s} : deps'[t] = deps[t]
           /\ DependsOn[s] \subseteq deps'[s] \/ s \in excused'.loosened
           /\ excused.loosened \subseteq excused'.loosened
           /\ excused'.unattended = excused.unattended
           /\ excused'.touched = excused.touched \cup {s}
           /\ excused'.crossed = IF kick[Launcher].step = "idle" THEN excused.crossed
                                 ELSE excused.crossed \cup {s}
<1>1. PICK d \in SUBSET (Stage \cup {Parent}) :
         /\ deps' = [deps EXCEPT ![s] = d]
         /\ excused' = [Touch(s) EXCEPT !.loosened = IF DependsOn[s] \subseteq d THEN @
                                                     ELSE @ \cup {s}]
  BY DEF ReplaceDeps
<1>2. /\ deps' \in [Stage -> SUBSET (Stage \cup {Parent})]
      /\ deps'[s] = d /\ \A t \in Stage \ {s} : deps'[t] = deps[t]
  BY <1>1
<1> QED BY <1>1, <1>2, TouchFacts DEF Excuses

\* Every step keeps the types.
LEMMA TypeStep ==
    ASSUME TypeInv, [TicketRunsNext]_vars
    PROVE  TypeInv'
<1> USE TicketRunsAssumption
    DEF TypeInv, TicketRunsTypeOK, KickoffsHaveTickets, Kickoff, Kicking, Status, Crow, Handler,
        Idle, Excuses
<1>1. ASSUME NEW t \in Stage \cup {Parent}, ReconcileTicket(t) PROVE TypeInv'
  BY <1>1 DEF ReconcileTicket
<1>2. ASSUME NEW s \in Stage, ReadyTicket(s) PROVE TypeInv'
  BY <1>2 DEF ReadyTicket
<1>3. ASSUME NEW s \in Stage, SeesDone(s) PROVE TypeInv'
  BY <1>3 DEF SeesDone
<1>4. ASSUME NEW s \in Stage, ChecksPass(s) PROVE TypeInv'
  BY <1>4, SetStatusTypes DEF ChecksPass
<1>5. ASSUME NEW s \in Stage, ChecksFail(s) PROVE TypeInv'
  BY <1>5, SetStatusTypes DEF ChecksFail, Fault
<1>6. ASSUME NEW s \in Stage, TicksFail(s) PROVE TypeInv'
  BY <1>6, SetStatusTypes DEF TicksFail, Fault
<1>7. ASSUME NEW s \in Stage, HandlerStops(s) PROVE TypeInv'
  BY <1>7 DEF HandlerStops
<1>8. ASSUME NEW s \in Stage, Reopen(s) PROVE TypeInv'
  <2>1. PICK reopened \in SUBSET Stage :
           /\ ticket' = [t \in DOMAIN ticket |-> IF t \in reopened THEN "planned" ELSE ticket[t]]
           /\ kick' = [kick EXCEPT ![Worker] = [Idle EXCEPT !.step = "reap", !.todo = reopened]]
    <3> DEFINE reopened == {s} \cup {d \in Dependents(s) : Cascades(d)}
    <3>1. reopened \in SUBSET Stage
      BY DEF Dependents
    <3> QED BY <1>8, <3>1 DEF Reopen, ThenReap
  <2>2. UNCHANGED <<deps, loose, run, first, crow, handler, launch, pending>>
    BY <1>8 DEF Reopen, Command
  <2>3. excused' \in Excuses
    BY <1>8 DEF Reopen, Command, Touched, Touch
  <2> QED BY <2>1, <2>2, <2>3
<1>9. ASSUME NEW s \in Stage, Carve(s) PROVE TypeInv'
  <2>1. excused' \in Excuses /\ deps' \in [Stage -> SUBSET (Stage \cup {Parent})]
    BY <1>9, ReplaceDepsFacts DEF Carve
  <2> HIDE DEF Excuses
  <2> QED BY <1>9, <2>1 DEF Carve, Command
<1>41. ASSUME NEW s \in Stage, ReconcilePath(s) PROVE TypeInv'
  <2>1. excused' \in Excuses /\ deps' \in [Stage -> SUBSET (Stage \cup {Parent})]
    BY <1>41, ReplaceDepsFacts DEF ReconcilePath
  <2> HIDE DEF Excuses
  <2> QED BY <1>41, <2>1 DEF ReconcilePath
<1>10. ASSUME NEW s \in Stage, Reap(s) PROVE TypeInv'
  BY <1>10 DEF Reap, ReapCrow, ReapHandler
<1>11. ASSUME NEW s \in Stage, ResetCrow(s) PROVE TypeInv'
  <2>1. excused' \in Excuses
    BY <1>11, TouchFacts DEF ResetCrow, Touched
  <2> HIDE DEF Excuses
  <2> QED BY <1>11, <2>1 DEF ResetCrow, ReapCrow, Command
<1>12. ASSUME NEW s \in Stage, ReopenOutside(s) PROVE TypeInv'
  <2>1. excused' \in Excuses
    BY <1>12, TouchFacts DEF ReopenOutside, Touched
  <2> HIDE DEF Excuses
  <2> QED BY <1>12, <2>1 DEF ReopenOutside, Dependents
<1>13. ASSUME NEW s \in Stage, CascadeOutside(s) PROVE TypeInv'
  BY <1>13 DEF CascadeOutside
<1>14. ASSUME NEW s \in Stage, RetryOutside(s) PROVE TypeInv'
  <2>1. excused' \in Excuses
    BY <1>14, TouchFacts DEF RetryOutside, Touched
  <2> HIDE DEF Excuses
  <2> QED BY <1>14, <2>1 DEF RetryOutside
<1>15. ASSUME NEW s \in Stage, ReattachBegin(s) PROVE TypeInv'
  BY <1>15 DEF ReattachBegin, NoHandler
<1>16. ASSUME NEW s \in Stage, ReattachEnd(s) PROVE TypeInv'
  <2>1. excused' \in Excuses
    BY <1>16, AbandonFacts DEF ReattachEnd
  <2> HIDE DEF Excuses
  <2> QED BY <1>16, <2>1 DEF ReattachEnd, NoHandler
<1>17. ASSUME NEW k \in Kickoff, RegisterCrow(k) PROVE TypeInv'
  BY <1>17 DEF RegisterCrow, Step
<1>18. ASSUME NEW k \in Kickoff, RegistrationClashes(k) PROVE TypeInv'
  BY <1>18, SetStatusTypes DEF RegistrationClashes, NextTicket
<1>19. ASSUME NEW k \in Kickoff, SpawnFails(k) PROVE TypeInv'
  BY <1>19, SetStatusTypes DEF SpawnFails, NextTicket, Fault
<1>20. ASSUME NEW k \in Kickoff, CrowStarts(k) PROVE TypeInv'
  <2> HIDE DEF Excuses
  <2> QED BY <1>20 DEF CrowStarts, CrowRuns, NoHandler, Step, EndKickoff
<1>21. ASSUME NEW k \in Kickoff, HandlerStarts(k) PROVE TypeInv'
  BY <1>21, SetStatusTypes DEF HandlerStarts, NextTicket
<1>22. ASSUME NEW k \in Kickoff, KickoffRaises(k) PROVE TypeInv'
  <2>1. excused' \in Excuses
    BY <1>22, AbandonFacts DEF KickoffRaises
  <2> HIDE DEF Excuses
  <2> QED BY <1>22, <2>1 DEF KickoffRaises, CrowRuns, ReapHandler, EndKickoff
<1>23. ASSUME NEW k \in Kickoff, KickoffEnds(k) PROVE TypeInv'
  BY <1>23 DEF KickoffEnds, EndKickoff
<1>24. ASSUME NEW k \in Kickoff, NEW s \in Stage, SkipTicket(k, s) PROVE TypeInv'
  BY <1>24 DEF SkipTicket, Take
<1>25. ASSUME NEW k \in Kickoff, NEW s \in Stage, ReapStale(k, s) PROVE TypeInv'
  BY <1>25 DEF ReapStale, Take, ReapCrow
<1>26. ASSUME NEW k \in Kickoff, NEW s \in Stage, Claim(k, s) PROVE TypeInv'
  <2>1. excused' \in Excuses
    BY <1>26 DEF Claim
  <2> HIDE DEF Excuses
  <2> QED BY <1>26, <2>1, SetStatusTypes DEF Claim, EndKickoff, Take, ReapHandler
<1>27. ASSUME InsertRun PROVE TypeInv'
  BY <1>27 DEF InsertRun, RunStatus
<1>28. ASSUME BeginKickoff PROVE TypeInv'
  BY <1>28 DEF BeginKickoff, ComputeReady
<1>29. ASSUME ResetTicket PROVE TypeInv'
  BY <1>29, SetStatusTypes DEF ResetTicket, EndKickoff, ReapHandler
<1>30. ASSUME NEW s \in Stage, Retry(s) PROVE TypeInv'
  <2>1. /\ ticket' = [ticket EXCEPT ![s] = "ready"]
        /\ kick' = [kick EXCEPT ![Worker] = [Idle EXCEPT !.step = "reap", !.todo = {s}]]
        /\ UNCHANGED <<deps, loose, run, first, crow, handler, launch, pending>>
    BY <1>30 DEF Retry, Command, ThenReap
  <2>2. excused' \in Excuses
    BY <1>30, TouchFacts DEF Retry, Touched
  <2> QED BY <2>1, <2>2
<1>31. ASSUME NEW s \in Stage, ForceStatus(s) PROVE TypeInv'
  <2>1. PICK status \in Forced :
           /\ SetStatus(s, status)
           /\ kick' = kick \/ kick' = [kick EXCEPT ![Worker] = [Idle EXCEPT !.step = "reap", !.todo = {s}]]
    BY <1>31 DEF ForceStatus, ThenReap
  <2>2. UNCHANGED <<deps, loose, crow, handler, launch, pending>>
    BY <1>31 DEF ForceStatus, Command
  <2>3. excused' \in Excuses
    BY <1>31, ForceFacts
  <2>4. status \in Status \ {"absent"}
    OBVIOUS
  <2>5. /\ ticket' \in [Stage \cup {Parent} -> Status]
        /\ run' \in [status : {"none"} \cup RunStatus, stages : [Stage -> StageStatus]]
        /\ first' \in [Stage -> {"none", "succeeded", "failed"}]
    BY <2>1, <2>4, SetStatusTypes
  <2>6. kick' \in [Kickoff -> Kicking] /\ KickoffsHaveTickets'
    <3>1. CASE kick' = kick
      BY <3>1
    <3>2. CASE kick' = [kick EXCEPT ![Worker] = [Idle EXCEPT !.step = "reap", !.todo = {s}]]
      BY <3>2
    <3> QED BY <2>1, <3>1, <3>2
  <2> QED BY <2>2, <2>3, <2>5, <2>6
<1>32. ASSUME LaunchFails PROVE TypeInv'
  <2>1. PICK kept \in SUBSET launch.created, intact \in SUBSET launch.created :
           /\ ticket' = [t \in DOMAIN ticket |->
                           IF t \in launch.created \ kept THEN "absent" ELSE ticket[t]]
           /\ deps' = [s \in Stage |-> IF s \in launch.created \ intact THEN {}
                                       ELSE deps[s] \ (launch.created \ intact)]
           /\ excused' = [excused EXCEPT !.touched = @ \cup kept]
    BY <1>32 DEF LaunchFails, Deleted
  <2>2. /\ launch' = [launch EXCEPT !.step = "failed"]
        /\ UNCHANGED <<loose, run, kick, crow, handler, pending, first>>
    BY <1>32 DEF LaunchFails
  <2> QED BY <2>1, <2>2
<1>33. ASSUME Restart PROVE TypeInv'
  <2>1. PICK alive \in SUBSET {s \in Stage : crow[s] # "none"} :
           LET gone == {s \in Stage : ticket[s] = "in_progress" /\ ~Survives(s, alive)}
               heard == {s \in gone : run.stages[s] \notin StageTerminal}
           IN  /\ ticket' = [t \in DOMAIN ticket |-> IF t \in gone THEN "failed" ELSE ticket[t]]
               /\ IF heard = {} THEN UNCHANGED <<run, first>>
                  ELSE \E s \in heard : Told(s, "failed")
               /\ crow' = [s \in Stage |-> IF Survives(s, alive) THEN "left" ELSE "none"]
               /\ pending' = [pending EXCEPT !.rebind = {},
                                             !.reattach = {s \in Stage : ticket'[s] = "in_progress"}]
    BY <1>33, Zenon DEF Restart
  <2>2. /\ handler' = [s \in Stage |-> "none"]
        /\ kick' = [k \in Kickoff |-> Idle]
        /\ launch' = [launch EXCEPT !.step = IF @ = "building" THEN "lost" ELSE @]
        /\ loose' = {} /\ deps' = deps
        /\ excused' = [excused EXCEPT !.unattended = {}]
    BY <1>33 DEF Restart
  <2>3. /\ run' \in [status : {"none"} \cup RunStatus, stages : [Stage -> StageStatus]]
        /\ first' \in [Stage -> {"none", "succeeded", "failed"}]
    BY <2>1, ToldTypes DEF Ended
  <2> QED BY <2>1, <2>2, <2>3
<1>34. ASSUME UNCHANGED vars PROVE TypeInv'
  BY <1>34 DEF vars
<1>35. CASE LaunchStep
  BY <1>35, <1>1, <1>2, <1>27, Zenon DEF LaunchStep
<1>36. CASE \E k \in Kickoff : KickoffStep(k)
  <2>1. PICK k \in Kickoff : KickoffStep(k)
    BY <1>36
  <2>2. CASE \E s \in Stage : SkipTicket(k, s) \/ ReapStale(k, s) \/ Claim(k, s)
    BY <2>2, <1>24, <1>25, <1>26, Zenon
  <2> QED BY <2>1, <2>2, <1>17, <1>18, <1>20, <1>21, <1>23, Zenon DEF KickoffStep
<1>37. CASE \E s \in Stage : HandlerStep(s)
  BY <1>37, <1>3, <1>4, <1>7, Zenon DEF HandlerStep
<1>38. CASE \E s \in Stage : Follow(s)
  BY <1>38, <1>10, <1>13, <1>15, <1>16, Zenon DEF Follow
<1>39. CASE \E s \in Stage : Intervene(s)
  BY <1>39, <1>8, <1>30, <1>9, <1>41, <1>31, <1>11, <1>12, <1>14, Zenon DEF Intervene
<1>40. CASE Failure
  BY <1>40, <1>32, <1>19, <1>22, <1>5, <1>6, <1>33, Zenon DEF Failure
<1> HIDE DEF TypeInv
<1> QED BY <1>28, <1>29, <1>34, <1>35, <1>36, <1>37, <1>38, <1>39, <1>40, Zenon DEF TicketRunsNext
-----------------------------------------------------------------------------
(***************************************************************************)
(* The outcomes of tickets                                                 *)
(***************************************************************************)

\* What FirstOutcomeDecides needs to be kept: outcomes are counted while the run
\* waits, and a stage whose ticket ended once is decided.
OutcomesHold ==
    /\ run.status = "none" => run.stages = InitialStages /\ \A s \in Stage : first[s] = "none"
    /\ run.status = "waiting" =>
          \A s \in Stage : first[s] # "none" => run.stages[s] \in StageTerminal
    /\ FirstOutcomeDecides

\* A ticket that ends, told to the run.
LEMMA ToldOutcomes ==
    ASSUME TicketRunsTypeOK, OutcomesHold, NEW s \in Stage, NEW status \in Ended,
           Told(s, status), run.status = "waiting"
    PROVE  /\ run'.status = StatusOf(run'.stages)
           /\ run'.stages[s] \in StageTerminal
           /\ \A t \in Stage : run.stages[t] \in StageTerminal
                                  => run'.stages[t] \in StageTerminal
           /\ \A t \in Stage : run'.stages[t] \in {"succeeded", "failed"}
                                  => run'.stages[t] = first'[t]
           /\ \A t \in Stage : first'[t] # "none" => run'.stages[t] \in StageTerminal
           /\ (status = "failed" /\ run.stages[s] \notin StageTerminal)
                 => run'.status = "failed"
<1> DEFINE stages == Outcome(s, status)
<1>0. /\ run.stages \in [Stage -> StageStatus]
      /\ first \in [Stage -> {"none", "succeeded", "failed"}]
      /\ Verdict(status) \in {"succeeded", "failed"}
      /\ status = "failed" => Verdict(status) = "failed"
  BY DEF TicketRunsTypeOK, Verdict
<1>1. /\ stages \in [Stage -> StageStatus]
      /\ stages[s] \in StageTerminal
      /\ \A t \in Stage \ {s} : stages[t] = run.stages[t]
      /\ run.stages[s] \in StageTerminal => stages[s] = run.stages[s]
      /\ run.stages[s] \notin StageTerminal => stages[s] = Verdict(status)
  BY <1>0 DEF Outcome, StageStatus, StageTerminal
<1>2. /\ run' = [status |-> StatusOf(Settle(stages)), stages |-> Settle(stages)]
      /\ first' = IF first[s] = "none" THEN [first EXCEPT ![s] = Verdict(status)] ELSE first
  BY DEF Told
<1> HIDE DEF stages
<1>3. /\ Settle(stages) \in [Stage -> StageStatus]
      /\ \A t \in Stage : stages[t] \in StageTerminal => Settle(stages)[t] = stages[t]
      /\ \A t \in Stage : Settle(stages)[t] \in {"succeeded", "failed"}
                             => Settle(stages)[t] = stages[t]
  BY <1>1, SettleKeeps DEF StageTerminal
<1>4. run'.status = StatusOf(run'.stages) /\ run'.stages = Settle(stages)
  BY <1>2
<1>5. \A t \in Stage : first'[t] = IF t = s /\ first[s] = "none" THEN Verdict(status) ELSE first[t]
  BY <1>0, <1>2
<1>6. /\ \A t \in Stage : run.stages[t] \in {"succeeded", "failed"} => run.stages[t] = first[t]
      /\ \A t \in Stage : first[t] # "none" => run.stages[t] \in StageTerminal
  BY DEF OutcomesHold, FirstOutcomeDecides
<1>7. run'.stages[s] \in StageTerminal
  BY <1>1, <1>3, <1>4
<1>8. \A t \in Stage : run.stages[t] \in StageTerminal => run'.stages[t] \in StageTerminal
  BY <1>1, <1>3, <1>4
<1>9. ASSUME NEW t \in Stage, run'.stages[t] \in {"succeeded", "failed"}
      PROVE  run'.stages[t] = first'[t]
  <2>1. run'.stages[t] = stages[t]
    BY <1>3, <1>4, <1>9
  <2>2. CASE t # s
    BY <1>1, <1>5, <1>6, <1>9, <2>1, <2>2
  <2>3. CASE t = s /\ run.stages[s] \in StageTerminal
    <3>1. run.stages[s] = stages[s] /\ first[s] = run.stages[s] /\ first[s] # "none"
      BY <1>1, <1>6, <1>9, <2>1, <2>3
    <3> QED BY <1>5, <2>1, <2>3, <3>1
  <2>4. CASE t = s /\ run.stages[s] \notin StageTerminal
    BY <1>1, <1>5, <1>6, <2>1, <2>4
  <2> QED BY <2>2, <2>3, <2>4
<1>10. \A t \in Stage : first'[t] # "none" => run'.stages[t] \in StageTerminal
  BY <1>5, <1>6, <1>7, <1>8
<1>11. (status = "failed" /\ run.stages[s] \notin StageTerminal) => run'.status = "failed"
  <2>1. SUFFICES ASSUME status = "failed", run.stages[s] \notin StageTerminal
                 PROVE  StatusOf(Settle(stages)) = "failed"
    BY <1>4
  <2>2. stages[s] = "failed" /\ Settle(stages)[s] = "failed"
    BY <1>0, <1>1, <1>3, <2>1 DEF StageTerminal
  <2> QED BY <1>3, <2>2, StatusOfStages
<1> QED BY <1>4, <1>7, <1>8, <1>9, <1>10, <1>11

LEMMA SetStatusOutcomes ==
    ASSUME TicketRunsTypeOK, OutcomesHold, NEW s \in Stage,
           NEW status \in Status \ {"absent"}, SetStatus(s, status)
    PROVE  OutcomesHold' /\ (run'.status = "none" <=> run.status = "none")
<1>1. \A t \in Stage : ticket'[t] = IF t = s THEN status ELSE ticket[t]
  BY DEF SetStatus, TicketRunsTypeOK
<1>2. CASE status \notin Ended \/ run.status # "waiting"
  <2>1. run' = run /\ first' = first
    BY <1>2 DEF SetStatus, Told, Ended
  <2> QED BY <1>1, <1>2, <2>1 DEF OutcomesHold, FirstOutcomeDecides, Ended
<1>3. CASE status \in Ended /\ run.status = "waiting"
  <2>1. Told(s, status)
    BY <1>3 DEF SetStatus, Ended
  <2>2. run'.status # "none"
    <3>1. run'.stages \in [Stage -> StageStatus]
      BY <1>3, <2>1, ToldTypes
    <3> QED BY <1>3, <2>1, <3>1, ToldOutcomes, StatusOfStages DEF RunStatus, RunTerminal
  <2>3. \A t \in Stage : ticket[t] \in Ended => run.stages[t] \in StageTerminal
    BY <1>3 DEF OutcomesHold, FirstOutcomeDecides, Ended
  <2>4. FirstOutcomeDecides'
    BY <1>1, <1>3, <2>1, <2>3, ToldOutcomes DEF FirstOutcomeDecides, Ended
  <2>5. \A t \in Stage : first'[t] # "none" => run'.stages[t] \in StageTerminal
    BY <1>3, <2>1, ToldOutcomes
  <2> QED BY <1>3, <2>2, <2>4, <2>5 DEF OutcomesHold
<1> QED BY <1>2, <1>3

\* Every step but the insertion of the run and a restart sets one status, or
\* ends no ticket and leaves the run alone. None forgets whose dependencies were
\* loosened.
SetsStatus == \E s \in Stage, status \in Status \ {"absent"} : SetStatus(s, status)

EndsNothing ==
    /\ UNCHANGED <<run, first>>
    /\ \A s \in Stage : ticket'[s] \in Ended => ticket[s] \in Ended

LEMMA StepKinds ==
    ASSUME TypeInv, [TicketRunsNext]_vars
    PROVE  /\ SetsStatus \/ EndsNothing \/ InsertRun \/ Restart
           /\ excused.loosened \subseteq excused'.loosened
<1> DEFINE Goal == /\ SetsStatus \/ EndsNothing \/ InsertRun \/ Restart
                   /\ excused.loosened \subseteq excused'.loosened
<1>0. /\ ticket \in [Stage \cup {Parent} -> Status]
      /\ \A k \in Kickoff : kick[k].step \in {"reaped", "spawn", "start", "handler", "reset"}
                               => kick[k].at \in Stage
      /\ Worker \in Kickoff
      /\ excused \in Excuses /\ deps \in [Stage -> SUBSET (Stage \cup {Parent})]
  BY DEF TypeInv, TicketRunsTypeOK, KickoffsHaveTickets, Kickoff
<1>1. ASSUME NEW t \in Stage \cup {Parent}, ReconcileTicket(t) PROVE Goal
  BY <1>0, <1>1 DEF ReconcileTicket, EndsNothing, Ended
<1>2. ASSUME NEW s \in Stage, ReadyTicket(s) PROVE Goal
  BY <1>0, <1>2 DEF ReadyTicket, EndsNothing, Ended
<1>3. ASSUME LaunchFails PROVE Goal
  BY <1>0, <1>3 DEF LaunchFails, EndsNothing, Ended
<1>4. ASSUME BeginKickoff PROVE Goal
  BY <1>0, <1>4 DEF BeginKickoff, EndsNothing, Ended
<1>5. ASSUME ResetTicket PROVE Goal
  BY <1>0, <1>5 DEF ResetTicket, SetsStatus, EndsNothing, Status
<1>6. ASSUME NEW s \in Stage, SeesDone(s) PROVE Goal
  BY <1>0, <1>6 DEF SeesDone, EndsNothing, Ended
<1>7. ASSUME NEW s \in Stage, ChecksPass(s) PROVE Goal
  BY <1>0, <1>7 DEF ChecksPass, SetsStatus, EndsNothing, Status
<1>8. ASSUME NEW s \in Stage, ChecksFail(s) PROVE Goal
  BY <1>0, <1>8 DEF ChecksFail, SetsStatus, EndsNothing, Status
<1>9. ASSUME NEW s \in Stage, TicksFail(s) PROVE Goal
  BY <1>0, <1>9 DEF TicksFail, SetsStatus, EndsNothing, Status
<1>10. ASSUME NEW s \in Stage, HandlerStops(s) PROVE Goal
  BY <1>0, <1>10 DEF HandlerStops, EndsNothing, Ended
<1>11. ASSUME NEW s \in Stage, Reopen(s) PROVE Goal
  BY <1>0, <1>11, TouchFacts DEF Reopen, Touched, Command, Dependents, Cascades, EndsNothing, Ended
<1>12. ASSUME NEW s \in Stage, Retry(s) PROVE Goal
  BY <1>0, <1>12, TouchFacts DEF Retry, Touched, Command, EndsNothing, Ended
<1>13. ASSUME NEW s \in Stage, Carve(s) PROVE Goal
  BY <1>0, <1>13, ReplaceDepsFacts DEF Carve, Command, EndsNothing, Ended
<1>41. ASSUME NEW s \in Stage, ReconcilePath(s) PROVE Goal
  BY <1>0, <1>41, ReplaceDepsFacts DEF ReconcilePath, EndsNothing, Ended
<1>14. ASSUME NEW s \in Stage, ForceStatus(s) PROVE Goal
  BY <1>0, <1>14, TouchFacts, TicketRunsAssumption DEF ForceStatus, Excuses, SetsStatus, EndsNothing, Status
<1>15. ASSUME NEW s \in Stage, Reap(s) PROVE Goal
  BY <1>0, <1>15 DEF Reap, EndsNothing, Ended
<1>16. ASSUME NEW s \in Stage, ResetCrow(s) PROVE Goal
  BY <1>0, <1>16, TouchFacts DEF ResetCrow, Touched, Command, EndsNothing, Ended
<1>17. ASSUME NEW s \in Stage, ReopenOutside(s) PROVE Goal
  BY <1>0, <1>17, TouchFacts DEF ReopenOutside, Touched, Dependents, EndsNothing, Ended
<1>18. ASSUME NEW s \in Stage, CascadeOutside(s) PROVE Goal
  BY <1>0, <1>18 DEF CascadeOutside, Cascades, EndsNothing, Ended
<1>19. ASSUME NEW s \in Stage, RetryOutside(s) PROVE Goal
  BY <1>0, <1>19, TouchFacts DEF RetryOutside, Touched, EndsNothing, Ended
<1>20. ASSUME NEW s \in Stage, ReattachBegin(s) PROVE Goal
  BY <1>0, <1>20 DEF ReattachBegin, NoHandler, EndsNothing, Ended
<1>21. ASSUME NEW s \in Stage, ReattachEnd(s) PROVE Goal
  BY <1>0, <1>21, AbandonFacts DEF ReattachEnd, EndsNothing, Ended
<1>22. ASSUME NEW k \in Kickoff, RegisterCrow(k) PROVE Goal
  BY <1>0, <1>22 DEF RegisterCrow, EndsNothing, Ended
<1>23. ASSUME NEW k \in Kickoff, RegistrationClashes(k) PROVE Goal
  BY <1>0, <1>23 DEF RegistrationClashes, SetsStatus, EndsNothing, Status
<1>24. ASSUME NEW k \in Kickoff, SpawnFails(k) PROVE Goal
  BY <1>0, <1>24 DEF SpawnFails, SetsStatus, EndsNothing, Status
<1>25. ASSUME NEW k \in Kickoff, CrowStarts(k) PROVE Goal
  BY <1>0, <1>25 DEF CrowStarts, CrowRuns, NoHandler, EndsNothing, Ended
<1>26. ASSUME NEW k \in Kickoff, HandlerStarts(k) PROVE Goal
  BY <1>0, <1>26 DEF HandlerStarts, SetsStatus, EndsNothing, Status
<1>27. ASSUME NEW k \in Kickoff, KickoffRaises(k) PROVE Goal
  BY <1>0, <1>27, AbandonFacts DEF KickoffRaises, EndsNothing, Ended
<1>28. ASSUME NEW k \in Kickoff, KickoffEnds(k) PROVE Goal
  BY <1>0, <1>28 DEF KickoffEnds, EndsNothing, Ended
<1>29. ASSUME NEW k \in Kickoff, NEW s \in Stage, SkipTicket(k, s) PROVE Goal
  BY <1>0, <1>29 DEF SkipTicket, EndsNothing, Ended
<1>30. ASSUME NEW k \in Kickoff, NEW s \in Stage, ReapStale(k, s) PROVE Goal
  BY <1>0, <1>30 DEF ReapStale, EndsNothing, Ended
<1>31. ASSUME NEW k \in Kickoff, NEW s \in Stage, Claim(k, s) PROVE Goal
  BY <1>0, <1>31 DEF Excuses, Claim, SetsStatus, EndsNothing, Status
<1>32. ASSUME InsertRun PROVE Goal
  <2>1. excused' = excused
    BY <1>32 DEF InsertRun
  <2> QED BY <1>32, <2>1
<1>33. ASSUME Restart PROVE Goal
  <2>1. excused' = [excused EXCEPT !.unattended = {}]
    BY <1>33 DEF Restart
  <2> QED BY <1>0, <1>33, <2>1 DEF Excuses
<1>34. ASSUME UNCHANGED vars PROVE Goal
  BY <1>34 DEF vars, EndsNothing
<1> SUFFICES Goal
  OBVIOUS
<1> HIDE DEF Goal
<1>35. CASE LaunchStep
  BY <1>35, <1>1, <1>2, <1>32, Zenon DEF LaunchStep
<1>36. CASE \E k \in Kickoff : KickoffStep(k)
  <2>1. PICK k \in Kickoff : KickoffStep(k)
    BY <1>36
  <2>2. CASE \E s \in Stage : SkipTicket(k, s) \/ ReapStale(k, s) \/ Claim(k, s)
    BY <2>2, <1>29, <1>30, <1>31, Zenon
  <2> QED BY <2>1, <2>2, <1>22, <1>23, <1>25, <1>26, <1>28, Zenon DEF KickoffStep
<1>37. CASE \E s \in Stage : HandlerStep(s)
  BY <1>37, <1>6, <1>7, <1>10, Zenon DEF HandlerStep
<1>38. CASE \E s \in Stage : Follow(s)
  BY <1>38, <1>15, <1>18, <1>20, <1>21, Zenon DEF Follow
<1>39. CASE \E s \in Stage : Intervene(s)
  BY <1>39, <1>11, <1>12, <1>13, <1>41, <1>14, <1>16, <1>17, <1>19, Zenon DEF Intervene
<1>40. CASE Failure
  BY <1>40, <1>3, <1>24, <1>27, <1>8, <1>9, <1>33, Zenon DEF Failure
<1> QED BY <1>4, <1>5, <1>34, <1>35, <1>36, <1>37, <1>38, <1>39, <1>40, Zenon DEF TicketRunsNext
-----------------------------------------------------------------------------
(***************************************************************************)
(* The launch                                                              *)
(***************************************************************************)

AtWork == {"spawn", "start", "handler", "reset"}

\* While the launch runs nothing else touches its tickets; after it failed only
\* tickets that the user touched, or that could not be deleted, have agents. The
\* tickets of a run wait for what its stages wait for, unless somebody changed that.
LaunchHolds ==
    /\ run.status # "none" => \A t \in Stage \cup {Parent} : ticket[t] # "absent"
    /\ launch.step \in {"building", "failed"} => run.status = "none"
    /\ launch.step = "building" =>
        /\ \A s \in Stage : ticket[s] \in {"absent", "planned", "ready"}
        /\ \A s \in Stage : ticket[s] = "ready" => s \in launch.created
        /\ \A t \in launch.created : ticket[t] # "absent"
        /\ Parent \notin launch.created => \A s \in Stage : ticket[s] = "absent"
        /\ \A k \in Kickoff : kick[k].step = "idle"
        /\ \A s \in Stage : handler[s] = "none"
        /\ pending.reattach = {} /\ pending.rebind = {} /\ pending.cascade = {}
        /\ \A s \in Stage : ticket[s] # "absent" => DependsOn[s] \subseteq deps[s]
    /\ run.status # "none" =>
        \A s \in Stage \ excused.loosened : DependsOn[s] \subseteq deps[s]
    /\ launch.step = "failed" =>
        /\ \A s \in Stage : ticket[s] \in {"absent", "planned"} \/ s \in excused.touched
        /\ \A k \in Kickoff : kick[k].step \in AtWork => kick[k].at \in excused.touched
        /\ \A s \in Stage : handler[s] # "none" => s \in excused.touched
        /\ pending.rebind \subseteq excused.touched

LEMMA SetStatusFacts ==
    ASSUME TicketRunsTypeOK, NEW s \in Stage, NEW status \in Status \ {"absent"},
           SetStatus(s, status)
    PROVE  /\ ticket' = [ticket EXCEPT ![s] = status]
           /\ (run'.status = "none") <=> (run.status = "none")
<1>1. ticket' = [ticket EXCEPT ![s] = status]
  BY DEF SetStatus
<1>2. CASE run' = run
  BY <1>1, <1>2
<1>3. CASE status \in Ended /\ run.status = "waiting"
  <2>1. run' = [status |-> StatusOf(Settle(Outcome(s, status))), stages |-> Settle(Outcome(s, status))]
    BY <1>3 DEF SetStatus, Told, Ended
  <2>2. run'.status # "none"
    BY <2>1 DEF StatusOf
  <2> QED BY <1>1, <1>3, <2>2
<1>4. run' = run \/ (status \in Ended /\ run.status = "waiting")
  BY DEF SetStatus, Told, Ended
<1> QED BY <1>2, <1>3, <1>4

LEMMA LaunchHoldsStep ==
    ASSUME TypeInv, LaunchHolds, [TicketRunsNext]_vars
    PROVE  LaunchHolds'
<1> USE TicketRunsAssumption
    DEF TypeInv, TicketRunsTypeOK, KickoffsHaveTickets, Kickoff, Kicking, Status, Idle,
        LaunchHolds, AtWork, Excuses
<1>1. ASSUME NEW t \in Stage \cup {Parent}, ReconcileTicket(t) PROVE LaunchHolds'
  BY <1>1 DEF ReconcileTicket
<1>2. ASSUME NEW s \in Stage, ReadyTicket(s) PROVE LaunchHolds'
  BY <1>2 DEF ReadyTicket
<1>3. ASSUME LaunchFails PROVE LaunchHolds'
  BY <1>3 DEF LaunchFails, Fault, Deleted
<1>4. ASSUME BeginKickoff PROVE LaunchHolds'
  BY <1>4 DEF BeginKickoff, LoopIsFree, ComputeReady
<1>5. ASSUME ResetTicket PROVE LaunchHolds'
  BY <1>5, SetStatusFacts DEF ResetTicket, EndKickoff, ReapHandler
<1>6. ASSUME NEW s \in Stage, SeesDone(s) PROVE LaunchHolds'
  BY <1>6 DEF SeesDone, LoopIsFree, Ticks, Promotable
<1>7. ASSUME NEW s \in Stage, ChecksPass(s) PROVE LaunchHolds'
  BY <1>7, SetStatusFacts DEF ChecksPass, LoopIsFree, Promotable
<1>8. ASSUME NEW s \in Stage, ChecksFail(s) PROVE LaunchHolds'
  BY <1>8, SetStatusFacts DEF ChecksFail, Fault, LoopIsFree
<1>9. ASSUME NEW s \in Stage, TicksFail(s) PROVE LaunchHolds'
  BY <1>9, SetStatusFacts DEF TicksFail, Fault, LoopIsFree, Ticks
<1>10. ASSUME NEW s \in Stage, HandlerStops(s) PROVE LaunchHolds'
  BY <1>10 DEF HandlerStops, LoopIsFree, Ticks
<1>11. ASSUME NEW s \in Stage, Reopen(s) PROVE LaunchHolds'
  BY <1>11 DEF Reopen, Command, ThenReap, Dependents, Cascades, Touched, Touch, User, LoopIsFree, Allowed
<1>12. ASSUME NEW s \in Stage, Retry(s) PROVE LaunchHolds'
  BY <1>12 DEF Retry, Command, ThenReap, Touched, Touch, User, LoopIsFree
<1>13. ASSUME NEW s \in Stage, Carve(s) PROVE LaunchHolds'
  BY <1>13 DEF Carve, Command, ReplaceDeps, Touch, User, LoopIsFree
<1>41. ASSUME NEW s \in Stage, ReconcilePath(s) PROVE LaunchHolds'
  BY <1>41 DEF ReconcilePath, ReplaceDeps, Touch, User, LoopIsFree
<1>14. ASSUME NEW s \in Stage, ForceStatus(s) PROVE LaunchHolds'
  <2>1. PICK status \in Forced :
           /\ SetStatus(s, status)
           /\ \/ kick' = kick
              \/ kick' = [kick EXCEPT ![Worker] = [Idle EXCEPT !.step = "reap", !.todo = {s}]]
           /\ excused'.touched = excused.touched \cup {s}
           /\ excused'.loosened = excused.loosened
    BY <1>14, ForceFacts, Zenon
  <2>2. status \in Status \ {"absent"}
    OBVIOUS
  <2>3. /\ ticket' = [ticket EXCEPT ![s] = status]
        /\ (run'.status = "none") <=> (run.status = "none")
    BY <2>1, <2>2, SetStatusFacts
  <2>4. /\ launch.step # "building"
        /\ UNCHANGED <<launch, pending, handler, deps>>
        /\ ticket[s] # "absent"
    BY <1>14 DEF ForceStatus, Command, LoopIsFree
  <2>5. \A k \in Kickoff : kick'[k].step \in AtWork => kick'[k] = kick[k]
    <3>1. \/ kick' = kick
          \/ kick' = [kick EXCEPT ![Worker] = [Idle EXCEPT !.step = "reap", !.todo = {s}]]
      BY <2>1
    <3>2. CASE kick' = [kick EXCEPT ![Worker] = [Idle EXCEPT !.step = "reap", !.todo = {s}]]
      <4>1. kick'[Worker].step = "reap"
        BY <3>2
      <4>2. \A k \in Kickoff : k # Worker => kick'[k] = kick[k]
        BY <3>2
      <4> QED BY <4>1, <4>2
    <3>3. CASE kick' = kick
      BY <3>3
    <3> QED BY <3>1, <3>2, <3>3
  <2> QED BY <2>1, <2>2, <2>3, <2>4, <2>5
<1>15. ASSUME NEW s \in Stage, Reap(s) PROVE LaunchHolds'
  BY <1>15 DEF Reap, ReapCrow, ReapHandler
<1>16. ASSUME NEW s \in Stage, ResetCrow(s) PROVE LaunchHolds'
  BY <1>16 DEF ResetCrow, ReapCrow, Command, Touched, Touch, User, LoopIsFree
<1>17. ASSUME NEW s \in Stage, ReopenOutside(s) PROVE LaunchHolds'
  BY <1>17 DEF ReopenOutside, Touched, Touch, User, Dependents
<1>18. ASSUME NEW s \in Stage, CascadeOutside(s) PROVE LaunchHolds'
  BY <1>18 DEF CascadeOutside, Cascades, Allowed
<1>19. ASSUME NEW s \in Stage, RetryOutside(s) PROVE LaunchHolds'
  BY <1>19 DEF RetryOutside, Touched, Touch, User
<1>20. ASSUME NEW s \in Stage, ReattachBegin(s) PROVE LaunchHolds'
  BY <1>20 DEF ReattachBegin, NoHandler
<1>21. ASSUME NEW s \in Stage, ReattachEnd(s) PROVE LaunchHolds'
  BY <1>21 DEF ReattachEnd, NoHandler, Abandon, Fault
<1>22. ASSUME NEW k \in Kickoff, RegisterCrow(k) PROVE LaunchHolds'
  BY <1>22 DEF RegisterCrow, Step
<1>23. ASSUME NEW k \in Kickoff, RegistrationClashes(k) PROVE LaunchHolds'
  BY <1>23, SetStatusFacts DEF RegistrationClashes, NextTicket
<1>24. ASSUME NEW k \in Kickoff, SpawnFails(k) PROVE LaunchHolds'
  BY <1>24, SetStatusFacts DEF SpawnFails, NextTicket, Fault
<1>25. ASSUME NEW k \in Kickoff, CrowStarts(k) PROVE LaunchHolds'
  BY <1>25 DEF CrowStarts, CrowRuns, NoHandler, Step, EndKickoff
<1>26. ASSUME NEW k \in Kickoff, HandlerStarts(k) PROVE LaunchHolds'
  BY <1>26, SetStatusFacts DEF HandlerStarts, NextTicket
<1>27. ASSUME NEW k \in Kickoff, KickoffRaises(k) PROVE LaunchHolds'
  BY <1>27 DEF KickoffRaises, CrowRuns, Abandon, ReapHandler, EndKickoff, Fault
<1>28. ASSUME NEW k \in Kickoff, KickoffEnds(k) PROVE LaunchHolds'
  BY <1>28 DEF KickoffEnds, EndKickoff
<1>29. ASSUME NEW k \in Kickoff, NEW s \in Stage, SkipTicket(k, s) PROVE LaunchHolds'
  BY <1>29 DEF SkipTicket, Take, ComputeReady, HasRunningRow, LoopIsFree
<1>30. ASSUME NEW k \in Kickoff, NEW s \in Stage, ReapStale(k, s) PROVE LaunchHolds'
  BY <1>30 DEF ReapStale, Take, ReapCrow, ComputeReady, HasRunningRow, LoopIsFree
<1>31. ASSUME NEW k \in Kickoff, NEW s \in Stage, Claim(k, s) PROVE LaunchHolds'
  <2>1. /\ launch.step # "building" /\ UNCHANGED <<deps, launch, pending>>
        /\ handler' = handler \/ handler' = [handler EXCEPT ![s] = IF s \in loose THEN @ ELSE "none"]
    BY <1>31 DEF Claim, Take, ReapHandler, LoopIsFree
  <2>2. \/ /\ UNCHANGED <<ticket, run, excused>>
           /\ kick' = [kick EXCEPT ![k] = Idle]
        \/ /\ ticket[s] \notin {"absent", "planned"} /\ SetStatus(s, "in_progress")
           /\ kick' = [kick EXCEPT ![k] = [step |-> "spawn", todo |-> @.todo \ {s}, at |-> s]]
           /\ excused' = [excused EXCEPT !.unattended = @ \ {s}]
    BY <1>31 DEF Claim, EndKickoff, Allowed
  <2>3. CASE UNCHANGED <<ticket, run, excused>> /\ kick' = [kick EXCEPT ![k] = Idle]
    BY <2>1, <2>3
  <2>4. CASE /\ ticket[s] \notin {"absent", "planned"} /\ SetStatus(s, "in_progress")
             /\ kick' = [kick EXCEPT ![k] = [step |-> "spawn", todo |-> @.todo \ {s}, at |-> s]]
             /\ excused' = [excused EXCEPT !.unattended = @ \ {s}]
    <3>1. excused'.touched = excused.touched /\ excused'.loosened = excused.loosened
      BY <2>4
    <3>2. ticket' = [ticket EXCEPT ![s] = "in_progress"] /\ ((run'.status = "none") <=> (run.status = "none"))
      BY <2>4, SetStatusFacts
    <3>3. launch.step = "failed" => s \in excused.touched
      BY <2>4
    <3>4. \A j \in Kickoff : IF j = k THEN kick'[j].at = s ELSE kick'[j] = kick[j]
      BY <2>4
    <3> QED BY <2>1, <3>1, <3>2, <3>3, <3>4
  <2> QED BY <2>2, <2>3, <2>4
<1>32. ASSUME InsertRun PROVE LaunchHolds'
  BY <1>32 DEF InsertRun
<1>33. ASSUME Restart PROVE LaunchHolds'
  BY <1>33 DEF Restart, Told
<1>34. ASSUME UNCHANGED vars PROVE LaunchHolds'
  BY <1>34 DEF vars
<1> HIDE DEF LaunchHolds, TypeInv
<1>35. CASE LaunchStep
  BY <1>35, <1>1, <1>2, <1>32, Zenon DEF LaunchStep
<1>36. CASE \E k \in Kickoff : KickoffStep(k)
  <2>1. PICK k \in Kickoff : KickoffStep(k)
    BY <1>36
  <2>2. CASE \E s \in Stage : SkipTicket(k, s) \/ ReapStale(k, s) \/ Claim(k, s)
    BY <2>2, <1>29, <1>30, <1>31, Zenon
  <2> QED BY <2>1, <2>2, <1>22, <1>23, <1>25, <1>26, <1>28, Zenon DEF KickoffStep
<1>37. CASE \E s \in Stage : HandlerStep(s)
  BY <1>37, <1>6, <1>7, <1>10, Zenon DEF HandlerStep
<1>38. CASE \E s \in Stage : Follow(s)
  BY <1>38, <1>15, <1>18, <1>20, <1>21, Zenon DEF Follow
<1>39. CASE \E s \in Stage : Intervene(s)
  BY <1>39, <1>11, <1>12, <1>13, <1>41, <1>14, <1>16, <1>17, <1>19, Zenon DEF Intervene
<1>40. CASE Failure
  BY <1>40, <1>3, <1>24, <1>27, <1>8, <1>9, <1>33, Zenon DEF Failure
<1> QED BY <1>4, <1>5, <1>34, <1>35, <1>36, <1>37, <1>38, <1>39, <1>40, Zenon DEF TicketRunsNext

\* Nothing a step does to tickets and run makes them disagree.
LEMMA OutcomesHoldStep ==
    ASSUME TypeInv, OutcomesHold, LaunchHolds, [TicketRunsNext]_vars
    PROVE  OutcomesHold'
<1>0. TicketRunsTypeOK
  BY DEF TypeInv
<1>1. CASE SetsStatus
  BY <1>0, <1>1, SetStatusOutcomes DEF SetsStatus
<1>2. CASE EndsNothing
  BY <1>2 DEF EndsNothing, OutcomesHold, FirstOutcomeDecides, Ended
<1>3. CASE InsertRun
  <2>1. /\ run.status = "none" /\ run.stages = InitialStages
        /\ \A s \in Stage : first[s] = "none" /\ ticket[s] \notin Ended
    BY <1>3 DEF InsertRun, LaunchHolds, OutcomesHold, Ended
  <2>2. run'.status = "waiting" /\ run'.stages = InitialStages
    BY <1>0, <1>3, <2>1 DEF InsertRun, TicketRunsTypeOK
  <2>3. UNCHANGED <<ticket, first>>
    BY <1>3 DEF InsertRun
  <2> QED BY <2>1, <2>2, <2>3, InitialStagesWait DEF OutcomesHold, FirstOutcomeDecides, Ended, StageTerminal
<1>4. CASE Restart
  <2>1. PICK gone \in SUBSET Stage :
           LET heard == {s \in gone : run.stages[s] \notin StageTerminal}
           IN  /\ ticket' = [t \in DOMAIN ticket |-> IF t \in gone THEN "failed" ELSE ticket[t]]
               /\ IF heard = {} THEN UNCHANGED <<run, first>>
                  ELSE \E s \in heard : Told(s, "failed")
    <3>1. PICK alive \in SUBSET {s \in Stage : crow[s] # "none"} :
             LET gone == {s \in Stage : ticket[s] = "in_progress" /\ ~Survives(s, alive)}
                 heard == {s \in gone : run.stages[s] \notin StageTerminal}
             IN  /\ ticket' = [t \in DOMAIN ticket |-> IF t \in gone THEN "failed" ELSE ticket[t]]
                 /\ IF heard = {} THEN UNCHANGED <<run, first>>
                    ELSE \E s \in heard : Told(s, "failed")
      BY <1>4, Zenon DEF Restart
    <3> DEFINE lost == {s \in Stage : ticket[s] = "in_progress" /\ ~Survives(s, alive)}
    <3>2. lost \in SUBSET Stage
      OBVIOUS
    <3> QED BY <3>1, <3>2
  <2>2. \A t \in Stage : ticket'[t] = IF t \in gone THEN "failed" ELSE ticket[t]
    BY <1>0, <2>1 DEF TicketRunsTypeOK
  <2>3. CASE \A s \in gone : run.stages[s] \in StageTerminal
    <3>1. UNCHANGED <<run, first>>
      BY <2>1, <2>3
    <3> QED BY <2>2, <2>3, <3>1 DEF OutcomesHold, FirstOutcomeDecides
  <2>4. CASE \E s \in gone : run.stages[s] \notin StageTerminal
    <3>1. PICK s \in gone : run.stages[s] \notin StageTerminal /\ Told(s, "failed")
      BY <2>1, <2>4
    <3>2. CASE run.status = "waiting"
      BY <1>0, <3>1, <3>2, ToldOutcomes DEF OutcomesHold, FirstOutcomeDecides, Ended
    <3>3. CASE run.status # "waiting"
      <4>1. UNCHANGED <<run, first>>
        BY <3>1, <3>3 DEF Told
      <4> QED BY <3>3, <4>1 DEF OutcomesHold, FirstOutcomeDecides
    <3> QED BY <3>2, <3>3
  <2> QED BY <2>3, <2>4
<1> QED BY <1>1, <1>2, <1>3, <1>4, StepKinds

-----------------------------------------------------------------------------
(***************************************************************************)
(* The kickoffs                                                            *)
(***************************************************************************)

Startable(k, s) ==
    \/ s \in ComputeReady
    \/ k = Worker /\ kick[k].step = "loop" /\ s \in kick[k].todo

\* What a step does to the list of the worker, and which ticket a kickoff may
\* turn to.
KickMoves ==
    \A k \in Kickoff :
        /\ kick'[k].step = "reaped" =>
              \/ kick[k].step = "reaped" /\ kick'[k].at = kick[k].at
              \/ Startable(k, kick'[k].at)
        /\ kick'[k].step = "spawn" /\ kick[k].step # "spawn" =>
              \/ kick[k].step = "reaped" /\ kick'[k].at = kick[k].at
              \/ Startable(k, kick'[k].at)
        /\ k = Worker /\ kick'[k].step \notin {"idle", "reap"} =>
              kick'[k].todo \subseteq
                 ComputeReady \cup (IF kick[k].step \in {"idle", "reap"} THEN {} ELSE kick[k].todo)

LEMMA StepMovesKicks ==
    ASSUME TypeInv, [TicketRunsNext]_vars
    PROVE  KickMoves
<1> DEFINE Goal == KickMoves
<1>0. kick \in [Kickoff -> Kicking] /\ Kickoff = {Worker, Launcher}
      /\ Worker # Launcher
  BY TicketRunsAssumption DEF TypeInv, TicketRunsTypeOK, Kickoff
<1> USE <1>0 DEF KickMoves, Startable, Kicking, Idle
<1>1. ASSUME NEW t \in Stage \cup {Parent}, ReconcileTicket(t) PROVE Goal
  BY <1>1 DEF ReconcileTicket
<1>2. ASSUME NEW s \in Stage, ReadyTicket(s) PROVE Goal
  BY <1>2 DEF ReadyTicket
<1>3. ASSUME LaunchFails PROVE Goal
  BY <1>3 DEF LaunchFails
<1>4. ASSUME BeginKickoff PROVE Goal
  BY <1>4 DEF BeginKickoff
<1>5. ASSUME ResetTicket PROVE Goal
  BY <1>5 DEF ResetTicket, EndKickoff
<1>6. ASSUME NEW s \in Stage, SeesDone(s) PROVE Goal
  BY <1>6 DEF SeesDone
<1>7. ASSUME NEW s \in Stage, ChecksPass(s) PROVE Goal
  BY <1>7 DEF ChecksPass
<1>8. ASSUME NEW s \in Stage, ChecksFail(s) PROVE Goal
  BY <1>8 DEF ChecksFail
<1>9. ASSUME NEW s \in Stage, TicksFail(s) PROVE Goal
  BY <1>9 DEF TicksFail
<1>10. ASSUME NEW s \in Stage, HandlerStops(s) PROVE Goal
  BY <1>10 DEF HandlerStops
<1>11. ASSUME NEW s \in Stage, Reopen(s) PROVE Goal
  BY <1>11 DEF Reopen, Command, ThenReap
<1>12. ASSUME NEW s \in Stage, Retry(s) PROVE Goal
  BY <1>12 DEF Retry, Command, ThenReap
<1>13. ASSUME NEW s \in Stage, Carve(s) PROVE Goal
  BY <1>13 DEF Carve, Command, ReplaceDeps, Touch
<1>41. ASSUME NEW s \in Stage, ReconcilePath(s) PROVE Goal
  BY <1>41 DEF ReconcilePath, ReplaceDeps, Touch
<1>14. ASSUME NEW s \in Stage, ForceStatus(s) PROVE Goal
  <2>1. CASE kick' = kick
    BY <2>1
  <2>2. CASE kick' = [kick EXCEPT ![Worker] = [Idle EXCEPT !.step = "reap", !.todo = {s}]]
    BY <2>2
  <2> QED BY <1>14, <2>1, <2>2 DEF ForceStatus, ThenReap
<1>15. ASSUME NEW s \in Stage, Reap(s) PROVE Goal
  BY <1>15 DEF Reap
<1>16. ASSUME NEW s \in Stage, ResetCrow(s) PROVE Goal
  BY <1>16 DEF ResetCrow, Command
<1>17. ASSUME NEW s \in Stage, ReopenOutside(s) PROVE Goal
  BY <1>17 DEF ReopenOutside
<1>18. ASSUME NEW s \in Stage, CascadeOutside(s) PROVE Goal
  BY <1>18 DEF CascadeOutside
<1>19. ASSUME NEW s \in Stage, RetryOutside(s) PROVE Goal
  BY <1>19 DEF RetryOutside
<1>20. ASSUME NEW s \in Stage, ReattachBegin(s) PROVE Goal
  BY <1>20 DEF ReattachBegin, NoHandler
<1>21. ASSUME NEW s \in Stage, ReattachEnd(s) PROVE Goal
  BY <1>21 DEF ReattachEnd, NoHandler, Abandon, Fault
<1>22. ASSUME NEW k \in Kickoff, RegisterCrow(k) PROVE Goal
  BY <1>22 DEF RegisterCrow, Step
<1>23. ASSUME NEW k \in Kickoff, RegistrationClashes(k) PROVE Goal
  BY <1>23 DEF RegistrationClashes, NextTicket
<1>24. ASSUME NEW k \in Kickoff, SpawnFails(k) PROVE Goal
  BY <1>24 DEF SpawnFails, NextTicket
<1>25. ASSUME NEW k \in Kickoff, CrowStarts(k) PROVE Goal
  BY <1>25 DEF CrowStarts, CrowRuns, NoHandler, Step, EndKickoff
<1>26. ASSUME NEW k \in Kickoff, HandlerStarts(k) PROVE Goal
  BY <1>26 DEF HandlerStarts, NextTicket
<1>27. ASSUME NEW k \in Kickoff, KickoffRaises(k) PROVE Goal
  BY <1>27 DEF KickoffRaises, CrowRuns, Abandon, ReapHandler, EndKickoff
<1>28. ASSUME NEW k \in Kickoff, KickoffEnds(k) PROVE Goal
  BY <1>28 DEF KickoffEnds, EndKickoff
<1>29. ASSUME NEW k \in Kickoff, NEW s \in Stage, SkipTicket(k, s) PROVE Goal
  BY <1>29 DEF SkipTicket, Take
<1>30. ASSUME NEW k \in Kickoff, NEW s \in Stage, ReapStale(k, s) PROVE Goal
  BY <1>30 DEF ReapStale, Take
<1>31. ASSUME NEW k \in Kickoff, NEW s \in Stage, Claim(k, s) PROVE Goal
  BY <1>31 DEF Claim, EndKickoff, Take
<1>32. ASSUME InsertRun PROVE Goal
  BY <1>32 DEF InsertRun
<1>33. ASSUME Restart PROVE Goal
  BY <1>33 DEF Restart
<1>34. ASSUME UNCHANGED vars PROVE Goal
  BY <1>34 DEF vars
<1> SUFFICES Goal
  OBVIOUS
<1> HIDE DEF Goal
<1>35. CASE LaunchStep
  BY <1>35, <1>1, <1>2, <1>32, Zenon DEF LaunchStep
<1>36. CASE \E k \in Kickoff : KickoffStep(k)
  <2>1. PICK k \in Kickoff : KickoffStep(k)
    BY <1>36
  <2>2. CASE \E s \in Stage : SkipTicket(k, s) \/ ReapStale(k, s) \/ Claim(k, s)
    BY <2>2, <1>29, <1>30, <1>31, Zenon
  <2> QED BY <2>1, <2>2, <1>22, <1>23, <1>25, <1>26, <1>28, Zenon DEF KickoffStep
<1>37. CASE \E s \in Stage : HandlerStep(s)
  BY <1>37, <1>6, <1>7, <1>10, Zenon DEF HandlerStep
<1>38. CASE \E s \in Stage : Follow(s)
  BY <1>38, <1>15, <1>18, <1>20, <1>21, Zenon DEF Follow
<1>39. CASE \E s \in Stage : Intervene(s)
  BY <1>39, <1>11, <1>12, <1>13, <1>41, <1>14, <1>16, <1>17, <1>19, Zenon DEF Intervene
<1>40. CASE Failure
  BY <1>40, <1>3, <1>24, <1>27, <1>8, <1>9, <1>33, Zenon DEF Failure
<1> QED BY <1>4, <1>5, <1>34, <1>35, <1>36, <1>37, <1>38, <1>39, <1>40, Zenon DEF TicketRunsNext

\* While the run waits its blocked stages wait for a stage that is not over.
BlockedStagesWait ==
    run.status = "waiting" =>
        \A s \in Stage : run.stages[s] = "blocked" =>
            \E d \in DependsOn[s] : run.stages[d] \notin StageTerminal

Unblocked(s) ==
    run.status = "waiting" /\ s \notin excused.loosened => run.stages[s] # "blocked"

\* What a kickoff is about to start the run has released, even if it was listed
\* long ago.
ListsHold ==
    /\ BlockedStagesWait
    /\ kick[Worker].step \notin {"idle", "reap"} => \A s \in kick[Worker].todo : Unblocked(s)
    /\ \A k \in Kickoff : kick[k].step = "reaped" => Unblocked(kick[k].at)

\* What waits for a lost stage is lost.
LEMMA LostSpreads ==
    ASSUME NEW stages, NEW s \in Stage, stages[s] = "blocked",
           NEW d \in DependsOn[s], d \in Lost(stages)
    PROVE  s \in Lost(stages)
BY DEF Lost, HoldsLost

LEMMA FailuresAreLost ==
    ASSUME NEW stages, NEW s \in Stage, stages[s] \in {"failed", "cancelled"}
    PROVE  s \in Lost(stages)
BY DEF Lost, HoldsLost

\* After a decision a blocked stage waits for one that is not over.
LEMMA SettledStagesWait ==
    ASSUME NEW stages \in [Stage -> StageStatus], NEW s \in Stage,
           DependsOn[s] # {}, Settle(stages)[s] = "blocked"
    PROVE  \E d \in DependsOn[s] : Settle(stages)[d] \notin StageTerminal
<1>0. DependsOn[s] \subseteq Stage
  BY TicketRunsAssumption
<1>1. stages[s] = "blocked" /\ s \notin Lost(stages) /\ {stages[d] : d \in DependsOn[s]} # {"succeeded"}
  BY DEF Settle
<1>2. \A d \in DependsOn[s] : d \notin Lost(stages) /\ stages[d] \notin {"failed", "cancelled"}
  BY <1>0, <1>1, LostSpreads, FailuresAreLost
<1>3. PICK d \in DependsOn[s] : stages[d] # "succeeded"
  BY <1>1
<1>4. stages[d] \in {"blocked", "ready"} /\ d \notin Lost(stages) /\ d \in Stage
  BY <1>0, <1>2, <1>3 DEF StageStatus, StageTerminal
<1>5. Settle(stages)[d] \in {"blocked", "ready"}
  BY <1>4 DEF Settle
<1> QED BY <1>5 DEF StageTerminal

\* A ticket that ends, told to the run, releases stages and blocks none.
LEMMA ToldReleases ==
    ASSUME TypeInv, BlockedStagesWait, run.status = "waiting",
           NEW s \in Stage, NEW status \in Ended, Told(s, status)
    PROVE  /\ BlockedStagesWait'
           /\ \A t \in Stage : run'.stages[t] = "blocked" => run.stages[t] = "blocked"
<1> DEFINE stages == Outcome(s, status)
<1>0. run.stages \in [Stage -> StageStatus] /\ Verdict(status) \in {"succeeded", "failed"}
  BY DEF TypeInv, TicketRunsTypeOK, Verdict
<1>1. /\ stages \in [Stage -> StageStatus]
      /\ \A t \in Stage : stages[t] = "blocked" => run.stages[t] = "blocked"
  BY <1>0 DEF Outcome, StageStatus, StageTerminal
<1>2. run'.stages = Settle(stages)
  BY DEF Told
<1> HIDE DEF stages
<1>3. \A t \in Stage : Settle(stages)[t] = "blocked" => run.stages[t] = "blocked"
  BY <1>1 DEF Settle
<1>4. \A t \in Stage : run.stages[t] = "blocked" => DependsOn[t] # {}
  BY DEF BlockedStagesWait
<1> QED BY <1>1, <1>2, <1>3, <1>4, SettledStagesWait DEF BlockedStagesWait

\* The run blocks nothing that it had released.
LEMMA StepReleases ==
    ASSUME TypeInv, OutcomesHold, LaunchHolds, BlockedStagesWait, [TicketRunsNext]_vars
    PROVE  /\ BlockedStagesWait'
           /\ ~ InsertRun => \A s \in Stage : Unblocked(s) => Unblocked(s)'
<1>0. TicketRunsTypeOK /\ excused.loosened \subseteq excused'.loosened
  BY StepKinds DEF TypeInv
<1>1. ASSUME NEW s \in Stage, NEW status \in Ended, Told(s, status)
      PROVE  BlockedStagesWait' /\ \A t \in Stage : Unblocked(t) => Unblocked(t)'
  <2>1. CASE run.status = "waiting"
    BY <1>0, <1>1, <2>1, ToldReleases DEF Unblocked
  <2>2. CASE run.status # "waiting"
    <3>1. run' = run
      BY <1>1, <2>2 DEF Told
    <3> QED BY <1>0, <2>2, <3>1 DEF BlockedStagesWait, Unblocked
  <2> QED BY <2>1, <2>2
<1>2. CASE run' = run
  BY <1>0, <1>2 DEF BlockedStagesWait, Unblocked
<1>3. CASE InsertRun
  <2>1. run.status = "none" /\ run'.stages = InitialStages
    <3>1. launch.step = "building" /\ run' = [run EXCEPT !.status = "waiting"]
      BY <1>3 DEF InsertRun
    <3> QED BY <1>0, <3>1 DEF TicketRunsTypeOK, LaunchHolds, OutcomesHold
  <2>2. ASSUME NEW s \in Stage, InitialStages[s] = "blocked"
        PROVE  \E d \in DependsOn[s] : InitialStages[d] \notin StageTerminal
    <3>1. DependsOn[s] # {} /\ DependsOn[s] \subseteq Stage
      BY <2>2, TicketRunsAssumption DEF InitialStages
    <3> QED BY <3>1, InitialStagesWait
  <2> QED BY <1>3, <2>1, <2>2 DEF BlockedStagesWait
<1>4. CASE SetsStatus
  <2>1. PICK s \in Stage, status \in Status \ {"absent"} : SetStatus(s, status)
    BY <1>4 DEF SetsStatus
  <2>2. run' = run \/ (status \in Ended /\ Told(s, status))
    BY <2>1 DEF SetStatus, Ended
  <2> QED BY <1>1, <1>2, <2>2
<1>5. CASE Restart
  <2>1. run' = run \/ \E s \in Stage : Told(s, "failed")
    BY <1>5 DEF Restart
  <2> QED BY <1>1, <1>2, <2>1 DEF Ended
<1> QED BY <1>2, <1>3, <1>4, <1>5, StepKinds DEF EndsNothing

-----------------------------------------------------------------------------
(***************************************************************************)
(* Theorems                                                                *)
(***************************************************************************)

TicketRunsInv == TypeInv /\ OutcomesHold /\ LaunchHolds

LEMMA InitTicketRunsInv == TicketRunsInit => TicketRunsInv
<1> SUFFICES ASSUME TicketRunsInit PROVE TicketRunsInv
  OBVIOUS
<1>1. TypeInv
  BY InitialStagesWait
     DEF TicketRunsInit, TypeInv, TicketRunsTypeOK, KickoffsHaveTickets, Kickoff, Kicking,
         Status, Crow, Handler, Idle, Excuses
<1>2. OutcomesHold
  BY InitialStagesWait
     DEF TicketRunsInit, OutcomesHold, FirstOutcomeDecides, StageTerminal
<1>3. LaunchHolds
  BY DEF TicketRunsInit, LaunchHolds, Idle
<1> QED BY <1>1, <1>2, <1>3 DEF TicketRunsInv

LEMMA TicketRunsInvHolds == TicketRunsSpec => []TicketRunsInv
<1>1. TicketRunsInv /\ [TicketRunsNext]_vars => TicketRunsInv'
  BY TypeStep, LaunchHoldsStep, OutcomesHoldStep DEF TicketRunsInv
<1> QED BY <1>1, InitTicketRunsInv, PTL DEF TicketRunsSpec

\* Tickets, run, kickoffs and agents keep their types in every step.
THEOREM TicketRunsTypeCorrect == TicketRunsSpec => []TicketRunsTypeOK
BY TicketRunsInvHolds, PTL DEF TicketRunsInv, TypeInv

\* update_ticket_status tells the run of every ticket that ends, once: whatever
\* the user, kickoffs, handlers and restarts do to a ticket afterwards, the stage
\* keeps its first outcome.
THEOREM FirstOutcomesDecide == TicketRunsSpec => []FirstOutcomeDecides
BY TicketRunsInvHolds, PTL DEF TicketRunsInv, OutcomesHold

\* materialize_workflow leaves a run with its whole tree, or, when it raised,
\* nothing that a kickoff starts.
THEOREM LaunchesAreAllOrNothing == TicketRunsSpec => []LaunchIsAllOrNothing
<1>1. TicketRunsInv => LaunchIsAllOrNothing
  BY DEF TicketRunsInv, LaunchHolds, LaunchIsAllOrNothing
<1> QED BY <1>1, TicketRunsInvHolds, PTL

\* Tickets and run agree on what may start.
LEMMA ReadyTicketsAreReleased ==
    ASSUME TypeInv, OutcomesHold, LaunchHolds, BlockedStagesWait, NEW s \in ComputeReady
    PROVE  Unblocked(s)
<1> SUFFICES ASSUME run.status = "waiting", s \notin excused.loosened
             PROVE  run.stages[s] # "blocked"
  BY DEF Unblocked
<1>1. s \in Stage /\ DependsOn[s] \subseteq Stage /\ DependsOn[s] \subseteq deps[s]
  BY TicketRunsAssumption DEF ComputeReady, LaunchHolds
<1>2. \A d \in DependsOn[s] : ticket[d] \in {"done", "archived"}
  BY <1>1 DEF ComputeReady
<1>3. \A d \in DependsOn[s] : run.stages[d] \in StageTerminal
  BY <1>1, <1>2 DEF OutcomesHold, FirstOutcomeDecides
<1> QED BY <1>1, <1>3 DEF BlockedStagesWait

LEMMA StartableIsReleased ==
    ASSUME TypeInv, OutcomesHold, LaunchHolds, ListsHold, NEW k \in Kickoff, NEW s,
           Startable(k, s)
    PROVE  Unblocked(s)
BY ReadyTicketsAreReleased DEF ListsHold, Startable

LEMMA ListsHoldStep ==
    ASSUME TicketRunsInv, ListsHold, [TicketRunsNext]_vars
    PROVE  ListsHold'
<1>0. /\ TypeInv /\ OutcomesHold /\ LaunchHolds /\ BlockedStagesWait
      /\ kick \in [Kickoff -> Kicking] /\ Worker \in Kickoff
      /\ \A k \in Kickoff : kick[k].step = "reaped" => kick[k].at \in Stage
      /\ \A k \in Kickoff : kick[k].todo \subseteq Stage
  BY DEF TicketRunsInv, ListsHold, TypeInv, TicketRunsTypeOK, KickoffsHaveTickets, Kickoff, Kicking
<1>1. KickMoves
  BY <1>0, StepMovesKicks
<1>2. BlockedStagesWait'
  BY <1>0, StepReleases
<1>4. CASE InsertRun
  <2>1. /\ \A k \in Kickoff : kick[k].step = "idle"
        /\ kick' = [kick EXCEPT ![Launcher] = [Idle EXCEPT !.step = "loop", !.todo = Stage]]
    BY <1>0, <1>4 DEF InsertRun, LaunchHolds
  <2>2. kick'[Worker].step = "idle" /\ \A k \in Kickoff : kick'[k].step # "reaped"
    BY <1>0, <2>1, TicketRunsAssumption DEF Idle
  <2> QED BY <1>2, <2>2 DEF ListsHold
<1>5. CASE ~ InsertRun
  <2>1. \A s \in Stage : Unblocked(s) => Unblocked(s)'
    BY <1>0, <1>5, StepReleases
  <2>2. ASSUME NEW k \in Kickoff, NEW s, Startable(k, s)
        PROVE  s \in Stage /\ Unblocked(s)'
    <3>1. s \in Stage
      BY <1>0, <2>2 DEF Startable, ComputeReady
    <3> QED BY <1>0, <2>1, <2>2, <3>1, StartableIsReleased
  <2>3. ASSUME NEW k \in Kickoff, kick'[k].step = "reaped"
        PROVE  Unblocked(kick[k].at)'
    <3> DEFINE at == kick'[k].at
    <3>1. at \in Stage /\ (Unblocked(at) \/ Startable(k, at))
      BY <1>0, <1>1, <2>2, <2>3 DEF KickMoves, ListsHold
    <3>2. run'.status = "waiting" /\ at \notin excused'.loosened => run'.stages[at] # "blocked"
      BY <2>1, <2>2, <3>1 DEF Unblocked
    <3> QED BY <3>2 DEF Unblocked
  <2>4. ASSUME kick'[Worker].step \notin {"idle", "reap"}, NEW s \in kick'[Worker].todo
        PROVE  Unblocked(s)'
    <3>1. s \in ComputeReady \/ (kick[Worker].step \notin {"idle", "reap"} /\ s \in kick[Worker].todo)
      BY <1>0, <1>1, <2>4 DEF KickMoves
    <3>2. s \in Stage /\ Unblocked(s)
      BY <1>0, <3>1, ReadyTicketsAreReleased DEF ListsHold, ComputeReady
    <3> QED BY <2>1, <3>2
  <2> QED BY <1>2, <2>3, <2>4 DEF ListsHold
<1> QED BY <1>4, <1>5

LEMMA ListsInvariant == TicketRunsSpec => []ListsHold
<1>1. TicketRunsInit => ListsHold
  BY DEF TicketRunsInit, ListsHold, BlockedStagesWait, Unblocked, Idle, Kickoff
<1>2. TicketRunsInv /\ ListsHold /\ [TicketRunsNext]_vars => ListsHold'
  BY ListsHoldStep
<1> QED BY <1>1, <1>2, TicketRunsInvHolds, PTL DEF TicketRunsSpec

\* kickoff_ready works through a list of compute_ready that may be old, and
\* looks at tickets; decide looks at signals. Still no ticket is started whose
\* stage the run blocks, unless somebody took a dependency of the stage from its
\* ticket_deps.
THEOREM KickoffsStartReleasedStages == TicketRunsSpec => KickoffsFollowTheRun
<1>1. ASSUME TicketRunsInv, ListsHold, [TicketRunsNext]_vars,
             NEW k \in Kickoff, NEW s \in Stage \ excused.loosened,
             kick'[k].step = "spawn", kick[k].step # "spawn", kick'[k].at = s,
             run.status = "waiting"
      PROVE  run.stages[s] # "blocked"
  <2>1. TypeInv /\ OutcomesHold /\ LaunchHolds
    BY <1>1 DEF TicketRunsInv
  <2>2. \/ kick[k].step = "reaped" /\ kick[k].at = s
        \/ Startable(k, s)
    BY <1>1, <2>1, StepMovesKicks DEF KickMoves
  <2>3. Unblocked(s)
    BY <1>1, <2>1, <2>2, StartableIsReleased DEF ListsHold
  <2> QED BY <1>1, <2>3 DEF Unblocked
<1>2. TicketRunsInv /\ ListsHold /\ [TicketRunsNext]_vars =>
         [\A k \in Kickoff : \A s \in Stage \ excused.loosened :
            (kick'[k].step = "spawn" /\ kick[k].step # "spawn" /\ kick'[k].at = s
                /\ run.status = "waiting")
            => run.stages[s] # "blocked"]_vars
  BY <1>1
<1> QED BY <1>2, TicketRunsInvHolds, ListsInvariant, PTL DEF TicketRunsSpec, KickoffsFollowTheRun

-----------------------------------------------------------------------------
(***************************************************************************)
(* The watch over tickets in progress                                      *)
(***************************************************************************)

\* The launcher still kicks off the run that it launched.
Launching == kick[Launcher].step # "idle"

\* A kickoff that claimed the ticket, and one that is past the registration.
At(k, s) == kick[k].at = s /\ kick[k].step \in {"spawn", "start", "handler"}
Busy(k, s) == kick[k].at = s /\ kick[k].step \in {"start", "handler"}

Registered(s) == crow[s] \in {"idle", "running", "failed"}

\* Who is where, whatever the ticket: the launcher only kicks off, and works on
\* none that has agents unless a user touched it meanwhile.
PlacesHold ==
    /\ launch.step = "building" => \A s \in Stage : crow[s] = "none"
    /\ Launching => pending.reattach = {} /\ pending.rebind = {}
    /\ kick[Launcher].step \notin {"reap", "reset"}
    /\ kick[Launcher].step = "reaped" => kick[Launcher].at \in excused.crossed
    /\ Launching /\ kick[Worker].step = "reset" => kick[Worker].at \in excused.crossed
    /\ kick[Worker].step \notin {"idle", "reap"} => kick[Worker].at \notin kick[Worker].todo
    /\ loose \subseteq excused.crossed

\* While the launcher is busy a ticket that may start has no agents.
StartsFresh(s) ==
    Launching /\ ticket[s] \in {"planned", "ready"} =>
        crow[s] = "none" /\ handler[s] = "none" /\ \A k \in Kickoff : ~ At(k, s)

\* What the worker is reaping is not claimed meanwhile.
ReapsStale(s) ==
    /\ kick[Worker].step = "reap" /\ s \in kick[Worker].todo \cup {kick[Worker].at} =>
          ticket[s] # "in_progress" /\ (Launching => ticket[s] = "planned")
    /\ kick[Worker].step = "reaped" /\ kick[Worker].at = s =>
          ~ At(Launcher, s) /\ (Launching => ticket[s] \notin {"planned", "ready"})
    /\ At(Launcher, s) /\ kick[Worker].step \notin {"idle", "reap"} /\ s \in kick[Worker].todo =>
          ticket[s] = "in_progress" /\ handler[s] \in {"none", "idle"}

\* The agents of a ticket that is being started.
AgentsHold(s) ==
    /\ ~ (Busy(Worker, s) /\ Busy(Launcher, s))
    /\ \A k \in Kickoff :
          /\ Busy(k, s) => Registered(s)
          /\ At(k, s) /\ kick[k].step = "spawn" =>
                Registered(s) \/ handler[s] \in {"none", "stopped"}
          /\ At(k, s) /\ kick[k].step = "start" => handler[s] \in {"none", "stopped"}
          /\ At(k, s) /\ kick[k].step = "handler" => handler[s] = "idle"

\* A ticket in progress whose handler does not run yet.
HandlerComes(s) ==
    ticket[s] = "in_progress" /\ s \notin excused.unattended =>
        /\ handler[s] # "over"
        /\ handler[s] = "idle" => \E k \in Kickoff : At(k, s)
        /\ handler[s] = "none" =>
              /\ (\E k \in Kickoff : At(k, s)) \/ s \in pending.reattach \cup pending.rebind
              /\ Registered(s) => \E k \in Kickoff : At(k, s)

StageKept(s) == StartsFresh(s) /\ ReapsStale(s) /\ AgentsHold(s) /\ HandlerComes(s)

WatchHolds == PlacesHold /\ \A s \in Stage \ excused.crossed : StageKept(s)

\* What PlacesHold says of the launcher, the worker and what is registered.
LEMMA PlacesHoldStep ==
    ASSUME TypeInv, LaunchHolds, WatchHolds, [TicketRunsNext]_vars
    PROVE  PlacesHold'
<1> DEFINE Goal == PlacesHold'
<1>0. /\ ticket \in [Stage \cup {Parent} -> Status]
      /\ kick \in [Kickoff -> Kicking] /\ Kickoff = {Worker, Launcher}
      /\ \A k \in Kickoff : kick[k].at \in Stage \cup {NoStage} /\ kick[k].todo \subseteq Stage
      /\ \A k \in Kickoff : kick[k].step \in {"reaped", "spawn", "start", "handler", "reset"} => kick[k].at \in Stage
      /\ Worker # Launcher /\ NoStage \notin Stage /\ Parent \notin Stage
      /\ crow \in [Stage -> Crow] /\ handler \in [Stage -> Handler]
      /\ PlacesHold
      /\ \A s \in Stage \ excused.crossed : StartsFresh(s)
      /\ launch.step = "building" =>
            /\ \A k \in Kickoff : kick[k].step = "idle"
            /\ pending.reattach = {} /\ pending.rebind = {}
      /\ pending \in [reattach : SUBSET Stage, rebind : SUBSET Stage, cascade : SUBSET Stage]
      /\ excused \in Excuses
  BY TicketRunsAssumption
     DEF TypeInv, TicketRunsTypeOK, KickoffsHaveTickets, Kickoff, Kicking, WatchHolds, StageKept, LaunchHolds
<1> USE <1>0 DEF PlacesHold, Launching, Kicking, Idle, Excuses
<1>1. ASSUME NEW t \in Stage \cup {Parent}, ReconcileTicket(t) PROVE Goal
  BY <1>1 DEF ReconcileTicket
<1>2. ASSUME NEW s \in Stage, ReadyTicket(s) PROVE Goal
  BY <1>2 DEF ReadyTicket
<1>3. ASSUME LaunchFails PROVE Goal
  BY <1>3 DEF LaunchFails
<1>4. ASSUME BeginKickoff PROVE Goal
  BY <1>4 DEF BeginKickoff, LoopIsFree, ComputeReady
<1>5. ASSUME ResetTicket PROVE Goal
  BY <1>5 DEF ResetTicket, EndKickoff, ReapHandler, SetStatus
<1>6. ASSUME NEW s \in Stage, SeesDone(s) PROVE Goal
  BY <1>6 DEF SeesDone, LoopIsFree
<1>7. ASSUME NEW s \in Stage, ChecksPass(s) PROVE Goal
  BY <1>7 DEF ChecksPass, LoopIsFree, SetStatus, Promotable
<1>8. ASSUME NEW s \in Stage, ChecksFail(s) PROVE Goal
  BY <1>8 DEF ChecksFail, LoopIsFree, SetStatus
<1>9. ASSUME NEW s \in Stage, TicksFail(s) PROVE Goal
  BY <1>9 DEF TicksFail, LoopIsFree, SetStatus
<1>10. ASSUME NEW s \in Stage, HandlerStops(s) PROVE Goal
  BY <1>10 DEF HandlerStops, LoopIsFree
<1>11. ASSUME NEW s \in Stage, Reopen(s) PROVE Goal
  BY <1>11 DEF Reopen, Command, ThenReap, Touched, Touch, LoopIsFree
<1>12. ASSUME NEW s \in Stage, Retry(s) PROVE Goal
  BY <1>12 DEF Retry, Command, ThenReap, Touched, Touch, LoopIsFree
<1>13. ASSUME NEW s \in Stage, Carve(s) PROVE Goal
  BY <1>13 DEF Carve, Command, ReplaceDeps, Touch, LoopIsFree
<1>41. ASSUME NEW s \in Stage, ReconcilePath(s) PROVE Goal
  BY <1>41 DEF ReconcilePath, ReplaceDeps, Touch, LoopIsFree
<1>14. ASSUME NEW s \in Stage, ForceStatus(s) PROVE Goal
  <2>0. PICK status \in Forced :
           /\ SetStatus(s, status)
           /\ \/ kick' = kick
              \/ kick' = [kick EXCEPT ![Worker] = [Idle EXCEPT !.step = "reap", !.todo = {s}]]
           /\ excused'.crossed = IF kick[Launcher].step = "idle" THEN excused.crossed
                                 ELSE excused.crossed \cup {s}
    BY <1>14, ForceFacts, Zenon
  <2>1. ticket' = [ticket EXCEPT ![s] = status]
    BY <2>0 DEF SetStatus
  <2>2. kick' = kick \/ kick' = [kick EXCEPT ![Worker] = [Idle EXCEPT !.step = "reap", !.todo = {s}]]
    BY <2>0
  <2>3. /\ launch.step # "building" /\ UNCHANGED <<crow, handler, loose, launch, pending>>
        /\ excused.crossed \subseteq excused'.crossed
    BY <1>14, <2>0 DEF ForceStatus, Command, LoopIsFree
  <2>4. CASE kick' = kick
    BY <2>1, <2>3, <2>4
  <2>5. CASE kick' = [kick EXCEPT ![Worker] = [Idle EXCEPT !.step = "reap", !.todo = {s}]]
    BY <2>1, <2>3, <2>5
  <2> QED BY <2>2, <2>4, <2>5
<1>15. ASSUME NEW s \in Stage, Reap(s) PROVE Goal
  BY <1>15 DEF Reap, ReapCrow, ReapHandler
<1>16. ASSUME NEW s \in Stage, ResetCrow(s) PROVE Goal
  BY <1>16 DEF ResetCrow, ReapCrow, Command, Touched, Touch, LoopIsFree
<1>17. ASSUME NEW s \in Stage, ReopenOutside(s) PROVE Goal
  BY <1>17 DEF ReopenOutside, Touched, Touch
<1>18. ASSUME NEW s \in Stage, CascadeOutside(s) PROVE Goal
  BY <1>18 DEF CascadeOutside
<1>19. ASSUME NEW s \in Stage, RetryOutside(s) PROVE Goal
  BY <1>19 DEF RetryOutside, Touched, Touch
<1>20. ASSUME NEW s \in Stage, ReattachBegin(s) PROVE Goal
  BY <1>20 DEF ReattachBegin, NoHandler
<1>21. ASSUME NEW s \in Stage, ReattachEnd(s) PROVE Goal
  BY <1>21 DEF ReattachEnd, NoHandler, Abandon, Fault
<1>22. ASSUME NEW k \in Kickoff, RegisterCrow(k) PROVE Goal
  BY <1>22 DEF RegisterCrow, Step
<1>23. ASSUME NEW k \in Kickoff, RegistrationClashes(k) PROVE Goal
  BY <1>23 DEF RegistrationClashes, NextTicket, SetStatus
<1>24. ASSUME NEW k \in Kickoff, SpawnFails(k) PROVE Goal
  BY <1>24 DEF SpawnFails, NextTicket, SetStatus
<1>25. ASSUME NEW k \in Kickoff, CrowStarts(k) PROVE Goal
  BY <1>25 DEF CrowStarts, CrowRuns, NoHandler, Step, EndKickoff
<1>26. ASSUME NEW k \in Kickoff, HandlerStarts(k) PROVE Goal
  BY <1>26 DEF HandlerStarts, NextTicket, SetStatus
<1>27. ASSUME NEW k \in Kickoff, KickoffRaises(k) PROVE Goal
  BY <1>27 DEF KickoffRaises, CrowRuns, Abandon, ReapHandler, EndKickoff
<1>28. ASSUME NEW k \in Kickoff, KickoffEnds(k) PROVE Goal
  BY <1>28 DEF KickoffEnds, EndKickoff
<1>29. ASSUME NEW k \in Kickoff, NEW s \in Stage, SkipTicket(k, s) PROVE Goal
  BY <1>29 DEF SkipTicket, Take, LoopIsFree
<1>30. ASSUME NEW k \in Kickoff, NEW s \in Stage, ReapStale(k, s) PROVE Goal
  BY <1>30 DEF ReapStale, Take, ReapCrow, LoopIsFree, ComputeReady, HasRunningRow, StartsFresh
<1>31. ASSUME NEW k \in Kickoff, NEW s \in Stage, Claim(k, s) PROVE Goal
  BY <1>31 DEF Claim, EndKickoff, Take, ReapHandler, SetStatus, LoopIsFree, HasRunningRow
<1>32. ASSUME InsertRun PROVE Goal
  BY <1>32 DEF InsertRun
<1>33. ASSUME Restart PROVE Goal
  BY <1>33 DEF Restart
<1>34. ASSUME UNCHANGED vars PROVE Goal
  BY <1>34 DEF vars
<1> SUFFICES Goal
  OBVIOUS
<1> HIDE DEF Goal
<1>35. CASE LaunchStep
  BY <1>35, <1>1, <1>2, <1>32, Zenon DEF LaunchStep
<1>36. CASE \E k \in Kickoff : KickoffStep(k)
  <2>1. PICK k \in Kickoff : KickoffStep(k)
    BY <1>36
  <2>2. CASE \E s \in Stage : SkipTicket(k, s) \/ ReapStale(k, s) \/ Claim(k, s)
    BY <2>2, <1>29, <1>30, <1>31, Zenon
  <2> QED BY <2>1, <2>2, <1>22, <1>23, <1>25, <1>26, <1>28, Zenon DEF KickoffStep
<1>37. CASE \E s \in Stage : HandlerStep(s)
  BY <1>37, <1>6, <1>7, <1>10, Zenon DEF HandlerStep
<1>38. CASE \E s \in Stage : Follow(s)
  BY <1>38, <1>15, <1>18, <1>20, <1>21, Zenon DEF Follow
<1>39. CASE \E s \in Stage : Intervene(s)
  BY <1>39, <1>11, <1>12, <1>13, <1>41, <1>14, <1>16, <1>17, <1>19, Zenon DEF Intervene
<1>40. CASE Failure
  BY <1>40, <1>3, <1>24, <1>27, <1>8, <1>9, <1>33, Zenon DEF Failure
<1> QED BY <1>4, <1>5, <1>34, <1>35, <1>36, <1>37, <1>38, <1>39, <1>40, Zenon DEF TicketRunsNext

\* A ticket that may start gets no agents.
LEMMA StartsFreshStep ==
    ASSUME TypeInv, LaunchHolds, WatchHolds, [TicketRunsNext]_vars,
           NEW x \in Stage \ excused'.crossed
    PROVE  StartsFresh(x)'
<1> DEFINE Goal == StartsFresh(x)'
<1>0. /\ ticket \in [Stage \cup {Parent} -> Status]
      /\ kick \in [Kickoff -> Kicking] /\ Kickoff = {Worker, Launcher}
      /\ \A k \in Kickoff : kick[k].at \in Stage \cup {NoStage} /\ kick[k].todo \subseteq Stage
      /\ \A k \in Kickoff : kick[k].step \in {"reaped", "spawn", "start", "handler", "reset"} => kick[k].at \in Stage
      /\ Worker # Launcher /\ NoStage \notin Stage /\ Parent \notin Stage
      /\ crow \in [Stage -> Crow] /\ handler \in [Stage -> Handler]
      /\ pending \in [reattach : SUBSET Stage, rebind : SUBSET Stage, cascade : SUBSET Stage]
      /\ excused \in Excuses
      /\ PlacesHold
      /\ x \in Stage
      /\ x \notin excused.crossed => StageKept(x)
      /\ launch.step = "building" =>
            /\ \A k \in Kickoff : kick[k].step = "idle"
            /\ handler[x] = "none"
            /\ pending.reattach = {} /\ pending.rebind = {}
  BY TicketRunsAssumption
     DEF TypeInv, TicketRunsTypeOK, KickoffsHaveTickets, Kickoff, Kicking, WatchHolds, LaunchHolds
<1> USE <1>0 DEF StageKept, StartsFresh, ReapsStale, AgentsHold, HandlerComes, At, Busy, Registered, PlacesHold, Launching, Kicking, Idle, Excuses
<1>1. ASSUME NEW t \in Stage \cup {Parent}, ReconcileTicket(t) PROVE Goal
  BY <1>1 DEF ReconcileTicket
<1>2. ASSUME NEW s \in Stage, ReadyTicket(s) PROVE Goal
  BY <1>2 DEF ReadyTicket
<1>3. ASSUME LaunchFails PROVE Goal
  BY <1>3 DEF LaunchFails
<1>4. ASSUME BeginKickoff PROVE Goal
  BY <1>4 DEF BeginKickoff, LoopIsFree, ComputeReady
<1>5. ASSUME ResetTicket PROVE Goal
  BY <1>5 DEF ResetTicket, EndKickoff, ReapHandler, SetStatus
<1>6. ASSUME NEW s \in Stage, SeesDone(s) PROVE Goal
  BY <1>6 DEF SeesDone, LoopIsFree, Ticks
<1>7. ASSUME NEW s \in Stage, ChecksPass(s) PROVE Goal
  BY <1>7 DEF ChecksPass, LoopIsFree, SetStatus, Promotable
<1>8. ASSUME NEW s \in Stage, ChecksFail(s) PROVE Goal
  BY <1>8 DEF ChecksFail, LoopIsFree, SetStatus
<1>9. ASSUME NEW s \in Stage, TicksFail(s) PROVE Goal
  BY <1>9 DEF TicksFail, SetStatus, LoopIsFree, Ticks
<1>10. ASSUME NEW s \in Stage, HandlerStops(s) PROVE Goal
  BY <1>10 DEF HandlerStops, LoopIsFree, Ticks
<1>11. ASSUME NEW s \in Stage, Reopen(s) PROVE Goal
  BY <1>11 DEF Reopen, Command, ThenReap, Touched, Touch, LoopIsFree, Dependents, Cascades, Allowed
<1>12. ASSUME NEW s \in Stage, Retry(s) PROVE Goal
  BY <1>12 DEF Retry, Command, ThenReap, Touched, Touch, LoopIsFree
<1>13. ASSUME NEW s \in Stage, Carve(s) PROVE Goal
  BY <1>13 DEF Carve, Command, ReplaceDeps, Touch, LoopIsFree
<1>41. ASSUME NEW s \in Stage, ReconcilePath(s) PROVE Goal
  BY <1>41 DEF ReconcilePath, ReplaceDeps, Touch, LoopIsFree
<1>14. ASSUME NEW s \in Stage, ForceStatus(s) PROVE Goal
  <2>1. PICK status \in Forced :
           /\ ticket' = [ticket EXCEPT ![s] = status]
           /\ \/ kick' = kick
              \/ /\ kick' = [kick EXCEPT ![Worker] = [Idle EXCEPT !.step = "reap", !.todo = {s}]]
                 /\ status \in {"done", "failed", "archived"}
    BY <1>14 DEF ForceStatus, SetStatus, ThenReap
  <2>2. /\ launch.step # "building" /\ kick[Worker].step = "idle"
        /\ UNCHANGED <<crow, handler, launch, pending>>
        /\ excused'.crossed = IF kick[Launcher].step = "idle" THEN excused.crossed
                              ELSE excused.crossed \cup {s}
    BY <1>14 DEF ForceStatus, Command, LoopIsFree, Touched, Touch
  <2>3. CASE kick' = kick
    BY <2>1, <2>2, <2>3
  <2>4. CASE kick' = [kick EXCEPT ![Worker] = [Idle EXCEPT !.step = "reap", !.todo = {s}]]
    BY <2>1, <2>2, <2>4
  <2> QED BY <2>1, <2>3, <2>4
<1>15. ASSUME NEW s \in Stage, Reap(s) PROVE Goal
  BY <1>15 DEF Reap, ReapCrow, ReapHandler
<1>16. ASSUME NEW s \in Stage, ResetCrow(s) PROVE Goal
  BY <1>16 DEF ResetCrow, ReapCrow, Command, Touched, Touch, LoopIsFree
<1>17. ASSUME NEW s \in Stage, ReopenOutside(s) PROVE Goal
  BY <1>17 DEF ReopenOutside, Touched, Touch
<1>18. ASSUME NEW s \in Stage, CascadeOutside(s) PROVE Goal
  BY <1>18 DEF CascadeOutside, Cascades, Allowed
<1>19. ASSUME NEW s \in Stage, RetryOutside(s) PROVE Goal
  BY <1>19 DEF RetryOutside, Touched, Touch
<1>20. ASSUME NEW s \in Stage, ReattachBegin(s) PROVE Goal
  BY <1>20 DEF ReattachBegin, NoHandler
<1>21. ASSUME NEW s \in Stage, ReattachEnd(s) PROVE Goal
  BY <1>21 DEF ReattachEnd, NoHandler, Abandon, Fault, Crow, Handler
<1>22. ASSUME NEW k \in Kickoff, RegisterCrow(k) PROVE Goal
  BY <1>22 DEF RegisterCrow, Step
<1>23. ASSUME NEW k \in Kickoff, RegistrationClashes(k) PROVE Goal
  BY <1>23 DEF RegistrationClashes, NextTicket, SetStatus
<1>24. ASSUME NEW k \in Kickoff, SpawnFails(k) PROVE Goal
  BY <1>24 DEF SpawnFails, NextTicket, SetStatus
<1>25. ASSUME NEW k \in Kickoff, CrowStarts(k) PROVE Goal
  BY <1>25 DEF CrowStarts, CrowRuns, NoHandler, Step, EndKickoff
<1>26. ASSUME NEW k \in Kickoff, HandlerStarts(k) PROVE Goal
  BY <1>26 DEF HandlerStarts, NextTicket, SetStatus
<1>27. ASSUME NEW k \in Kickoff, KickoffRaises(k) PROVE Goal
  BY <1>27 DEF KickoffRaises, CrowRuns, Abandon, ReapHandler, EndKickoff
<1>28. ASSUME NEW k \in Kickoff, KickoffEnds(k) PROVE Goal
  BY <1>28 DEF KickoffEnds, EndKickoff
<1>29. ASSUME NEW k \in Kickoff, NEW s \in Stage, SkipTicket(k, s) PROVE Goal
  BY <1>29 DEF SkipTicket, Take, LoopIsFree
<1>30. ASSUME NEW k \in Kickoff, NEW s \in Stage, ReapStale(k, s) PROVE Goal
  BY <1>30 DEF ReapStale, Take, ReapCrow, LoopIsFree, ComputeReady, HasRunningRow, StartsFresh
<1>31. ASSUME NEW k \in Kickoff, NEW s \in Stage, Claim(k, s) PROVE Goal
  BY <1>31 DEF Claim, EndKickoff, Take, ReapHandler, SetStatus, LoopIsFree, HasRunningRow, ComputeReady, Allowed
<1>32. ASSUME InsertRun PROVE Goal
  BY <1>32 DEF InsertRun
<1>33. ASSUME Restart PROVE Goal
  BY <1>33 DEF Restart
<1>34. ASSUME UNCHANGED vars PROVE Goal
  BY <1>34 DEF vars
<1> SUFFICES Goal
  OBVIOUS
<1> HIDE DEF Goal
<1>35. CASE LaunchStep
  BY <1>35, <1>1, <1>2, <1>32, Zenon DEF LaunchStep
<1>36. CASE \E k \in Kickoff : KickoffStep(k)
  <2>1. PICK k \in Kickoff : KickoffStep(k)
    BY <1>36
  <2>2. CASE \E s \in Stage : SkipTicket(k, s) \/ ReapStale(k, s) \/ Claim(k, s)
    BY <2>2, <1>29, <1>30, <1>31, Zenon
  <2> QED BY <2>1, <2>2, <1>22, <1>23, <1>25, <1>26, <1>28, Zenon DEF KickoffStep
<1>37. CASE \E s \in Stage : HandlerStep(s)
  BY <1>37, <1>6, <1>7, <1>10, Zenon DEF HandlerStep
<1>38. CASE \E s \in Stage : Follow(s)
  BY <1>38, <1>15, <1>18, <1>20, <1>21, Zenon DEF Follow
<1>39. CASE \E s \in Stage : Intervene(s)
  BY <1>39, <1>11, <1>12, <1>13, <1>41, <1>14, <1>16, <1>17, <1>19, Zenon DEF Intervene
<1>40. CASE Failure
  BY <1>40, <1>3, <1>24, <1>27, <1>8, <1>9, <1>33, Zenon DEF Failure
<1> QED BY <1>4, <1>5, <1>34, <1>35, <1>36, <1>37, <1>38, <1>39, <1>40, Zenon DEF TicketRunsNext

\* What is being reaped is not started.
LEMMA ReapsStaleStep ==
    ASSUME TypeInv, LaunchHolds, WatchHolds, [TicketRunsNext]_vars,
           NEW x \in Stage \ excused'.crossed
    PROVE  ReapsStale(x)'
<1> DEFINE Goal == ReapsStale(x)'
<1>0. /\ ticket \in [Stage \cup {Parent} -> Status]
      /\ kick \in [Kickoff -> Kicking] /\ Kickoff = {Worker, Launcher}
      /\ \A k \in Kickoff : kick[k].at \in Stage \cup {NoStage} /\ kick[k].todo \subseteq Stage
      /\ \A k \in Kickoff : kick[k].step \in {"reaped", "spawn", "start", "handler", "reset"} => kick[k].at \in Stage
      /\ Worker # Launcher /\ NoStage \notin Stage /\ Parent \notin Stage
      /\ crow \in [Stage -> Crow] /\ handler \in [Stage -> Handler]
      /\ pending \in [reattach : SUBSET Stage, rebind : SUBSET Stage, cascade : SUBSET Stage]
      /\ excused \in Excuses
      /\ PlacesHold
      /\ x \in Stage
      /\ x \notin excused.crossed => StageKept(x)
      /\ launch.step = "building" =>
            /\ \A k \in Kickoff : kick[k].step = "idle"
            /\ handler[x] = "none"
            /\ pending.reattach = {} /\ pending.rebind = {}
  BY TicketRunsAssumption
     DEF TypeInv, TicketRunsTypeOK, KickoffsHaveTickets, Kickoff, Kicking, WatchHolds, LaunchHolds
<1> USE <1>0 DEF StageKept, StartsFresh, ReapsStale, AgentsHold, HandlerComes, At, Busy, Registered, PlacesHold, Launching, Kicking, Idle, Excuses
<1>1. ASSUME NEW t \in Stage \cup {Parent}, ReconcileTicket(t) PROVE Goal
  BY <1>1 DEF ReconcileTicket
<1>2. ASSUME NEW s \in Stage, ReadyTicket(s) PROVE Goal
  BY <1>2 DEF ReadyTicket
<1>3. ASSUME LaunchFails PROVE Goal
  BY <1>3 DEF LaunchFails
<1>4. ASSUME BeginKickoff PROVE Goal
  BY <1>4 DEF BeginKickoff, LoopIsFree, ComputeReady
<1>5. ASSUME ResetTicket PROVE Goal
  BY <1>5 DEF ResetTicket, EndKickoff, ReapHandler, SetStatus
<1>6. ASSUME NEW s \in Stage, SeesDone(s) PROVE Goal
  BY <1>6 DEF SeesDone, LoopIsFree, Ticks
<1>7. ASSUME NEW s \in Stage, ChecksPass(s) PROVE Goal
  BY <1>7 DEF ChecksPass, LoopIsFree, SetStatus, Promotable
<1>8. ASSUME NEW s \in Stage, ChecksFail(s) PROVE Goal
  BY <1>8 DEF ChecksFail, LoopIsFree, SetStatus
<1>9. ASSUME NEW s \in Stage, TicksFail(s) PROVE Goal
  BY <1>9 DEF TicksFail, SetStatus, LoopIsFree, Ticks
<1>10. ASSUME NEW s \in Stage, HandlerStops(s) PROVE Goal
  BY <1>10 DEF HandlerStops, LoopIsFree, Ticks
<1>11. ASSUME NEW s \in Stage, Reopen(s) PROVE Goal
  BY <1>11 DEF Reopen, Command, ThenReap, Touched, Touch, LoopIsFree, Dependents, Cascades, Allowed
<1>12. ASSUME NEW s \in Stage, Retry(s) PROVE Goal
  BY <1>12 DEF Retry, Command, ThenReap, Touched, Touch, LoopIsFree
<1>13. ASSUME NEW s \in Stage, Carve(s) PROVE Goal
  BY <1>13 DEF Carve, Command, ReplaceDeps, Touch, LoopIsFree
<1>41. ASSUME NEW s \in Stage, ReconcilePath(s) PROVE Goal
  BY <1>41 DEF ReconcilePath, ReplaceDeps, Touch, LoopIsFree
<1>14. ASSUME NEW s \in Stage, ForceStatus(s) PROVE Goal
  <2>1. PICK status \in Forced :
           /\ ticket' = [ticket EXCEPT ![s] = status]
           /\ \/ kick' = kick
              \/ /\ kick' = [kick EXCEPT ![Worker] = [Idle EXCEPT !.step = "reap", !.todo = {s}]]
                 /\ status \in {"done", "failed", "archived"}
    BY <1>14 DEF ForceStatus, SetStatus, ThenReap
  <2>2. /\ launch.step # "building" /\ kick[Worker].step = "idle"
        /\ UNCHANGED <<crow, handler, launch, pending>>
        /\ excused'.crossed = IF kick[Launcher].step = "idle" THEN excused.crossed
                              ELSE excused.crossed \cup {s}
    BY <1>14 DEF ForceStatus, Command, LoopIsFree, Touched, Touch
  <2>3. CASE kick' = kick
    BY <2>1, <2>2, <2>3
  <2>4. CASE kick' = [kick EXCEPT ![Worker] = [Idle EXCEPT !.step = "reap", !.todo = {s}]]
    BY <2>1, <2>2, <2>4
  <2> QED BY <2>1, <2>3, <2>4
<1>15. ASSUME NEW s \in Stage, Reap(s) PROVE Goal
  BY <1>15 DEF Reap, ReapCrow, ReapHandler
<1>16. ASSUME NEW s \in Stage, ResetCrow(s) PROVE Goal
  BY <1>16 DEF ResetCrow, ReapCrow, Command, Touched, Touch, LoopIsFree
<1>17. ASSUME NEW s \in Stage, ReopenOutside(s) PROVE Goal
  BY <1>17 DEF ReopenOutside, Touched, Touch
<1>18. ASSUME NEW s \in Stage, CascadeOutside(s) PROVE Goal
  BY <1>18 DEF CascadeOutside, Cascades, Allowed
<1>19. ASSUME NEW s \in Stage, RetryOutside(s) PROVE Goal
  BY <1>19 DEF RetryOutside, Touched, Touch
<1>20. ASSUME NEW s \in Stage, ReattachBegin(s) PROVE Goal
  BY <1>20 DEF ReattachBegin, NoHandler
<1>21. ASSUME NEW s \in Stage, ReattachEnd(s) PROVE Goal
  BY <1>21 DEF ReattachEnd, NoHandler, Abandon, Fault, Crow, Handler
<1>22. ASSUME NEW k \in Kickoff, RegisterCrow(k) PROVE Goal
  BY <1>22 DEF RegisterCrow, Step
<1>23. ASSUME NEW k \in Kickoff, RegistrationClashes(k) PROVE Goal
  BY <1>23 DEF RegistrationClashes, NextTicket, SetStatus
<1>24. ASSUME NEW k \in Kickoff, SpawnFails(k) PROVE Goal
  BY <1>24 DEF SpawnFails, NextTicket, SetStatus
<1>25. ASSUME NEW k \in Kickoff, CrowStarts(k) PROVE Goal
  BY <1>25 DEF CrowStarts, CrowRuns, NoHandler, Step, EndKickoff
<1>26. ASSUME NEW k \in Kickoff, HandlerStarts(k) PROVE Goal
  BY <1>26 DEF HandlerStarts, NextTicket, SetStatus
<1>27. ASSUME NEW k \in Kickoff, KickoffRaises(k) PROVE Goal
  BY <1>27 DEF KickoffRaises, CrowRuns, Abandon, ReapHandler, EndKickoff
<1>28. ASSUME NEW k \in Kickoff, KickoffEnds(k) PROVE Goal
  BY <1>28 DEF KickoffEnds, EndKickoff
<1>29. ASSUME NEW k \in Kickoff, NEW s \in Stage, SkipTicket(k, s) PROVE Goal
  BY <1>29 DEF SkipTicket, Take, LoopIsFree
<1>30. ASSUME NEW k \in Kickoff, NEW s \in Stage, ReapStale(k, s) PROVE Goal
  BY <1>30 DEF ReapStale, Take, ReapCrow, LoopIsFree, ComputeReady, HasRunningRow, StartsFresh
<1>31. ASSUME NEW k \in Kickoff, NEW s \in Stage, Claim(k, s) PROVE Goal
  BY <1>31 DEF Claim, EndKickoff, Take, ReapHandler, SetStatus, LoopIsFree, HasRunningRow, ComputeReady, Allowed
<1>32. ASSUME InsertRun PROVE Goal
  BY <1>32 DEF InsertRun
<1>33. ASSUME Restart PROVE Goal
  BY <1>33 DEF Restart
<1>34. ASSUME UNCHANGED vars PROVE Goal
  BY <1>34 DEF vars
<1> SUFFICES Goal
  OBVIOUS
<1> HIDE DEF Goal
<1>35. CASE LaunchStep
  BY <1>35, <1>1, <1>2, <1>32, Zenon DEF LaunchStep
<1>36. CASE \E k \in Kickoff : KickoffStep(k)
  <2>1. PICK k \in Kickoff : KickoffStep(k)
    BY <1>36
  <2>2. CASE \E s \in Stage : SkipTicket(k, s) \/ ReapStale(k, s) \/ Claim(k, s)
    BY <2>2, <1>29, <1>30, <1>31, Zenon
  <2> QED BY <2>1, <2>2, <1>22, <1>23, <1>25, <1>26, <1>28, Zenon DEF KickoffStep
<1>37. CASE \E s \in Stage : HandlerStep(s)
  BY <1>37, <1>6, <1>7, <1>10, Zenon DEF HandlerStep
<1>38. CASE \E s \in Stage : Follow(s)
  BY <1>38, <1>15, <1>18, <1>20, <1>21, Zenon DEF Follow
<1>39. CASE \E s \in Stage : Intervene(s)
  BY <1>39, <1>11, <1>12, <1>13, <1>41, <1>14, <1>16, <1>17, <1>19, Zenon DEF Intervene
<1>40. CASE Failure
  BY <1>40, <1>3, <1>24, <1>27, <1>8, <1>9, <1>33, Zenon DEF Failure
<1> QED BY <1>4, <1>5, <1>34, <1>35, <1>36, <1>37, <1>38, <1>39, <1>40, Zenon DEF TicketRunsNext

\* The agents of a ticket that is being started are its own.
LEMMA AgentsHoldStep ==
    ASSUME TypeInv, LaunchHolds, WatchHolds, [TicketRunsNext]_vars,
           NEW x \in Stage \ excused'.crossed
    PROVE  AgentsHold(x)'
<1> DEFINE Goal == AgentsHold(x)'
<1>0. /\ ticket \in [Stage \cup {Parent} -> Status]
      /\ kick \in [Kickoff -> Kicking] /\ Kickoff = {Worker, Launcher}
      /\ \A k \in Kickoff : kick[k].at \in Stage \cup {NoStage} /\ kick[k].todo \subseteq Stage
      /\ \A k \in Kickoff : kick[k].step \in {"reaped", "spawn", "start", "handler", "reset"} => kick[k].at \in Stage
      /\ Worker # Launcher /\ NoStage \notin Stage /\ Parent \notin Stage
      /\ crow \in [Stage -> Crow] /\ handler \in [Stage -> Handler]
      /\ pending \in [reattach : SUBSET Stage, rebind : SUBSET Stage, cascade : SUBSET Stage]
      /\ excused \in Excuses
      /\ PlacesHold
      /\ x \in Stage
      /\ x \notin excused.crossed => StageKept(x)
      /\ launch.step = "building" =>
            /\ \A k \in Kickoff : kick[k].step = "idle"
            /\ handler[x] = "none"
            /\ pending.reattach = {} /\ pending.rebind = {}
  BY TicketRunsAssumption
     DEF TypeInv, TicketRunsTypeOK, KickoffsHaveTickets, Kickoff, Kicking, WatchHolds, LaunchHolds
<1> USE <1>0 DEF StageKept, StartsFresh, ReapsStale, AgentsHold, HandlerComes, At, Busy, Registered, PlacesHold, Launching, Kicking, Idle, Excuses
<1>1. ASSUME NEW t \in Stage \cup {Parent}, ReconcileTicket(t) PROVE Goal
  BY <1>1 DEF ReconcileTicket
<1>2. ASSUME NEW s \in Stage, ReadyTicket(s) PROVE Goal
  BY <1>2 DEF ReadyTicket
<1>3. ASSUME LaunchFails PROVE Goal
  BY <1>3 DEF LaunchFails
<1>4. ASSUME BeginKickoff PROVE Goal
  BY <1>4 DEF BeginKickoff, LoopIsFree, ComputeReady
<1>5. ASSUME ResetTicket PROVE Goal
  BY <1>5 DEF ResetTicket, EndKickoff, ReapHandler, SetStatus
<1>6. ASSUME NEW s \in Stage, SeesDone(s) PROVE Goal
  BY <1>6 DEF SeesDone, LoopIsFree, Ticks
<1>7. ASSUME NEW s \in Stage, ChecksPass(s) PROVE Goal
  BY <1>7 DEF ChecksPass, LoopIsFree, SetStatus, Promotable
<1>8. ASSUME NEW s \in Stage, ChecksFail(s) PROVE Goal
  BY <1>8 DEF ChecksFail, LoopIsFree, SetStatus
<1>9. ASSUME NEW s \in Stage, TicksFail(s) PROVE Goal
  BY <1>9 DEF TicksFail, SetStatus, LoopIsFree, Ticks
<1>10. ASSUME NEW s \in Stage, HandlerStops(s) PROVE Goal
  BY <1>10 DEF HandlerStops, LoopIsFree, Ticks
<1>11. ASSUME NEW s \in Stage, Reopen(s) PROVE Goal
  BY <1>11 DEF Reopen, Command, ThenReap, Touched, Touch, LoopIsFree, Dependents, Cascades, Allowed
<1>12. ASSUME NEW s \in Stage, Retry(s) PROVE Goal
  BY <1>12 DEF Retry, Command, ThenReap, Touched, Touch, LoopIsFree
<1>13. ASSUME NEW s \in Stage, Carve(s) PROVE Goal
  BY <1>13 DEF Carve, Command, ReplaceDeps, Touch, LoopIsFree
<1>41. ASSUME NEW s \in Stage, ReconcilePath(s) PROVE Goal
  BY <1>41 DEF ReconcilePath, ReplaceDeps, Touch, LoopIsFree
<1>14. ASSUME NEW s \in Stage, ForceStatus(s) PROVE Goal
  <2>1. PICK status \in Forced :
           /\ ticket' = [ticket EXCEPT ![s] = status]
           /\ \/ kick' = kick
              \/ /\ kick' = [kick EXCEPT ![Worker] = [Idle EXCEPT !.step = "reap", !.todo = {s}]]
                 /\ status \in {"done", "failed", "archived"}
    BY <1>14 DEF ForceStatus, SetStatus, ThenReap
  <2>2. /\ launch.step # "building" /\ kick[Worker].step = "idle"
        /\ UNCHANGED <<crow, handler, launch, pending>>
        /\ excused'.crossed = IF kick[Launcher].step = "idle" THEN excused.crossed
                              ELSE excused.crossed \cup {s}
    BY <1>14 DEF ForceStatus, Command, LoopIsFree, Touched, Touch
  <2>3. CASE kick' = kick
    BY <2>1, <2>2, <2>3
  <2>4. CASE kick' = [kick EXCEPT ![Worker] = [Idle EXCEPT !.step = "reap", !.todo = {s}]]
    BY <2>1, <2>2, <2>4
  <2> QED BY <2>1, <2>3, <2>4
<1>15. ASSUME NEW s \in Stage, Reap(s) PROVE Goal
  BY <1>15 DEF Reap, ReapCrow, ReapHandler
<1>16. ASSUME NEW s \in Stage, ResetCrow(s) PROVE Goal
  BY <1>16 DEF ResetCrow, ReapCrow, Command, Touched, Touch, LoopIsFree
<1>17. ASSUME NEW s \in Stage, ReopenOutside(s) PROVE Goal
  BY <1>17 DEF ReopenOutside, Touched, Touch
<1>18. ASSUME NEW s \in Stage, CascadeOutside(s) PROVE Goal
  BY <1>18 DEF CascadeOutside, Cascades, Allowed
<1>19. ASSUME NEW s \in Stage, RetryOutside(s) PROVE Goal
  BY <1>19 DEF RetryOutside, Touched, Touch
<1>20. ASSUME NEW s \in Stage, ReattachBegin(s) PROVE Goal
  BY <1>20 DEF ReattachBegin, NoHandler
<1>21. ASSUME NEW s \in Stage, ReattachEnd(s) PROVE Goal
  BY <1>21 DEF ReattachEnd, NoHandler, Abandon, Fault, Crow, Handler
<1>22. ASSUME NEW k \in Kickoff, RegisterCrow(k) PROVE Goal
  BY <1>22 DEF RegisterCrow, Step
<1>23. ASSUME NEW k \in Kickoff, RegistrationClashes(k) PROVE Goal
  BY <1>23 DEF RegistrationClashes, NextTicket, SetStatus
<1>24. ASSUME NEW k \in Kickoff, SpawnFails(k) PROVE Goal
  BY <1>24 DEF SpawnFails, NextTicket, SetStatus
<1>25. ASSUME NEW k \in Kickoff, CrowStarts(k) PROVE Goal
  BY <1>25 DEF CrowStarts, CrowRuns, NoHandler, Step, EndKickoff
<1>26. ASSUME NEW k \in Kickoff, HandlerStarts(k) PROVE Goal
  BY <1>26 DEF HandlerStarts, NextTicket, SetStatus
<1>27. ASSUME NEW k \in Kickoff, KickoffRaises(k) PROVE Goal
  BY <1>27 DEF KickoffRaises, CrowRuns, Abandon, ReapHandler, EndKickoff
<1>28. ASSUME NEW k \in Kickoff, KickoffEnds(k) PROVE Goal
  BY <1>28 DEF KickoffEnds, EndKickoff
<1>29. ASSUME NEW k \in Kickoff, NEW s \in Stage, SkipTicket(k, s) PROVE Goal
  BY <1>29 DEF SkipTicket, Take, LoopIsFree
<1>30. ASSUME NEW k \in Kickoff, NEW s \in Stage, ReapStale(k, s) PROVE Goal
  BY <1>30 DEF ReapStale, Take, ReapCrow, LoopIsFree, ComputeReady, HasRunningRow, StartsFresh
<1>31. ASSUME NEW k \in Kickoff, NEW s \in Stage, Claim(k, s) PROVE Goal
  BY <1>31 DEF Claim, EndKickoff, Take, ReapHandler, SetStatus, LoopIsFree, HasRunningRow, ComputeReady, Allowed
<1>32. ASSUME InsertRun PROVE Goal
  BY <1>32 DEF InsertRun
<1>33. ASSUME Restart PROVE Goal
  BY <1>33 DEF Restart
<1>34. ASSUME UNCHANGED vars PROVE Goal
  BY <1>34 DEF vars
<1> SUFFICES Goal
  OBVIOUS
<1> HIDE DEF Goal
<1>35. CASE LaunchStep
  BY <1>35, <1>1, <1>2, <1>32, Zenon DEF LaunchStep
<1>36. CASE \E k \in Kickoff : KickoffStep(k)
  <2>1. PICK k \in Kickoff : KickoffStep(k)
    BY <1>36
  <2>2. CASE \E s \in Stage : SkipTicket(k, s) \/ ReapStale(k, s) \/ Claim(k, s)
    BY <2>2, <1>29, <1>30, <1>31, Zenon
  <2> QED BY <2>1, <2>2, <1>22, <1>23, <1>25, <1>26, <1>28, Zenon DEF KickoffStep
<1>37. CASE \E s \in Stage : HandlerStep(s)
  BY <1>37, <1>6, <1>7, <1>10, Zenon DEF HandlerStep
<1>38. CASE \E s \in Stage : Follow(s)
  BY <1>38, <1>15, <1>18, <1>20, <1>21, Zenon DEF Follow
<1>39. CASE \E s \in Stage : Intervene(s)
  BY <1>39, <1>11, <1>12, <1>13, <1>41, <1>14, <1>16, <1>17, <1>19, Zenon DEF Intervene
<1>40. CASE Failure
  BY <1>40, <1>3, <1>24, <1>27, <1>8, <1>9, <1>33, Zenon DEF Failure
<1> QED BY <1>4, <1>5, <1>34, <1>35, <1>36, <1>37, <1>38, <1>39, <1>40, Zenon DEF TicketRunsNext

\* A handler comes for every ticket in progress.
LEMMA HandlerComesStep ==
    ASSUME TypeInv, LaunchHolds, WatchHolds, [TicketRunsNext]_vars,
           NEW x \in Stage \ excused'.crossed
    PROVE  HandlerComes(x)'
<1> DEFINE Goal == HandlerComes(x)'
<1>0. /\ ticket \in [Stage \cup {Parent} -> Status]
      /\ kick \in [Kickoff -> Kicking] /\ Kickoff = {Worker, Launcher}
      /\ \A k \in Kickoff : kick[k].at \in Stage \cup {NoStage} /\ kick[k].todo \subseteq Stage
      /\ \A k \in Kickoff : kick[k].step \in {"reaped", "spawn", "start", "handler", "reset"} => kick[k].at \in Stage
      /\ Worker # Launcher /\ NoStage \notin Stage /\ Parent \notin Stage
      /\ crow \in [Stage -> Crow] /\ handler \in [Stage -> Handler]
      /\ pending \in [reattach : SUBSET Stage, rebind : SUBSET Stage, cascade : SUBSET Stage]
      /\ excused \in Excuses
      /\ PlacesHold
      /\ x \in Stage
      /\ x \notin excused.crossed => StageKept(x)
      /\ launch.step = "building" =>
            /\ \A k \in Kickoff : kick[k].step = "idle"
            /\ handler[x] = "none"
            /\ pending.reattach = {} /\ pending.rebind = {}
  BY TicketRunsAssumption
     DEF TypeInv, TicketRunsTypeOK, KickoffsHaveTickets, Kickoff, Kicking, WatchHolds, LaunchHolds
<1> USE <1>0 DEF StageKept, StartsFresh, ReapsStale, AgentsHold, HandlerComes, At, Busy, Registered, PlacesHold, Launching, Kicking, Idle, Excuses
<1>1. ASSUME NEW t \in Stage \cup {Parent}, ReconcileTicket(t) PROVE Goal
  BY <1>1 DEF ReconcileTicket
<1>2. ASSUME NEW s \in Stage, ReadyTicket(s) PROVE Goal
  BY <1>2 DEF ReadyTicket
<1>3. ASSUME LaunchFails PROVE Goal
  BY <1>3 DEF LaunchFails
<1>4. ASSUME BeginKickoff PROVE Goal
  BY <1>4 DEF BeginKickoff, LoopIsFree, ComputeReady
<1>5. ASSUME ResetTicket PROVE Goal
  BY <1>5 DEF ResetTicket, EndKickoff, ReapHandler, SetStatus
<1>6. ASSUME NEW s \in Stage, SeesDone(s) PROVE Goal
  BY <1>6 DEF SeesDone, LoopIsFree, Ticks
<1>7. ASSUME NEW s \in Stage, ChecksPass(s) PROVE Goal
  BY <1>7 DEF ChecksPass, LoopIsFree, SetStatus, Promotable
<1>8. ASSUME NEW s \in Stage, ChecksFail(s) PROVE Goal
  BY <1>8 DEF ChecksFail, LoopIsFree, SetStatus
<1>9. ASSUME NEW s \in Stage, TicksFail(s) PROVE Goal
  BY <1>9 DEF TicksFail, SetStatus, LoopIsFree, Ticks
<1>10. ASSUME NEW s \in Stage, HandlerStops(s) PROVE Goal
  BY <1>10 DEF HandlerStops, LoopIsFree, Ticks
<1>11. ASSUME NEW s \in Stage, Reopen(s) PROVE Goal
  BY <1>11 DEF Reopen, Command, ThenReap, Touched, Touch, LoopIsFree, Dependents, Cascades, Allowed
<1>12. ASSUME NEW s \in Stage, Retry(s) PROVE Goal
  BY <1>12 DEF Retry, Command, ThenReap, Touched, Touch, LoopIsFree
<1>13. ASSUME NEW s \in Stage, Carve(s) PROVE Goal
  BY <1>13 DEF Carve, Command, ReplaceDeps, Touch, LoopIsFree
<1>41. ASSUME NEW s \in Stage, ReconcilePath(s) PROVE Goal
  BY <1>41 DEF ReconcilePath, ReplaceDeps, Touch, LoopIsFree
<1>14. ASSUME NEW s \in Stage, ForceStatus(s) PROVE Goal
  <2>1. PICK status \in Forced :
           /\ SetStatus(s, status)
           /\ \/ kick' = kick
              \/ /\ kick' = [kick EXCEPT ![Worker] = [Idle EXCEPT !.step = "reap", !.todo = {s}]]
                 /\ status \in {"done", "failed", "archived"}
           /\ excused'.unattended = excused.unattended \cup {u \in {s} : status = "in_progress"}
           /\ excused'.crossed = IF kick[Launcher].step = "idle" THEN excused.crossed
                                 ELSE excused.crossed \cup {s}
    BY <1>14, ForceFacts, Zenon
  <2>2. ticket' = [ticket EXCEPT ![s] = status]
    BY <2>1 DEF SetStatus
  <2>3. /\ launch.step # "building" /\ kick[Worker].step = "idle"
        /\ UNCHANGED <<crow, handler, launch, pending>>
    BY <1>14 DEF ForceStatus, Command, LoopIsFree
  <2>4. CASE kick' = kick
    BY <2>1, <2>3, <2>4, <2>2
  <2>5. CASE kick' = [kick EXCEPT ![Worker] = [Idle EXCEPT !.step = "reap", !.todo = {s}]]
    BY <2>1, <2>3, <2>5, <2>2
  <2> QED BY <2>1, <2>4, <2>5
<1>15. ASSUME NEW s \in Stage, Reap(s) PROVE Goal
  BY <1>15 DEF Reap, ReapCrow, ReapHandler
<1>16. ASSUME NEW s \in Stage, ResetCrow(s) PROVE Goal
  BY <1>16 DEF ResetCrow, ReapCrow, Command, Touched, Touch, LoopIsFree
<1>17. ASSUME NEW s \in Stage, ReopenOutside(s) PROVE Goal
  BY <1>17 DEF ReopenOutside, Touched, Touch
<1>18. ASSUME NEW s \in Stage, CascadeOutside(s) PROVE Goal
  BY <1>18 DEF CascadeOutside, Cascades, Allowed
<1>19. ASSUME NEW s \in Stage, RetryOutside(s) PROVE Goal
  BY <1>19 DEF RetryOutside, Touched, Touch
<1>20. ASSUME NEW s \in Stage, ReattachBegin(s) PROVE Goal
  BY <1>20 DEF ReattachBegin, NoHandler
<1>21. ASSUME NEW s \in Stage, ReattachEnd(s) PROVE Goal
  BY <1>21 DEF ReattachEnd, NoHandler, Abandon, Fault, Crow, Handler
<1>22. ASSUME NEW k \in Kickoff, RegisterCrow(k) PROVE Goal
  BY <1>22 DEF RegisterCrow, Step
<1>23. ASSUME NEW k \in Kickoff, RegistrationClashes(k) PROVE Goal
  BY <1>23 DEF RegistrationClashes, NextTicket, SetStatus
<1>24. ASSUME NEW k \in Kickoff, SpawnFails(k) PROVE Goal
  BY <1>24 DEF SpawnFails, NextTicket, SetStatus
<1>25. ASSUME NEW k \in Kickoff, CrowStarts(k) PROVE Goal
  BY <1>25 DEF CrowStarts, CrowRuns, NoHandler, Step, EndKickoff
<1>26. ASSUME NEW k \in Kickoff, HandlerStarts(k) PROVE Goal
  BY <1>26 DEF HandlerStarts, NextTicket, SetStatus
<1>27. ASSUME NEW k \in Kickoff, KickoffRaises(k) PROVE Goal
  BY <1>27 DEF KickoffRaises, CrowRuns, Abandon, ReapHandler, EndKickoff
<1>28. ASSUME NEW k \in Kickoff, KickoffEnds(k) PROVE Goal
  BY <1>28 DEF KickoffEnds, EndKickoff
<1>29. ASSUME NEW k \in Kickoff, NEW s \in Stage, SkipTicket(k, s) PROVE Goal
  BY <1>29 DEF SkipTicket, Take, LoopIsFree
<1>30. ASSUME NEW k \in Kickoff, NEW s \in Stage, ReapStale(k, s) PROVE Goal
  BY <1>30 DEF ReapStale, Take, ReapCrow, LoopIsFree, ComputeReady, HasRunningRow, StartsFresh
<1>31. ASSUME NEW k \in Kickoff, NEW s \in Stage, Claim(k, s) PROVE Goal
  BY <1>31 DEF Claim, EndKickoff, Take, ReapHandler, SetStatus, LoopIsFree, HasRunningRow, ComputeReady, Allowed
<1>32. ASSUME InsertRun PROVE Goal
  BY <1>32 DEF InsertRun
<1>33. ASSUME Restart PROVE Goal
  BY <1>33 DEF Restart
<1>34. ASSUME UNCHANGED vars PROVE Goal
  BY <1>34 DEF vars
<1> SUFFICES Goal
  OBVIOUS
<1> HIDE DEF Goal
<1>35. CASE LaunchStep
  BY <1>35, <1>1, <1>2, <1>32, Zenon DEF LaunchStep
<1>36. CASE \E k \in Kickoff : KickoffStep(k)
  <2>1. PICK k \in Kickoff : KickoffStep(k)
    BY <1>36
  <2>2. CASE \E s \in Stage : SkipTicket(k, s) \/ ReapStale(k, s) \/ Claim(k, s)
    BY <2>2, <1>29, <1>30, <1>31, Zenon
  <2> QED BY <2>1, <2>2, <1>22, <1>23, <1>25, <1>26, <1>28, Zenon DEF KickoffStep
<1>37. CASE \E s \in Stage : HandlerStep(s)
  BY <1>37, <1>6, <1>7, <1>10, Zenon DEF HandlerStep
<1>38. CASE \E s \in Stage : Follow(s)
  BY <1>38, <1>15, <1>18, <1>20, <1>21, Zenon DEF Follow
<1>39. CASE \E s \in Stage : Intervene(s)
  BY <1>39, <1>11, <1>12, <1>13, <1>41, <1>14, <1>16, <1>17, <1>19, Zenon DEF Intervene
<1>40. CASE Failure
  BY <1>40, <1>3, <1>24, <1>27, <1>8, <1>9, <1>33, Zenon DEF Failure
<1> QED BY <1>4, <1>5, <1>34, <1>35, <1>36, <1>37, <1>38, <1>39, <1>40, Zenon DEF TicketRunsNext

LEMMA WatchHoldsStep ==
    ASSUME TypeInv, LaunchHolds, WatchHolds, [TicketRunsNext]_vars
    PROVE  WatchHolds'
<1>1. \A x \in Stage \ excused'.crossed : StageKept(x)'
  BY StartsFreshStep, ReapsStaleStep, AgentsHoldStep, HandlerComesStep DEF StageKept
<1> QED BY <1>1, PlacesHoldStep DEF WatchHolds

LEMMA WatchInvariant == TicketRunsSpec => []WatchHolds
<1>1. TicketRunsInit => WatchHolds
  BY DEF TicketRunsInit, WatchHolds, PlacesHold, Launching, StageKept, StartsFresh, ReapsStale,
         AgentsHold, HandlerComes, At, Busy, Idle, Kickoff
<1>2. TicketRunsInv /\ WatchHolds /\ [TicketRunsNext]_vars => WatchHolds'
  BY WatchHoldsStep DEF TicketRunsInv
<1> QED BY <1>1, <1>2, TicketRunsInvHolds, PTL DEF TicketRunsSpec

\* kickoff_ready, reattach_crow, the handlers and the reaps interleave where they
\* await; still a ticket in progress always has somebody who looks after it, or a
\* stopped handler in the way, except where one of them raised outside the code
\* that fails the ticket, where a user forced the status, or touched the ticket
\* while the launcher was still busy.
THEOREM TicketsInProgressAreWatched == TicketRunsSpec => []InProgressIsWatched
<1>1. TicketRunsInv /\ WatchHolds => InProgressIsWatched
  <2> SUFFICES ASSUME TicketRunsInv, WatchHolds,
                      NEW s \in Stage \ (excused.crossed \cup excused.unattended),
                      ticket[s] = "in_progress"
               PROVE  Watched(s) \/ Stuck(s)
    BY DEF InProgressIsWatched
  <2>0. HandlerComes(s)
    BY DEF WatchHolds, StageKept
  <2>1. handler[s] \in Handler /\ handler[s] # "over"
    BY <2>0 DEF TicketRunsInv, TypeInv, TicketRunsTypeOK, HandlerComes
  <2>2. CASE handler[s] = "none"
    <3>1. (\E k \in Kickoff : At(k, s)) \/ s \in pending.reattach \cup pending.rebind
      BY <2>0, <2>2 DEF HandlerComes
    <3> QED BY <3>1 DEF Watched, At
  <2>3. CASE handler[s] \in {"running", "checking"}
    BY <2>3 DEF Watched
  <2>4. CASE handler[s] = "idle"
    BY <2>0, <2>4 DEF HandlerComes, Watched, At
  <2>5. CASE handler[s] = "stopped"
    BY <2>5 DEF Stuck
  <2> QED BY <2>1, <2>2, <2>3, <2>4, <2>5 DEF Handler
<1> QED BY <1>1, WatchInvariant, TicketRunsInvHolds, PTL
================================================================================
