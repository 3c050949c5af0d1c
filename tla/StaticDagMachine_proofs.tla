----------------------- MODULE StaticDagMachine_proofs -----------------------
(***************************************************************************)
(* Proofs about the loops of the static ticket DAG machine, for every      *)
(* stage graph, every definition order and every number of signals in a    *)
(* batch: what they compute is what StaticDag states without loops, and a  *)
(* run never waits for itself.                                             *)
(***************************************************************************)
EXTENDS StaticDagMachine, TLAPS, WellFoundedInduction

\* The order of the inbox.
InOrder(b) == [i \in DOMAIN b |-> i]

StageOK(now) == now \in [Stage -> Dag!StageStatus]

LEMMA OrderCovers == \A i \in DOMAIN Order : Order[i] \in Stage
BY MachineAssumption

LEMMA BatchShape ==
    ASSUME NEW b \in Batches
    PROVE  \E n \in Nat : /\ DOMAIN b = 1..n
                          /\ \A i \in 1..n : b[i] \in Dag!Payload
BY MachineAssumption DEF Batches

LEMMA NoSignals == <<>> \in Batches
<1>1. 0 \in 0..BatchBound /\ <<>> \in [1..0 -> Dag!Payload]
  BY MachineAssumption
<1> QED BY <1>1 DEF Batches

LEMMA ReadType ==
    ASSUME NEW now, StageOK(now), NEW signal \in Dag!Payload
    PROVE  StageOK(Read(now, signal))
BY DEF Read, StageOK, Dag!Payload, Dag!StageStatus, Dag!StageTerminal

LEMMA RevisitType ==
    ASSUME NEW now, StageOK(now), NEW s \in Stage
    PROVE  StageOK(Revisit(now, s))
BY DEF Revisit, StageOK, Dag!StageStatus, Dag!StageTerminal

LEMMA InitialType ==
    ASSUME deps \in [Stage -> SUBSET Stage]
    PROVE  StageOK(Dag!InitialStages)
BY DEF StageOK, Dag!InitialStages, Dag!StageStatus, Dag!StageTerminal

-----------------------------------------------------------------------------
(***************************************************************************)
(* Types                                                                   *)
(***************************************************************************)

LEMMA TypeInit == MachineInit => MachineTypeOK
<1> SUFFICES ASSUME MachineInit PROVE MachineTypeOK
  OBVIOUS
<1>1. deps \in [Stage -> SUBSET Stage] /\ Dag!Acyclic(deps)
  BY DEF MachineInit, ValidGraph
<1>2. StageOK(stages) /\ StageOK(byStage)
  BY <1>1, InitialType DEF MachineInit
<1>3. batch \in Batches
  BY NoSignals DEF MachineInit
<1>4. at \in {"waiting", "reading", "sweeping"} /\ next \in Nat \ {0}
  BY DEF MachineInit
<1>5. changed \in BOOLEAN
  BY DEF MachineInit
<1> QED BY <1>1, <1>2, <1>3, <1>4, <1>5 DEF MachineTypeOK, StageOK

LEMMA TypeStep ==
    ASSUME MachineTypeOK, [MachineNext]_machineVars
    PROVE  MachineTypeOK'
<1> USE DEF MachineTypeOK
<1>0. StageOK(stages) /\ StageOK(byStage)
  BY DEF StageOK
<1>1. CASE Consume
  BY <1>1 DEF Consume
<1>2. CASE ReadSignal
  <2>1. PICK n \in Nat : DOMAIN batch = 1..n /\ \A i \in 1..n : batch[i] \in Dag!Payload
    BY BatchShape
  <2>2. StageOK(byStage')
    BY <1>0, <1>2, <2>1, ReadType DEF ReadSignal
  <2>3. next' \in Nat \ {0}
    BY <1>2 DEF ReadSignal
  <2> QED BY <1>2, <2>2, <2>3 DEF ReadSignal, StageOK
<1>3. CASE BeginSweep
  <2>1. at' = "sweeping" /\ next' \in Nat \ {0}
    BY <1>3 DEF BeginSweep
  <2>2. changed' \in BOOLEAN
    BY <1>3 DEF BeginSweep
  <2> QED BY <1>3, <2>1, <2>2 DEF BeginSweep
<1>4. CASE RevisitStage
  <2>1. StageOK(byStage')
    BY <1>0, <1>4, RevisitType, OrderCovers DEF RevisitStage
  <2>2. next' \in Nat \ {0} /\ changed' \in BOOLEAN
    BY <1>4 DEF RevisitStage
  <2> QED BY <1>4, <2>1, <2>2 DEF RevisitStage, StageOK
<1>5. CASE Transition
  <2>1. at' = "waiting" /\ next' \in Nat \ {0} /\ batch' \in Batches
    BY <1>5, NoSignals DEF Transition
  <2>2. changed' \in BOOLEAN
    BY <1>5 DEF Transition
  <2> QED BY <1>5, <2>1, <2>2 DEF Transition
<1>6. CASE UNCHANGED machineVars
  BY <1>6 DEF machineVars
<1> QED BY <1>1, <1>2, <1>3, <1>4, <1>5, <1>6 DEF MachineNext

\* The locals of decide keep their types whatever the graph and the signals,
\* and the graph stays one without cycles.
THEOREM MachineTypeCorrect == MachineSpec => []MachineTypeOK
BY TypeInit, TypeStep, PTL DEF MachineSpec

-----------------------------------------------------------------------------
(***************************************************************************)
(* The first loop                                                          *)
(***************************************************************************)

LEMMA NatHasLeast ==
    ASSUME NEW T \in SUBSET Nat, T # {}
    PROVE  \E x \in T : \A y \in T : x <= y
<1>1. PICK x \in T : \A y \in T : <<y, x>> \notin OpToRel(<, Nat)
  BY WFMin, NatLessThanWellFounded, Zenon
<1>2. \A y \in T : ~ (y < x)
  BY <1>1, Zenon DEF OpToRel
<1> QED BY <1>2

\* Of the signals up to some position the first one about a stage is what
\* FirstAbout says.
LEMMA FirstAboutIs ==
    ASSUME NEW b \in Batches, NEW keys \in SUBSET (DOMAIN b), NEW s \in Stage,
           \E k \in keys : b[k].stage = s
    PROVE  LET f == Dag!FirstAbout(s, keys, b, InOrder(b))
           IN  f \in keys /\ b[f].stage = s /\ \A j \in keys : b[j].stage = s => f <= j
<1> DEFINE T == {k \in keys : b[k].stage = s}
<1>1. PICK n \in Nat : DOMAIN b = 1..n
  BY BatchShape
<1>2. T \in SUBSET Nat /\ T # {}
  BY <1>1
<1>3. PICK x \in T : \A y \in T : x <= y
  BY <1>2, NatHasLeast
<1>4. x \in keys /\ b[x].stage = s /\ \A j \in keys : b[j].stage = s => InOrder(b)[x] <= InOrder(b)[j]
  BY <1>3 DEF InOrder
<1>5. \A k \in keys : InOrder(b)[k] = k
  BY DEF InOrder
<1> DEFINE f == Dag!FirstAbout(s, keys, b, InOrder(b))
<1>6. f \in keys /\ b[f].stage = s /\ \A j \in keys : b[j].stage = s => InOrder(b)[f] <= InOrder(b)[j]
  BY <1>4, Zenon DEF Dag!FirstAbout
<1> QED BY <1>5, <1>6

\* An iteration of the loop takes one more signal into account.
LEMMA AbsorbOneMore ==
    ASSUME NEW now, StageOK(now), NEW b \in Batches, NEW i \in DOMAIN b
    PROVE  Read(Dag!Absorb(now, 1..(i-1), b, InOrder(b)), b[i])
             = Dag!Absorb(now, 1..i, b, InOrder(b))
<1>1. PICK n \in Nat : DOMAIN b = 1..n /\ \A k \in 1..n : b[k] \in Dag!Payload
  BY BatchShape
<1>2. /\ i \in 1..n /\ 1..i \subseteq DOMAIN b /\ 1..(i-1) \subseteq DOMAIN b
      /\ 1..i = 1..(i-1) \cup {i} /\ \A k \in 1..(i-1) : k < i
  BY <1>1
<1> DEFINE A == Dag!Absorb(now, 1..(i-1), b, InOrder(b))
           B == Dag!Absorb(now, 1..i, b, InOrder(b))
           F(s, j) == Dag!FirstAbout(s, 1..j, b, InOrder(b))
<1>3. DOMAIN A = Stage /\ B = [s \in Stage |-> B[s]] /\ DOMAIN B = Stage /\ A = [s \in Stage |-> A[s]]
  BY DEF Dag!Absorb
<1>4. ASSUME NEW s \in Stage
      PROVE  Read(A, b[i])[s] = B[s]
  <2>1. CASE now[s] \in Dag!StageTerminal
    <3>1. A[s] = now[s] /\ B[s] = now[s]
      BY <2>1 DEF Dag!Absorb
    <3> QED BY <1>3, <2>1, <3>1 DEF Read
  <2>2. CASE now[s] \notin Dag!StageTerminal /\ \E k \in 1..(i-1) : b[k].stage = s
    <3>1. A[s] = b[F(s, i-1)].verdict /\ B[s] = b[F(s, i)].verdict
      BY <1>2, <2>2 DEF Dag!Absorb
    <3>2. F(s, i-1) \in 1..(i-1) /\ b[F(s, i-1)].stage = s
          /\ \A j \in 1..(i-1) : b[j].stage = s => F(s, i-1) <= j
      BY <1>2, <2>2, FirstAboutIs
    <3>3. F(s, i) \in 1..i /\ b[F(s, i)].stage = s
          /\ \A j \in 1..i : b[j].stage = s => F(s, i) <= j
      BY <1>2, <2>2, FirstAboutIs
    <3>4. F(s, i) = F(s, i-1)
      BY <1>1, <1>2, <3>2, <3>3
    <3>5. A[s] = B[s] /\ A[s] \in Dag!StageTerminal
      BY <1>1, <1>2, <3>1, <3>2, <3>4 DEF Dag!Payload
    <3> QED BY <1>3, <3>5 DEF Read
  <2>3. CASE now[s] \notin Dag!StageTerminal /\ (~\E k \in 1..(i-1) : b[k].stage = s) /\ b[i].stage = s
    <3>1. A[s] = now[s] /\ B[s] = b[F(s, i)].verdict
      BY <1>2, <2>3 DEF Dag!Absorb
    <3>2. F(s, i) = i
      <4>1. F(s, i) \in 1..i /\ b[F(s, i)].stage = s
        BY <1>2, <2>3, FirstAboutIs
      <4> QED BY <1>2, <2>3, <4>1
    <3> QED BY <1>3, <2>3, <3>1, <3>2 DEF Read
  <2>4. CASE now[s] \notin Dag!StageTerminal /\ (~\E k \in 1..(i-1) : b[k].stage = s) /\ b[i].stage # s
    <3>1. A[s] = now[s] /\ B[s] = now[s]
      BY <1>2, <2>4 DEF Dag!Absorb
    <3> QED BY <1>3, <2>4, <3>1 DEF Read
  <2> QED BY <2>1, <2>2, <2>3, <2>4
<1>5. Read(A, b[i]) = [s \in Stage |-> Read(A, b[i])[s]]
  BY <1>3 DEF Read
<1> QED BY <1>3, <1>4, <1>5

\* Before the first signal nothing is absorbed.
LEMMA AbsorbNothing ==
    ASSUME NEW now, StageOK(now), NEW b
    PROVE  Dag!Absorb(now, 1..0, b, InOrder(b)) = now
<1>1. 1..0 = {}
  OBVIOUS
<1> QED BY <1>1 DEF Dag!Absorb, StageOK

-----------------------------------------------------------------------------
(***************************************************************************)
(* The second loop                                                         *)
(***************************************************************************)

\* The decisions about one graph, which the steps of the machine do not change.
Of(graph) == INSTANCE StaticDag WITH DependsOn <- graph

\* A sweep leaves this stage as it is.
Stays(graph, now, s) ==
    now[s] = "blocked" =>
        /\ {now[d] : d \in graph[s]} # {"succeeded"}
        /\ \A d \in graph[s] : now[d] \notin {"failed", "cancelled"}

LEMMA RevisitCases ==
    ASSUME deps \in [Stage -> SUBSET Stage], NEW now, StageOK(now), NEW s \in Stage
    PROVE  \/ Revisit(now, s) = now /\ Stays(deps, now, s)
           \/ /\ now[s] = "blocked" /\ \A d \in deps[s] : now[d] = "succeeded"
              /\ Revisit(now, s) = [now EXCEPT ![s] = "ready"]
           \/ /\ now[s] = "blocked" /\ \E d \in deps[s] : now[d] \in {"failed", "cancelled"}
              /\ Revisit(now, s) = [now EXCEPT ![s] = "cancelled"]
BY DEF Revisit, Stays, StageOK

\* What succeeds cannot be lost.
LEMMA ReleaseKeepsLost ==
    ASSUME deps \in [Stage -> SUBSET Stage], NEW now, StageOK(now), NEW s \in Stage,
           now[s] = "blocked", \A d \in deps[s] : now[d] = "succeeded"
    PROVE  /\ s \notin Of(deps)!Lost(now)
           /\ Of(deps)!Lost([now EXCEPT ![s] = "ready"]) = Of(deps)!Lost(now)
<1> DEFINE after == [now EXCEPT ![s] = "ready"]
           Safe == {r \in Stage : now[r] = "succeeded"} \cup {s}
<1>0. /\ after[s] = "ready" /\ \A r \in Stage : r # s => after[r] = now[r]
      /\ \A r \in Stage : deps[r] \subseteq Stage
  BY DEF StageOK
<1>1. Of(deps)!HoldsLost(Stage \ Safe, now)
  BY DEF Of!HoldsLost
<1>2. s \notin Of(deps)!Lost(now)
  BY <1>1 DEF Of!Lost
<1>3. ASSUME NEW set \in SUBSET Stage, Of(deps)!HoldsLost(set, now)
      PROVE  Of(deps)!HoldsLost(set, after)
  BY <1>0, <1>3 DEF Of!HoldsLost
<1>4. ASSUME NEW set \in SUBSET Stage, Of(deps)!HoldsLost(set, after)
      PROVE  Of(deps)!HoldsLost(set \ Safe, now)
  <2> SUFFICES ASSUME NEW r \in Stage,
                      \/ now[r] \in {"failed", "cancelled"}
                      \/ now[r] = "blocked" /\ deps[r] \cap (set \ Safe) # {}
               PROVE  r \in set \ Safe
    BY DEF Of!HoldsLost
  <2>1. r # s /\ now[r] # "succeeded"
    OBVIOUS
  <2>2. \/ after[r] \in {"failed", "cancelled"}
        \/ after[r] = "blocked" /\ deps[r] \cap set # {}
    BY <1>0, <2>1
  <2>3. r \in set
    BY <1>4, <2>2 DEF Of!HoldsLost
  <2> QED BY <2>1, <2>3
<1>5. ASSUME NEW r \in Of(deps)!Lost(after)
      PROVE  r \in Of(deps)!Lost(now)
  BY <1>3, <1>5 DEF Of!Lost
<1>6. ASSUME NEW r \in Of(deps)!Lost(now)
      PROVE  r \in Of(deps)!Lost(after)
  <2>1. ASSUME NEW set \in SUBSET Stage, Of(deps)!HoldsLost(set, after)
        PROVE  r \in set
    <3>1. set \ Safe \in SUBSET Stage /\ Of(deps)!HoldsLost(set \ Safe, now)
      BY <1>4, <2>1
    <3> QED BY <1>6, <3>1 DEF Of!Lost
  <2> QED BY <1>6, <2>1 DEF Of!Lost
<1> QED BY <1>2, <1>5, <1>6

\* What a sweep cancels was lost before.
LEMMA CancelKeepsLost ==
    ASSUME deps \in [Stage -> SUBSET Stage], NEW now, StageOK(now), NEW s \in Stage,
           now[s] = "blocked", NEW d \in deps[s], now[d] \in {"failed", "cancelled"}
    PROVE  /\ s \in Of(deps)!Lost(now)
           /\ Of(deps)!Lost([now EXCEPT ![s] = "cancelled"]) = Of(deps)!Lost(now)
<1> DEFINE after == [now EXCEPT ![s] = "cancelled"]
<1>0. /\ after[s] = "cancelled" /\ \A r \in Stage : r # s => after[r] = now[r]
      /\ d \in Stage
  BY DEF StageOK
<1>1. ASSUME NEW set \in SUBSET Stage, Of(deps)!HoldsLost(set, now)
      PROVE  s \in set
  <2>1. d \in set
    BY <1>0, <1>1 DEF Of!HoldsLost
  <2> QED BY <1>1, <2>1 DEF Of!HoldsLost
<1>2. ASSUME NEW set \in SUBSET Stage
      PROVE  Of(deps)!HoldsLost(set, after) <=> Of(deps)!HoldsLost(set, now)
  <2>1. ASSUME Of(deps)!HoldsLost(set, now) PROVE Of(deps)!HoldsLost(set, after)
    BY <1>0, <1>1, <2>1 DEF Of!HoldsLost
  <2>2. ASSUME Of(deps)!HoldsLost(set, after) PROVE Of(deps)!HoldsLost(set, now)
    <3>1. s \in set
      BY <1>0, <2>2 DEF Of!HoldsLost
    <3> QED BY <1>0, <2>2, <3>1 DEF Of!HoldsLost
  <2> QED BY <2>1, <2>2
<1>3. s \in Of(deps)!Lost(now)
  BY <1>1 DEF Of!Lost
<1>4. Of(deps)!Lost(after) = Of(deps)!Lost(now)
  BY <1>2 DEF Of!Lost
<1> QED BY <1>3, <1>4

\* An iteration of the loop leaves the decision as it is.
LEMMA RevisitKeepsDecision ==
    ASSUME deps \in [Stage -> SUBSET Stage], NEW now, StageOK(now), NEW s \in Stage
    PROVE  Of(deps)!Settle(Revisit(now, s)) = Of(deps)!Settle(now)
<1>1. CASE Revisit(now, s) = now
  BY <1>1
<1>2. ASSUME NEW to \in {"ready", "cancelled"}, now[s] = "blocked",
             Of(deps)!Lost([now EXCEPT ![s] = to]) = Of(deps)!Lost(now),
             Of(deps)!Settle(now)[s] = to
      PROVE  Of(deps)!Settle([now EXCEPT ![s] = to]) = Of(deps)!Settle(now)
  <2> DEFINE after == [now EXCEPT ![s] = to]
  <2>0. after[s] = to /\ \A r \in Stage : r # s => after[r] = now[r]
    BY DEF StageOK
  <2>1. ASSUME NEW r \in Stage
        PROVE  {after[d] : d \in deps[r]} = {"succeeded"} <=> {now[d] : d \in deps[r]} = {"succeeded"}
    <3>0. deps[r] \subseteq Stage
      OBVIOUS
    <3>1. CASE s \in deps[r]
      <4>1. after[s] # "succeeded" /\ now[s] # "succeeded"
        BY <1>2, <2>0
      <4>2. {after[d] : d \in deps[r]} # {"succeeded"}
        BY <3>1, <4>1
      <4>3. {now[d] : d \in deps[r]} # {"succeeded"}
        BY <3>1, <4>1
      <4> QED BY <4>2, <4>3
    <3>2. CASE s \notin deps[r]
      <4>1. \A d \in deps[r] : after[d] = now[d]
        BY <2>0, <3>0, <3>2
      <4>2. {after[d] : d \in deps[r]} = {now[d] : d \in deps[r]}
        BY <4>1
      <4> QED BY <4>2
    <3> QED BY <3>1, <3>2
  <2>2. ASSUME NEW r \in Stage
        PROVE  Of(deps)!Settle(after)[r] = Of(deps)!Settle(now)[r]
    <3>1. CASE r = s
      BY <1>2, <2>0, <3>1 DEF Of!Settle
    <3>2. CASE r # s
      <4>1. after[r] = now[r]
        BY <2>0, <3>2
      <4> HIDE DEF after
      <4> QED BY <1>2, <2>1, <4>1 DEF Of!Settle, after
    <3> QED BY <3>1, <3>2
  <2>3. /\ Of(deps)!Settle(after) = [r \in Stage |-> Of(deps)!Settle(after)[r]]
        /\ Of(deps)!Settle(now) = [r \in Stage |-> Of(deps)!Settle(now)[r]]
    BY DEF Of!Settle
  <2> QED BY <2>2, <2>3
<1>3. CASE /\ now[s] = "blocked" /\ \A d \in deps[s] : now[d] = "succeeded"
           /\ Revisit(now, s) = [now EXCEPT ![s] = "ready"] /\ Revisit(now, s) # now
  <2>1. /\ s \notin Of(deps)!Lost(now)
        /\ Of(deps)!Lost([now EXCEPT ![s] = "ready"]) = Of(deps)!Lost(now)
    BY <1>3, ReleaseKeepsLost
  <2>2. {now[d] : d \in deps[s]} = {"succeeded"}
    BY <1>3 DEF Revisit, StageOK
  <2>3. Of(deps)!Settle(now)[s] = "ready"
    BY <1>3, <2>1, <2>2 DEF Of!Settle
  <2> QED BY <1>2, <1>3, <2>1, <2>3
<1>4. CASE /\ now[s] = "blocked" /\ \E d \in deps[s] : now[d] \in {"failed", "cancelled"}
           /\ Revisit(now, s) = [now EXCEPT ![s] = "cancelled"]
  <2>1. /\ s \in Of(deps)!Lost(now)
        /\ Of(deps)!Lost([now EXCEPT ![s] = "cancelled"]) = Of(deps)!Lost(now)
    BY <1>4, CancelKeepsLost
  <2>2. Of(deps)!Settle(now)[s] = "cancelled"
    BY <1>4, <2>1 DEF Of!Settle
  <2> QED BY <1>2, <1>4, <2>1, <2>2
<1> QED BY <1>1, <1>3, <1>4, RevisitCases

\* A sweep that changes nothing has nothing left to decide.
LEMMA NothingLeftToSettle ==
    ASSUME deps \in [Stage -> SUBSET Stage], NEW now, StageOK(now),
           \A s \in Stage : Stays(deps, now, s)
    PROVE  Of(deps)!Settle(now) = now
<1> DEFINE Gone == {s \in Stage : now[s] \in {"failed", "cancelled"}}
<1>1. Of(deps)!HoldsLost(Gone, now)
  BY DEF Of!HoldsLost, Stays
<1>2. Of(deps)!Lost(now) \subseteq Gone
  BY <1>1 DEF Of!Lost
<1>3. \A s \in Stage : Of(deps)!Settle(now)[s] = now[s]
  BY <1>2 DEF Of!Settle, Stays
<1>4. Of(deps)!Settle(now) = [s \in Stage |-> Of(deps)!Settle(now)[s]]
  BY DEF Of!Settle
<1>5. now = [s \in Stage |-> now[s]]
  BY DEF StageOK
<1> QED BY <1>3, <1>4, <1>5

-----------------------------------------------------------------------------
(***************************************************************************)
(* The invariant of the loops                                              *)
(***************************************************************************)

\* What has been read is what the signals so far say.
ReadingHolds ==
    at = "reading" =>
        /\ next = 1 \/ next - 1 \in DOMAIN batch
        /\ byStage = Dag!Absorb(stages, 1..(next - 1), batch, InOrder(batch))

\* The decision is still to be had from what a sweep has made of the stages, and
\* a sweep that has changed nothing so far has left behind nothing to change.
SweepingHolds ==
    at = "sweeping" =>
        /\ Of(deps)!Settle(byStage)
             = Of(deps)!Settle(Dag!Absorb(stages, DOMAIN batch, batch, InOrder(batch)))
        /\ ~changed => \A j \in DOMAIN Order : j < next => Stays(deps, byStage, Order[j])

\* The persisted stages are settled, and what is blocked waits for something.
StagesSettled ==
    /\ at = "waiting" => byStage = stages /\ next = 1
    /\ \A s \in Stage : Stays(deps, stages, s)
    /\ \A s \in Stage : stages[s] = "blocked" => deps[s] # {}
    /\ \A s \in Stage : byStage[s] = "blocked" => stages[s] = "blocked"

LoopsInv == MachineTypeOK /\ ReadingHolds /\ SweepingHolds /\ StagesSettled

LEMMA LoopsInit == MachineInit => LoopsInv
<1> SUFFICES ASSUME MachineInit PROVE LoopsInv
  OBVIOUS
<1>1. MachineTypeOK /\ at = "waiting" /\ byStage = stages /\ next = 1
  BY TypeInit DEF MachineInit
<1>2. stages = [s \in Stage |-> IF deps[s] = {} THEN "ready" ELSE "blocked"]
  BY DEF MachineInit, Dag!InitialStages
<1>3. \A s \in Stage : stages[s] \in {"ready", "blocked"} /\ deps[s] \subseteq Stage
  BY <1>1, <1>2 DEF MachineTypeOK
<1>4. ASSUME NEW s \in Stage PROVE Stays(deps, stages, s)
  <2>1. \A d \in deps[s] : stages[d] \in {"ready", "blocked"}
    BY <1>3
  <2> QED BY <2>1 DEF Stays
<1>5. \A s \in Stage : stages[s] = "blocked" => deps[s] # {}
  BY <1>2
<1> QED BY <1>1, <1>4, <1>5 DEF LoopsInv, ReadingHolds, SweepingHolds, StagesSettled

\* Reading and sweeping unblock nothing that is persisted as blocked, and block
\* nothing.
LEMMA NothingIsBlocked ==
    ASSUME NEW now, StageOK(now), deps \in [Stage -> SUBSET Stage], NEW r \in Stage
    PROVE  /\ \A s \in Stage : Revisit(now, s)[r] = "blocked" => now[r] = "blocked"
           /\ \A signal \in Dag!Payload : Read(now, signal)[r] = "blocked" => now[r] = "blocked"
BY DEF StageOK, Revisit, Read, Dag!Payload, Dag!StageTerminal

\* The sweep that ends the loop has looked at every stage.
LEMMA LastSweep ==
    ASSUME LoopsInv, Transition
    PROVE  \A s \in Stage : Stays(deps, byStage, s)
<1> SUFFICES ASSUME NEW s \in Stage PROVE Stays(deps, byStage, s)
  OBVIOUS
<1>1. at = "sweeping" /\ next \notin DOMAIN Order /\ ~changed
  BY DEF Transition, Settled
<1>2. PICK j \in DOMAIN Order : s = Order[j]
  BY MachineAssumption
<1>3. DOMAIN Order = 1..Len(Order) /\ Len(Order) \in Nat
  BY MachineAssumption
<1>4. j < next
  BY <1>1, <1>2, <1>3 DEF LoopsInv, MachineTypeOK
<1> QED BY <1>1, <1>2, <1>4 DEF LoopsInv, SweepingHolds

LEMMA LoopsStep ==
    ASSUME LoopsInv, [MachineNext]_machineVars
    PROVE  LoopsInv'
<1> USE DEF LoopsInv
<1>0. /\ MachineTypeOK' /\ StageOK(byStage) /\ StageOK(stages)
      /\ deps \in [Stage -> SUBSET Stage] /\ next \in Nat \ {0} /\ batch \in Batches
  BY TypeStep DEF MachineTypeOK, StageOK
<1>1. CASE Consume
  <2>1. /\ at = "waiting" /\ at' = "reading" /\ next' = 1 /\ byStage' = stages
        /\ UNCHANGED <<deps, stages, byStage>>
    BY <1>1 DEF Consume, StagesSettled
  <2>2. Dag!Absorb(stages, 1..0, batch', InOrder(batch')) = stages
    BY <1>0, AbsorbNothing
  <2>3. ReadingHolds'
    BY <2>1, <2>2 DEF ReadingHolds
  <2> QED BY <1>0, <2>1, <2>3 DEF SweepingHolds, StagesSettled
<1>2. CASE ReadSignal
  <2>1. /\ at = "reading" /\ at' = "reading" /\ next \in DOMAIN batch /\ next' = next + 1
        /\ byStage' = Read(byStage, batch[next])
        /\ UNCHANGED <<deps, stages, batch>>
    BY <1>2 DEF ReadSignal
  <2>2. batch[next] \in Dag!Payload
    BY <1>0, <2>1, BatchShape
  <2>3. byStage' = Dag!Absorb(stages, 1..next, batch, InOrder(batch))
    BY <1>0, <2>1, AbsorbOneMore DEF ReadingHolds
  <2>4. next' - 1 = next
    BY <1>0, <2>1
  <2>5. ReadingHolds'
    BY <2>1, <2>3, <2>4 DEF ReadingHolds
  <2>6. \A r \in Stage : byStage'[r] = "blocked" => byStage[r] = "blocked"
    BY <1>0, <2>1, <2>2, NothingIsBlocked
  <2> QED BY <1>0, <2>1, <2>5, <2>6 DEF SweepingHolds, StagesSettled
<1>3. CASE BeginSweep
  <2>1. /\ at' = "sweeping" /\ next' = 1 /\ UNCHANGED <<deps, stages, batch, byStage>>
    BY <1>3 DEF BeginSweep
  <2>2. \A j \in DOMAIN Order : ~ (j < next')
    BY <2>1, MachineAssumption
  <2>3. Of(deps)!Settle(byStage)
          = Of(deps)!Settle(Dag!Absorb(stages, DOMAIN batch, batch, InOrder(batch)))
    <3>1. CASE at = "sweeping"
      BY <3>1 DEF SweepingHolds
    <3>2. CASE at = "reading" /\ next \notin DOMAIN batch
      <4>1. PICK n \in Nat : DOMAIN batch = 1..n
        BY <1>0, BatchShape
      <4>2. 1..(next - 1) = DOMAIN batch
        <5>1. next = 1 \/ next - 1 \in 1..n
          BY <3>2, <4>1 DEF ReadingHolds
        <5>2. next - 1 = n
          BY <1>0, <3>2, <4>1, <5>1
        <5> QED BY <4>1, <5>2
      <4> QED BY <3>2, <4>2 DEF ReadingHolds
    <3> QED BY <1>3, <3>1, <3>2 DEF BeginSweep
  <2>4. SweepingHolds'
    BY <2>1, <2>2, <2>3 DEF SweepingHolds
  <2> QED BY <1>0, <2>1, <2>4 DEF ReadingHolds, StagesSettled
<1>4. CASE RevisitStage
  <2> DEFINE s == Order[next]
  <2>1. /\ at = "sweeping" /\ at' = "sweeping" /\ next \in DOMAIN Order /\ next' = next + 1
        /\ byStage' = Revisit(byStage, s) /\ UNCHANGED <<deps, stages, batch>>
    BY <1>4 DEF RevisitStage
  <2>2. s \in Stage
    BY <2>1, OrderCovers
  <2>3. Of(deps)!Settle(byStage') = Of(deps)!Settle(byStage)
    BY <1>0, <2>1, <2>2, RevisitKeepsDecision
  <2>4. ASSUME ~changed', NEW j \in DOMAIN Order, j < next'
        PROVE  Stays(deps, byStage', Order[j])
    <3>1. byStage' = byStage /\ ~changed
      BY <1>4, <2>4 DEF RevisitStage
    <3>2. CASE j < next
      BY <2>1, <3>1, <3>2 DEF SweepingHolds
    <3>3. CASE j = next
      <4>1. Revisit(byStage, s) = byStage
        BY <2>1, <3>1
      <4>2. Stays(deps, byStage, s)
        BY <1>0, <2>2, <4>1, RevisitCases DEF StageOK
      <4> QED BY <3>1, <3>3, <4>2
    <3>4. j \in Nat
      BY MachineAssumption
    <3> QED BY <1>0, <2>1, <2>4, <3>2, <3>3, <3>4
  <2>5. SweepingHolds'
    BY <2>1, <2>3, <2>4 DEF SweepingHolds
  <2>6. \A r \in Stage : byStage'[r] = "blocked" => byStage[r] = "blocked"
    BY <1>0, <2>1, <2>2, NothingIsBlocked
  <2> QED BY <1>0, <2>1, <2>5, <2>6 DEF ReadingHolds, StagesSettled
<1>5. CASE Transition
  <2>1. /\ at = "sweeping" /\ at' = "waiting" /\ next' = 1 /\ stages' = byStage /\ byStage' = byStage
        /\ deps' = deps
    BY <1>5 DEF Transition
  <2>2. \A r \in Stage : Stays(deps, byStage, r)
    BY <1>0, <1>5, LastSweep
  <2>3. \A r \in Stage : byStage[r] = "blocked" => deps[r] # {}
    BY DEF StagesSettled
  <2> QED BY <1>0, <2>1, <2>2, <2>3 DEF ReadingHolds, SweepingHolds, StagesSettled
<1>6. CASE UNCHANGED machineVars
  BY <1>0, <1>6 DEF machineVars, ReadingHolds, SweepingHolds, StagesSettled
<1> QED BY <1>1, <1>2, <1>3, <1>4, <1>5, <1>6 DEF MachineNext

LEMMA LoopsInvHolds == MachineSpec => []LoopsInv
BY LoopsInit, LoopsStep, PTL DEF MachineSpec

\* For every graph and definition order and every batch, a decision of the
\* loops in static_dag.py is the one that StaticDag states without them, which
\* is the one WorkflowRuns and TicketRuns persist.
THEOREM LoopsAreTheDecision == MachineSpec => LoopsDecide
<1>1. ASSUME LoopsInv, Transition
      PROVE  stages' = Dag!Decide(stages, DOMAIN batch, batch, [i \in DOMAIN batch |-> i])
  <2> DEFINE read == Dag!Absorb(stages, DOMAIN batch, batch, InOrder(batch))
  <2>1. StageOK(byStage) /\ deps \in [Stage -> SUBSET Stage]
    BY <1>1 DEF LoopsInv, MachineTypeOK, StageOK
  <2>2. \A s \in Stage : Stays(deps, byStage, s)
    BY <1>1, LastSweep
  <2>3. Of(deps)!Settle(byStage) = byStage
    BY <2>1, <2>2, NothingLeftToSettle
  <2>4. stages' = Of(deps)!Settle(read)
    BY <1>1, <2>3 DEF Transition, LoopsInv, SweepingHolds
  <2>5. \A now : Dag!Settle(now) = Of(deps)!Settle(now)
    BY DEF Dag!Settle, Of!Settle, Dag!Lost, Of!Lost, Dag!HoldsLost, Of!HoldsLost
  <2>6. Dag!Decide(stages, DOMAIN batch, batch, [i \in DOMAIN batch |-> i]) = Dag!Settle(read)
    BY DEF Dag!Decide, InOrder
  <2> QED BY <2>4, <2>5, <2>6
<1> QED BY <1>1, LoopsInvHolds, PTL DEF LoopsDecide

\* As long as a run waits, some ticket of it may run: whatever signals decide
\* has been given, the stages of an acyclic graph never wait for each other.
THEOREM WaitingRunsGoOn == MachineSpec => []WaitingRunHasReadyStage
<1>1. ASSUME LoopsInv, Dag!StatusOf(stages) = "waiting"
      PROVE  \E s \in Stage : stages[s] = "ready"
  <2>1. /\ deps \in [Stage -> SUBSET Stage] /\ Dag!Acyclic(deps)
        /\ \A s \in Stage : stages[s] \in Dag!StageStatus
    BY <1>1 DEF LoopsInv, MachineTypeOK
  <2>2. /\ \E s \in Stage : stages[s] \notin Dag!StageTerminal
        /\ \A s \in Stage : stages[s] # "failed"
    BY <1>1, <2>1 DEF Dag!StatusOf
  <2> SUFFICES ASSUME \A s \in Stage : stages[s] # "ready" PROVE FALSE
    OBVIOUS
  <2> DEFINE B == {s \in Stage : stages[s] = "blocked"}
  <2>3. B # {} /\ B \in SUBSET Stage
    BY <2>1, <2>2 DEF Dag!StageStatus
  <2>4. PICK s \in B : deps[s] \cap B = {}
    BY <2>1, <2>3 DEF Dag!Acyclic
  <2>5. \A d \in deps[s] : stages[d] \in Dag!StageTerminal
    BY <2>1, <2>4 DEF Dag!StageStatus
  <2>6. /\ Stays(deps, stages, s) /\ deps[s] # {}
    BY <1>1, <2>4 DEF LoopsInv, StagesSettled
  <2>7. \A d \in deps[s] : stages[d] = "succeeded"
    BY <2>4, <2>5, <2>6 DEF Stays, Dag!StageTerminal
  <2>8. {stages[d] : d \in deps[s]} = {"succeeded"}
    BY <2>6, <2>7
  <2> QED BY <2>4, <2>6, <2>8 DEF Stays
<1>2. LoopsInv => WaitingRunHasReadyStage
  BY <1>1 DEF WaitingRunHasReadyStage
<1> QED BY <1>2, LoopsInvHolds, PTL
=============================================================================
