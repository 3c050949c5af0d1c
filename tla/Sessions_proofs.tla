----------------------------- MODULE Sessions_proofs -----------------------------
(***************************************************************************)
(* Theorems about Sessions: the leases of a session are the turns of       *)
(* WriterTurn, and at most one of them is accepted for writing, whatever   *)
(* the wall clock does and however many controllers there are.  The        *)
(* writers of before a termination stay out and the session shows that it  *)
(* ended, unless a registration overtook the termination; takeovers wait   *)
(* for inputs and effects are recorded, unless a controller is draining.   *)
(***************************************************************************)
EXTENDS Sessions, TLAPS, SequenceTheorems

\* Leases are numbered by their fences, in the order they were granted.
FencesInOrder ==
    /\ lastFence = Len(leases)
    /\ \A i \in DOMAIN leases : leases[i].fence = i

Inv == SessionsTypeOK /\ FencesInOrder

LEMMA InitInv == SessionsInit => Inv
BY SessionsAssumption
   DEF SessionsInit, Inv, SessionsTypeOK, FencesInOrder, Unused, NoWork, Op, Effects, Status,
       Active, Terminal, Mailbox, Effect

-----------------------------------------------------------------------------
(***************************************************************************)
(* What a step does to the leases                                          *)
(***************************************************************************)

LeasesStay == UNCHANGED <<leases, lastFence>>

Granted(p) ==
    \E lease \in Lease, old \in [DOMAIN leases -> Lease] :
        /\ lease.holder = p
        /\ lease.fence = lastFence + 1
        /\ ~ lease.revoked
        /\ lease.expires > clock
        /\ \A i \in DOMAIN leases : old[i].fence = leases[i].fence /\ old[i].holder = leases[i].holder
        /\ \A i \in DOMAIN leases : leases[i].revoked => old[i].revoked
        /\ leases' = Append(old, lease)
        /\ lastFence' = lastFence + 1
        /\ clock' = clock

\* No lease comes back, and one that is accepted may only be given a later end.
Worn ==
    /\ leases' \in [DOMAIN leases -> Lease]
    /\ \A i \in DOMAIN leases :
          /\ leases'[i].fence = leases[i].fence
          /\ leases'[i].holder = leases[i].holder
          /\ leases[i].revoked => leases'[i].revoked
          /\ leases[i].expires <= clock => leases'[i].expires <= clock
          /\ leases[i].expires > clock => leases'[i].expires > clock
    /\ lastFence' = lastFence
    /\ clock' = clock

LEMMA AcquireGrants ==
    ASSUME Inv, NEW c \in Controller, NEW p \in Principal, NEW mode \in Mode,
           NEW force \in BOOLEAN, Acquire(c, p, mode, force)
    PROVE  Granted(p)
<1> DEFINE lease == [holder |-> p, mode |-> mode, fence |-> lastFence + 1,
                     expires |-> clock + Ttl, revoked |-> FALSE]
           old == [i \in DOMAIN leases |->
                      IF i \in ActiveLease THEN Revoked(leases[i]) ELSE leases[i]]
<1>1. leases' = Append(old, lease) /\ lastFence' = lastFence + 1 /\ clock' = clock
  BY DEF Acquire, Elsewhere
<1>2. clock \in Nat /\ Ttl \in Nat /\ Ttl > 0 /\ lastFence \in Nat
  BY SessionsAssumption DEF Inv, SessionsTypeOK
<1>3. lease \in Lease /\ lease.expires > clock
  BY <1>2 DEF Lease
<1>4. \A i \in DOMAIN leases : leases[i] \in Lease
  BY DEF Inv, SessionsTypeOK
<1>5. \A i \in DOMAIN leases :
         /\ old[i] \in Lease /\ old[i].fence = leases[i].fence
         /\ old[i].holder = leases[i].holder
         /\ leases[i].revoked => old[i].revoked
  BY <1>4 DEF Lease, Revoked
<1>6. old \in [DOMAIN leases -> Lease]
  BY <1>5
<1> HIDE DEF old
<1> QED BY <1>1, <1>3, <1>5, <1>6 DEF Granted

LEMMA RevokeAllWears ==
    ASSUME Inv, leases' = RevokeAll, UNCHANGED <<lastFence, clock>>
    PROVE  Worn
<1>1. \A i \in DOMAIN leases : leases[i] \in Lease
  BY DEF Inv, SessionsTypeOK
<1> QED BY <1>1 DEF RevokeAll, Revoked, Worn, Lease

LEMMA StayWears ==
    ASSUME Inv, LeasesStay, UNCHANGED clock
    PROVE  Worn
<1>1. leases \in [DOMAIN leases -> Lease]
  BY DEF Inv, SessionsTypeOK
<1> QED BY <1>1 DEF LeasesStay, Worn

LEMMA LeaseRequestWears ==
    ASSUME Inv, NEW c \in Controller, NEW i \in DOMAIN leases, Renew(c, i) \/ Release(c, i)
    PROVE  Worn
<1>1. \A j \in DOMAIN leases : leases[j] \in Lease
  BY DEF Inv, SessionsTypeOK
<1>2. clock \in Nat /\ Ttl \in Nat /\ Ttl > 0
  BY SessionsAssumption DEF Inv, SessionsTypeOK
<1>3. CASE Renew(c, i)
  <2>1. leases' = [leases EXCEPT ![i].expires = clock + Ttl] /\ UNCHANGED <<lastFence, clock>>
    BY <1>3 DEF Renew, Elsewhere
  <2>2. leases[i].expires > clock
    BY <1>3 DEF Renew, Unrevoked
  <2>3. \A j \in DOMAIN leases :
           leases'[j] = IF j = i THEN [leases[i] EXCEPT !.expires = clock + Ttl] ELSE leases[j]
    BY <2>1
  <2>4. [leases[i] EXCEPT !.expires = clock + Ttl] \in Lease
    BY <1>1, <1>2 DEF Lease
  <2>5. leases' \in [DOMAIN leases -> Lease]
    BY <1>1, <2>1, <2>4
  <2>6. leases'[i].expires = clock + Ttl /\ clock + Ttl > clock
    BY <1>1, <1>2, <2>3 DEF Lease
  <2>7. \A j \in DOMAIN leases :
           /\ leases'[j].fence = leases[j].fence
           /\ leases'[j].holder = leases[j].holder
           /\ leases[j].revoked => leases'[j].revoked
    BY <1>1, <2>3 DEF Lease
  <2>8. \A j \in DOMAIN leases :
           /\ leases[j].expires <= clock => leases'[j].expires <= clock
           /\ leases[j].expires > clock => leases'[j].expires > clock
    <3>1. \A j \in DOMAIN leases : leases[j].expires \in Nat
      BY <1>1 DEF Lease
    <3> QED BY <1>2, <2>2, <2>3, <2>6, <3>1
  <2> QED BY <2>1, <2>5, <2>7, <2>8 DEF Worn
<1>4. CASE Release(c, i)
  <2>1. leases' = [leases EXCEPT ![i] = Revoked(@)] /\ UNCHANGED <<lastFence, clock>>
    BY <1>4 DEF Release, Elsewhere
  <2> QED BY <1>1, <2>1 DEF Worn, Lease, Revoked
<1> QED BY <1>3, <1>4

LEMMA SaveTerminalWears ==
    ASSUME Inv, NEW status, NEW revision, SaveTerminal(status, revision), UNCHANGED clock
    PROVE  Worn
BY RevokeAllWears, StayWears DEF SaveTerminal, store, LeasesStay

\* A step grants a lease, wears the leases out, or moves nothing but the clock.
LEMMA StepOfLeases ==
    ASSUME Inv, [Next]_vars
    PROVE  (\E p \in Principal : Granted(p)) \/ Worn \/ LeasesStay
<1>1. ASSUME NEW c \in Controller, LeaseStep(c)
      PROVE  (\E p \in Principal : Granted(p)) \/ Worn
  BY <1>1, AcquireGrants, LeaseRequestWears DEF LeaseStep
<1>2. ASSUME NEW c \in Controller,
             \/ CommandStep(c) \/ Enqueue(c) \/ EndWorker(c)
             \/ OpenController(c) \/ LeaveRegistry(c)
      PROVE  LeasesStay
  BY <1>2 DEF CommandStep, Refuse, Observe, BeginInput, BeginMessage, BeginControl, BeginTerminate,
              Enqueue, OpenController, LeaveRegistry, EndWorker, store, LeasesStay
<1>3. ASSUME NEW c \in Controller, EffectStep(c)
      PROVE  Worn \/ LeasesStay
  <2>1. CASE FinishEffect(c) \/ FailEffect(c)
    BY <2>1 DEF FinishEffect, FailEffect, store, LeasesStay
  <2>2. CASE FinishTerminate(c)
    BY <2>2, SaveTerminalWears DEF FinishTerminate
  <2>3. CASE FailTerminate(c)
    BY <2>3, SaveTerminalWears DEF FailTerminate
  <2> QED BY <1>3, <2>1, <2>2, <2>3 DEF EffectStep
<1>4. CASE Registration \/ ResourceDies \/ TimePasses \/ ClockSetBack \/ UNCHANGED vars
  BY <1>4 DEF Registration, EnsureResource, Revive, FindLive, Removed, Registered, ResourceDies,
              TimePasses, ClockSetBack, vars, store, LeasesStay
<1>5. CASE Restart
  BY <1>5, SaveTerminalWears DEF Restart, store, LeasesStay
<1> QED BY <1>1, <1>2, <1>3, <1>4, <1>5 DEF Next, Work

-----------------------------------------------------------------------------
(***************************************************************************)
(* The invariant                                                           *)
(***************************************************************************)

LEMMA StepKeepsFences ==
    ASSUME Inv, [Next]_vars
    PROVE  FencesInOrder' /\ leases' \in Seq(Lease) /\ lastFence' \in Nat
<1>0. leases \in Seq(Lease) /\ lastFence = Len(leases) /\ lastFence \in Nat
  BY DEF Inv, SessionsTypeOK, FencesInOrder
<1>1. ASSUME NEW p \in Principal, Granted(p)
      PROVE  FencesInOrder' /\ leases' \in Seq(Lease) /\ lastFence' \in Nat
  <2>1. PICK lease \in Lease, old \in [DOMAIN leases -> Lease] :
           /\ lease.fence = lastFence + 1
           /\ \A i \in DOMAIN leases : old[i].fence = leases[i].fence
           /\ leases' = Append(old, lease)
           /\ lastFence' = lastFence + 1
    BY <1>1 DEF Granted
  <2>2. old \in Seq(Lease) /\ Len(old) = Len(leases) /\ DOMAIN leases = 1..Len(leases)
    BY <1>0
  <2>3. leases' \in Seq(Lease) /\ Len(leases') = Len(leases) + 1
    BY <2>1, <2>2
  <2>4. ASSUME NEW i \in 1..(Len(leases) + 1) PROVE leases'[i].fence = i
    <3>1. CASE i \in 1..Len(leases)
      BY <1>0, <2>1, <2>2, <3>1 DEF Inv, FencesInOrder
    <3>2. CASE i = Len(leases) + 1
      BY <1>0, <2>1, <2>2, <3>2
    <3> QED BY <1>0, <2>4, <3>1, <3>2
  <2> QED BY <1>0, <2>1, <2>3, <2>4 DEF FencesInOrder
<1>2. CASE Worn
  <2>1. leases' \in [1..Len(leases) -> Lease]
    BY <1>0, <1>2 DEF Worn
  <2>2. leases' \in Seq(Lease) /\ Len(leases') = Len(leases)
    BY <1>0, <2>1
  <2> QED BY <1>0, <1>2, <2>1, <2>2 DEF Worn, Inv, FencesInOrder
<1>3. CASE LeasesStay
  BY <1>0, <1>3 DEF LeasesStay, Inv, FencesInOrder
<1> QED BY <1>1, <1>2, <1>3, StepOfLeases

\* The mailboxes and the row, one action after the other.
LEMMA StepKeepsTypes ==
    ASSUME Inv, [Next]_vars
    PROVE  SessionsTypeOK'
<1> USE DEF Status, Active, Terminal
<1>0. /\ leases' \in Seq(Lease) /\ lastFence' \in Nat
      /\ SessionsTypeOK
  BY StepKeepsFences DEF Inv
<1>1. /\ session.status \in Status /\ session.revision \in Nat
      /\ \A c \in Controller : /\ ctrl[c] \in Mailbox /\ ctrl[c].queued \in Nat
                               /\ ctrl[c].work \in Effect
      /\ NoWork \in Effect
      /\ Unused \in Mailbox /\ [Unused EXCEPT !.phase = "closed"] \in Mailbox
  BY <1>0 DEF SessionsTypeOK, Mailbox, Effect, NoWork, Op, Effects, Unused
<1>2. ASSUME NEW status \in Status, NEW n \in Nat, Saved(status, n)
      PROVE  session' \in [status : Status, revision : Nat]
  BY <1>2 DEF Saved
<1>3. ASSUME NEW c \in Controller, Dequeues(c)
      PROVE  ctrl' \in [Controller -> Mailbox]
  <2>1. [ctrl[c] EXCEPT !.queued = @ - 1] \in Mailbox
    BY <1>1, <1>3 DEF Dequeues, Mailbox
  <2> QED BY <1>0, <1>3, <2>1 DEF Dequeues, SessionsTypeOK
<1>4. ASSUME NEW c \in Controller, NEW op \in Op, NEW fence \in Nat,
             NEW record \in [status : Status, revision : Nat], Begins(c, op, fence, record)
      PROVE  ctrl' \in [Controller -> Mailbox]
  <2> DEFINE work == [op |-> op, fence |-> fence, revision |-> record.revision,
                      status |-> record.status]
             box == [phase |-> ctrl[c].phase, queued |-> ctrl[c].queued - 1, work |-> work]
  <2>1. work \in Effect
    BY DEF Effect
  <2>2. ctrl[c].phase \in {"unused", "open", "closing", "closed"} /\ ctrl[c].queued - 1 \in Nat
    BY <1>1, <1>4 DEF Begins, Mailbox
  <2>3. box \in Mailbox
    BY <2>1, <2>2 DEF Mailbox
  <2>4. ctrl' = [ctrl EXCEPT ![c] = box]
    BY <1>4 DEF Begins
  <2> QED BY <1>0, <2>3, <2>4 DEF SessionsTypeOK
<1>5. ASSUME NEW c \in Controller, ctrl' = [ctrl EXCEPT ![c].work = NoWork]
      PROVE  ctrl' \in [Controller -> Mailbox]
  <2>1. [ctrl[c] EXCEPT !.work = NoWork] \in Mailbox
    BY <1>1 DEF Mailbox
  <2> QED BY <1>0, <1>5, <2>1 DEF SessionsTypeOK
<1>6. ASSUME NEW c \in Controller, NEW phase \in {"unused", "open", "closing", "closed"},
             ctrl' = [ctrl EXCEPT ![c].phase = phase]
      PROVE  ctrl' \in [Controller -> Mailbox]
  <2>1. [ctrl[c] EXCEPT !.phase = phase] \in Mailbox
    BY <1>1 DEF Mailbox
  <2> QED BY <1>0, <1>6, <2>1 DEF SessionsTypeOK
<1>7. ASSUME NEW n \in Counted, Count(n)
      PROVE  counts' \in [Counted -> Nat]
  BY <1>0, <1>7 DEF Count, SessionsTypeOK
<1>8. ASSUME NEW status \in Status, NEW n \in Nat, SaveTerminal(status, n)
      PROVE  session' \in [status : Status, revision : Nat]
  BY <1>0, <1>8 DEF SaveTerminal, Saved, store, SessionsTypeOK
<1>9. ASSUME NEW c \in Controller, LeaseStep(c)
      PROVE  SessionsTypeOK'
  BY <1>0, <1>3, <1>9 DEF LeaseStep, Acquire, Renew, Release, Elsewhere, registry, SessionsTypeOK
<1>10. ASSUME NEW c \in Controller, CommandStep(c)
       PROVE  SessionsTypeOK'
  <2>1. CASE Refuse(c)
    BY <1>0, <1>3, <2>1 DEF Refuse, Elsewhere, registry, store, SessionsTypeOK
  <2>2. ASSUME NEW status \in Active, Observe(c, status) PROVE SessionsTypeOK'
    <3>1. session' \in [status : Status, revision : Nat]
      BY <1>1, <1>2, <2>2 DEF Observe
    <3>2. ctrl' \in [Controller -> Mailbox]
      BY <1>3, <2>2 DEF Observe
    <3> QED BY <1>0, <2>2, <3>1, <3>2 DEF Observe, Elsewhere, registry, SessionsTypeOK
  <2>3. ASSUME NEW i \in DOMAIN leases, BeginInput(c, i) PROVE SessionsTypeOK'
    <3>0. leases[i] \in Lease
      BY <1>0 DEF SessionsTypeOK
    <3>1. leases[i].fence \in Nat
      BY <3>0 DEF Lease
    <3>2. ctrl' \in [Controller -> Mailbox]
      BY <1>0, <1>4, <2>3, <3>1 DEF BeginInput, Op, Effects, SessionsTypeOK
    <3> QED BY <1>0, <2>3, <3>2 DEF BeginInput, Elsewhere, registry, store, SessionsTypeOK
  <2>4. CASE BeginControl(c) \/ \E p \in Principal : BeginMessage(c, p)
    <3>1. ctrl' \in [Controller -> Mailbox]
      BY <1>0, <1>4, <2>4 DEF BeginControl, BeginMessage, Op, Effects, SessionsTypeOK
    <3> QED BY <1>0, <2>4, <3>1 DEF BeginControl, BeginMessage, Elsewhere, registry, store, SessionsTypeOK
  <2>5. CASE BeginTerminate(c)
    <3>1. session' \in [status : Status, revision : Nat]
      BY <1>1, <1>2, <2>5 DEF BeginTerminate
    <3>2. ctrl' \in [Controller -> Mailbox]
      BY <1>0, <1>4, <2>5, <3>1 DEF BeginTerminate, Op, Effects, SessionsTypeOK
    <3> QED BY <1>0, <2>5, <3>1, <3>2 DEF BeginTerminate, Elsewhere, registry, SessionsTypeOK
  <2> QED BY <1>10, <2>1, <2>2, <2>3, <2>4, <2>5 DEF CommandStep
<1>11. ASSUME NEW c \in Controller, EffectStep(c)
       PROVE  SessionsTypeOK'
  <2>0. ctrl[c].work.revision \in Nat /\ ctrl[c].work.status \in Status
    BY <1>1 DEF Effect
  <2>1. CASE FinishEffect(c)
    <3>1. session' \in [status : Status, revision : Nat]
      BY <1>0, <2>0, <2>1 DEF FinishEffect, Saved, SessionsTypeOK
    <3> QED BY <1>0, <1>5, <2>1, <3>1 DEF FinishEffect, Elsewhere, registry, SessionsTypeOK
  <2>2. CASE FailEffect(c)
    BY <1>0, <1>5, <2>2 DEF FailEffect, Elsewhere, registry, store, SessionsTypeOK
  <2>3. CASE FinishTerminate(c)
    <3>1. /\ session' \in [status : Status, revision : Nat]
          /\ ctrl' \in [Controller -> Mailbox]
      BY <1>5, <1>8, <2>0, <2>3 DEF FinishTerminate
    <3>2. stopped' \in [fence : Nat, again : BOOLEAN, overtaken : SUBSET Controller]
      BY <1>0, <2>3 DEF FinishTerminate, Stopped, SessionsTypeOK
    <3>3. live' = FALSE /\ leaving' \subseteq Controller
          /\ UNCHANGED <<clock, current, registering, removing, counts>>
      BY <1>0, <2>3 DEF FinishTerminate, SessionsTypeOK
    <3> QED BY <1>0, <3>1, <3>2, <3>3 DEF SessionsTypeOK
  <2>4. CASE FailTerminate(c)
    <3>1. /\ session' \in [status : Status, revision : Nat]
          /\ ctrl' \in [Controller -> Mailbox]
      BY <1>5, <1>8, <2>0, <2>4 DEF FailTerminate
    <3>2. stopped' \in [fence : Nat, again : BOOLEAN, overtaken : SUBSET Controller]
      BY <1>0, <2>4 DEF FailTerminate, SessionsTypeOK
    <3>3. UNCHANGED <<clock, live, registry, counts>>
      BY <2>4 DEF FailTerminate
    <3> QED BY <1>0, <3>1, <3>2, <3>3 DEF registry, SessionsTypeOK
  <2> QED BY <1>11, <2>1, <2>2, <2>3, <2>4 DEF EffectStep
<1>12. ASSUME NEW c \in Controller, Enqueue(c) PROVE SessionsTypeOK'
  <2>1. [ctrl[c] EXCEPT !.queued = @ + 1] \in Mailbox
    BY <1>1 DEF Mailbox
  <2>2. ctrl' \in [Controller -> Mailbox]
    BY <1>0, <1>12, <2>1 DEF Enqueue, SessionsTypeOK
  <2> QED BY <1>0, <1>7, <1>12, <2>2 DEF Enqueue, registry, store, Counted, SessionsTypeOK
<1>13. ASSUME NEW c \in Controller, EndWorker(c) \/ OpenController(c) PROVE SessionsTypeOK'
  BY <1>0, <1>6, <1>13 DEF EndWorker, OpenController, Opens, registry, store, SessionsTypeOK
<1>20. ASSUME Pops PROVE ctrl' \in [Controller -> Mailbox] /\ current' = 0
  <2>1. \A c \in Controller : [ctrl[c] EXCEPT !.phase = "closing"] \in Mailbox
    BY <1>1 DEF Mailbox
  <2> QED BY <1>1, <1>20, <2>1 DEF Pops
<1>21. ASSUME NEW c \in Controller, LeaveRegistry(c) PROVE SessionsTypeOK'
  BY <1>0, <1>20, <1>21 DEF LeaveRegistry, store, SessionsTypeOK
<1>14. CASE EnsureResource
  BY <1>0, <1>7, <1>14 DEF EnsureResource, store, Counted, SessionsTypeOK
<1>15. CASE Revive
  <2>1. session' \in [status : Status, revision : Nat]
    BY <1>1, <1>2, <1>15 DEF Revive
  <2>2. stopped' \in [fence : Nat, again : BOOLEAN, overtaken : SUBSET Controller]
    BY <1>0, <1>15 DEF Revive, SessionsTypeOK
  <2> QED BY <1>0, <1>15, <1>20, <2>1, <2>2 DEF Revive, SessionsTypeOK
<1>16. CASE FindLive \/ Removed \/ Registered
  BY <1>0, <1>6, <1>16 DEF FindLive, Removed, Registered, Opens, store, SessionsTypeOK
<1>17. CASE Restart
  <2>1. ctrl' \in [Controller -> Mailbox]
    BY <1>1, <1>17 DEF Restart
  <2>2. session' \in [status : Status, revision : Nat]
    BY <1>0, <1>1, <1>8, <1>17 DEF Restart, store, SessionsTypeOK
  <2>3. counts' \in [Counted -> Nat]
    BY <1>7, <1>17 DEF Restart, Counted
  <2>4. live' \in BOOLEAN
        /\ stopped' \in [fence : Nat, again : BOOLEAN, overtaken : SUBSET Controller]
    <3>1. /\ live \in BOOLEAN /\ lastFence \in Nat
          /\ stopped \in [fence : Nat, again : BOOLEAN, overtaken : SUBSET Controller]
      BY <1>0 DEF SessionsTypeOK
    <3>2. /\ live' \in {live, FALSE}
          /\ stopped' \in {[stopped EXCEPT !.overtaken = {}],
                           [fence |-> lastFence, again |-> FALSE, overtaken |-> {}]}
      BY <1>17 DEF Restart
    <3>3. [stopped EXCEPT !.overtaken = {}] \in
             [fence : Nat, again : BOOLEAN, overtaken : SUBSET Controller]
      BY <3>1
    <3>4. [fence |-> lastFence, again |-> FALSE, overtaken |-> {}] \in
             [fence : Nat, again : BOOLEAN, overtaken : SUBSET Controller]
      BY <3>1
    <3>5. live' \in BOOLEAN
      BY <3>1, <3>2
    <3> QED BY <3>2, <3>3, <3>4, <3>5
  <2>5. /\ UNCHANGED clock /\ current' = 0 /\ registering' = "idle"
        /\ removing' = 0 /\ leaving' = {}
    BY <1>17 DEF Restart
  <2> QED BY <1>0, <2>1, <2>2, <2>3, <2>4, <2>5 DEF SessionsTypeOK
<1>18. CASE ResourceDies \/ TimePasses \/ UNCHANGED vars
  <2>1. CASE ResourceDies
    BY <1>0, <2>1 DEF ResourceDies, registry, store, SessionsTypeOK
  <2>2. CASE TimePasses
    BY <1>0, <2>2, SessionsAssumption DEF TimePasses, registry, store, SessionsTypeOK
  <2>3. CASE UNCHANGED vars
    BY <1>0, <2>3 DEF vars, registry, store, SessionsTypeOK
  <2> QED BY <1>18, <2>1, <2>2, <2>3
<1>19. CASE ClockSetBack
  BY <1>0, <1>7, <1>19, SessionsAssumption DEF ClockSetBack, registry, store, Counted, SessionsTypeOK
<1> QED BY <1>9, <1>10, <1>11, <1>12, <1>13, <1>14, <1>15, <1>16, <1>17, <1>18, <1>19, <1>21
        DEF Next, Work, Registration

LEMMA Invariant == Spec => []Inv
<1>1. Inv /\ [Next]_vars => Inv'
  BY StepKeepsFences, StepKeepsTypes DEF Inv
<1> QED BY InitInv, <1>1, PTL DEF Spec

\* The variables of the session keep their types.
THEOREM SessionsTypeCorrect == Spec => []SessionsTypeOK
<1>1. Inv => SessionsTypeOK
  BY DEF Inv
<1> QED BY Invariant, <1>1, PTL

-----------------------------------------------------------------------------
(***************************************************************************)
(* One writer                                                              *)
(***************************************************************************)

\* validate_writer_lease: "Reject any former holder by checking the current
\* session fence too"; at most one lease is accepted whatever the clock does.
THEOREM OneWriterAtATime == Spec => []OneWriter
<1>1. Inv => OneWriter
  BY DEF Inv, FencesInOrder, OneWriter, ValidLease
<1> QED BY Invariant, <1>1, PTL

-----------------------------------------------------------------------------
(***************************************************************************)
(* Refinement                                                              *)
(***************************************************************************)

\* What became of the newest lease, by its number.
Last == leases[Len(leases)]
Outcome ==
    /\ Newest = IF Len(leases) = 0 THEN {} ELSE {Len(leases)}
    /\ Len(leases) = 0 => Became = "withdrawn"
    /\ Len(leases) # 0 =>
          Became = IF Last.revoked THEN "withdrawn"
                   ELSE IF Last.expires > clock THEN "writing" ELSE "lapsed"

LEMMA OutcomeOfNewest == Inv => Outcome
<1> SUFFICES ASSUME Inv PROVE Outcome
  OBVIOUS
<1>1. lastFence = Len(leases) /\ leases \in Seq(Lease) /\ Len(leases) \in Nat
      /\ DOMAIN leases = 1..Len(leases)
  BY DEF Inv, FencesInOrder, SessionsTypeOK
<1>2. Newest = IF Len(leases) = 0 THEN {} ELSE {Len(leases)}
  BY <1>1 DEF Inv, FencesInOrder, Newest
<1>3. CASE Len(leases) = 0
  BY <1>2, <1>3 DEF Outcome, Became
<1>4. CASE Len(leases) # 0
  <2>1. Newest = {Len(leases)} /\ Last.fence = lastFence
    BY <1>1, <1>2, <1>4 DEF Inv, FencesInOrder, Last
  <2>2. (\A i \in Newest : leases[i].revoked) <=> Last.revoked
    BY <2>1 DEF Last
  <2>3. (\E i \in Newest : ValidLease(i)) <=> (~ Last.revoked /\ Last.expires > clock)
    BY <2>1 DEF Last, ValidLease, Unrevoked
  <2> QED BY <1>2, <1>4, <2>2, <2>3 DEF Outcome, Became
<1> QED BY <1>3, <1>4

LEMMA InitTurn == SessionsInit => Turn!TurnInit
<1> SUFFICES ASSUME SessionsInit PROVE Turn!TurnInit
  OBVIOUS
<1>1. leases = <<>> /\ Len(leases) = 0
  BY DEF SessionsInit
<1>2. Became = "withdrawn"
  BY <1>1, InitInv, OutcomeOfNewest DEF Outcome
<1>3. Holders = <<>>
  BY <1>1 DEF Holders
<1> QED BY <1>2, <1>3 DEF Turn!TurnInit

LEMMA StepTurn ==
    ASSUME Inv, Inv', Outcome, Outcome', [Next]_vars
    PROVE  [Turn!TurnNext]_(Turn!turnVars)
<1>0. /\ leases \in Seq(Lease) /\ DOMAIN leases = 1..Len(leases) /\ Len(leases) \in Nat
      /\ clock \in Nat
  BY SessionsAssumption DEF Inv, SessionsTypeOK
<1>1. ASSUME NEW p \in Principal, Granted(p)
      PROVE  Turn!Give(p)
  <2>1. PICK lease \in Lease, old \in [DOMAIN leases -> Lease] :
           /\ lease.holder = p
           /\ ~ lease.revoked
           /\ lease.expires > clock
           /\ \A i \in DOMAIN leases : old[i].holder = leases[i].holder
           /\ leases' = Append(old, lease)
           /\ clock' = clock
    BY <1>1 DEF Granted
  <2>2. old \in Seq(Lease) /\ Len(old) = Len(leases)
    BY <1>0
  <2>3. Len(leases') = Len(leases) + 1 /\ leases'[Len(leases) + 1] = lease
        /\ DOMAIN leases' = 1..(Len(leases) + 1)
        /\ \A i \in 1..Len(leases) : leases'[i] = old[i]
    BY <1>0, <2>1, <2>2
  <2>4. Became' = "writing"
    BY <1>0, <2>1, <2>3 DEF Outcome, Last
  <2>5. Holders' = Append(Holders, p)
    <3>1. Holders \in Seq(Principal) /\ Len(Holders) = Len(leases)
      <4>1. \A i \in DOMAIN leases : leases[i] \in Lease
        BY <1>0
      <4>2. \A i \in DOMAIN leases : leases[i].holder \in Principal
        BY <4>1 DEF Lease
      <4> QED BY <1>0, <4>2 DEF Holders
    <3>2. /\ Append(Holders, p) \in Seq(Principal)
          /\ Len(Append(Holders, p)) = Len(leases) + 1
          /\ \A i \in 1..Len(leases) : Append(Holders, p)[i] = Holders[i]
          /\ Append(Holders, p)[Len(leases) + 1] = p
      BY <3>1, AppendProperties
    <3>3. Holders' = [i \in 1..(Len(leases) + 1) |-> leases'[i].holder]
      BY <2>3 DEF Holders
    <3>4. \A i \in 1..(Len(leases) + 1) : leases'[i].holder = Append(Holders, p)[i]
      <4>1. \A i \in 1..Len(leases) : leases'[i].holder = Append(Holders, p)[i]
        BY <1>0, <2>1, <2>3, <3>2 DEF Holders
      <4>2. leases'[Len(leases) + 1].holder = Append(Holders, p)[Len(leases) + 1]
        BY <2>1, <2>3, <3>2
      <4>3. \A i \in 1..(Len(leases) + 1) : i \in 1..Len(leases) \/ i = Len(leases) + 1
        BY <1>0
      <4> QED BY <4>1, <4>2, <4>3, Zenon
    <3>5. \A i \in 1..(Len(leases) + 1) : leases'[i].holder \in Principal
      <4>1. \A i \in 1..(Len(leases) + 1) : Append(Holders, p)[i] \in Principal
        BY <1>0, <3>2
      <4> QED BY <3>4, <4>1
    <3>6. Holders' \in Seq(Principal) /\ Len(Holders') = Len(leases) + 1
      BY <1>0, <3>3, <3>5
    <3> QED BY <3>2, <3>3, <3>4, <3>6, SeqEqual
  <2> QED BY <2>4, <2>5 DEF Turn!Give
<1>2. ASSUME Worn
      PROVE  UNCHANGED Turn!turnVars \/ Turn!Withdraw
  <2>1. DOMAIN leases' = DOMAIN leases /\ Len(leases') = Len(leases)
    BY <1>0, <1>2 DEF Worn
  <2>2. Holders' = Holders
    BY <1>2, <2>1 DEF Worn, Holders
  <2>3. CASE Len(leases) = 0
    BY <2>1, <2>2, <2>3 DEF Outcome, Turn!turnVars
  <2>4. CASE Len(leases) # 0
    <3>1. Len(leases) \in DOMAIN leases
      BY <1>0, <2>4
    <3>2. /\ Last.revoked => Last'.revoked
          /\ clock' = clock
          /\ Last.expires > clock <=> Last'.expires > clock
      <4>1. Last' = leases'[Len(leases)]
        BY <2>1 DEF Last
      <4>2. Last \in Lease /\ Last' \in Lease
        BY <1>0, <1>2, <3>1, <4>1 DEF Worn, Last
      <4>3. Last.expires \in Nat /\ Last'.expires \in Nat
        BY <4>2 DEF Lease
      <4> QED BY <1>0, <1>2, <3>1, <4>1, <4>3 DEF Worn, Last
    <3> QED BY <2>1, <2>2, <2>4, <3>2 DEF Outcome, Turn!turnVars, Turn!Withdraw
  <2> QED BY <2>3, <2>4
<1>3. ASSUME LeasesStay
      PROVE  UNCHANGED Turn!turnVars \/ Turn!Lapse \/ Turn!Resume
  <2>1. Holders' = Holders
    BY <1>3 DEF LeasesStay, Holders
  <2>2. Last' = Last /\ Len(leases') = Len(leases)
    BY <1>3 DEF LeasesStay, Last
  <2> QED BY <2>1, <2>2 DEF Outcome, Turn!turnVars, Turn!Lapse, Turn!Resume
<1> QED BY <1>1, <1>2, <1>3, StepOfLeases DEF Turn!TurnNext

\* The lease transactions give turns: a new writer always has a newer fence, and
\* a lease that was released, taken over or revoked never writes again.
THEOREM SessionsImplementWriterTurn == Spec => ImplementsWriterTurn
<1>1. SessionsInit => Turn!TurnInit
  BY InitTurn
<1>2. Inv /\ Inv' /\ [Next]_vars => [Turn!TurnNext]_(Turn!turnVars)
  <2> SUFFICES ASSUME Inv, Inv', [Next]_vars PROVE [Turn!TurnNext]_(Turn!turnVars)
    OBVIOUS
  <2>1. Outcome
    BY OutcomeOfNewest
  <2>2. Inv' => Outcome'
    BY OutcomeOfNewest, PTL
  <2> QED BY <2>1, <2>2, StepTurn
<1> QED BY <1>1, <1>2, Invariant, PTL DEF Spec, ImplementsWriterTurn, Turn!TurnSpec
-----------------------------------------------------------------------------
(***************************************************************************)
(* Terminations                                                            *)
(***************************************************************************)

\* The terminations that no registration overtook.
Terminating == {c \in Controller : Terminates(c) /\ c \notin stopped.overtaken}

\* A controller that works knows the row it began with; what it terminates stays
\* stopping until it says otherwise and nobody else terminates meanwhile, or the
\* row has moved on since.
WorkHolds ==
    /\ \A c \in Controller :
          /\ ctrl[c].phase = "unused" => ctrl[c].queued = 0 /\ ctrl[c].work = NoWork
          /\ ctrl[c].work.op \in Effects =>
                /\ ctrl[c].work.status \in Active
                /\ ctrl[c].work.revision <= session.revision
                /\ ctrl[c].work.revision = session.revision =>
                      session.status = ctrl[c].work.status
          /\ c \in stopped.overtaken =>
                ctrl[c].work.op = "terminate" /\ ctrl[c].work.revision < session.revision
          /\ c \in Terminating =>
                session.status = "stopping" /\ session.revision = ctrl[c].work.revision
    /\ \A c, d \in Terminating : c = d

\* A session shown as active was registered since its pane was terminated, and
\* every lease of before is revoked.
StoppedHolds ==
    /\ session.status \in Active => stopped.again
    /\ stopped.fence <= lastFence
    /\ \A i \in DOMAIN leases : leases[i].fence <= stopped.fence => leases[i].revoked

StopInv == WorkHolds /\ StoppedHolds

\* No controller takes up work, and what is queued only shrinks where there was
\* a controller.
WorkShrinks ==
    \A c \in Controller :
        /\ ctrl'[c].work \in {ctrl[c].work, NoWork}
        /\ ctrl'[c].phase = "unused" =>
              ctrl[c].phase = "unused" /\ ctrl'[c].queued = ctrl[c].queued

\* The row stays, or it moves on while every termination is overtaken.
LEMMA ShrinkingKeepsWork ==
    ASSUME Inv, WorkHolds, WorkShrinks,
           \A c \in Controller : c \in stopped'.overtaken => ctrl'[c].work.op = "terminate",
           \/ /\ session' = session
              /\ \A c \in Controller :
                    ctrl'[c].work.op = "terminate" =>
                       (c \in stopped'.overtaken <=> c \in stopped.overtaken)
           \/ /\ session'.revision = session.revision + 1
              /\ Terminating' = {}
    PROVE  WorkHolds'
<1>0. /\ session.revision \in Nat /\ NoWork.op = "none"
      /\ \A c \in Controller : ctrl[c].work.revision \in Nat
  BY DEF Inv, SessionsTypeOK, Mailbox, Effect, NoWork
<1>1. Terminating' = {c \in Controller :
                        ctrl'[c].work.op = "terminate" /\ c \notin stopped'.overtaken}
  BY DEF Terminating, Terminates
<1>2. ASSUME NEW c \in Controller
      PROVE  /\ ctrl'[c].phase = "unused" => ctrl'[c].queued = 0 /\ ctrl'[c].work = NoWork
             /\ ctrl'[c].work.op \in Effects =>
                   /\ ctrl'[c].work.status \in Active
                   /\ ctrl'[c].work.revision <= session'.revision
                   /\ ctrl'[c].work.revision = session'.revision =>
                         session'.status = ctrl'[c].work.status
             /\ c \in stopped'.overtaken =>
                   ctrl'[c].work.op = "terminate" /\ ctrl'[c].work.revision < session'.revision
             /\ c \in Terminating' =>
                   session'.status = "stopping" /\ session'.revision = ctrl'[c].work.revision
  <2>1. ctrl'[c].phase = "unused" => ctrl'[c].queued = 0 /\ ctrl'[c].work = NoWork
    BY DEF WorkShrinks, WorkHolds
  <2>2. CASE ctrl'[c].work = NoWork
    BY <1>0, <1>1, <2>1, <2>2 DEF Effects
  <2>3. CASE ctrl'[c].work = ctrl[c].work /\ session' = session
    BY <1>0, <1>1, <2>1, <2>3 DEF WorkHolds, Terminating, Terminates
  <2>4. CASE ctrl'[c].work = ctrl[c].work /\ session'.revision = session.revision + 1
             /\ Terminating' = {}
    <3>1. ctrl[c].work.op = "terminate" => ctrl[c].work.revision <= session.revision
      BY <1>0 DEF WorkHolds, Terminating, Terminates
    <3> QED BY <1>0, <2>1, <2>4, <3>1 DEF WorkHolds
  <2> QED BY <2>2, <2>3, <2>4 DEF WorkShrinks
<1>3. Terminating' \subseteq Terminating
  BY <1>0, <1>1 DEF WorkShrinks, Terminating, Terminates
<1> QED BY <1>2, <1>3 DEF WorkHolds

\* The history of the terminations stays.
LEMMA WorkersKeepWork ==
    ASSUME Inv, WorkHolds, WorkShrinks, stopped' = stopped,
           \A c \in Controller : ctrl[c].work.op = "terminate" => ctrl'[c].work = ctrl[c].work,
           \/ session' = session
           \/ session'.revision = session.revision + 1 /\ Terminating = {}
    PROVE  WorkHolds'
<1>1. \A c \in Controller : c \in stopped'.overtaken => ctrl'[c].work.op = "terminate"
  BY DEF WorkHolds
<1>2. Terminating' = {c \in Controller :
                        ctrl'[c].work.op = "terminate" /\ c \notin stopped'.overtaken}
  BY DEF Terminating, Terminates
<1>3. Terminating = {} => Terminating' = {}
  BY <1>2 DEF WorkShrinks, NoWork, Terminating, Terminates
<1> QED BY <1>1, <1>3, ShrinkingKeepsWork

\* A session that is active is not being terminated, but by who was overtaken.
LEMMA ActiveIsNotStopping ==
    ASSUME WorkHolds, session.status \in Active
    PROVE  Terminating = {}
<1>1. "stopping" \notin Active
  BY DEF Active
<1>2. \A c \in Controller : c \notin Terminating
  BY <1>1 DEF WorkHolds
<1> QED BY <1>2 DEF Terminating

\* A controller takes an effect to the backend.
LEMMA EffectsBegin ==
    ASSUME Inv, WorkHolds, NEW c \in Controller, NEW op \in Effects, NEW fence,
           Begins(c, op, fence, session), session.status \in Active,
           UNCHANGED <<session, stopped>>
    PROVE  WorkHolds'
<1>0. /\ session.revision \in Nat /\ ctrl \in [Controller -> Mailbox]
      /\ \A d \in Controller : ctrl[d].queued \in Nat
  BY DEF Inv, SessionsTypeOK, Mailbox
<1>1. /\ ctrl'[c].work = [op |-> op, fence |-> fence, revision |-> session.revision,
                          status |-> session.status]
      /\ ctrl'[c].phase = ctrl[c].phase /\ ctrl[c].queued > 0
      /\ \A d \in Controller : d # c => ctrl'[d] = ctrl[d]
  BY <1>0 DEF Begins
<1>2. ctrl[c].phase # "unused"
  BY <1>0, <1>1 DEF WorkHolds
<1>3. ctrl'[c].work.op \in Effects /\ ctrl'[c].work.op # "terminate" /\ ctrl[c].work.op = "none"
  BY <1>1 DEF Effects, Begins, NoWork
<1>4. Terminating' = Terminating
  BY <1>1, <1>3 DEF Terminating, Terminates
<1> QED BY <1>0, <1>1, <1>2, <1>3, <1>4 DEF WorkHolds

\* A controller that only takes an item from its mailbox.
LEMMA DequeuesShrink ==
    ASSUME Inv, WorkHolds, NEW c \in Controller, Dequeues(c)
    PROVE  WorkShrinks /\ \A d \in Controller : ctrl'[d].work = ctrl[d].work
<1>0. ctrl \in [Controller -> Mailbox] /\ ctrl[c].queued \in Nat
  BY DEF Inv, SessionsTypeOK, Mailbox
<1>1. ctrl[c].phase # "unused"
  BY <1>0 DEF Dequeues, WorkHolds
<1> QED BY <1>0, <1>1 DEF Dequeues, WorkShrinks, Mailbox

\* A controller that is done with its work.
LEMMA DoneShrinks ==
    ASSUME Inv, WorkHolds, NEW c \in Controller, ctrl' = [ctrl EXCEPT ![c].work = NoWork]
    PROVE  WorkShrinks /\ ctrl'[c].work = NoWork
           /\ \A d \in Controller : d # c => ctrl'[d] = ctrl[d]
<1>0. ctrl \in [Controller -> Mailbox]
  BY DEF Inv, SessionsTypeOK
<1> QED BY <1>0 DEF WorkShrinks, Mailbox

\* A termination that ends: it was the only one and the row is as it left it, or it was
\* overtaken and nothing is saved.
LEMMA TerminationEnds ==
    ASSUME Inv, WorkHolds, NEW c \in Controller, ctrl[c].work.op = "terminate",
           ctrl' = [ctrl EXCEPT ![c].work = NoWork], NEW status,
           SaveTerminal(status, ctrl[c].work.revision),
           stopped'.overtaken = stopped.overtaken \ {c}
    PROVE  /\ WorkHolds'
           /\ IF c \in stopped.overtaken THEN UNCHANGED store
              ELSE /\ session' = [status |-> status, revision |-> session.revision + 1]
                   /\ leases' = RevokeAll /\ lastFence' = lastFence
<1>0. session.revision \in Nat /\ ctrl[c].work.revision \in Nat /\ NoWork.op = "none"
  BY DEF Inv, SessionsTypeOK, Mailbox, Effect, NoWork
<1>1. WorkShrinks /\ ctrl'[c].work = NoWork /\ \A d \in Controller : d # c => ctrl'[d] = ctrl[d]
  BY DoneShrinks
<1>2. \A d \in Controller : d \in stopped'.overtaken => ctrl'[d].work.op = "terminate"
  BY <1>1 DEF WorkHolds
<1>3. CASE c \in stopped.overtaken
  <2>1. UNCHANGED store
    BY <1>0, <1>3 DEF SaveTerminal, WorkHolds
  <2>2. session' = session
    BY <2>1 DEF store
  <2>3. \A d \in Controller :
           ctrl'[d].work.op = "terminate" =>
              (d \in stopped'.overtaken <=> d \in stopped.overtaken)
    BY <1>0, <1>1
  <2> QED BY <1>1, <1>2, <1>3, <2>1, <2>2, <2>3, ShrinkingKeepsWork
<1>4. CASE c \notin stopped.overtaken
  <2>1. session.revision = ctrl[c].work.revision
    BY <1>4 DEF WorkHolds, Terminating, Terminates
  <2>2. /\ session' = [status |-> status, revision |-> session.revision + 1]
        /\ leases' = RevokeAll /\ lastFence' = lastFence
    BY <2>1 DEF SaveTerminal, Saved
  <2>3. Terminating' = {d \in Controller :
                          ctrl'[d].work.op = "terminate" /\ d \notin stopped'.overtaken}
    BY DEF Terminating, Terminates
  <2>4. Terminating' = {}
    BY <1>0, <1>1, <1>4, <2>3 DEF WorkHolds, Terminating, Terminates
  <2> QED BY <1>1, <1>2, <1>4, <2>2, <2>4, ShrinkingKeepsWork
<1> QED BY <1>3, <1>4

\* The leases of before the last termination, as long as there is no other one.
LEMMA StoppedLeasesStay ==
    ASSUME Inv, StoppedHolds, [Next]_vars, stopped'.fence = stopped.fence
    PROVE  /\ stopped'.fence <= lastFence'
           /\ \A i \in DOMAIN leases' :
                 leases'[i].fence <= stopped'.fence => leases'[i].revoked
<1>0. /\ leases \in Seq(Lease) /\ DOMAIN leases = 1..Len(leases) /\ Len(leases) \in Nat
      /\ lastFence \in Nat /\ stopped.fence \in Nat
  BY DEF Inv, SessionsTypeOK
<1>1. ASSUME NEW p \in Principal, Granted(p)
      PROVE  /\ stopped.fence <= lastFence'
             /\ \A i \in DOMAIN leases' :
                   leases'[i].fence <= stopped.fence => leases'[i].revoked
  <2>1. PICK lease \in Lease, old \in [DOMAIN leases -> Lease] :
           /\ lease.fence = lastFence + 1
           /\ \A i \in DOMAIN leases : old[i].fence = leases[i].fence
           /\ leases' = Append(old, lease)
           /\ lastFence' = lastFence + 1
           /\ \A i \in DOMAIN leases : leases[i].revoked => old[i].revoked
    BY <1>1 DEF Granted
  <2>2. /\ DOMAIN leases' = 1..(Len(leases) + 1)
        /\ leases'[Len(leases) + 1] = lease
        /\ \A i \in 1..Len(leases) : leases'[i] = old[i]
    BY <1>0, <2>1
  <2>3. ASSUME NEW i \in 1..Len(leases), leases'[i].fence <= stopped.fence
        PROVE  leases'[i].revoked
    BY <1>0, <2>1, <2>2, <2>3 DEF StoppedHolds
  <2>4. ~ lease.fence <= stopped.fence
    BY <1>0, <2>1 DEF StoppedHolds
  <2>5. \A i \in 1..(Len(leases) + 1) : i \in 1..Len(leases) \/ i = Len(leases) + 1
    BY <1>0
  <2>6. stopped.fence <= lastFence'
    BY <1>0, <2>1 DEF StoppedHolds
  <2> QED BY <2>2, <2>3, <2>4, <2>5, <2>6
<1>2. CASE Worn \/ LeasesStay
  BY <1>2 DEF Worn, LeasesStay, StoppedHolds
<1> QED BY <1>1, <1>2, StepOfLeases

\* A termination revokes what was granted until then.
LEMMA TerminationRevokes ==
    ASSUME Inv, leases' = RevokeAll, lastFence' = lastFence, stopped'.fence = lastFence
    PROVE  /\ stopped'.fence <= lastFence'
           /\ \A i \in DOMAIN leases' :
                 leases'[i].fence <= stopped'.fence => leases'[i].revoked
<1>1. lastFence \in Nat /\ \A i \in DOMAIN leases : leases[i] \in Lease
  BY DEF Inv, SessionsTypeOK
<1>2. \A i \in DOMAIN leases : Revoked(leases[i]).revoked
  BY <1>1 DEF Revoked, Lease
<1> QED BY <1>1, <1>2 DEF RevokeAll

\* Works and the row, where no termination begins or ends.
Calm ==
    /\ WorkHolds'
    /\ session'.status \in Active => stopped'.again
    /\ stopped'.fence = stopped.fence

\* The end of a termination.
Stops ==
    /\ WorkHolds'
    /\ session'.status \notin Active
    /\ leases' = RevokeAll /\ lastFence' = lastFence
    /\ stopped'.fence = lastFence

LEMMA CommandsAreCalm ==
    ASSUME Inv, StopInv, NEW c \in Controller, LeaseStep(c) \/ CommandStep(c)
    PROVE  Calm
<1>0. /\ session \in [status : Status, revision : Nat] /\ session.revision \in Nat
      /\ ctrl \in [Controller -> Mailbox]
      /\ WorkHolds /\ StoppedHolds
      /\ "stopping" \notin Active
  BY DEF Inv, SessionsTypeOK, StopInv, Active
<1>1. Elsewhere => stopped' = stopped
  BY DEF Elsewhere
<1>2. CASE LeaseStep(c) \/ Refuse(c)
  <2>1. Dequeues(c) /\ session' = session /\ stopped' = stopped
    BY <1>1, <1>2 DEF LeaseStep, Refuse, Acquire, Renew, Release, store
  <2> QED BY <1>0, <2>1, DequeuesShrink, WorkersKeepWork DEF Calm, StoppedHolds
<1>3. ASSUME NEW status \in Active, Observe(c, status)
      PROVE  Calm
  <2>1. Dequeues(c) /\ session'.revision = session.revision + 1 /\ stopped' = stopped
        /\ session.status \in Active
    BY <1>1, <1>3 DEF Observe, Saved
  <2>2. Terminating = {}
    BY <1>0, <2>1, ActiveIsNotStopping
  <2> QED BY <1>0, <2>1, <2>2, DequeuesShrink, WorkersKeepWork DEF Calm, StoppedHolds
<1>4. ASSUME NEW op \in Effects, NEW fence, Begins(c, op, fence, session),
             session.status \in Active, UNCHANGED <<session, stopped>>
      PROVE  Calm
  BY <1>0, <1>4, EffectsBegin DEF Calm, StoppedHolds
<1>5. ASSUME NEW i \in DOMAIN leases, BeginInput(c, i)
      PROVE  Calm
  BY <1>1, <1>4, <1>5 DEF BeginInput, store, Effects
<1>6. ASSUME NEW p \in Principal, BeginMessage(c, p)
      PROVE  Calm
  BY <1>1, <1>4, <1>6 DEF BeginMessage, store, Effects
<1>7. CASE BeginControl(c)
  BY <1>1, <1>4, <1>7 DEF BeginControl, store, Effects
<1>8. CASE BeginTerminate(c)
  <2>1. /\ session.status \in Active /\ stopped' = stopped
        /\ session' = [status |-> "stopping", revision |-> session.revision + 1]
        /\ Begins(c, "terminate", lastFence, session')
    BY <1>1, <1>8 DEF BeginTerminate, Saved
  <2>2. /\ ctrl'[c] = [phase |-> ctrl[c].phase, queued |-> ctrl[c].queued - 1,
                       work |-> [op |-> "terminate", fence |-> lastFence,
                                 revision |-> session'.revision, status |-> session'.status]]
        /\ \A d \in Controller : d # c => ctrl'[d] = ctrl[d]
        /\ ctrl[c].queued > 0 /\ ctrl[c].work.op = "none"
    BY <1>0, <2>1 DEF Begins, NoWork
  <2>3. Terminating = {} /\ c \notin stopped.overtaken
    BY <1>0, <2>1, <2>2, ActiveIsNotStopping DEF WorkHolds
  <2>4. ctrl[c].phase # "unused"
    BY <1>0, <2>2 DEF WorkHolds
  <2>5. \A d \in Controller : ctrl[d].work.revision \in Nat
    BY <1>0 DEF Mailbox, Effect
  <2>6. Terminating' = {d \in Controller :
                          ctrl'[d].work.op = "terminate" /\ d \notin stopped'.overtaken}
    BY DEF Terminating, Terminates
  <2>7. Terminating' = {c}
    BY <2>1, <2>2, <2>3, <2>6 DEF Terminating, Terminates
  <2>8. ASSUME NEW d \in Controller
        PROVE  /\ ctrl'[d].phase = "unused" => ctrl'[d].queued = 0 /\ ctrl'[d].work = NoWork
               /\ ctrl'[d].work.op \in Effects =>
                     /\ ctrl'[d].work.status \in Active
                     /\ ctrl'[d].work.revision <= session'.revision
                     /\ ctrl'[d].work.revision = session'.revision =>
                           session'.status = ctrl'[d].work.status
               /\ d \in stopped'.overtaken =>
                     ctrl'[d].work.op = "terminate" /\ ctrl'[d].work.revision < session'.revision
               /\ d \in Terminating' =>
                     session'.status = "stopping" /\ session'.revision = ctrl'[d].work.revision
    <3>1. CASE d = c
      BY <2>1, <2>2, <2>3, <2>4, <3>1 DEF Effects
    <3>2. CASE d # c
      BY <1>0, <2>1, <2>2, <2>5, <2>7, <3>2 DEF WorkHolds
    <3> QED BY <3>1, <3>2
  <2>9. WorkHolds'
    BY <2>7, <2>8 DEF WorkHolds
  <2> QED BY <1>0, <2>1, <2>9 DEF Calm
<1> QED BY <1>2, <1>3, <1>5, <1>6, <1>7, <1>8 DEF CommandStep

LEMMA EffectsAreCalmOrStop ==
    ASSUME Inv, StopInv, NEW c \in Controller, EffectStep(c)
    PROVE  Calm \/ Stops
<1>0. /\ session \in [status : Status, revision : Nat] /\ session.revision \in Nat
      /\ ctrl \in [Controller -> Mailbox]
      /\ stopped \in [fence : Nat, again : BOOLEAN, overtaken : SUBSET Controller]
      /\ WorkHolds /\ StoppedHolds
      /\ {"stopping", "stopped", "failed"} \cap Active = {}
      /\ "working" \in Active
      /\ \A d \in Controller : ctrl[d].work.revision \in Nat
  BY DEF Inv, SessionsTypeOK, StopInv, Active, Mailbox, Effect
<1>1. Elsewhere => stopped' = stopped
  BY DEF Elsewhere
<1>2. CASE FinishEffect(c)
  <2>1. /\ ctrl[c].work.op \in Effects
        /\ ctrl' = [ctrl EXCEPT ![c].work = NoWork]
        /\ stopped' = stopped
    BY <1>1, <1>2 DEF FinishEffect, Effects
  <2>2. WorkShrinks /\ \A d \in Controller : d # c => ctrl'[d] = ctrl[d]
    BY <1>0, <2>1, DoneShrinks
  <2>3. \A d \in Controller : ctrl[d].work.op = "terminate" => ctrl'[d].work = ctrl[d].work
    BY <2>1, <2>2 DEF Effects
  <2>4. CASE session.revision = ctrl[c].work.revision
    <3>1. session.status \in Active /\ session'.revision = session.revision + 1
      BY <1>0, <1>2, <2>1, <2>4 DEF FinishEffect, Saved, WorkHolds
    <3>2. Terminating = {}
      BY <1>0, <3>1, ActiveIsNotStopping
    <3> QED BY <1>0, <2>1, <2>2, <2>3, <3>1, <3>2, WorkersKeepWork DEF Calm, StoppedHolds
  <2>5. CASE session.revision # ctrl[c].work.revision
    <3>1. session' = session
      BY <1>2, <2>5 DEF FinishEffect
    <3> QED BY <1>0, <2>1, <2>2, <2>3, <3>1, WorkersKeepWork DEF Calm, StoppedHolds
  <2> QED BY <2>4, <2>5
<1>3. CASE FailEffect(c)
  <2>1. /\ ctrl[c].work.op \in Effects
        /\ ctrl' = [ctrl EXCEPT ![c].work = NoWork]
        /\ session' = session /\ stopped' = stopped
    BY <1>1, <1>3 DEF FailEffect, store
  <2>2. WorkShrinks /\ \A d \in Controller : d # c => ctrl'[d] = ctrl[d]
    BY <1>0, <2>1, DoneShrinks
  <2>3. \A d \in Controller : ctrl[d].work.op = "terminate" => ctrl'[d].work = ctrl[d].work
    BY <2>1, <2>2 DEF Effects
  <2> QED BY <1>0, <2>1, <2>2, <2>3, WorkersKeepWork DEF Calm, StoppedHolds
<1>4. CASE FinishTerminate(c)
  <2>1. /\ ctrl[c].work.op = "terminate"
        /\ ctrl' = [ctrl EXCEPT ![c].work = NoWork]
        /\ SaveTerminal("stopped", ctrl[c].work.revision)
        /\ Stopped(c)
    BY <1>4 DEF FinishTerminate
  <2>2. stopped'.overtaken = stopped.overtaken \ {c}
    BY <1>0, <2>1 DEF Stopped
  <2>3. WorkHolds'
    BY <1>0, <2>1, <2>2, TerminationEnds, Zenon
  <2>4. CASE c \in stopped.overtaken
    <3>1. UNCHANGED store
      BY <1>0, <2>1, <2>2, <2>4, TerminationEnds, Zenon
    <3>2. stopped' = [stopped EXCEPT !.overtaken = @ \ {c}] /\ session' = session
      BY <2>1, <2>4, <3>1 DEF Stopped, store
    <3> QED BY <1>0, <2>3, <3>2 DEF Calm, StoppedHolds
  <2>5. CASE c \notin stopped.overtaken
    <3>1. /\ session' = [status |-> "stopped", revision |-> session.revision + 1]
          /\ leases' = RevokeAll /\ lastFence' = lastFence
      BY <1>0, <2>1, <2>2, <2>5, TerminationEnds, Zenon
    <3>2. stopped' = [stopped EXCEPT !.fence = lastFence, !.again = FALSE]
      BY <2>1, <2>5 DEF Stopped
    <3> QED BY <1>0, <2>3, <3>1, <3>2 DEF Stops
  <2> QED BY <2>4, <2>5
<1>5. CASE FailTerminate(c)
  <2>1. /\ ctrl[c].work.op = "terminate"
        /\ ctrl' = [ctrl EXCEPT ![c].work = NoWork]
        /\ SaveTerminal("failed", ctrl[c].work.revision)
        /\ stopped' = [stopped EXCEPT !.overtaken = @ \ {c}]
    BY <1>5 DEF FailTerminate
  <2>2. stopped'.overtaken = stopped.overtaken \ {c} /\ stopped'.again = stopped.again
        /\ stopped'.fence = stopped.fence
    BY <1>0, <2>1
  <2>3. WorkHolds'
    BY <1>0, <2>1, <2>2, TerminationEnds, Zenon
  <2>4. IF c \in stopped.overtaken THEN UNCHANGED store
        ELSE session' = [status |-> "failed", revision |-> session.revision + 1]
    BY <1>0, <2>1, <2>2, TerminationEnds, Zenon
  <2> QED BY <1>0, <2>2, <2>3, <2>4 DEF Calm, StoppedHolds, store
<1> QED BY <1>2, <1>3, <1>4, <1>5 DEF EffectStep

\* The registered controller is popped and closed.
LEMMA PopsShrink ==
    ASSUME Inv, Pops
    PROVE  WorkShrinks /\ \A c \in Controller : ctrl'[c].work = ctrl[c].work
<1>1. ctrl \in [Controller -> Mailbox]
  BY DEF Inv, SessionsTypeOK
<1>2. \A c \in Controller :
         ctrl'[c] = IF c = current THEN [ctrl[c] EXCEPT !.phase = "closing"] ELSE ctrl[c]
  BY DEF Pops
<1>3. \A c \in Controller : ctrl'[c].work = ctrl[c].work
  BY <1>1, <1>2 DEF Mailbox
<1>4. \A c \in Controller : ctrl'[c].phase = "unused" => ctrl'[c] = ctrl[c]
  BY <1>1, <1>2 DEF Mailbox
<1> QED BY <1>3, <1>4 DEF WorkShrinks

LEMMA RegistrationsAreCalm ==
    ASSUME Inv, StopInv, Registration
    PROVE  Calm
<1>0. /\ session \in [status : Status, revision : Nat] /\ session.revision \in Nat
      /\ ctrl \in [Controller -> Mailbox]
      /\ stopped \in [fence : Nat, again : BOOLEAN, overtaken : SUBSET Controller]
      /\ WorkHolds /\ StoppedHolds
  BY DEF Inv, SessionsTypeOK, StopInv
<1>1. CASE Revive
  <2>1. /\ session' = [status |-> "ready", revision |-> session.revision + 1]
        /\ stopped' = [stopped EXCEPT !.again = TRUE,
                                      !.overtaken = {c \in Controller : Terminates(c)}]
        /\ Pops
    BY <1>1 DEF Revive, Saved
  <2>2. /\ WorkShrinks
        /\ \A c \in Controller : ctrl'[c].work = ctrl[c].work
    BY <1>0, <2>1, PopsShrink
  <2>3. \A c \in Controller :
           c \in stopped'.overtaken <=> ctrl'[c].work.op = "terminate"
    BY <1>0, <2>1, <2>2 DEF Terminates
  <2>4. Terminating' = {c \in Controller :
                          ctrl'[c].work.op = "terminate" /\ c \notin stopped'.overtaken}
    BY DEF Terminating, Terminates
  <2>5. WorkHolds'
    BY <1>0, <2>1, <2>2, <2>3, <2>4, ShrinkingKeepsWork
  <2> QED BY <1>0, <2>1, <2>5 DEF Calm
<1>2. ASSUME NEW c \in Controller, Opens(c), UNCHANGED <<session, stopped>>
      PROVE  Calm
  <2>1. ctrl' = [ctrl EXCEPT ![c].phase = "open"]
    BY <1>2 DEF Opens
  <2>2. WorkShrinks /\ \A d \in Controller : ctrl'[d].work = ctrl[d].work
    BY <1>0, <2>1 DEF WorkShrinks, Mailbox
  <2> QED BY <1>0, <1>2, <2>2, WorkersKeepWork DEF Calm, StoppedHolds
<1>3. CASE UNCHANGED <<session, stopped, ctrl>>
  <2>1. WorkShrinks
    BY <1>3 DEF WorkShrinks
  <2> QED BY <1>0, <1>3, <2>1, WorkersKeepWork DEF Calm, StoppedHolds
<1> QED BY <1>1, <1>2, <1>3
        DEF Registration, EnsureResource, FindLive, Removed, Registered, store

\* The restart: no work is left, and a termination that had reached the pane is
\* followed up, because its session was not shown as terminal yet.
LEMMA RestartsAreCalmOrStop ==
    ASSUME Inv, StopInv, Restart
    PROVE  Calm \/ Stops
<1>0. /\ session \in [status : Status, revision : Nat] /\ session.revision \in Nat
      /\ ctrl \in [Controller -> Mailbox]
      /\ stopped \in [fence : Nat, again : BOOLEAN, overtaken : SUBSET Controller]
      /\ WorkHolds /\ StoppedHolds
      /\ "lost" \notin Active /\ "stopping" \notin Terminal
  BY DEF Inv, SessionsTypeOK, StopInv, Active, Terminal
<1>1. /\ ctrl' = [c \in Controller |-> IF ctrl[c].phase = "unused" THEN ctrl[c]
                                       ELSE [Unused EXCEPT !.phase = "closed"]]
      /\ IF session.status \notin Terminal /\ ~ live'
         THEN SaveTerminal("lost", session.revision)
         ELSE UNCHANGED store
  BY DEF Restart
<1>2. \/ stopped' = [stopped EXCEPT !.overtaken = {}]
      \/ /\ \E c \in Controller : Terminates(c) /\ c \notin stopped.overtaken
         /\ live' = FALSE
         /\ stopped' = [fence |-> lastFence, again |-> FALSE, overtaken |-> {}]
  BY DEF Restart
<1>3. [Unused EXCEPT !.phase = "closed"] = [phase |-> "closed", queued |-> 0, work |-> NoWork]
  BY DEF Unused
<1>4. \A c \in Controller : ctrl'[c].work = NoWork
  BY <1>0, <1>1, <1>3 DEF WorkHolds
<1>5. WorkShrinks
  BY <1>1, <1>3, <1>4 DEF WorkShrinks
<1>6. stopped'.overtaken = {}
  BY <1>0, <1>2
<1>7. \A c \in Controller : ctrl'[c].work.op # "terminate"
  BY <1>4 DEF NoWork
<1>8. Terminating' = {c \in Controller :
                        ctrl'[c].work.op = "terminate" /\ c \notin stopped'.overtaken}
  BY DEF Terminating, Terminates
<1>9. CASE session.status \notin Terminal /\ ~ live'
  <2>1. /\ session' = [status |-> "lost", revision |-> session.revision + 1]
        /\ leases' = RevokeAll /\ lastFence' = lastFence
    BY <1>1, <1>9 DEF SaveTerminal, Saved
  <2>2. WorkHolds'
    BY <1>0, <1>5, <1>6, <1>7, <1>8, <2>1, ShrinkingKeepsWork
  <2> QED BY <1>0, <1>2, <2>1, <2>2 DEF Calm, Stops
<1>10. CASE ~ (session.status \notin Terminal /\ ~ live')
  <2>1. session' = session
    BY <1>1, <1>10 DEF store
  <2>2. WorkHolds'
    BY <1>0, <1>5, <1>6, <1>7, <2>1, ShrinkingKeepsWork
  <2>3. stopped' = [stopped EXCEPT !.overtaken = {}]
    BY <1>0, <1>2, <1>10 DEF WorkHolds, Terminating
  <2> QED BY <1>0, <2>1, <2>2, <2>3 DEF Calm, StoppedHolds
<1> QED BY <1>9, <1>10

LEMMA StepIsCalmOrStops ==
    ASSUME Inv, StopInv, [Next]_vars
    PROVE  Calm \/ Stops
<1>0. /\ ctrl \in [Controller -> Mailbox]
      /\ WorkHolds /\ StoppedHolds
  BY DEF Inv, SessionsTypeOK, StopInv
<1>1. ASSUME UNCHANGED <<session, stopped>>, WorkShrinks,
             \A c \in Controller : ctrl'[c].work = ctrl[c].work
      PROVE  Calm
  BY <1>0, <1>1, WorkersKeepWork DEF Calm, StoppedHolds
<1>2. ASSUME NEW c \in Controller, Enqueue(c)
      PROVE  Calm
  <2>1. /\ ctrl[c].phase = "open" /\ ctrl' = [ctrl EXCEPT ![c].queued = @ + 1]
        /\ UNCHANGED <<session, stopped>>
    BY <1>2 DEF Enqueue, store
  <2>2. WorkShrinks /\ \A d \in Controller : ctrl'[d].work = ctrl[d].work
    BY <1>0, <2>1 DEF WorkShrinks, Mailbox
  <2> QED BY <1>1, <2>1, <2>2
<1>3. ASSUME NEW c \in Controller, EndWorker(c) \/ OpenController(c)
      PROVE  Calm
  <2>1. PICK phase \in {"open", "closed"} : ctrl' = [ctrl EXCEPT ![c].phase = phase]
    BY <1>3 DEF EndWorker, OpenController, Opens
  <2>2. UNCHANGED <<session, stopped>>
    BY <1>3 DEF EndWorker, OpenController, store
  <2>3. WorkShrinks /\ \A d \in Controller : ctrl'[d].work = ctrl[d].work
    BY <1>0, <2>1 DEF WorkShrinks, Mailbox
  <2> QED BY <1>1, <2>2, <2>3
<1>4. ASSUME NEW c \in Controller, LeaveRegistry(c)
      PROVE  Calm
  BY <1>1, <1>4, PopsShrink DEF LeaveRegistry, store
<1>5. CASE ResourceDies \/ TimePasses \/ ClockSetBack \/ UNCHANGED vars
  <2>1. UNCHANGED <<session, stopped, ctrl>>
    BY <1>5 DEF ResourceDies, TimePasses, ClockSetBack, vars, store
  <2>2. WorkShrinks
    BY <2>1 DEF WorkShrinks
  <2> QED BY <1>1, <2>1, <2>2
<1> QED BY <1>2, <1>3, <1>4, <1>5, CommandsAreCalm, EffectsAreCalmOrStop,
           RegistrationsAreCalm, RestartsAreCalmOrStop DEF Next, Work

LEMMA StopInvStep ==
    ASSUME Inv, StopInv, [Next]_vars
    PROVE  StopInv'
<1>0. StoppedHolds
  BY DEF StopInv
<1>1. CASE Calm
  BY <1>0, <1>1, StoppedLeasesStay DEF Calm, StopInv, StoppedHolds
<1>2. CASE Stops
  BY <1>0, <1>2, TerminationRevokes DEF Stops, StopInv, StoppedHolds
<1> QED BY <1>1, <1>2, StepIsCalmOrStops

LEMMA StopInvariant == Spec => []StopInv
<1>1. SessionsInit => StopInv
  BY DEF SessionsInit, StopInv, WorkHolds, StoppedHolds, Terminating, Terminates, Unused, NoWork,
         Effects
<1>2. Inv /\ StopInv /\ [Next]_vars => StopInv'
  BY StopInvStep
<1> QED BY <1>1, <1>2, Invariant, PTL DEF Spec

\* SessionController._execute_termination saves the outcome whatever the backend
\* says, and _reconcile_persisted_harness_sessions marks lost what a crash left
\* stopping: a session whose pane was terminated is not shown as ready or working
\* before persist_or_revive_tmux_session, but for a termination that this overtook.
THEOREM TerminatedSessionsShow == Spec => []TerminationsShow
<1>1. StopInv => TerminationsShow
  BY DEF StopInv, StoppedHolds, TerminationsShow
<1> QED BY StopInvariant, <1>1, PTL

\* Who takes up an input, and with which lease.
LEMMA InputsNeedLease ==
    ASSUME Inv, [Next]_vars, NEW c \in Controller,
           ctrl[c].work.op # "input", ctrl'[c].work.op = "input"
    PROVE  \E i \in DOMAIN leases : BeginInput(c, i)
<1>0. ctrl \in [Controller -> Mailbox] /\ NoWork.op # "input"
  BY DEF Inv, SessionsTypeOK, NoWork
<1>1. ASSUME NEW d \in Controller, Dequeues(d)
      PROVE  FALSE
  BY <1>0, <1>1 DEF Dequeues, Mailbox
<1>2. ASSUME NEW d \in Controller, ctrl' = [ctrl EXCEPT ![d].work = NoWork]
      PROVE  FALSE
  BY <1>0, <1>2 DEF Mailbox
<1>3. ASSUME NEW d \in Controller, NEW phase, ctrl' = [ctrl EXCEPT ![d].phase = phase]
      PROVE  FALSE
  BY <1>0, <1>3 DEF Mailbox
<1>4. ASSUME NEW d \in Controller, NEW op \in {"message", "control", "terminate"},
             NEW fence, NEW record, Begins(d, op, fence, record)
      PROVE  FALSE
  BY <1>0, <1>4 DEF Begins
<1>5. ASSUME NEW d \in Controller, LeaseStep(d)
      PROVE  FALSE
  BY <1>1, <1>5 DEF LeaseStep, Acquire, Renew, Release
<1>6. ASSUME NEW d \in Controller, EffectStep(d)
      PROVE  FALSE
  BY <1>2, <1>6 DEF EffectStep, FinishEffect, FailEffect, FinishTerminate, FailTerminate
<1>7. ASSUME NEW d \in Controller, CommandStep(d)
      PROVE  \E i \in DOMAIN leases : BeginInput(c, i)
  <2>1. ASSUME NEW i \in DOMAIN leases, BeginInput(d, i) PROVE BeginInput(c, i)
    <3>1. d = c
      BY <1>0, <2>1 DEF BeginInput, Begins
    <3> QED BY <2>1, <3>1
  <2>2. CASE Refuse(d) \/ \E status \in Active : Observe(d, status)
    BY <1>1, <2>2 DEF Refuse, Observe
  <2>3. CASE BeginControl(d) \/ BeginTerminate(d) \/ \E p \in Principal : BeginMessage(d, p)
    BY <1>4, <2>3 DEF BeginControl, BeginTerminate, BeginMessage
  <2> QED BY <1>7, <2>1, <2>2, <2>3 DEF CommandStep
<1>12. ASSUME Pops
       PROVE  FALSE
  <2>1. ctrl'[c].work = ctrl[c].work
    BY <1>12, PopsShrink
  <2> QED BY <2>1
<1>8. ASSUME NEW d \in Controller,
             Enqueue(d) \/ OpenController(d) \/ LeaveRegistry(d) \/ EndWorker(d)
      PROVE  FALSE
  <2>1. CASE Enqueue(d)
    BY <1>0, <2>1 DEF Enqueue, Mailbox
  <2> QED BY <1>3, <1>8, <1>12, <2>1 DEF OpenController, Opens, LeaveRegistry, EndWorker
<1>9. CASE Registration
  <2>1. CASE Revive
    BY <1>12, <2>1 DEF Revive
  <2>2. CASE Registered
    BY <1>3, <2>2 DEF Registered, Opens
  <2> QED BY <1>9, <2>1, <2>2 DEF Registration, EnsureResource, FindLive, Removed
<1>10. CASE Restart
  <2>1. [Unused EXCEPT !.phase = "closed"].work = NoWork
    BY DEF Unused
  <2> QED BY <1>0, <1>10, <2>1 DEF Restart
<1>11. CASE ResourceDies \/ TimePasses \/ ClockSetBack \/ UNCHANGED vars
  BY <1>11 DEF ResourceDies, TimePasses, ClockSetBack, vars
<1> QED BY <1>5, <1>6, <1>7, <1>8, <1>9, <1>10, <1>11 DEF Next, Work

\* save_terminal_session revokes in the transaction that ends the session, so no
\* lease of before passes validate_writer_lease afterwards: who was the writer
\* when the pane was terminated writes nothing into the session of later, whatever is
\* registered meanwhile, unless the termination itself was overtaken.
THEOREM StoppedWritersWriteNothing == Spec => StoppedWritersStayOut
<1>1. ASSUME Inv, StopInv, [Next]_vars, NEW c \in Controller,
             ctrl[c].work.op # "input", ctrl'[c].work.op = "input"
      PROVE  ctrl'[c].work.fence > stopped.fence
  <2>1. PICK i \in DOMAIN leases : BeginInput(c, i)
    BY <1>1, InputsNeedLease
  <2>2. leases[i] \in Lease /\ ctrl \in [Controller -> Mailbox] /\ stopped.fence \in Nat
    BY <1>1 DEF Inv, SessionsTypeOK
  <2>3. ~ leases[i].revoked /\ ctrl'[c].work.fence = leases[i].fence
    BY <2>1, <2>2 DEF BeginInput, ValidLease, Unrevoked, Begins
  <2>4. leases[i].fence \in Nat
    BY <2>2 DEF Lease
  <2> QED BY <1>1, <2>2, <2>3, <2>4 DEF StopInv, StoppedHolds
<1>2. Inv /\ StopInv /\ [Next]_vars =>
         [\A c \in Controller :
            (ctrl[c].work.op # "input" /\ ctrl'[c].work.op = "input") =>
               ctrl'[c].work.fence > stopped.fence]_vars
  BY <1>1
<1> QED BY <1>2, Invariant, StopInvariant, PTL DEF Spec, StoppedWritersStayOut

-----------------------------------------------------------------------------
(***************************************************************************)
(* One controller at a time                                                *)
(***************************************************************************)

\* Only the registered controller takes items, beside those that still drain.
AloneInv ==
    \A c \in Controller :
       /\ ctrl[c].phase = "open" => current = c
       /\ ctrl[c].phase \in {"unused", "closed"} => ctrl[c].queued = 0 /\ ctrl[c].work = NoWork

Busy(c) == ctrl[c].queued > 0 \/ ctrl[c].work # NoWork

LEMMA NobodyElse ==
    ASSUME Inv, AloneInv, NEW c \in Controller, NEW d \in Controller, Busy(c), Busy(d),
           \A e \in Controller : ctrl[e].phase # "closing"
    PROVE  c = d
<1>1. ctrl \in [Controller -> Mailbox] /\ \A e \in Controller : ctrl[e].phase # "closing"
  BY DEF Inv, SessionsTypeOK
<1>2. ctrl[c].phase = "open" /\ ctrl[d].phase = "open"
  BY <1>1 DEF AloneInv, Busy, Mailbox
<1> QED BY <1>2 DEF AloneInv

\* What a controller does with an item, and what is put into its mailbox.
LEMMA AloneMoves ==
    ASSUME Inv, AloneInv, NEW c \in Controller, NEW box,
           ctrl[c].phase = "open" \/ Busy(c),
           ctrl' = [ctrl EXCEPT ![c] = box], box.phase = ctrl[c].phase, current' = current
    PROVE  AloneInv'
<1>1. ctrl \in [Controller -> Mailbox]
  BY DEF Inv, SessionsTypeOK
<1>2. ctrl'[c] = box /\ \A d \in Controller : d # c => ctrl'[d] = ctrl[d]
  BY <1>1
<1>3. ctrl[c].phase \notin {"unused", "closed"}
  BY <1>1 DEF AloneInv, Busy, Mailbox
<1> QED BY <1>2, <1>3 DEF AloneInv

LEMMA AloneWorks ==
    ASSUME Inv, AloneInv, NEW c \in Controller, Enqueue(c) \/ LeaseStep(c) \/ CommandStep(c) \/ EffectStep(c)
    PROVE  AloneInv'
<1>0. ctrl \in [Controller -> Mailbox] /\ NoWork.op = "none"
  BY DEF Inv, SessionsTypeOK, NoWork
<1>1. ASSUME Dequeues(c), current' = current
      PROVE  AloneInv'
  <2> DEFINE box == [ctrl[c] EXCEPT !.queued = @ - 1]
  <2>1. ctrl' = [ctrl EXCEPT ![c] = box] /\ Busy(c)
    BY <1>0, <1>1 DEF Dequeues, Busy
  <2>2. box.phase = ctrl[c].phase
    BY <1>0 DEF Mailbox
  <2> HIDE DEF box
  <2> QED BY <1>1, <2>1, <2>2, AloneMoves
<1>2. ASSUME NEW op, NEW fence, NEW record, Begins(c, op, fence, record), current' = current
      PROVE  AloneInv'
  <2> DEFINE box == [phase |-> ctrl[c].phase, queued |-> ctrl[c].queued - 1,
                     work |-> [op |-> op, fence |-> fence,
                               revision |-> record.revision, status |-> record.status]]
  <2>1. ctrl' = [ctrl EXCEPT ![c] = box] /\ Busy(c) /\ box.phase = ctrl[c].phase
    BY <1>2 DEF Begins, Busy
  <2> HIDE DEF box
  <2> QED BY <1>2, <2>1, AloneMoves
<1>3. Elsewhere => current' = current
  BY DEF Elsewhere, registry
<1>4. CASE LeaseStep(c)
  BY <1>1, <1>3, <1>4 DEF LeaseStep, Acquire, Renew, Release
<1>5. CASE CommandStep(c)
  <2>1. CASE Refuse(c) \/ \E status \in Active : Observe(c, status)
    BY <1>1, <1>3, <2>1 DEF Refuse, Observe
  <2>2. CASE \/ \E i \in DOMAIN leases : BeginInput(c, i)
             \/ \E p \in Principal : BeginMessage(c, p)
             \/ BeginControl(c) \/ BeginTerminate(c)
    BY <1>2, <1>3, <2>2 DEF BeginInput, BeginMessage, BeginControl, BeginTerminate
  <2> QED BY <1>5, <2>1, <2>2 DEF CommandStep
<1>6. CASE EffectStep(c)
  <2> DEFINE box == [ctrl[c] EXCEPT !.work = NoWork]
  <2>1. Busy(c)
    BY <1>0, <1>6
       DEF EffectStep, FinishEffect, FailEffect, FinishTerminate, FailTerminate, Busy, Effects
  <2>2. ctrl' = [ctrl EXCEPT ![c].work = NoWork] /\ current' = current
    BY <1>3, <1>6
       DEF EffectStep, FinishEffect, FailEffect, FinishTerminate, FailTerminate, registry
  <2>3. ctrl' = [ctrl EXCEPT ![c] = box] /\ box.phase = ctrl[c].phase
    BY <1>0, <2>2 DEF Mailbox
  <2> HIDE DEF box
  <2> QED BY <2>1, <2>2, <2>3, AloneMoves
<1>7. CASE Enqueue(c)
  <2> DEFINE box == [ctrl[c] EXCEPT !.queued = @ + 1]
  <2>1. ctrl[c].phase = "open" /\ ctrl' = [ctrl EXCEPT ![c] = box] /\ current' = current
    BY <1>0, <1>7 DEF Enqueue, registry
  <2>2. box.phase = ctrl[c].phase
    BY <1>0 DEF Mailbox
  <2> HIDE DEF box
  <2> QED BY <2>1, <2>2, AloneMoves
<1> QED BY <1>4, <1>5, <1>6, <1>7

LEMMA AloneInvStep ==
    ASSUME Inv, AloneInv, [Next]_vars
    PROVE  AloneInv'
<1>0. ctrl \in [Controller -> Mailbox]
  BY DEF Inv, SessionsTypeOK
<1>1. ASSUME NEW c \in Controller, Opens(c)
      PROVE  AloneInv'
  <2>1. /\ ctrl' = [ctrl EXCEPT ![c].phase = "open"]
        /\ ctrl[c].phase = "unused" /\ current = 0 /\ current' = c
    BY <1>1 DEF Opens
  <2>2. \A d \in Controller : d # 0
    BY SessionsAssumption
  <2>3. /\ ctrl'[c].phase = "open"
        /\ \A d \in Controller : d # c => ctrl'[d] = ctrl[d]
    BY <1>0, <2>1 DEF Mailbox
  <2> QED BY <2>1, <2>2, <2>3 DEF AloneInv
<1>2. CASE Pops
  <2>1. /\ \A c \in Controller : c = current => ctrl'[c].phase = "closing"
        /\ \A c \in Controller : c # current => ctrl'[c] = ctrl[c]
    BY <1>0, <1>2 DEF Pops, Mailbox
  <2> QED BY <2>1 DEF AloneInv
<1>3. ASSUME NEW c \in Controller, EndWorker(c)
      PROVE  AloneInv'
  <2>1. /\ ctrl' = [ctrl EXCEPT ![c].phase = "closed"] /\ ctrl[c].queued = 0
        /\ ctrl[c].work = NoWork /\ current' = current
    BY <1>3 DEF EndWorker, registry
  <2> QED BY <1>0, <2>1 DEF AloneInv, Mailbox
<1>4. CASE UNCHANGED <<ctrl, current>>
  BY <1>4 DEF AloneInv
<1>5. CASE Registration
  BY <1>1, <1>2, <1>4, <1>5
     DEF Registration, EnsureResource, Revive, FindLive, Removed, Registered
<1>6. CASE Restart
  <2>1. /\ ctrl' = [c \in Controller |-> IF ctrl[c].phase = "unused" THEN ctrl[c]
                                         ELSE [Unused EXCEPT !.phase = "closed"]]
        /\ current' = 0
    BY <1>6 DEF Restart
  <2>2. [Unused EXCEPT !.phase = "closed"] = [phase |-> "closed", queued |-> 0, work |-> NoWork]
    BY DEF Unused
  <2> QED BY <2>1, <2>2 DEF AloneInv
<1>7. CASE ResourceDies \/ TimePasses \/ ClockSetBack \/ UNCHANGED vars
  BY <1>4, <1>7 DEF ResourceDies, TimePasses, ClockSetBack, vars, registry
<1> QED BY <1>1, <1>2, <1>3, <1>5, <1>6, <1>7, AloneWorks
        DEF Next, Work, OpenController, LeaveRegistry

LEMMA AloneInvariant == Spec => []AloneInv
<1>1. SessionsInit => AloneInv
  BY DEF SessionsInit, AloneInv, Unused
<1>2. Inv /\ AloneInv /\ [Next]_vars => AloneInv'
  BY AloneInvStep
<1> QED BY <1>1, <1>2, Invariant, PTL DEF Spec

\* A lease is granted by a controller that has no effect under way.
LEMMA GrantsWait ==
    ASSUME Inv, [Next]_vars, lastFence' # lastFence
    PROVE  \E c \in Controller : Dequeues(c)
<1>1. \A status, revision : SaveTerminal(status, revision) => lastFence' = lastFence
  BY DEF SaveTerminal, store
<1>2. ASSUME NEW c \in Controller, LeaseStep(c) PROVE Dequeues(c)
  BY <1>2 DEF LeaseStep, Acquire, Renew, Release
<1>3. ASSUME NEW c \in Controller,
             \/ CommandStep(c) \/ EffectStep(c) \/ Enqueue(c) \/ EndWorker(c)
             \/ OpenController(c) \/ LeaveRegistry(c)
      PROVE  FALSE
  BY <1>1, <1>3
     DEF CommandStep, Refuse, Observe, BeginInput, BeginMessage, BeginControl, BeginTerminate,
         EffectStep, FinishEffect, FailEffect, FinishTerminate, FailTerminate, Enqueue, EndWorker,
         OpenController, LeaveRegistry, store
<1>4. ~ (Registration \/ ResourceDies \/ Restart \/ TimePasses \/ ClockSetBack \/ UNCHANGED vars)
  BY <1>1 DEF Registration, EnsureResource, Revive, FindLive, Removed, Registered, ResourceDies,
              Restart, TimePasses, ClockSetBack, vars, store
<1> QED BY <1>2, <1>3, <1>4 DEF Next, Work

\* SessionController._run_mailbox takes one item at a time, and a grant is an item: no
\* takeover comes between validate_writer_lease and the delivery of the input, however
\* often the session is registered, but while a removed controller drains its mailbox.
THEOREM TakeoversWaitForInputs == Spec => TakeoversWait
<1>1. ASSUME Inv, AloneInv, [Next]_vars, NEW c \in Controller,
             ctrl[c].work.op \in {"input", "message"}, lastFence' # lastFence, ~ Draining
      PROVE  FALSE
  <2>1. ctrl[c].work # NoWork /\ Busy(c)
    BY <1>1 DEF NoWork, Busy
  <2>2. PICK d \in Controller : Dequeues(d)
    BY <1>1, GrantsWait
  <2>3. Busy(d) /\ d # c
    BY <2>1, <2>2 DEF Dequeues, Busy
  <2>4. \A e \in Controller : ctrl[e].phase # "closing"
    BY <1>1 DEF Draining
  <2> QED BY <1>1, <2>1, <2>3, <2>4, NobodyElse
<1>2. Inv /\ AloneInv /\ [Next]_vars =>
         [\A c \in Controller :
             ctrl[c].work.op \in {"input", "message"} /\ lastFence' # lastFence => Draining]_vars
  BY <1>1
<1> QED BY <1>2, Invariant, AloneInvariant, PTL DEF Spec, TakeoversWait

\* The row is saved by a controller that takes or ends work, by a registration that closes
\* the registered controller, or by the restart, which ends all work.
LEMMA SavesWork ==
    ASSUME Inv, AloneInv, [Next]_vars, session' # session, ~ Draining,
           NEW c \in Controller, ctrl[c].work.op \in Effects, ctrl'[c].work = ctrl[c].work
    PROVE  FALSE
<1>0. /\ ctrl \in [Controller -> Mailbox] /\ NoWork.op = "none"
      /\ \A d \in Controller : ctrl[d].phase # "closing" /\ ctrl'[d].phase # "closing"
  BY DEF Inv, SessionsTypeOK, NoWork, Draining
<1>1. ctrl[c].work # NoWork /\ Busy(c)
  BY <1>0 DEF Busy, Effects
<1>2. ASSUME NEW d \in Controller, Busy(d) PROVE d = c
  BY <1>0, <1>1, <1>2, NobodyElse
<1>3. ASSUME NEW d \in Controller, Dequeues(d) PROVE FALSE
  BY <1>1, <1>2, <1>3 DEF Dequeues, Busy
<1>4. ASSUME NEW d \in Controller, NEW op, NEW fence, NEW record, Begins(d, op, fence, record)
      PROVE  FALSE
  BY <1>1, <1>2, <1>4 DEF Begins, Busy
<1>5. ASSUME NEW d \in Controller, LeaseStep(d) \/ CommandStep(d)
      PROVE  FALSE
  BY <1>3, <1>4, <1>5
     DEF LeaseStep, Acquire, Renew, Release, CommandStep, Refuse, Observe, BeginInput,
         BeginMessage, BeginControl, BeginTerminate
<1>6. ASSUME NEW d \in Controller, EffectStep(d)
      PROVE  FALSE
  <2>1. Busy(d)
    BY <1>0, <1>6
       DEF EffectStep, FinishEffect, FailEffect, FinishTerminate, FailTerminate, Busy, Effects
  <2>2. ctrl' = [ctrl EXCEPT ![d].work = NoWork]
    BY <1>6 DEF EffectStep, FinishEffect, FailEffect, FinishTerminate, FailTerminate
  <2> QED BY <1>0, <1>1, <1>2, <2>1, <2>2 DEF Mailbox
<1>7. ASSUME NEW d \in Controller,
             Enqueue(d) \/ EndWorker(d) \/ OpenController(d) \/ LeaveRegistry(d)
      PROVE  FALSE
  BY <1>7 DEF Enqueue, EndWorker, OpenController, LeaveRegistry, store
<1>8. CASE Revive
  <2>1. ctrl[c].phase = "open"
    BY <1>0, <1>1 DEF AloneInv, Busy, Mailbox
  <2>2. current = c
    BY <2>1 DEF AloneInv
  <2>3. ctrl'[c].phase = "closing"
    BY <1>0, <1>8, <2>2 DEF Revive, Pops, Mailbox
  <2> QED BY <1>0, <2>3
<1>9. CASE Restart
  <2>1. ctrl[c].phase # "unused"
    BY <1>1 DEF AloneInv, Busy
  <2>2. ctrl'[c] = [Unused EXCEPT !.phase = "closed"]
    BY <1>9, <2>1 DEF Restart
  <2>3. [Unused EXCEPT !.phase = "closed"].work = NoWork
    BY DEF Unused
  <2> QED BY <1>1, <2>2, <2>3
<1>10. ~ (EnsureResource \/ FindLive \/ Removed \/ Registered \/ ResourceDies \/ TimePasses
          \/ ClockSetBack \/ UNCHANGED vars)
  BY DEF EnsureResource, FindLive, Removed, Registered, ResourceDies, TimePasses, ClockSetBack,
         vars, store
<1> QED BY <1>5, <1>6, <1>7, <1>8, <1>9, <1>10 DEF Next, Work, Registration

\* SessionController._execute_one saves with the revision that it read: however often the
\* session is registered that save finds the row as it was, but where another controller
\* drains its mailbox or the controller itself is removed.
THEOREM EffectsAreRecorded == Spec => EffectsRecorded
<1>1. ASSUME Inv, AloneInv, [Next]_vars, NEW c \in Controller,
             ctrl[c].work.op \in Effects, ctrl'[c].work = ctrl[c].work,
             session'.revision # session.revision
      PROVE  Draining
  BY <1>1, SavesWork
<1>2. Inv /\ AloneInv /\ [Next]_vars =>
         [\A c \in Controller :
            (/\ ctrl[c].work.op \in Effects
             /\ ctrl'[c].work = ctrl[c].work
             /\ session'.revision # session.revision) => Draining]_vars
  BY <1>1
<1> QED BY <1>2, Invariant, AloneInvariant, PTL DEF Spec, EffectsRecorded
=============================================================================
