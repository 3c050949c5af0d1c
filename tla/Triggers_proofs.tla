----------------------------- MODULE Triggers_proofs -----------------------------
(***************************************************************************)
(* Theorems about Triggers: types, one effect for each occurrence, firings *)
(* a dedup window apart, no matching fact passed over, and no more firings *)
(* of a repository trigger than moves of HEAD; for any number of triggers, *)
(* any schedule, window, debounce and limit, and a tick that dies anywhere.*)
(***************************************************************************)
EXTENDS Triggers, TLAPS, FiniteSetTheorems, SequenceTheorems, WellFoundedInduction

(***************************************************************************)
(* Numbers and sets of them                                                *)
(***************************************************************************)

LEMMA NatHasMin ==
    ASSUME NEW T \in SUBSET Nat, T # {}
    PROVE  \E x \in T : \A y \in T : x <= y
<1>1. PICK x \in T : \A y \in T : <<y, x>> \notin OpToRel(<, Nat)
  BY WFMin, NatLessThanWellFounded, Zenon
<1>2. \A y \in T : ~ (y < x)
  BY <1>1, Zenon DEF OpToRel
<1>3. x \in Nat /\ \A y \in T : y \in Nat
  OBVIOUS
<1>4. \A y \in T : x <= y
  BY <1>2, <1>3
<1>. QED
  BY <1>4

LEMMA MinOfNat ==
    ASSUME NEW T \in SUBSET Nat, T # {}
    PROVE  Min(T) \in T /\ \A y \in T : Min(T) <= y
BY NatHasMin DEF Min

\* FirstOf leaves no gap.
LEMMA FirstOfIsPrefix ==
    ASSUME NEW n \in Nat, NEW S \in SUBSET (1..n), NEW m,
           NEW x \in FirstOf(S, m), NEW y \in S, y < x, m \in Nat
    PROVE  y \in FirstOf(S, m)
<1> DEFINE Before(z) == {w \in S : w < z}
<1>1. IsFiniteSet(Before(x))
  <2>1. IsFiniteSet(1..n)
    BY FS_Interval
  <2>. QED
    BY <2>1, FS_Subset
<1>2. Before(y) \in SUBSET Before(x)
  <2>1. x \in Nat /\ y \in Nat /\ S \subseteq Nat
    BY DEF FirstOf
  <2>2. \A w \in S : w < y => w < x
    BY <2>1
  <2>. QED
    BY <2>2
<1>3. Cardinality(Before(y)) <= Cardinality(Before(x)) /\ IsFiniteSet(Before(y))
  BY <1>1, <1>2, FS_Subset
<1>4. Cardinality(Before(x)) < m
  BY DEF FirstOf
<1>5. Cardinality(Before(x)) \in Nat /\ Cardinality(Before(y)) \in Nat
  BY <1>1, <1>3, FS_CardinalityType
<1>6. Cardinality(Before(y)) < m
  BY <1>3, <1>4, <1>5
<1>. QED
  BY <1>6 DEF FirstOf

(***************************************************************************)
(* The clock of the zone                                                   *)
(***************************************************************************)

LEMMA LocalIsNat == \A u \in 0..MaxTime : Local[u] \in Nat
BY CronAssumption

\* Between two instants the wall clock reaches or skips every label.
LEMMA LabelIsPassed ==
    ASSUME NEW a \in 0..MaxTime, NEW b \in 0..MaxTime, NEW label \in Nat,
           Local[a] < label, label <= Local[b], a < b
    PROVE  \E u \in 0..(MaxTime - 1) : Local[u] < label /\ label <= Local[u + 1]
<1> DEFINE T == {u \in Nat : a < u /\ u <= b /\ label <= Local[u]}
<1>1. T \in SUBSET Nat /\ b \in T
  BY CronAssumption
<1>2. PICK x \in T : \A y \in T : x <= y
  BY <1>1, NatHasMin
<1>3. x \in Nat /\ a < x /\ x <= b /\ label <= Local[x] /\ MaxTime \in Nat
  BY <1>2, CronAssumption
<1>4. x - 1 \in 0..(MaxTime - 1) /\ x - 1 \in 0..MaxTime /\ (x - 1) + 1 = x
  BY <1>3
<1>5. Local[x - 1] < label
  <2>1. CASE x - 1 = a
    BY <2>1
  <2>2. CASE x - 1 # a
    <3>1. x - 1 \notin T
      BY <1>2, <1>3
    <3>2. ~ (label <= Local[x - 1])
      BY <1>3, <1>4, <2>2, <3>1
    <3>. QED
      BY <1>4, <3>2, LocalIsNat
  <2>. QED
    BY <2>1, <2>2
<1>. QED
  BY <1>3, <1>4, <1>5

LEMMA UtcInTime ==
    ASSUME NEW a \in 0..MaxTime, NEW b \in 0..MaxTime, NEW label \in Nat,
           Local[a] < label, label <= Local[b], a < b
    PROVE  Utc(label) \in 0..MaxTime
<1> DEFINE showing == {u \in 0..MaxTime : Local[u] = label}
           before  == {u \in 0..(MaxTime - 1) : Local[u] < label /\ label < Local[u + 1]}
<1>1. MaxTime \in Nat
  BY CronAssumption
<1>2. CASE showing # {}
  <2>1. Min(showing) \in showing
    BY <1>1, <1>2, MinOfNat
  <2>. QED
    BY <1>2, <2>1 DEF Utc
<1>3. CASE showing = {}
  <2>1. PICK u \in 0..(MaxTime - 1) : Local[u] < label /\ label <= Local[u + 1]
    BY LabelIsPassed
  <2>2. u + 1 \in 0..MaxTime
    BY <1>1
  <2>3. u \in before
    BY <1>3, <2>1, <2>2, LocalIsNat
  <2>4. before \in SUBSET Nat
    BY <1>1
  <2>5. Min(before) \in before
    BY <2>3, <2>4, MinOfNat
  <2>6. PICK m \in 0..(MaxTime - 1) :
           m = Min(before) /\ Local[m] < label /\ label < Local[m + 1]
    BY <2>5
  <2>7. m + 1 \in 0..MaxTime /\ m \in 0..MaxTime
    BY <1>1
  <2>8. m + Local[m + 1] - Local[m] <= MaxTime + 1
    BY CronAssumption
  <2>9. m + label - Local[m] \in 0..MaxTime
    BY <1>1, <2>6, <2>7, <2>8, LocalIsNat
  <2>10. Utc(label) = m + label - Local[m]
    BY <1>3, <2>6 DEF Utc
  <2>. QED
    BY <2>9, <2>10
<1>. QED
  BY <1>2, <1>3

-----------------------------------------------------------------------------
(***************************************************************************)
(* Types                                                                   *)
(***************************************************************************)

\* The cursor of a cron trigger, and what it is about to become, is an instant.
CursorsInTime ==
    /\ \A t \in CronTrigger : cursor[t].key.at <= MaxTime
    /\ \A t \in CronTrigger \cap proc.cur : \A o \in proc.keys : o.key.at <= MaxTime

PendingIsFinite == \A t \in ManualTrigger : IsFiniteSet(pending[t])

TypeInv == TriggersTypeOK /\ CursorsInTime /\ PendingIsFinite

LEMMA KeysAreTyped ==
    /\ NoFingerprint \notin Fingerprint
    /\ \A n \in Nat : At(n) \in Key
    /\ \A fingerprint \in Fingerprint, n \in Nat : [what |-> fingerprint, at |-> n] \in Key
    /\ \A n \in Nat, key \in Key : Fire(n, key) \in Occurrence /\ Skip(n, key) \in Occurrence
BY TriggersAssumption DEF At, Key, Fire, Skip, Occurrence

LEMMA FiresAreInTime ==
    ASSUME NEW schedule \in SUBSET Nat, NEW a \in 0..MaxTime, NEW b \in 0..MaxTime,
           NEW label \in Fires(schedule, a, b)
    PROVE  label \in Nat /\ Utc(label) \in 0..MaxTime
<1> DEFINE first == Local[a] + 1
           ends  == {Local[b], first + MaxSteps - 1}
<1>1. MaxTime \in Nat /\ MaxSteps \in Nat /\ MaxSteps > 0 /\ Local[a] \in Nat /\ Local[b] \in Nat
  BY CronAssumption, LocalIsNat
<1>2. a < b /\ label \in first..Min(ends) /\ label \in schedule
  BY <1>1 DEF Fires, FirstOf, Matches
<1>3. ends \in SUBSET Nat /\ ends # {}
  BY <1>1
<1>4. Min(ends) <= Local[b] /\ Min(ends) \in Nat
  BY <1>3, MinOfNat
<1>5. label \in Nat /\ Local[a] < label /\ label <= Local[b]
  BY <1>1, <1>2, <1>4
<1>. QED
  BY <1>2, <1>5, UtcInTime

LEMMA CronOccurrencesTyped ==
    ASSUME TypeInv, NEW t \in CronTrigger
    PROVE  /\ CronOccurrences(t) \in SUBSET Occurrence
           /\ \A o \in CronOccurrences(t) : o.key.at <= MaxTime
<1>1. /\ MaxTime \in Nat /\ proc.now \in 0..MaxTime
      /\ cursor[t] \in Cursor \cup {NoCursor} /\ cursor[t].key.at <= MaxTime
      /\ Schedule[t] \in SUBSET Nat
  BY CronAssumption, TriggersAssumption DEF TypeInv, TriggersTypeOK, CursorsInTime, Trigger
<1>2. CASE cursor[t] = NoCursor
  <2>1. CronOccurrences(t) = {Skip(0, At(proc.now))}
    BY <1>2 DEF CronOccurrences
  <2>. QED
    BY <1>1, <2>1, KeysAreTyped DEF Skip, At
<1>3. CASE cursor[t] # NoCursor
  <2>1. cursor[t].key.at \in 0..MaxTime
    BY <1>1, <1>3 DEF Cursor, Key
  <2>2. \A label \in Fires(Schedule[t], cursor[t].key.at, proc.now) :
           /\ label \in Nat /\ Utc(label) \in 0..MaxTime
    BY <1>1, <2>1, FiresAreInTime
  <2>3. SUFFICES ASSUME NEW label \in Fires(Schedule[t], cursor[t].key.at, proc.now)
                 PROVE  /\ Fire(label, At(Utc(label))) \in Occurrence
                        /\ Fire(label, At(Utc(label))).key.at <= MaxTime
    BY <1>3 DEF CronOccurrences
  <2>4. label \in Nat /\ Utc(label) \in Nat /\ Utc(label) <= MaxTime
    BY <1>1, <2>2
  <2>. QED
    BY <2>4, KeysAreTyped DEF Fire, At
<1>. QED
  BY <1>2, <1>3

LEMMA FactOccurrencesTyped ==
    ASSUME TypeInv, NEW t \in FactTrigger
    PROVE  FactOccurrences(t) \in SUBSET Occurrence
<1>1. \A i \in DOMAIN facts : i \in Nat
  BY DEF TypeInv, TriggersTypeOK
<1>2. SUFFICES ASSUME NEW i \in DOMAIN facts
               PROVE  [rank |-> i, key |-> At(i), fire |-> facts[i][t] = "match"] \in Occurrence
  BY DEF FactOccurrences, FirstOf
<1>. QED
  BY <1>1, KeysAreTyped DEF Occurrence

LEMMA RepositoryOccurrencesTyped ==
    ASSUME TypeInv, NEW t \in RepositoryTrigger
    PROVE  RepositoryOccurrences(t) \in SUBSET Occurrence
<1>1. /\ MaxTime \in Nat /\ proc.now \in Nat /\ head \in Fingerprint
      /\ cursor[t] \in Cursor \cup {NoCursor}
  BY CronAssumption DEF TypeInv, TriggersTypeOK, Trigger
<1>2. CASE cursor[t].key.what # head
  BY <1>1, <1>2, KeysAreTyped DEF RepositoryOccurrences
<1>3. CASE cursor[t].key.what = head
  <2>1. cursor[t] \in Cursor
    BY <1>1, <1>3, KeysAreTyped DEF NoCursor
  <2>2. RepositoryOccurrences(t) \in SUBSET {Fire(0, cursor[t].key)}
    BY <1>3 DEF RepositoryOccurrences
  <2>. QED
    BY <2>1, <2>2, KeysAreTyped DEF Cursor
<1>. QED
  BY <1>2, <1>3

LEMMA ManualOccurrencesTyped ==
    ASSUME TypeInv, NEW t \in ManualTrigger
    PROVE  ManualOccurrences(t) \in SUBSET Occurrence
<1> DEFINE open == {p \in pending[t] : At(p.key) \notin FiredKeys(t)}
           Earlier(p) == {q \in open : q.at < p.at \/ (q.at = p.at /\ q.key < p.key)}
<1>1. IsFiniteSet(pending[t]) /\ \A p \in pending[t] : p.key \in Nat
  <2>1. pending[t] \in SUBSET [key : ManualKey, at : 0..MaxTime] /\ ManualKey \subseteq Nat
    BY TriggersAssumption DEF TypeInv, TriggersTypeOK
  <2>. QED
    BY <2>1 DEF TypeInv, PendingIsFinite
<1>2. \A p \in open : Cardinality(Earlier(p)) \in Nat
  BY <1>1, FS_Subset, FS_CardinalityType
<1>3. ManualOccurrences(t) = {Fire(Cardinality(Earlier(p)), At(p.key)) : p \in open}
  BY DEF ManualOccurrences
<1> HIDE DEF Earlier
<1>4. \A p \in open : Fire(Cardinality(Earlier(p)), At(p.key)) \in Occurrence
  BY <1>1, <1>2, KeysAreTyped
<1>. QED
  BY <1>3, <1>4

LEMMA OccurrencesTyped ==
    ASSUME TypeInv, NEW t \in Trigger
    PROVE  /\ Occurrences(t) \in SUBSET Occurrence
           /\ t \in CronTrigger => \A o \in Occurrences(t) : o.key.at <= MaxTime
           /\ t \in FactTrigger => Occurrences(t) = FactOccurrences(t)
           /\ t \in RepositoryTrigger => Occurrences(t) = RepositoryOccurrences(t)
<1>1. /\ CronTrigger \cap FactTrigger = {} /\ CronTrigger \cap RepositoryTrigger = {}
      /\ CronTrigger \cap ManualTrigger = {} /\ FactTrigger \cap RepositoryTrigger = {}
      /\ FactTrigger \cap ManualTrigger = {} /\ RepositoryTrigger \cap ManualTrigger = {}
  BY TriggersAssumption
<1>2. CASE t \in CronTrigger
  <2>1. Occurrences(t) = CronOccurrences(t)
    BY <1>1, <1>2 DEF Occurrences
  <2>. QED
    BY <1>1, <1>2, <2>1, CronOccurrencesTyped
<1>3. CASE t \in FactTrigger
  <2>1. Occurrences(t) = FactOccurrences(t)
    BY <1>1, <1>3 DEF Occurrences
  <2>. QED
    BY <1>1, <1>3, <2>1, FactOccurrencesTyped
<1>4. CASE t \in RepositoryTrigger
  <2>1. Occurrences(t) = RepositoryOccurrences(t)
    BY <1>1, <1>4 DEF Occurrences
  <2>. QED
    BY <1>1, <1>4, <2>1, RepositoryOccurrencesTyped
<1>5. CASE t \in ManualTrigger
  <2>1. Occurrences(t) = ManualOccurrences(t)
    BY <1>1, <1>5 DEF Occurrences
  <2>. QED
    BY <1>1, <1>5, <2>1, ManualOccurrencesTyped
<1>. QED
  BY <1>2, <1>3, <1>4, <1>5 DEF Trigger

LEMMA TypeInit == TriggersInit => TypeInv
<1> SUFFICES ASSUME TriggersInit
             PROVE  TypeInv
  OBVIOUS
<1>1. MaxTime \in Nat /\ MoveBound \in Nat /\ CrashBound \in Nat /\ Limit \in Nat \ {0}
  BY CronAssumption, TriggersAssumption
<1>2. TriggersTypeOK
  BY <1>1 DEF TriggersInit, TriggersTypeOK, Idle
<1>3. CursorsInTime
  BY <1>1 DEF TriggersInit, CursorsInTime, NoCursor, Idle, Trigger
<1>4. PendingIsFinite
  BY FS_EmptySet DEF TriggersInit, PendingIsFinite
<1>. QED
  BY <1>2, <1>3, <1>4 DEF TypeInv

\* The steps of the world outside leave the tables and the tick alone.
LEMMA TypeOutside ==
    ASSUME TypeInv, Arrive \/ TimePasses
    PROVE  TypeInv'
<1>1. /\ MaxTime \in Nat /\ clock \in 0..MaxTime /\ moves \in 0..MoveBound
      /\ MoveBound \in Nat /\ ManualKey \subseteq Nat
  BY CronAssumption, TriggersAssumption DEF TypeInv, TriggersTypeOK
<1>2. UNCHANGED <<tables, proc, crashes>>
  BY DEF Arrive, AppendFact, MoveHead, RequestFire, TimePasses
<1>3. clock' \in 0..MaxTime
  BY <1>1 DEF Arrive, AppendFact, MoveHead, RequestFire, TimePasses
<1>4. facts' \in Seq([FactTrigger -> Sight])
  <2>1. facts \in Seq([FactTrigger -> Sight])
    BY DEF TypeInv, TriggersTypeOK
  <2>2. facts' = facts \/ \E sight \in [FactTrigger -> Sight] : facts' = Append(facts, sight)
    BY DEF Arrive, AppendFact, MoveHead, RequestFire, TimePasses, outside
  <2>. QED
    BY <2>1, <2>2, AppendProperties
<1>5. head' \in Fingerprint /\ moves' \in 0..MoveBound
  BY <1>1 DEF TypeInv, TriggersTypeOK, Arrive, AppendFact, MoveHead, RequestFire, TimePasses, outside
<1>6. /\ pending' \in [ManualTrigger -> SUBSET [key : ManualKey, at : 0..MaxTime]]
      /\ \A t \in ManualTrigger : IsFiniteSet(pending'[t])
  <2>1. /\ pending \in [ManualTrigger -> SUBSET [key : ManualKey, at : 0..MaxTime]]
        /\ \A t \in ManualTrigger : IsFiniteSet(pending[t])
    BY DEF TypeInv, TriggersTypeOK, PendingIsFinite
  <2>2. CASE \E t \in ManualTrigger, k \in ManualKey : RequestFire(t, k)
    <3>1. PICK t \in ManualTrigger, k \in ManualKey : RequestFire(t, k)
      BY <2>2
    <3>2. pending' = [pending EXCEPT ![t] = pending[t] \cup {[key |-> k, at |-> clock]}]
      BY <3>1 DEF RequestFire
    <3>3. IsFiniteSet(pending[t] \cup {[key |-> k, at |-> clock]})
      BY <2>1, FS_AddElement
    <3>4. \A u \in ManualTrigger : IsFiniteSet(pending'[u])
      BY <2>1, <3>2, <3>3
    <3>. QED
      BY <1>1, <2>1, <3>2, <3>4
  <2>3. CASE pending' = pending
    BY <2>1, <2>3
  <2>. QED
    BY <2>2, <2>3 DEF Arrive, AppendFact, MoveHead, TimePasses, outside
<1>8. TriggersTypeOK'
  BY <1>2, <1>3, <1>4, <1>5, <1>6 DEF TypeInv, TriggersTypeOK, tables
<1>. QED
  BY <1>2, <1>6, <1>8 DEF TypeInv, CursorsInTime, PendingIsFinite, tables

\* A step of the tick is typed when what it leaves in proc and in the tables is.
LEMMA TypeOfTick ==
    ASSUME TypeInv, UNCHANGED <<clock, outside>>, crashes' \in 0..CrashBound,
           proc' \in [step  : {"idle", "reading", "firing", "saving"},
                      now   : 0..MaxTime, todo : SUBSET Trigger, cur : SUBSET Trigger,
                      keys  : SUBSET Occurrence, fired : 0..(Limit - 1)],
           firings' \in [Trigger -> SUBSET [key : Key, at : 0..MaxTime]],
           cursor' \in [Trigger -> Cursor \cup {NoCursor}],
           effects' \in [Trigger -> Seq(Key)],
           CursorsInTime'
    PROVE  TypeInv'
BY DEF TypeInv, TriggersTypeOK, PendingIsFinite, outside

LEMMA TypeDispatch ==
    ASSUME TypeInv, Dispatch \/ Crash
    PROVE  TypeInv'
<1>1. /\ MaxTime \in Nat /\ Limit \in Nat \ {0} /\ CrashBound \in Nat /\ crashes \in 0..CrashBound
      /\ clock \in 0..MaxTime
      /\ proc \in [step  : {"idle", "reading", "firing", "saving"},
                   now   : 0..MaxTime, todo : SUBSET Trigger, cur : SUBSET Trigger,
                   keys  : SUBSET Occurrence, fired : 0..(Limit - 1)]
      /\ firings \in [Trigger -> SUBSET [key : Key, at : 0..MaxTime]]
      /\ cursor \in [Trigger -> Cursor \cup {NoCursor}]
      /\ effects \in [Trigger -> Seq(Key)]
  BY CronAssumption, TriggersAssumption DEF TypeInv, TriggersTypeOK
<1>2. CursorsInTime
  BY DEF TypeInv
<1>3. ASSUME UNCHANGED <<clock, outside>>, UNCHANGED tables, crashes' \in 0..CrashBound,
             NEW now \in 0..MaxTime, proc' = Idle(now)
      PROVE  TypeInv'
  <2>1. CursorsInTime'
    BY <1>1, <1>2, <1>3 DEF CursorsInTime, Idle, tables
  <2>. QED
    BY <1>1, <1>3, <2>1, TypeOfTick DEF Idle, tables
<1>4. CASE BeginTick
  <2>1. CursorsInTime'
    BY <1>1, <1>2, <1>4 DEF BeginTick, Become, CursorsInTime, Idle, tables
  <2>2. proc' = [step |-> "reading", now |-> clock, todo |-> Trigger, cur |-> {}, keys |-> {},
                 fired |-> 0]
    BY <1>4 DEF BeginTick, Become, Idle
  <2>3. UNCHANGED <<clock, outside, crashes>> /\ UNCHANGED tables
    BY <1>4 DEF BeginTick, Become
  <2>. QED
    BY <1>1, <2>1, <2>2, <2>3, TypeOfTick DEF tables
<1>5. CASE EndTick
  BY <1>1, <1>3, <1>5 DEF EndTick, Become
<1>6. CASE NextTrigger
  <2>1. CursorsInTime'
    BY <1>1, <1>2, <1>6 DEF NextTrigger, Become, CursorsInTime, tables
  <2>. QED
    BY <1>1, <1>6, <2>1, TypeOfTick DEF NextTrigger, Become, tables
<1>7. CASE Crash
  BY <1>1, <1>3, <1>7 DEF Crash
<1>8. ASSUME NEW t \in Trigger, ReadTrigger(t)
      PROVE  TypeInv'
  <2>1. /\ Occurrences(t) \in SUBSET Occurrence
        /\ t \in CronTrigger => \A o \in Occurrences(t) : o.key.at <= MaxTime
    BY OccurrencesTyped
  <2>2. /\ proc' = [proc EXCEPT !.step = "firing", !.todo = @ \ {t}, !.cur = {t},
                                !.keys = Occurrences(t)]
        /\ UNCHANGED <<tables, clock, outside, crashes>>
    BY <1>8 DEF ReadTrigger, Become
  <2>3. CursorsInTime'
    BY <1>1, <1>2, <2>1, <2>2 DEF CursorsInTime, tables
  <2>. QED
    BY <1>1, <2>1, <2>2, <2>3, TypeOfTick DEF tables
<1>9. ASSUME NEW t \in Trigger, RaiseInSource(t)
      PROVE  TypeInv'
  BY <1>1, <1>3, <1>9 DEF RaiseInSource, Become
<1>10. ASSUME NEW t \in Trigger, NEW o \in proc.keys, SkipTo(t, o) \/ SaveCursor(t, o)
       PROVE  TypeInv'
  <2>1. o \in Occurrence /\ t \in proc.cur /\ o.key \in Key /\ o.fire \in BOOLEAN
    BY <1>1, <1>10 DEF SkipTo, SaveCursor, Handling, Occurrence
  <2>2. /\ cursor' = [cursor EXCEPT ![t] = [key |-> o.key, fire |-> o.fire]]
        /\ UNCHANGED <<firings, effects, clock, outside, crashes>>
    BY <1>10 DEF SkipTo, SaveCursor, SetCursor, Become
  <2>3. cursor' \in [Trigger -> Cursor \cup {NoCursor}]
    BY <1>1, <2>1, <2>2 DEF Cursor
  <2>4. \/ proc' = Idle(proc.now)
        \/ proc' = [proc EXCEPT !.keys = @ \ {o}]
        \/ proc.fired + 1 < Limit
           /\ proc' = [proc EXCEPT !.step = "firing", !.keys = @ \ {o}, !.fired = @ + 1]
    BY <1>1, <1>10 DEF SkipTo, SaveCursor, Become
  <2>5. /\ proc' \in [step  : {"idle", "reading", "firing", "saving"},
                      now   : 0..MaxTime, todo : SUBSET Trigger, cur : SUBSET Trigger,
                      keys  : SUBSET Occurrence, fired : 0..(Limit - 1)]
        /\ proc'.keys \subseteq proc.keys /\ proc'.cur \subseteq proc.cur
    <3>1. CASE proc' = Idle(proc.now)
      BY <1>1, <3>1 DEF Idle
    <3>2. CASE proc' = [proc EXCEPT !.keys = @ \ {o}]
      BY <1>1, <3>2
    <3>3. CASE /\ proc.fired + 1 < Limit
               /\ proc' = [proc EXCEPT !.step = "firing", !.keys = @ \ {o}, !.fired = @ + 1]
      <4>1. proc.fired + 1 \in 0..(Limit - 1) /\ proc.keys \ {o} \in SUBSET Occurrence
        BY <1>1, <3>3
      <4>. QED
        BY <1>1, <3>3, <4>1
    <3>. QED
      BY <2>4, <3>1, <3>2, <3>3
  <2>7. CursorsInTime'
    BY <1>1, <1>2, <2>1, <2>2, <2>5 DEF CursorsInTime, Trigger
  <2>. QED
    BY <1>1, <2>2, <2>3, <2>5, <2>7, TypeOfTick
<1>11. ASSUME NEW t \in Trigger, NEW o \in proc.keys, Absorb(t, o)
       PROVE  TypeInv'
  <2>1. CursorsInTime'
    BY <1>1, <1>2, <1>11 DEF Absorb, Become, CursorsInTime, tables
  <2>. QED
    BY <1>1, <1>11, <2>1, TypeOfTick DEF Absorb, Become, tables
<1>12. ASSUME NEW t \in Trigger, NEW o \in proc.keys, FireTarget(t, o)
       PROVE  TypeInv'
  <2>1. o.key \in Key
    BY <1>1 DEF Occurrence
  <2>2. /\ effects' = [effects EXCEPT ![t] = Append(@, o.key)]
        /\ firings' = [firings EXCEPT ![t] = @ \cup {[key |-> o.key, at |-> proc.now]}]
        /\ proc' = [proc EXCEPT !.step = "saving"]
        /\ UNCHANGED <<cursor, clock, outside, crashes>>
    BY <1>12 DEF FireTarget, Become
  <2>3. CursorsInTime'
    BY <1>1, <1>2, <2>2 DEF CursorsInTime
  <2>4. effects' \in [Trigger -> Seq(Key)]
    BY <1>1, <2>1, <2>2, AppendProperties
  <2>5. firings' \in [Trigger -> SUBSET [key : Key, at : 0..MaxTime]]
    BY <1>1, <2>1, <2>2
  <2>6. proc' \in [step  : {"idle", "reading", "firing", "saving"},
                   now   : 0..MaxTime, todo : SUBSET Trigger, cur : SUBSET Trigger,
                   keys  : SUBSET Occurrence, fired : 0..(Limit - 1)]
    BY <1>1, <2>2
  <2>. QED
    BY <1>1, <2>2, <2>3, <2>4, <2>5, <2>6, TypeOfTick
<1>13. ASSUME NEW t \in Trigger, NEW o \in proc.keys, RaiseInTarget(t, o)
       PROVE  TypeInv'
  BY <1>1, <1>3, <1>13 DEF RaiseInTarget, Become
<1>. QED
  BY <1>4, <1>5, <1>6, <1>7, <1>8, <1>9, <1>10, <1>11, <1>12, <1>13 DEF Dispatch, TriggerStep

LEMMA TypeStep == TypeInv /\ [Next]_vars => TypeInv'
<1>1. ASSUME TypeInv, UNCHANGED vars
      PROVE  TypeInv'
  BY <1>1 DEF TypeInv, TriggersTypeOK, CursorsInTime, PendingIsFinite, vars, outside, tables
<1>. QED
  BY <1>1, TypeOutside, TypeDispatch DEF Next

LEMMA TypeAlways == Spec => []TypeInv
BY TypeInit, TypeStep, PTL DEF Spec

\* Rows, cursors, the variables of a tick and the history keep their types: no
\* tick fires more than its limit, and a cron trigger never gets a cursor that
\* is no instant of the clock, whatever gap the zone has.
THEOREM TriggersTypeCorrect == Spec => []TriggersTypeOK
<1>1. TypeInv => TriggersTypeOK
  BY DEF TypeInv
<1>. QED
  BY <1>1, TypeAlways, PTL

-----------------------------------------------------------------------------
(***************************************************************************)
(* What a step does to the tables                                          *)
(***************************************************************************)

Fired(t, o) == t \in Trigger /\ o \in proc.keys /\ FireTarget(t, o)

CursorMoved(t, o) ==
    t \in Trigger /\ o \in proc.keys /\ (SkipTo(t, o) \/ SaveCursor(t, o))

\* Only a firing writes firings and effects, only a skip or a save a cursor.
LEMMA StepOfTables ==
    ASSUME [Next]_vars
    PROVE  /\ \/ UNCHANGED <<firings, effects>>
              \/ \E t, o : Fired(t, o)
           /\ \/ UNCHANGED cursor
              \/ \E t, o : CursorMoved(t, o)
<1>1. CASE UNCHANGED vars \/ Arrive \/ TimePasses \/ Crash
  BY <1>1 DEF vars, tables, Arrive, AppendFact, MoveHead, RequestFire, TimePasses, Crash
<1>2. CASE BeginTick \/ EndTick \/ NextTrigger
  BY <1>2 DEF BeginTick, EndTick, NextTrigger, tables
<1>3. ASSUME NEW t \in Trigger, TriggerStep(t)
      PROVE  /\ \/ UNCHANGED <<firings, effects>>
                \/ \E u, o : Fired(u, o)
             /\ \/ UNCHANGED cursor
                \/ \E u, o : CursorMoved(u, o)
  <2>1. CASE ReadTrigger(t) \/ RaiseInSource(t)
    BY <2>1 DEF ReadTrigger, RaiseInSource, tables
  <2>2. ASSUME NEW o \in proc.keys, Absorb(t, o) \/ RaiseInTarget(t, o)
        PROVE  UNCHANGED tables
    BY <2>2 DEF Absorb, RaiseInTarget
  <2>3. ASSUME NEW o \in proc.keys, SkipTo(t, o) \/ SaveCursor(t, o)
        PROVE  UNCHANGED <<firings, effects>> /\ CursorMoved(t, o)
    BY <2>3 DEF SkipTo, SaveCursor, CursorMoved
  <2>4. ASSUME NEW o \in proc.keys, FireTarget(t, o)
        PROVE  UNCHANGED cursor /\ Fired(t, o)
    BY <2>4 DEF FireTarget, Fired
  <2>. QED
    BY <1>3, <2>1, <2>2, <2>3, <2>4 DEF TriggerStep, tables
<1>. QED
  BY <1>1, <1>2, <1>3 DEF Next, Dispatch

LEMMA FiredTables ==
    ASSUME TypeInv, NEW t, NEW o, Fired(t, o)
    PROVE  /\ t \in Trigger /\ o \in Occurrence /\ o.key \in Key
           /\ o.key \notin FiredKeys(t) /\ ~ Recent(t)
           /\ firings' \in [Trigger -> SUBSET [key : Key, at : 0..MaxTime]]
           /\ firings'[t] = firings[t] \cup {[key |-> o.key, at |-> proc.now]}
           /\ \A u \in Trigger : u # t => firings'[u] = firings[u]
           /\ effects'[t] = Append(effects[t], o.key)
           /\ \A u \in Trigger : u # t => effects'[u] = effects[u]
           /\ proc' = [proc EXCEPT !.step = "saving"]
           /\ UNCHANGED <<clock, outside, cursor>>
<1>1. t \in Trigger /\ o \in proc.keys /\ FireTarget(t, o)
  BY DEF Fired
<1>2. o \in Occurrence
  BY <1>1 DEF TypeInv, TriggersTypeOK
<1>3. o.key \in Key /\ proc.now \in 0..MaxTime
  BY <1>2 DEF Occurrence, TypeInv, TriggersTypeOK
<1>4. /\ firings \in [Trigger -> SUBSET [key : Key, at : 0..MaxTime]]
      /\ effects \in [Trigger -> Seq(Key)]
  BY DEF TypeInv, TriggersTypeOK
<1>5. /\ effects' = [effects EXCEPT ![t] = Append(@, o.key)]
      /\ firings' = [firings EXCEPT ![t] = @ \cup {[key |-> o.key, at |-> proc.now]}]
      /\ proc' = [proc EXCEPT !.step = "saving"]
      /\ UNCHANGED <<clock, outside, cursor>>
  BY <1>1 DEF FireTarget, Become
<1>6. o.key \notin FiredKeys(t) /\ ~ Recent(t)
  BY <1>1 DEF FireTarget, ReachesTarget, Recorded
<1>. QED
  BY <1>1, <1>2, <1>3, <1>4, <1>5, <1>6

-----------------------------------------------------------------------------
(***************************************************************************)
(* One effect for each occurrence                                          *)
(***************************************************************************)

LEMMA EffectInit == TriggersInit => OneEffectPerOccurrence
BY DEF TriggersInit, OneEffectPerOccurrence, FiredKeys

LEMMA EffectStep == TypeInv /\ OneEffectPerOccurrence /\ [Next]_vars => OneEffectPerOccurrence'
<1> SUFFICES ASSUME TypeInv, OneEffectPerOccurrence, [Next]_vars
             PROVE  OneEffectPerOccurrence'
  OBVIOUS
<1>1. CASE UNCHANGED <<firings, effects>>
  BY <1>1 DEF OneEffectPerOccurrence, FiredKeys
<1>2. ASSUME NEW t, NEW o, Fired(t, o)
      PROVE  OneEffectPerOccurrence'
  <2>1. /\ t \in Trigger /\ o.key \in Key /\ o.key \notin FiredKeys(t)
        /\ firings'[t] = firings[t] \cup {[key |-> o.key, at |-> proc.now]}
        /\ \A u \in Trigger : u # t => firings'[u] = firings[u] /\ effects'[u] = effects[u]
        /\ effects'[t] = Append(effects[t], o.key)
    BY <1>2, FiredTables
  <2>2. effects[t] \in Seq(Key)
    BY <2>1 DEF TypeInv, TriggersTypeOK
  <2>3. /\ DOMAIN effects'[t] = 1..(Len(effects[t]) + 1) /\ Len(effects[t]) \in Nat
        /\ DOMAIN effects[t] = 1..Len(effects[t])
        /\ \A i \in DOMAIN effects[t] : effects'[t][i] = effects[t][i]
        /\ effects'[t][Len(effects[t]) + 1] = o.key
    BY <2>1, <2>2, AppendProperties
  <2>4. FiredKeys(t)' = FiredKeys(t) \cup {o.key}
    <3>1. [key |-> o.key, at |-> proc.now].key = o.key
      OBVIOUS
    <3>2. FiredKeys(t)' = {f.key : f \in firings'[t]}
      BY DEF FiredKeys
    <3>. QED
      BY <2>1, <3>1, <3>2, Zenon DEF FiredKeys
  <2>5. \A i \in DOMAIN effects[t] : effects[t][i] \in FiredKeys(t)
    BY <2>1 DEF OneEffectPerOccurrence
  <2>6. {effects'[t][i] : i \in DOMAIN effects'[t]} = FiredKeys(t)'
    <3>1. FiredKeys(t) = {effects[t][i] : i \in DOMAIN effects[t]}
      BY <2>1 DEF OneEffectPerOccurrence
    <3>2. \A i \in DOMAIN effects'[t] : i \in DOMAIN effects[t] \/ i = Len(effects[t]) + 1
      BY <2>3
    <3>3. /\ \A i \in DOMAIN effects[t] : i \in DOMAIN effects'[t]
          /\ Len(effects[t]) + 1 \in DOMAIN effects'[t]
      BY <2>3
    <3>. QED
      BY <2>3, <2>4, <3>1, <3>2, <3>3
  <2>7. \A i, j \in DOMAIN effects'[t] : effects'[t][i] = effects'[t][j] => i = j
    <3>1. \A i, j \in DOMAIN effects[t] : effects[t][i] = effects[t][j] => i = j
      BY <2>1 DEF OneEffectPerOccurrence
    <3>2. \A i \in DOMAIN effects[t] : effects'[t][i] # o.key
      BY <2>1, <2>3, <2>5
    <3>3. \A i \in DOMAIN effects'[t] : i \in DOMAIN effects[t] \/ i = Len(effects[t]) + 1
      BY <2>3
    <3>. QED
      BY <2>3, <3>1, <3>2, <3>3
  <2>8. \A f, g \in firings'[t] : f.key = g.key => f = g
    <3>1. \A f, g \in firings[t] : f.key = g.key => f = g
      BY <2>1 DEF OneEffectPerOccurrence
    <3>2. \A f \in firings[t] : f.key # o.key
      BY <2>1 DEF FiredKeys
    <3>. QED
      BY <2>1, <3>1, <3>2
  <2>9. ASSUME NEW u \in Trigger, u # t
        PROVE  /\ {effects'[u][i] : i \in DOMAIN effects'[u]} = FiredKeys(u)'
               /\ \A i, j \in DOMAIN effects'[u] : effects'[u][i] = effects'[u][j] => i = j
               /\ \A f, g \in firings'[u] : f.key = g.key => f = g
    <3>1. firings'[u] = firings[u] /\ effects'[u] = effects[u]
      BY <2>1, <2>9
    <3>2. FiredKeys(u)' = FiredKeys(u)
      BY <3>1 DEF FiredKeys
    <3>. QED
      BY <3>1, <3>2 DEF OneEffectPerOccurrence
  <2>. QED
    BY <2>6, <2>7, <2>8, <2>9 DEF OneEffectPerOccurrence
<1>. QED
  BY <1>1, <1>2, StepOfTables

\* An occurrence starts or signals its target once: firing and effect are one
\* transaction of fire_trigger, so that a tick that dies before it saves the
\* cursor finds the firing when it meets the occurrence again.
THEOREM EffectsHappenOnce == Spec => []OneEffectPerOccurrence
BY TypeAlways, EffectInit, EffectStep, PTL DEF Spec

-----------------------------------------------------------------------------
(***************************************************************************)
(* The dedup window                                                        *)
(***************************************************************************)

\* No firing is dated after the tick, no tick after the clock.
DatesInOrder ==
    /\ proc.now <= clock
    /\ \A t \in Trigger : \A f \in firings[t] : f.at <= proc.now

LEMMA ClockOfStep ==
    ASSUME TypeInv, [Next]_vars
    PROVE  /\ clock \in Nat /\ clock' \in Nat /\ clock <= clock'
           /\ proc.now \in Nat
           /\ proc'.now = proc.now \/ proc'.now = clock
<1>1. clock \in 0..MaxTime /\ proc.now \in 0..MaxTime /\ MaxTime \in Nat
  BY CronAssumption DEF TypeInv, TriggersTypeOK
<1>2. clock' = clock \/ clock' = clock + 1
  BY DEF Next, vars, Arrive, AppendFact, MoveHead, RequestFire, Dispatch, TriggerStep, Become,
         BeginTick, EndTick, NextTrigger, ReadTrigger, RaiseInSource, SkipTo, Absorb, FireTarget,
         RaiseInTarget, SaveCursor, Crash, TimePasses
<1>3. proc'.now = proc.now \/ proc'.now = clock
  <2>1. proc \in [step  : {"idle", "reading", "firing", "saving"},
                  now   : 0..MaxTime, todo : SUBSET Trigger, cur : SUBSET Trigger,
                  keys  : SUBSET Occurrence, fired : 0..(Limit - 1)]
    BY DEF TypeInv, TriggersTypeOK
  <2>2. CASE UNCHANGED vars \/ Arrive \/ TimePasses
    BY <2>2 DEF vars, Arrive, AppendFact, MoveHead, RequestFire, TimePasses
  <2>3. CASE BeginTick \/ EndTick \/ NextTrigger \/ Crash
    <3>1. CASE BeginTick
      BY <3>1 DEF BeginTick, Become, Idle
    <3>2. CASE NextTrigger
      BY <2>1, <3>2 DEF NextTrigger, Become
    <3>3. CASE EndTick \/ Crash
      BY <3>3 DEF EndTick, Crash, Become, Idle
    <3>. QED
      BY <2>3, <3>1, <3>2, <3>3
  <2>4. ASSUME NEW t \in Trigger, ReadTrigger(t) \/ RaiseInSource(t)
        PROVE  proc'.now = proc.now
    <3>1. CASE ReadTrigger(t)
      <4>1. proc' = [proc EXCEPT !.step = "firing", !.todo = @ \ {t}, !.cur = {t},
                                 !.keys = Occurrences(t)]
        BY <3>1 DEF ReadTrigger, Become
      <4>. QED
        BY <2>1, <4>1
    <3>2. CASE RaiseInSource(t)
      BY <3>2 DEF RaiseInSource, Become, Idle
    <3>. QED
      BY <2>4, <3>1, <3>2
  <2>5. ASSUME NEW t \in Trigger, NEW o \in proc.keys, SkipTo(t, o) \/ Absorb(t, o)
        PROVE  proc'.now = proc.now
    BY <2>1, <2>5 DEF SkipTo, Absorb, Become
  <2>6. ASSUME NEW t \in Trigger, NEW o \in proc.keys, FireTarget(t, o) \/ RaiseInTarget(t, o)
        PROVE  proc'.now = proc.now
    BY <2>1, <2>6 DEF FireTarget, RaiseInTarget, Become, Idle
  <2>7. ASSUME NEW t \in Trigger, NEW o \in proc.keys, SaveCursor(t, o)
        PROVE  proc'.now = proc.now
    BY <2>1, <2>7 DEF SaveCursor, Become, Idle
  <2>. QED
    BY <2>2, <2>3, <2>4, <2>5, <2>6, <2>7 DEF Next, Dispatch, TriggerStep
<1>. QED
  BY <1>1, <1>2, <1>3

LEMMA DatesInit == TriggersInit => DatesInOrder /\ FiringsKeepApart
BY DEF TriggersInit, DatesInOrder, FiringsKeepApart, Idle

LEMMA DatesStep ==
    TypeInv /\ DatesInOrder /\ FiringsKeepApart /\ [Next]_vars
        => DatesInOrder' /\ FiringsKeepApart'
<1> SUFFICES ASSUME TypeInv, DatesInOrder, FiringsKeepApart, [Next]_vars
             PROVE  DatesInOrder' /\ FiringsKeepApart'
  OBVIOUS
<1>1. /\ clock \in Nat /\ clock' \in Nat /\ clock <= clock' /\ proc.now \in Nat
      /\ proc'.now = proc.now \/ proc'.now = clock
      /\ proc.now <= clock
  BY ClockOfStep DEF DatesInOrder
<1>2. \A t \in Trigger : \A f \in firings[t] : f.at \in Nat /\ f.at <= proc.now
  <2>1. firings \in [Trigger -> SUBSET [key : Key, at : 0..MaxTime]]
    BY DEF TypeInv, TriggersTypeOK
  <2>. QED
    BY <2>1 DEF DatesInOrder
<1>3. CASE UNCHANGED firings
  BY <1>1, <1>2, <1>3 DEF DatesInOrder, FiringsKeepApart
<1>4. ASSUME NEW t, NEW o, Fired(t, o)
      PROVE  DatesInOrder' /\ FiringsKeepApart'
  <2> DEFINE new == [key |-> o.key, at |-> proc.now]
  <2>1. /\ t \in Trigger /\ ~ Recent(t)
        /\ firings'[t] = firings[t] \cup {new}
        /\ \A u \in Trigger : u # t => firings'[u] = firings[u]
        /\ proc'.now = proc.now
    <3>1. proc' = [proc EXCEPT !.step = "saving"]
      BY <1>4, FiredTables
    <3>2. proc'.now = proc.now
      BY <3>1 DEF TypeInv, TriggersTypeOK
    <3>. QED
      BY <1>4, <3>2, FiredTables
  <2>2. new.at = proc.now
    OBVIOUS
  <2> HIDE DEF new
  <2>3. Window[t] \in Nat
    BY <2>1, TriggersAssumption
  <2>4. \A f \in firings[t] : Window[t] = 0 \/ new.at - f.at >= Window[t]
    BY <1>1, <1>2, <2>1, <2>2, <2>3 DEF Recent
  <2>5. DatesInOrder'
    BY <1>1, <1>2, <2>1, <2>2 DEF DatesInOrder
  <2>6. FiringsKeepApart'
    BY <2>1, <2>4 DEF FiringsKeepApart
  <2>. QED
    BY <2>5, <2>6
<1>. QED
  BY <1>3, <1>4, StepOfTables

\* Two firings of a trigger are a dedup window apart, also when a tick was begun
\* long before it fires.
THEOREM FiringsStayApart == Spec => []FiringsKeepApart
BY TypeAlways, DatesInit, DatesStep, PTL DEF Spec

-----------------------------------------------------------------------------
(***************************************************************************)
(* Facts and the cursor                                                    *)
(***************************************************************************)

ProcType == [step  : {"idle", "reading", "firing", "saving"},
             now   : 0..MaxTime, todo : SUBSET Trigger, cur : SUBSET Trigger,
             keys  : SUBSET Occurrence, fired : 0..(Limit - 1)]

OneVisited == \A s, t \in proc.cur : s = t

FactKey(t, i) == [rank |-> i, key |-> At(i), fire |-> facts[i][t] = "match"]

Relevant(t) == {i \in DOMAIN facts : facts[i][t] # "other kind"}

\* The occurrences of a visit lie ahead of the cursor and leave no gap.
KeysInOrder(t) ==
    t \in proc.cur =>
        /\ \A o \in proc.keys : \E i \in Relevant(t) : o = FactKey(t, i) /\ cursor[t].key.at < i
        /\ \A i, j \in Relevant(t) :
              FactKey(t, j) \in proc.keys /\ cursor[t].key.at < i /\ i < j
                  => FactKey(t, i) \in proc.keys

\* What has fired is behind the cursor, or the next that will be read.
FiringsInOrder(t) ==
    \A f \in firings[t] : \E j \in Relevant(t) :
        /\ f.key = At(j)
        /\ \A i \in Relevant(t) : cursor[t].key.at < i => j <= i

Settled(t, i) ==
    \/ At(i) \in FiredKeys(t)
    \/ Window[t] # 0 /\ \E f \in firings[t] : f.key.at < i

SavingSettled(t) ==
    (t \in proc.cur /\ proc.step = "saving") =>
        \A i \in Relevant(t) :
            FactKey(t, i) \in proc.keys /\ (\A p \in proc.keys : i <= p.rank) => Settled(t, i)

PassedSettled(t) ==
    \A i \in DOMAIN facts :
        facts[i][t] = "match" /\ i <= cursor[t].key.at => Settled(t, i)

FactsHold(t) ==
    /\ cursor[t].key.at <= Len(facts)
    /\ KeysInOrder(t)
    /\ FiringsInOrder(t)
    /\ SavingSettled(t)
    /\ PassedSettled(t)

FactsInv == OneVisited /\ \A t \in FactTrigger : FactsHold(t)

LEMMA FactsTyped ==
    ASSUME TypeInv, NEW t \in FactTrigger
    PROVE  /\ t \in Trigger
           /\ DOMAIN facts = 1..Len(facts) /\ Len(facts) \in Nat
           /\ Relevant(t) \subseteq Nat /\ Relevant(t) \in SUBSET (1..Len(facts))
           /\ cursor[t].key.at \in Int
           /\ proc \in ProcType
<1>1. cursor[t] \in Cursor \cup {NoCursor}
  BY DEF TypeInv, TriggersTypeOK, Trigger
<1>2. cursor[t].key.at \in Int
  BY <1>1 DEF Cursor, Key, NoCursor
<1>3. facts \in Seq([FactTrigger -> Sight]) /\ proc \in ProcType
  BY DEF TypeInv, TriggersTypeOK, ProcType
<1>4. DOMAIN facts = 1..Len(facts) /\ Len(facts) \in Nat
  BY <1>3
<1>5. Relevant(t) \in SUBSET (1..Len(facts)) /\ Relevant(t) \subseteq Nat
  <2>1. Relevant(t) \subseteq DOMAIN facts
    BY DEF Relevant
  <2>2. 1..Len(facts) \subseteq Nat
    OBVIOUS
  <2>. QED
    BY <1>4, <2>1, <2>2
<1>. QED
  BY <1>2, <1>3, <1>4, <1>5 DEF Trigger

LEMMA FactsInit == TriggersInit => FactsInv
BY DEF TriggersInit, FactsInv, OneVisited, FactsHold, KeysInOrder, FiringsInOrder, SavingSettled,
       PassedSettled, NoCursor, Idle, Trigger, Relevant

LEMMA OneVisitedStep ==
    ASSUME TypeInv, OneVisited, [Next]_vars
    PROVE  OneVisited'
<1>1. proc \in ProcType
  BY DEF TypeInv, TriggersTypeOK, ProcType
<1>2. \/ proc'.cur \subseteq proc.cur
      \/ \E t \in Trigger : proc'.cur = {t}
  <2>1. CASE UNCHANGED vars \/ Arrive \/ TimePasses
    BY <2>1 DEF vars, Arrive, AppendFact, MoveHead, RequestFire, TimePasses
  <2>2. CASE BeginTick
    BY <2>2 DEF BeginTick, Become, Idle
  <2>3. CASE EndTick \/ Crash
    BY <2>3 DEF EndTick, Crash, Become, Idle
  <2>4. CASE NextTrigger
    BY <1>1, <2>4 DEF NextTrigger, Become, ProcType
  <2>5. ASSUME NEW t \in Trigger, ReadTrigger(t)
        PROVE  proc'.cur = {t}
    <3>1. proc' = [proc EXCEPT !.step = "firing", !.todo = @ \ {t}, !.cur = {t},
                               !.keys = Occurrences(t)]
      BY <2>5 DEF ReadTrigger, Become
    <3>. QED
      BY <1>1, <3>1 DEF ProcType
  <2>6. ASSUME NEW t \in Trigger, RaiseInSource(t)
        PROVE  proc'.cur = {}
    BY <2>6 DEF RaiseInSource, Become, Idle
  <2>7. ASSUME NEW t \in Trigger, NEW o \in proc.keys, SkipTo(t, o) \/ Absorb(t, o)
        PROVE  proc'.cur = proc.cur
    BY <1>1, <2>7 DEF SkipTo, Absorb, Become, ProcType
  <2>8. ASSUME NEW t \in Trigger, NEW o \in proc.keys, FireTarget(t, o) \/ RaiseInTarget(t, o)
        PROVE  proc'.cur \subseteq proc.cur
    BY <1>1, <2>8 DEF FireTarget, RaiseInTarget, Become, Idle, ProcType
  <2>9. ASSUME NEW t \in Trigger, NEW o \in proc.keys, SaveCursor(t, o)
        PROVE  proc'.cur \subseteq proc.cur
    BY <1>1, <2>9 DEF SaveCursor, Become, Idle, ProcType
  <2>. QED
    BY <2>1, <2>2, <2>3, <2>4, <2>5, <2>6, <2>7, <2>8, <2>9 DEF Next, Dispatch, TriggerStep
<1>. QED
  BY <1>2 DEF OneVisited

\* The facts, the cursor and the firings of t stay, and so does what a visit of
\* t works on, unless there is none afterwards.
Quiet(t) ==
    /\ facts' = facts
    /\ cursor'[t] = cursor[t]
    /\ firings'[t] = firings[t]
    /\ \/ t \notin proc'.cur
       \/ /\ t \in proc.cur /\ proc'.keys = proc.keys
          /\ proc'.step = "saving" => proc.step = "saving"

LEMMA QuietKeepsFacts ==
    ASSUME NEW t \in FactTrigger, FactsHold(t), Quiet(t)
    PROVE  FactsHold(t)'
<1>1. /\ facts' = facts /\ cursor'[t] = cursor[t] /\ firings'[t] = firings[t]
      /\ Relevant(t)' = Relevant(t) /\ FiredKeys(t)' = FiredKeys(t)
      /\ \A i : FactKey(t, i)' = FactKey(t, i)
  BY DEF Quiet, Relevant, FiredKeys, FactKey
<1>2. \A i : Settled(t, i)' <=> Settled(t, i)
  BY <1>1 DEF Settled
<1>3. cursor'[t].key.at <= Len(facts')
  BY <1>1 DEF FactsHold
<1>4. KeysInOrder(t)'
  BY <1>1 DEF FactsHold, KeysInOrder, Quiet
<1>5. FiringsInOrder(t)'
  BY <1>1 DEF FactsHold, FiringsInOrder
<1>6. SavingSettled(t)'
  BY <1>1, <1>2 DEF FactsHold, SavingSettled, Quiet
<1>7. PassedSettled(t)'
  BY <1>1, <1>2 DEF FactsHold, PassedSettled
<1>. QED
  BY <1>3, <1>4, <1>5, <1>6, <1>7 DEF FactsHold

LEMMA AppendKeepsFacts ==
    ASSUME TypeInv, NEW t \in FactTrigger, FactsHold(t),
           NEW sight \in [FactTrigger -> Sight], AppendFact(sight)
    PROVE  FactsHold(t)'
<1>1. /\ facts \in Seq([FactTrigger -> Sight])
      /\ facts' = Append(facts, sight) /\ UNCHANGED <<cursor, firings, proc>>
  BY DEF TypeInv, TriggersTypeOK, AppendFact, tables
<1>2. /\ Len(facts) \in Nat /\ cursor[t].key.at \in Int
      /\ Relevant(t) \in SUBSET (1..Len(facts)) /\ DOMAIN facts = 1..Len(facts)
      /\ Relevant(t) \subseteq Nat
  BY FactsTyped
<1>3. /\ Len(facts') = Len(facts) + 1 /\ DOMAIN facts' = 1..(Len(facts) + 1)
      /\ \A i \in DOMAIN facts : facts'[i] = facts[i]
  BY <1>1, AppendProperties
<1>4. /\ cursor[t].key.at <= Len(facts) /\ KeysInOrder(t) /\ FiringsInOrder(t)
      /\ SavingSettled(t) /\ PassedSettled(t)
  BY DEF FactsHold
<1>5. /\ \A i \in Relevant(t) : i \in Relevant(t)' /\ FactKey(t, i)' = FactKey(t, i)
      /\ \A i \in Relevant(t)' : i \in Nat /\ (i \in Relevant(t) \/ i = Len(facts) + 1)
  <2>1. \A i \in DOMAIN facts : i \in DOMAIN facts' /\ i \in Nat
    BY <1>2, <1>3
  <2>2. \A i \in DOMAIN facts' : i \in Nat /\ (i \in DOMAIN facts \/ i = Len(facts) + 1)
    BY <1>2, <1>3
  <2>. QED
    BY <1>3, <2>1, <2>2 DEF Relevant, FactKey
<1>6. \A i : Settled(t, i)' <=> Settled(t, i)
  BY <1>1 DEF Settled, FiredKeys
<1>7. cursor'[t].key.at <= Len(facts')
  BY <1>1, <1>2, <1>3, <1>4
<1>8. ASSUME NEW i \in Relevant(t)', FactKey(t, i)' \in proc.keys, t \in proc.cur
      PROVE  i \in Relevant(t)
  <2>1. PICK k \in Relevant(t) : FactKey(t, i)' = FactKey(t, k)
    BY <1>4, <1>8 DEF KeysInOrder
  <2>2. FactKey(t, i)'.rank = i /\ FactKey(t, k).rank = k
    BY DEF FactKey
  <2>. QED
    BY <2>1, <2>2
<1>9. KeysInOrder(t)'
  <2>1. SUFFICES ASSUME t \in proc.cur
                 PROVE  /\ \A o \in proc.keys : \E i \in Relevant(t)' :
                              o = FactKey(t, i)' /\ cursor[t].key.at < i
                        /\ \A i, j \in Relevant(t)' :
                              FactKey(t, j)' \in proc.keys /\ cursor[t].key.at < i /\ i < j
                                  => FactKey(t, i)' \in proc.keys
    BY <1>1 DEF KeysInOrder
  <2>2. \A o \in proc.keys : \E i \in Relevant(t)' : o = FactKey(t, i)' /\ cursor[t].key.at < i
    BY <1>4, <1>5, <2>1 DEF KeysInOrder
  <2>3. ASSUME NEW i \in Relevant(t)', NEW j \in Relevant(t)',
               FactKey(t, j)' \in proc.keys, cursor[t].key.at < i, i < j
        PROVE  FactKey(t, i)' \in proc.keys
    <3>1. j \in Relevant(t)
      BY <1>8, <2>1, <2>3
    <3>2. i \in Relevant(t)
      BY <1>2, <1>5, <2>3, <3>1
    <3>. QED
      BY <1>4, <1>5, <2>1, <2>3, <3>1, <3>2 DEF KeysInOrder
  <2>. QED
    BY <2>2, <2>3
<1>10. FiringsInOrder(t)'
  <2>1. SUFFICES ASSUME NEW f \in firings[t]
                 PROVE  \E j \in Relevant(t)' :
                            /\ f.key = At(j)
                            /\ \A i \in Relevant(t)' : cursor[t].key.at < i => j <= i
    BY <1>1 DEF FiringsInOrder, At
  <2>2. PICK j \in Relevant(t) :
           /\ f.key = At(j)
           /\ \A i \in Relevant(t) : cursor[t].key.at < i => j <= i
    BY <1>4 DEF FiringsInOrder
  <2>3. \A i \in Relevant(t)' : cursor[t].key.at < i => j <= i
    BY <1>2, <1>5, <2>2
  <2>. QED
    BY <1>5, <2>2, <2>3
<1>11. SavingSettled(t)'
  BY <1>1, <1>4, <1>5, <1>6, <1>8 DEF SavingSettled
<1>12. PassedSettled(t)'
  <2>1. \A i \in DOMAIN facts' : i <= cursor[t].key.at => i \in DOMAIN facts
    BY <1>2, <1>3, <1>4
  <2>. QED
    BY <1>1, <1>3, <1>4, <1>6, <2>1 DEF PassedSettled
<1>. QED
  BY <1>7, <1>9, <1>10, <1>11, <1>12 DEF FactsHold

LEMMA ReadKeepsFacts ==
    ASSUME TypeInv, NEW t \in FactTrigger, FactsHold(t), ReadTrigger(t)
    PROVE  FactsHold(t)'
<1>1. /\ DOMAIN facts = 1..Len(facts) /\ Len(facts) \in Nat /\ cursor[t].key.at \in Int
      /\ proc \in ProcType /\ t \in Trigger /\ FactBatch \in Nat
  BY FactsTyped, TriggersAssumption
<1>2. /\ proc' = [proc EXCEPT !.step = "firing", !.todo = @ \ {t}, !.cur = {t},
                              !.keys = Occurrences(t)]
      /\ UNCHANGED <<facts, cursor, firings>>
  BY DEF ReadTrigger, Become, tables, outside
<1>3. proc'.keys = FactOccurrences(t) /\ proc'.step = "firing"
  BY <1>1, <1>2, OccurrencesTyped DEF ProcType
<1> DEFINE new == {i \in DOMAIN facts : i > cursor[t].key.at /\ facts[i][t] # "other kind"}
<1>4. FactOccurrences(t) = {FactKey(t, i) : i \in FirstOf(new, FactBatch)}
  BY DEF FactOccurrences, FactKey
<1>5. FirstOf(new, FactBatch) \subseteq new
  BY DEF FirstOf
<1>6. \A i \in new : i \in Relevant(t) /\ cursor[t].key.at < i
  BY <1>1 DEF Relevant
<1>7. KeysInOrder(t)'
  <2>1. \A i : FactKey(t, i)' = FactKey(t, i)
    BY <1>2 DEF FactKey
  <2>2. Relevant(t)' = Relevant(t)
    BY <1>2 DEF Relevant
  <2>3. \A o \in FactOccurrences(t) : \E i \in Relevant(t) : o = FactKey(t, i) /\ cursor[t].key.at < i
    BY <1>4, <1>5, <1>6
  <2>4. ASSUME NEW i \in Relevant(t), NEW j \in Relevant(t),
               FactKey(t, j) \in FactOccurrences(t), cursor[t].key.at < i, i < j
        PROVE  FactKey(t, i) \in FactOccurrences(t)
    <3>1. PICK k \in FirstOf(new, FactBatch) : FactKey(t, j) = FactKey(t, k)
      BY <1>4, <2>4
    <3>2. k = j
      BY <3>1 DEF FactKey
    <3>3. i \in new
      BY <1>1, <2>4 DEF Relevant
    <3>4. new \in SUBSET (1..Len(facts))
      BY <1>1
    <3> HIDE DEF new
    <3>5. i \in FirstOf(new, FactBatch)
      BY <1>1, <2>4, <3>1, <3>2, <3>3, <3>4, FirstOfIsPrefix
    <3>. QED
      BY <1>4, <3>5
  <2>. QED
    BY <1>2, <1>3, <2>1, <2>2, <2>3, <2>4 DEF KeysInOrder
<1>8. FiringsInOrder(t)'
  BY <1>2 DEF FactsHold, FiringsInOrder, Relevant
<1>9. SavingSettled(t)'
  BY <1>3 DEF SavingSettled
<1>10. PassedSettled(t)'
  BY <1>2 DEF FactsHold, PassedSettled, Settled, FiredKeys
<1>. QED
  BY <1>2, <1>7, <1>8, <1>9, <1>10 DEF FactsHold

\* The occurrence at hand is the first relevant fact after the cursor.
LEMMA HandledIsNext ==
    ASSUME TypeInv, NEW t \in FactTrigger, FactsHold(t), NEW o \in proc.keys, NEW step,
           Handling(t, o, step)
    PROVE  \E i \in Relevant(t) :
              /\ o = FactKey(t, i) /\ o.key = At(i) /\ o.key.at = i /\ o.rank = i
              /\ o.fire = (facts[i][t] = "match")
              /\ cursor[t].key.at < i
              /\ \A j \in Relevant(t) : cursor[t].key.at < j => i <= j
              /\ \A p \in proc.keys : i <= p.rank
              /\ t \in proc.cur /\ proc.step = step
<1>1. /\ t \in proc.cur /\ proc.step = step /\ \A p \in proc.keys : o.rank <= p.rank
      /\ KeysInOrder(t)
  BY DEF Handling, FactsHold
<1>2. PICK i \in Relevant(t) : o = FactKey(t, i) /\ cursor[t].key.at < i
  BY <1>1 DEF KeysInOrder
<1>3. /\ o.key = At(i) /\ o.key.at = i /\ o.rank = i /\ o.fire = (facts[i][t] = "match")
  BY <1>2 DEF FactKey, At
<1>4. Relevant(t) \subseteq Nat
  BY FactsTyped
<1>5. ASSUME NEW j \in Relevant(t), cursor[t].key.at < j, ~ (i <= j)
      PROVE  FALSE
  <2>1. FactKey(t, j) \in proc.keys
    BY <1>1, <1>2, <1>4, <1>5 DEF KeysInOrder
  <2>2. FactKey(t, j).rank = j
    BY DEF FactKey
  <2>. QED
    BY <1>1, <1>3, <1>4, <1>5, <2>1, <2>2
<1>. QED
  BY <1>1, <1>2, <1>3, <1>5

\* The cursor moves over the occurrence at hand: SkipTo and SaveCursor.
LEMMA CursorKeepsFacts ==
    ASSUME TypeInv, NEW t \in FactTrigger, FactsHold(t), NEW o \in proc.keys,
           SkipTo(t, o) \/ SaveCursor(t, o)
    PROVE  FactsHold(t)'
<1>1. /\ DOMAIN facts = 1..Len(facts) /\ Len(facts) \in Nat /\ cursor[t].key.at \in Int
      /\ proc \in ProcType /\ t \in Trigger /\ Relevant(t) \subseteq Nat
      /\ Relevant(t) \in SUBSET (1..Len(facts))
  BY FactsTyped
<1>2. PICK step : Handling(t, o, step)
  BY DEF SkipTo, SaveCursor
<1>3. PICK i \in Relevant(t) :
         /\ o = FactKey(t, i) /\ o.key = At(i) /\ o.key.at = i /\ o.rank = i
         /\ o.fire = (facts[i][t] = "match")
         /\ cursor[t].key.at < i
         /\ \A j \in Relevant(t) : cursor[t].key.at < j => i <= j
         /\ \A p \in proc.keys : i <= p.rank
         /\ t \in proc.cur /\ proc.step = step
  BY <1>2, HandledIsNext
<1>4. /\ UNCHANGED <<facts, firings>>
      /\ cursor' = [cursor EXCEPT ![t] = [key |-> o.key, fire |-> o.fire]]
  BY DEF SkipTo, SaveCursor, Become, SetCursor, outside
<1>5. cursor'[t].key.at = i
  BY <1>1, <1>3, <1>4 DEF TypeInv, TriggersTypeOK
<1>6. /\ Relevant(t)' = Relevant(t) /\ \A j : FactKey(t, j)' = FactKey(t, j)
      /\ \A j : Settled(t, j)' <=> Settled(t, j)
  BY <1>4 DEF Relevant, FactKey, Settled, FiredKeys
<1>7. /\ \/ proc'.cur = {}
         \/ proc'.cur = proc.cur /\ proc'.keys = proc.keys \ {o}
      /\ proc'.step # "saving"
  <2>1. CASE SkipTo(t, o)
    BY <1>1, <2>1 DEF SkipTo, Handling, Become, ProcType
  <2>2. CASE SaveCursor(t, o)
    BY <1>1, <2>2 DEF SaveCursor, Become, Idle, ProcType
  <2>. QED
    BY <2>1, <2>2
<1>8. cursor'[t].key.at <= Len(facts')
  BY <1>1, <1>3, <1>4, <1>5
<1>9. KeysInOrder(t)'
  <2>1. SUFFICES ASSUME proc'.keys = proc.keys \ {o}
                 PROVE  /\ \A p \in proc'.keys : \E j \in Relevant(t) : p = FactKey(t, j) /\ i < j
                        /\ \A j, k \in Relevant(t) :
                              FactKey(t, k) \in proc'.keys /\ i < j /\ j < k
                                  => FactKey(t, j) \in proc'.keys
    BY <1>5, <1>6, <1>7 DEF KeysInOrder
  <2>2. KeysInOrder(t)
    BY DEF FactsHold
  <2>3. ASSUME NEW p \in proc'.keys
        PROVE  \E j \in Relevant(t) : p = FactKey(t, j) /\ i < j
    <3>1. PICK j \in Relevant(t) : p = FactKey(t, j) /\ cursor[t].key.at < j
      BY <1>3, <2>1, <2>2, <2>3 DEF KeysInOrder
    <3>2. i # j
      BY <1>3, <2>1, <2>3, <3>1
    <3>3. i <= j
      BY <1>3, <3>1
    <3>. QED
      BY <1>1, <3>1, <3>2, <3>3
  <2>4. ASSUME NEW j \in Relevant(t), NEW k \in Relevant(t),
               FactKey(t, k) \in proc'.keys, i < j, j < k
        PROVE  FactKey(t, j) \in proc'.keys
    <3>1. cursor[t].key.at < j
      BY <1>1, <1>3, <2>4
    <3>2. FactKey(t, j) \in proc.keys
      BY <1>3, <2>1, <2>2, <2>4, <3>1 DEF KeysInOrder
    <3>3. FactKey(t, j).rank = j
      BY DEF FactKey
    <3>4. FactKey(t, j) # o
      BY <1>1, <1>3, <2>4, <3>3
    <3>. QED
      BY <2>1, <3>2, <3>4
  <2>. QED
    BY <2>3, <2>4
<1>10. FiringsInOrder(t)'
  <2>1. SUFFICES ASSUME NEW f \in firings[t]
                 PROVE  \E j \in Relevant(t) :
                            /\ f.key = At(j)
                            /\ \A k \in Relevant(t) : i < k => j <= k
    BY <1>4, <1>5, <1>6 DEF FiringsInOrder, At
  <2>2. PICK j \in Relevant(t) :
           /\ f.key = At(j)
           /\ \A k \in Relevant(t) : cursor[t].key.at < k => j <= k
    BY DEF FactsHold, FiringsInOrder
  <2>3. \A k \in Relevant(t) : i < k => cursor[t].key.at < k
    BY <1>1, <1>3
  <2>. QED
    BY <2>2, <2>3
<1>11. SavingSettled(t)'
  BY <1>7 DEF SavingSettled
<1>12. facts[i][t] = "match" => Settled(t, i)
  <2>1. CASE SkipTo(t, o)
    BY <1>3, <2>1 DEF SkipTo
  <2>2. CASE SaveCursor(t, o)
    <3>1. proc.step = "saving" /\ t \in proc.cur
      BY <2>2 DEF SaveCursor, Handling
    <3>. QED
      BY <1>3, <3>1 DEF FactsHold, SavingSettled
  <2>. QED
    BY <2>1, <2>2
<1>13. PassedSettled(t)'
  <2>1. SUFFICES ASSUME NEW j \in DOMAIN facts, facts[j][t] = "match", j <= i
                 PROVE  Settled(t, j)
    BY <1>4, <1>5, <1>6 DEF PassedSettled
  <2>2. CASE j <= cursor[t].key.at
    BY <2>1, <2>2 DEF FactsHold, PassedSettled
  <2>3. CASE cursor[t].key.at < j
    <3>1. j \in Relevant(t)
      BY <2>1 DEF Relevant
    <3>2. i <= j
      BY <1>3, <2>3, <3>1
    <3>3. i = j
      BY <1>1, <2>1, <3>1, <3>2
    <3>. QED
      BY <1>12, <2>1, <3>3
  <2>4. j \in Int
    BY <1>1
  <2>. QED
    BY <1>1, <2>2, <2>3, <2>4
<1>. QED
  BY <1>8, <1>9, <1>10, <1>11, <1>13 DEF FactsHold

LEMMA AbsorbKeepsFacts ==
    ASSUME TypeInv, NEW t \in FactTrigger, FactsHold(t), NEW o \in proc.keys, Absorb(t, o)
    PROVE  FactsHold(t)'
<1>1. proc \in ProcType /\ t \in Trigger /\ Relevant(t) \subseteq Nat
  BY FactsTyped
<1>2. PICK i \in Relevant(t) :
         /\ o = FactKey(t, i) /\ o.key = At(i) /\ o.key.at = i /\ o.rank = i
         /\ cursor[t].key.at < i
         /\ \A j \in Relevant(t) : cursor[t].key.at < j => i <= j
         /\ \A p \in proc.keys : i <= p.rank
  BY HandledIsNext DEF Absorb
<1>3. /\ UNCHANGED <<facts, firings, cursor>>
      /\ proc' = [proc EXCEPT !.step = "saving"]
      /\ Recorded(t, o) \/ Recent(t)
  BY DEF Absorb, Become, tables, outside
<1>4. proc'.cur = proc.cur /\ proc'.keys = proc.keys
  BY <1>1, <1>3 DEF ProcType
<1>5. /\ Relevant(t)' = Relevant(t) /\ \A j : FactKey(t, j)' = FactKey(t, j)
      /\ \A j : Settled(t, j)' <=> Settled(t, j)
  BY <1>3 DEF Relevant, FactKey, Settled, FiredKeys
<1>6. Settled(t, i)
  <2>1. CASE Recorded(t, o)
    BY <1>2, <2>1 DEF Recorded, Settled
  <2>2. CASE Recent(t)
    <3>1. PICK f \in firings[t] : TRUE
      BY <2>2 DEF Recent
    <3>2. PICK j \in Relevant(t) :
             f.key = At(j) /\ \A k \in Relevant(t) : cursor[t].key.at < k => j <= k
      BY DEF FactsHold, FiringsInOrder
    <3>3. j <= i
      BY <1>2, <3>2
    <3>4. CASE j = i
      BY <3>2, <3>4 DEF Settled, FiredKeys
    <3>5. CASE j < i
      BY <2>2, <3>2, <3>5 DEF Settled, Recent, At
    <3>. QED
      BY <1>1, <3>3, <3>4, <3>5
  <2>. QED
    BY <1>3, <2>1, <2>2
<1>7. SavingSettled(t)'
  <2>1. SUFFICES ASSUME NEW j \in Relevant(t), FactKey(t, j) \in proc.keys,
                        \A p \in proc.keys : j <= p.rank
                 PROVE  Settled(t, j)
    BY <1>3, <1>4, <1>5 DEF SavingSettled
  <2>2. FactKey(t, j).rank = j
    BY DEF FactKey
  <2>3. i <= j /\ j <= i
    BY <1>2, <2>1, <2>2
  <2>4. i = j
    BY <1>1, <2>3
  <2>. QED
    BY <1>6, <2>4
<1>8. KeysInOrder(t)'
  BY <1>3, <1>4, <1>5 DEF FactsHold, KeysInOrder
<1>9. FiringsInOrder(t)'
  BY <1>3, <1>5 DEF FactsHold, FiringsInOrder
<1>10. PassedSettled(t)'
  BY <1>3, <1>5 DEF FactsHold, PassedSettled
<1>. QED
  BY <1>3, <1>7, <1>8, <1>9, <1>10 DEF FactsHold

LEMMA FireKeepsFacts ==
    ASSUME TypeInv, NEW t \in FactTrigger, FactsHold(t), NEW o \in proc.keys, FireTarget(t, o)
    PROVE  FactsHold(t)'
<1>1. proc \in ProcType /\ t \in Trigger /\ Relevant(t) \subseteq Nat
  BY FactsTyped
<1>2. PICK i \in Relevant(t) :
         /\ o = FactKey(t, i) /\ o.key = At(i) /\ o.key.at = i /\ o.rank = i
         /\ cursor[t].key.at < i
         /\ \A j \in Relevant(t) : cursor[t].key.at < j => i <= j
         /\ \A p \in proc.keys : i <= p.rank
  BY HandledIsNext DEF FireTarget, ReachesTarget
<1> DEFINE new == [key |-> o.key, at |-> proc.now]
<1>3. /\ UNCHANGED <<facts, cursor>>
      /\ proc' = [proc EXCEPT !.step = "saving"]
      /\ firings'[t] = firings[t] \cup {new}
  <2>1. Fired(t, o)
    BY <1>1 DEF Fired
  <2>. QED
    BY <2>1, FiredTables DEF outside
<1>4. proc'.cur = proc.cur /\ proc'.keys = proc.keys /\ new.key = At(i)
  BY <1>1, <1>2, <1>3 DEF ProcType
<1> HIDE DEF new
<1>5. Relevant(t)' = Relevant(t) /\ \A j : FactKey(t, j)' = FactKey(t, j)
  BY <1>3 DEF Relevant, FactKey
<1>6. At(i) \in FiredKeys(t)' /\ FiredKeys(t) \subseteq FiredKeys(t)'
  BY <1>3, <1>4 DEF FiredKeys
<1>7. \A j : Settled(t, j) => Settled(t, j)'
  BY <1>3, <1>6 DEF Settled
<1>8. Settled(t, i)'
  BY <1>6 DEF Settled, At
<1>9. SavingSettled(t)'
  <2>1. SUFFICES ASSUME NEW j \in Relevant(t), FactKey(t, j) \in proc.keys,
                        \A p \in proc.keys : j <= p.rank
                 PROVE  Settled(t, j)'
    BY <1>3, <1>4, <1>5 DEF SavingSettled
  <2>2. FactKey(t, j).rank = j
    BY DEF FactKey
  <2>3. i <= j /\ j <= i
    BY <1>2, <2>1, <2>2
  <2>4. i = j
    BY <1>1, <2>3
  <2>. QED
    BY <1>8, <2>4
<1>10. KeysInOrder(t)'
  BY <1>3, <1>4, <1>5 DEF FactsHold, KeysInOrder
<1>11. FiringsInOrder(t)'
  <2>1. SUFFICES ASSUME NEW f \in firings'[t]
                 PROVE  \E j \in Relevant(t) :
                            /\ f.key = At(j)
                            /\ \A k \in Relevant(t) : cursor[t].key.at < k => j <= k
    BY <1>3, <1>5 DEF FiringsInOrder, At
  <2>2. CASE f \in firings[t]
    BY <2>2 DEF FactsHold, FiringsInOrder
  <2>3. CASE f = new
    BY <1>2, <1>4, <2>3
  <2>. QED
    BY <1>3, <2>2, <2>3
<1>12. PassedSettled(t)'
  BY <1>3, <1>7 DEF FactsHold, PassedSettled
<1>. QED
  BY <1>3, <1>9, <1>10, <1>11, <1>12 DEF FactsHold

LEMMA FactsStep == TypeInv /\ FactsInv /\ [Next]_vars => FactsInv'
<1> SUFFICES ASSUME TypeInv, FactsInv, [Next]_vars, NEW t \in FactTrigger
             PROVE  FactsHold(t)'
  BY OneVisitedStep DEF FactsInv
<1>1. /\ FactsHold(t) /\ OneVisited /\ proc \in ProcType /\ t \in Trigger
      /\ cursor \in [Trigger -> Cursor \cup {NoCursor}]
  BY FactsTyped DEF FactsInv, TypeInv, TriggersTypeOK
<1>2. CASE UNCHANGED vars \/ TimePasses
  <2>1. Quiet(t)
    BY <1>2 DEF vars, TimePasses, outside, tables, Quiet
  <2>. QED
    BY <1>1, <2>1, QuietKeepsFacts
<1>3. CASE Arrive
  <2>1. CASE \E sight \in [FactTrigger -> Sight] : AppendFact(sight)
    BY <1>1, <2>1, AppendKeepsFacts
  <2>2. CASE \/ \E fingerprint \in Fingerprint : MoveHead(fingerprint)
             \/ \E u \in ManualTrigger, k \in ManualKey : RequestFire(u, k)
    <3>1. Quiet(t)
      BY <2>2 DEF MoveHead, RequestFire, tables, Quiet
    <3>. QED
      BY <1>1, <3>1, QuietKeepsFacts
  <2>. QED
    BY <1>3, <2>1, <2>2 DEF Arrive
<1>4. ASSUME UNCHANGED <<tables, facts>>, proc'.cur = {}
      PROVE  FactsHold(t)'
  <2>1. Quiet(t)
    BY <1>4 DEF tables, Quiet
  <2>. QED
    BY <1>1, <2>1, QuietKeepsFacts
<1>5. CASE BeginTick \/ EndTick \/ Crash
  <2>1. CASE BeginTick
    <3>1. proc' = [step |-> "reading", now |-> clock, todo |-> Trigger, cur |-> {}, keys |-> {},
                   fired |-> 0]
      BY <2>1 DEF BeginTick, Become, Idle
    <3>2. proc'.cur = {}
      BY <3>1
    <3>3. UNCHANGED <<tables, facts>>
      BY <2>1 DEF BeginTick, Become, outside
    <3>. QED
      BY <1>4, <3>2, <3>3
  <2>2. CASE EndTick \/ Crash
    BY <1>4, <2>2 DEF EndTick, Crash, Become, Idle, outside
  <2>. QED
    BY <1>5, <2>1, <2>2
<1>6. CASE NextTrigger
  <2>1. proc'.cur = {} /\ UNCHANGED <<tables, facts>>
    BY <1>1, <1>6 DEF NextTrigger, Become, outside, ProcType
  <2>. QED
    BY <1>4, <2>1
<1>7. ASSUME NEW u \in Trigger, RaiseInSource(u)
      PROVE  FactsHold(t)'
  BY <1>4, <1>7 DEF RaiseInSource, Become, Idle, outside
<1>8. ASSUME NEW u \in Trigger, NEW o \in proc.keys, RaiseInTarget(u, o)
      PROVE  FactsHold(t)'
  BY <1>4, <1>8 DEF RaiseInTarget, Become, Idle, outside
<1>9. ASSUME NEW u \in Trigger, ReadTrigger(u)
      PROVE  FactsHold(t)'
  <2>1. CASE u = t
    BY <1>1, <1>9, <2>1, ReadKeepsFacts
  <2>2. CASE u # t
    <3>1. proc' = [proc EXCEPT !.step = "firing", !.todo = @ \ {u}, !.cur = {u},
                               !.keys = Occurrences(u)]
      BY <1>9 DEF ReadTrigger, Become
    <3>2. proc'.cur = {u}
      BY <1>1, <3>1 DEF ProcType
    <3>3. Quiet(t)
      BY <1>9, <2>2, <3>2 DEF ReadTrigger, Become, tables, outside, Quiet
    <3>. QED
      BY <1>1, <3>3, QuietKeepsFacts
  <2>. QED
    BY <2>1, <2>2
<1>10. ASSUME NEW u \in Trigger, NEW o \in proc.keys,
              SkipTo(u, o) \/ SaveCursor(u, o) \/ Absorb(u, o) \/ FireTarget(u, o)
       PROVE  FactsHold(t)'
  <2>1. CASE u = t
    BY <1>1, <1>10, <2>1, CursorKeepsFacts, AbsorbKeepsFacts, FireKeepsFacts
  <2>2. CASE u # t
    <3>1. u \in proc.cur /\ t \notin proc.cur
      BY <1>1, <1>10, <2>2
         DEF SkipTo, SaveCursor, Absorb, FireTarget, ReachesTarget, Handling, OneVisited
    <3>2. proc'.cur \subseteq proc.cur
      <4>1. CASE SkipTo(u, o)
        BY <1>1, <4>1 DEF SkipTo, Become, ProcType
      <4>2. CASE SaveCursor(u, o)
        BY <1>1, <4>2 DEF SaveCursor, Become, Idle, ProcType
      <4>3. CASE Absorb(u, o) \/ FireTarget(u, o)
        BY <1>1, <4>3 DEF Absorb, FireTarget, Become, ProcType
      <4>. QED
        BY <1>10, <4>1, <4>2, <4>3
    <3>3. firings'[t] = firings[t]
      BY <1>10, <1>1, <2>2 DEF SkipTo, SaveCursor, Absorb, FireTarget, tables, TypeInv, TriggersTypeOK
    <3>4. cursor'[t] = cursor[t]
      BY <1>10, <1>1, <2>2 DEF SkipTo, SaveCursor, Absorb, FireTarget, SetCursor, tables
    <3>5. facts' = facts
      BY <1>10 DEF SkipTo, SaveCursor, Absorb, FireTarget, Become, outside
    <3>6. Quiet(t)
      BY <3>1, <3>2, <3>3, <3>4, <3>5 DEF Quiet
    <3>. QED
      BY <1>1, <3>6, QuietKeepsFacts
  <2>. QED
    BY <2>1, <2>2
<1>. QED
  BY <1>2, <1>3, <1>5, <1>6, <1>7, <1>8, <1>9, <1>10 DEF Next, Dispatch, TriggerStep

\* The cursor of a fact trigger passes no matching fact that was not fired or
\* that fell into the window an earlier one had opened: not when facts arrive
\* during a visit, not when the tick dies between a firing and its cursor.
THEOREM PassedFactsAreFired == Spec => []PassedFactsFired
<1>1. TypeInv /\ FactsInv => PassedFactsFired
  BY DEF FactsInv, FactsHold, PassedSettled, Settled, PassedFactsFired
<1>. QED
  BY <1>1, TypeAlways, FactsInit, FactsStep, PTL DEF Spec

-----------------------------------------------------------------------------
(***************************************************************************)
(* Moves of the repository                                                 *)
(***************************************************************************)

Count(t) == Cardinality(firings[t])

\* The cursor stands at a sight that has not fired.
Unfired(t) == cursor[t] # NoCursor /\ cursor[t].key \notin FiredKeys(t)

\* A fingerprint other than HEAD was left by a move.
Moved(fingerprint) == moves + (IF head = fingerprint THEN 1 ELSE 0)

\* What fired and what may still fire are sights of different moves.
CursorCounted(t) ==
    IF cursor[t] = NoCursor
    THEN Count(t) = 0
    ELSE Count(t) + (IF Unfired(t) THEN 1 ELSE 0) <= Moved(cursor[t].key.what)

\* A visit works on one sight: the cursor's, or one that will be counted.
VisitCounted(t) ==
    t \in proc.cur =>
        /\ \A o, p \in proc.keys : o = p
        /\ \A o \in proc.keys :
              IF o.fire
              THEN o.key = cursor[t].key
              ELSE Count(t) + 1 <= Moved(o.key.what) /\ proc.step # "saving"

MovesHold(t) ==
    /\ IsFiniteSet(firings[t])
    /\ CursorCounted(t)
    /\ VisitCounted(t)

MovesInv == OneVisited /\ \A t \in RepositoryTrigger : MovesHold(t)

LEMMA MovesTyped ==
    ASSUME TypeInv, NEW t \in RepositoryTrigger, MovesHold(t)
    PROVE  /\ t \in Trigger /\ proc \in ProcType /\ moves \in Nat
           /\ Count(t) \in Nat
           /\ cursor \in [Trigger -> Cursor \cup {NoCursor}]
           /\ \A o \in proc.keys : o.key \in Key /\ o.fire \in BOOLEAN
           /\ \A key \in Key : \A fire : [key |-> key, fire |-> fire] # NoCursor /\ key # NoCursor.key
<1>1. t \in Trigger /\ proc \in ProcType /\ moves \in Nat
      /\ cursor \in [Trigger -> Cursor \cup {NoCursor}]
  BY DEF TypeInv, TriggersTypeOK, ProcType, Trigger
<1>2. Count(t) \in Nat
  BY FS_CardinalityType DEF MovesHold, Count
<1>3. \A o \in proc.keys : o.key \in Key /\ o.fire \in BOOLEAN
  BY <1>1 DEF ProcType, Occurrence
<1>4. \A key \in Key : key # NoCursor.key
  BY DEF Key, NoCursor
<1>5. \A key \in Key : \A fire : [key |-> key, fire |-> fire] # NoCursor
  <2>1. \A key, fire : [key |-> key, fire |-> fire].key = key
    OBVIOUS
  <2>. QED
    BY <1>4, <2>1
<1>. QED
  BY <1>1, <1>2, <1>3, <1>4, <1>5

LEMMA MovesInit == TriggersInit => MovesInv
BY FS_EmptySet
   DEF TriggersInit, MovesInv, OneVisited, MovesHold, CursorCounted, VisitCounted, Count, Idle,
       Trigger

Still(t) ==
    /\ UNCHANGED <<head, moves>>
    /\ cursor'[t] = cursor[t]
    /\ firings'[t] = firings[t]
    /\ \/ t \notin proc'.cur
       \/ /\ t \in proc.cur /\ proc'.keys = proc.keys
          /\ proc'.step = "saving" => proc.step = "saving" \/ \A o \in proc.keys : o.fire

LEMMA StillKeepsMoves ==
    ASSUME NEW t \in RepositoryTrigger, MovesHold(t), Still(t)
    PROVE  MovesHold(t)'
<1>1. /\ UNCHANGED <<head, moves>> /\ cursor'[t] = cursor[t] /\ firings'[t] = firings[t]
      /\ FiredKeys(t)' = FiredKeys(t) /\ Count(t)' = Count(t)
  BY DEF Still, FiredKeys, Count
<1>2. CursorCounted(t)'
  BY <1>1 DEF MovesHold, CursorCounted, Unfired, Moved
<1>3. VisitCounted(t)'
  BY <1>1 DEF MovesHold, VisitCounted, Moved, Still
<1>. QED
  BY <1>1, <1>2, <1>3 DEF MovesHold

LEMMA MoveKeepsMoves ==
    ASSUME TypeInv, NEW t \in RepositoryTrigger, MovesHold(t),
           NEW fingerprint \in Fingerprint, MoveHead(fingerprint)
    PROVE  MovesHold(t)'
<1>1. /\ moves \in Nat /\ Count(t) \in Nat
  BY MovesTyped
<1>2. /\ moves' = moves + 1 /\ UNCHANGED <<firings, cursor, proc>>
  BY DEF MoveHead, tables
<1>3. Count(t)' = Count(t) /\ (Unfired(t)' <=> Unfired(t))
  BY <1>2 DEF Count, Unfired, FiredKeys
<1>4. \A f : /\ Moved(f) \in {moves, moves + 1}
             /\ Moved(f)' \in {moves + 1, moves + 2}
  BY <1>1, <1>2 DEF Moved
<1>5. CursorCounted(t)'
  <2>1. CursorCounted(t)
    BY DEF MovesHold
  <2>. QED
    BY <1>1, <1>2, <1>3, <1>4, <2>1 DEF CursorCounted
<1>6. VisitCounted(t)'
  <2>1. VisitCounted(t)
    BY DEF MovesHold
  <2>. QED
    BY <1>1, <1>2, <1>3, <1>4, <2>1 DEF VisitCounted
<1>. QED
  BY <1>2, <1>5, <1>6 DEF MovesHold

LEMMA ReadKeepsMoves ==
    ASSUME TypeInv, NEW t \in RepositoryTrigger, MovesHold(t), ReadTrigger(t)
    PROVE  MovesHold(t)'
<1>1. /\ moves \in Nat /\ Count(t) \in Nat /\ proc \in ProcType /\ t \in Trigger
      /\ head \in Fingerprint /\ NoFingerprint \notin Fingerprint
  BY MovesTyped, TriggersAssumption DEF TypeInv, TriggersTypeOK
<1>2. /\ proc' = [proc EXCEPT !.step = "firing", !.todo = @ \ {t}, !.cur = {t},
                              !.keys = Occurrences(t)]
      /\ UNCHANGED <<head, moves, cursor, firings>>
  BY DEF ReadTrigger, Become, tables, outside
<1>3. proc'.keys = RepositoryOccurrences(t) /\ proc'.step = "firing"
  BY <1>1, <1>2, OccurrencesTyped DEF ProcType
<1>4. /\ Count(t)' = Count(t) /\ (Unfired(t)' <=> Unfired(t))
      /\ \A f : Moved(f)' = Moved(f)
  BY <1>2 DEF Count, Unfired, FiredKeys, Moved
<1>5. CursorCounted(t)
  BY DEF MovesHold
<1>6. CursorCounted(t)'
  BY <1>2, <1>4, <1>5 DEF CursorCounted
<1>7. VisitCounted(t)'
  <2>1. CASE cursor[t].key.what # head
    <3>1. RepositoryOccurrences(t) = {Skip(0, [what |-> head, at |-> proc.now])}
      BY <2>1 DEF RepositoryOccurrences
    <3>2. Count(t) <= moves
      BY <1>1, <1>5, <2>1 DEF CursorCounted, Moved
    <3>3. Moved(head) = moves + 1
      BY DEF Moved
    <3>4. /\ Skip(0, [what |-> head, at |-> proc.now]).fire = FALSE
          /\ Skip(0, [what |-> head, at |-> proc.now]).key.what = head
      BY DEF Skip
    <3>. QED
      BY <1>1, <1>3, <1>4, <3>1, <3>2, <3>3, <3>4 DEF VisitCounted
  <2>2. CASE cursor[t].key.what = head
    <3>1. RepositoryOccurrences(t) \subseteq {Fire(0, cursor[t].key)}
      BY <2>2 DEF RepositoryOccurrences
    <3>2. Fire(0, cursor[t].key).fire = TRUE /\ Fire(0, cursor[t].key).key = cursor[t].key
      BY DEF Fire
    <3>. QED
      BY <1>2, <1>3, <3>1, <3>2 DEF VisitCounted
  <2>. QED
    BY <2>1, <2>2
<1>. QED
  BY <1>2, <1>6, <1>7 DEF MovesHold

LEMMA CursorKeepsMoves ==
    ASSUME TypeInv, NEW t \in RepositoryTrigger, MovesHold(t), NEW o \in proc.keys,
           SkipTo(t, o) \/ SaveCursor(t, o)
    PROVE  MovesHold(t)'
<1>1. /\ moves \in Nat /\ Count(t) \in Nat /\ proc \in ProcType /\ t \in Trigger
      /\ cursor \in [Trigger -> Cursor \cup {NoCursor}]
      /\ o.key \in Key /\ o.fire \in BOOLEAN
      /\ [key |-> o.key, fire |-> o.fire] # NoCursor /\ o.key # NoCursor.key
  BY MovesTyped
<1>2. /\ t \in proc.cur
      /\ UNCHANGED <<firings, head, moves>>
      /\ cursor' = [cursor EXCEPT ![t] = [key |-> o.key, fire |-> o.fire]]
  BY DEF SkipTo, SaveCursor, Handling, SetCursor, Become, outside
<1>3. cursor'[t] # NoCursor /\ cursor'[t].key = o.key
  BY <1>1, <1>2
<1>4. /\ Count(t)' = Count(t) /\ FiredKeys(t)' = FiredKeys(t)
      /\ \A f : Moved(f)' = Moved(f)
  BY <1>2 DEF Count, FiredKeys, Moved
<1>5. CursorCounted(t) /\ VisitCounted(t)
  BY DEF MovesHold
<1>6. \A f : Moved(f) \in Nat
  BY <1>1 DEF Moved
<1>7. CursorCounted(t)'
  <2>1. CASE o.fire
    <3>1. o.key = cursor[t].key
      BY <1>2, <1>5, <2>1 DEF VisitCounted
    <3>2. cursor[t] # NoCursor
      BY <1>1, <3>1
    <3>3. Unfired(t)' <=> Unfired(t)
      BY <1>3, <1>4, <3>1, <3>2 DEF Unfired
    <3>. QED
      BY <1>3, <1>4, <1>5, <3>1, <3>2, <3>3 DEF CursorCounted
  <2>2. CASE ~ o.fire
    <3>1. Count(t) + 1 <= Moved(o.key.what)
      BY <1>2, <1>5, <2>2 DEF VisitCounted
    <3>2. Count(t) + (IF Unfired(t)' THEN 1 ELSE 0) <= Moved(o.key.what)
      BY <1>1, <1>6, <3>1
    <3>. QED
      BY <1>3, <1>4, <3>2 DEF CursorCounted
  <2>. QED
    BY <2>1, <2>2
<1>8. proc'.keys = {}
  <2>1. proc.keys \ {o} = {}
    BY <1>2, <1>5 DEF VisitCounted
  <2>2. CASE SkipTo(t, o)
    BY <1>1, <2>1, <2>2 DEF SkipTo, Become, ProcType
  <2>3. CASE SaveCursor(t, o)
    BY <1>1, <2>1, <2>3 DEF SaveCursor, Become, Idle, ProcType
  <2>. QED
    BY <2>2, <2>3
<1>9. VisitCounted(t)'
  BY <1>8 DEF VisitCounted
<1>. QED
  BY <1>2, <1>7, <1>9 DEF MovesHold

LEMMA FireKeepsMoves ==
    ASSUME TypeInv, NEW t \in RepositoryTrigger, MovesHold(t), NEW o \in proc.keys,
           FireTarget(t, o)
    PROVE  MovesHold(t)'
<1>1. /\ moves \in Nat /\ Count(t) \in Nat /\ proc \in ProcType /\ t \in Trigger
      /\ o.key # NoCursor.key
  BY MovesTyped
<1> DEFINE new == [key |-> o.key, at |-> proc.now]
<1>2. /\ UNCHANGED <<head, moves, cursor>>
      /\ proc' = [proc EXCEPT !.step = "saving"]
      /\ firings'[t] = firings[t] \cup {new}
      /\ o.key \notin FiredKeys(t)
  <2>1. Fired(t, o)
    BY <1>1 DEF Fired
  <2>. QED
    BY <2>1, FiredTables DEF outside
<1>3. new.key = o.key
  OBVIOUS
<1> HIDE DEF new
<1>4. t \in proc.cur /\ o.fire
  BY DEF FireTarget, ReachesTarget, Handling
<1>5. CursorCounted(t) /\ VisitCounted(t) /\ IsFiniteSet(firings[t])
  BY DEF MovesHold
<1>6. o.key = cursor[t].key /\ \A p \in proc.keys : p = o
  BY <1>4, <1>5 DEF VisitCounted
<1>7. cursor[t] # NoCursor /\ Unfired(t)
  BY <1>1, <1>2, <1>6 DEF Unfired
<1>8. new \notin firings[t]
  BY <1>2, <1>3 DEF FiredKeys
<1>9. IsFiniteSet(firings'[t]) /\ Count(t)' = Count(t) + 1
  BY <1>2, <1>5, <1>8, FS_AddElement DEF Count
<1>10. ~ Unfired(t)'
  BY <1>2, <1>3, <1>6 DEF Unfired, FiredKeys
<1>11. CursorCounted(t)'
  <2>1. Count(t) + 1 <= Moved(cursor[t].key.what)
    BY <1>5, <1>7 DEF CursorCounted
  <2>2. \A f : Moved(f)' = Moved(f) /\ Moved(f) \in Nat
    BY <1>1, <1>2 DEF Moved
  <2>3. Count(t)' + 0 <= Moved(cursor[t].key.what)'
    BY <1>1, <1>2, <1>9, <2>1, <2>2
  <2>. QED
    BY <1>2, <1>7, <1>10, <2>3 DEF CursorCounted
<1>12. VisitCounted(t)'
  BY <1>1, <1>2, <1>4, <1>6 DEF VisitCounted, ProcType
<1>. QED
  BY <1>9, <1>11, <1>12 DEF MovesHold

LEMMA MovesStep == TypeInv /\ MovesInv /\ [Next]_vars => MovesInv'
<1> SUFFICES ASSUME TypeInv, MovesInv, [Next]_vars, NEW t \in RepositoryTrigger
             PROVE  MovesHold(t)'
  BY OneVisitedStep DEF MovesInv
<1>1. /\ MovesHold(t) /\ OneVisited /\ proc \in ProcType /\ t \in Trigger
      /\ cursor \in [Trigger -> Cursor \cup {NoCursor}]
  BY MovesTyped DEF MovesInv
<1>2. CASE UNCHANGED vars \/ TimePasses
  <2>1. Still(t)
    BY <1>2 DEF vars, TimePasses, outside, tables, Still
  <2>. QED
    BY <1>1, <2>1, StillKeepsMoves
<1>3. CASE Arrive
  <2>1. CASE \E fingerprint \in Fingerprint : MoveHead(fingerprint)
    BY <1>1, <2>1, MoveKeepsMoves
  <2>2. CASE \/ \E sight \in [FactTrigger -> Sight] : AppendFact(sight)
             \/ \E u \in ManualTrigger, k \in ManualKey : RequestFire(u, k)
    <3>1. Still(t)
      BY <2>2 DEF AppendFact, RequestFire, tables, Still
    <3>. QED
      BY <1>1, <3>1, StillKeepsMoves
  <2>. QED
    BY <1>3, <2>1, <2>2 DEF Arrive
<1>4. ASSUME UNCHANGED <<tables, head, moves>>, proc'.cur = {}
      PROVE  MovesHold(t)'
  <2>1. Still(t)
    BY <1>4 DEF tables, Still
  <2>. QED
    BY <1>1, <2>1, StillKeepsMoves
<1>5. CASE BeginTick \/ EndTick \/ Crash
  <2>1. CASE BeginTick
    <3>1. proc' = [step |-> "reading", now |-> clock, todo |-> Trigger, cur |-> {}, keys |-> {},
                   fired |-> 0]
      BY <2>1 DEF BeginTick, Become, Idle
    <3>2. proc'.cur = {}
      BY <3>1
    <3>3. UNCHANGED <<tables, head, moves>>
      BY <2>1 DEF BeginTick, Become, outside
    <3>. QED
      BY <1>4, <3>2, <3>3
  <2>2. CASE EndTick \/ Crash
    BY <1>4, <2>2 DEF EndTick, Crash, Become, Idle, outside
  <2>. QED
    BY <1>5, <2>1, <2>2
<1>6. CASE NextTrigger
  <2>1. proc'.cur = {} /\ UNCHANGED <<tables, head, moves>>
    BY <1>1, <1>6 DEF NextTrigger, Become, outside, ProcType
  <2>. QED
    BY <1>4, <2>1
<1>7. ASSUME NEW u \in Trigger, RaiseInSource(u)
      PROVE  MovesHold(t)'
  BY <1>4, <1>7 DEF RaiseInSource, Become, Idle, outside
<1>8. ASSUME NEW u \in Trigger, NEW o \in proc.keys, RaiseInTarget(u, o)
      PROVE  MovesHold(t)'
  BY <1>4, <1>8 DEF RaiseInTarget, Become, Idle, outside
<1>9. ASSUME NEW u \in Trigger, ReadTrigger(u)
      PROVE  MovesHold(t)'
  <2>1. CASE u = t
    BY <1>1, <1>9, <2>1, ReadKeepsMoves
  <2>2. CASE u # t
    <3>1. proc' = [proc EXCEPT !.step = "firing", !.todo = @ \ {u}, !.cur = {u},
                               !.keys = Occurrences(u)]
      BY <1>9 DEF ReadTrigger, Become
    <3>2. proc'.cur = {u}
      BY <1>1, <3>1 DEF ProcType
    <3>3. Still(t)
      BY <1>9, <2>2, <3>2 DEF ReadTrigger, Become, tables, outside, Still
    <3>. QED
      BY <1>1, <3>3, StillKeepsMoves
  <2>. QED
    BY <2>1, <2>2
<1>10. ASSUME NEW u \in Trigger, NEW o \in proc.keys,
              SkipTo(u, o) \/ SaveCursor(u, o) \/ Absorb(u, o) \/ FireTarget(u, o)
       PROVE  MovesHold(t)'
  <2>1. CASE u = t /\ Absorb(u, o)
    <3>1. /\ t \in proc.cur /\ o.fire /\ UNCHANGED <<tables, head, moves>>
          /\ proc' = [proc EXCEPT !.step = "saving"]
      BY <2>1 DEF Absorb, Handling, Become, outside
    <3>2. \A p \in proc.keys : p.fire
      BY <1>1, <3>1 DEF MovesHold, VisitCounted
    <3>3. proc'.keys = proc.keys
      BY <1>1, <3>1 DEF ProcType
    <3>4. Still(t)
      BY <3>1, <3>2, <3>3 DEF Still, tables
    <3>. QED
      BY <1>1, <3>4, StillKeepsMoves
  <2>2. CASE u = t /\ ~ Absorb(u, o)
    BY <1>1, <1>10, <2>2, CursorKeepsMoves, FireKeepsMoves
  <2>3. CASE u # t
    <3>1. u \in proc.cur /\ t \notin proc.cur
      BY <1>1, <1>10, <2>3
         DEF SkipTo, SaveCursor, Absorb, FireTarget, ReachesTarget, Handling, OneVisited
    <3>2. proc'.cur \subseteq proc.cur
      <4>1. CASE SkipTo(u, o)
        BY <1>1, <4>1 DEF SkipTo, Become, ProcType
      <4>2. CASE SaveCursor(u, o)
        BY <1>1, <4>2 DEF SaveCursor, Become, Idle, ProcType
      <4>3. CASE Absorb(u, o) \/ FireTarget(u, o)
        BY <1>1, <4>3 DEF Absorb, FireTarget, Become, ProcType
      <4>. QED
        BY <1>10, <4>1, <4>2, <4>3
    <3>3. firings'[t] = firings[t]
      BY <1>10, <1>1, <2>3 DEF SkipTo, SaveCursor, Absorb, FireTarget, tables, TypeInv, TriggersTypeOK
    <3>4. cursor'[t] = cursor[t]
      BY <1>10, <1>1, <2>3 DEF SkipTo, SaveCursor, Absorb, FireTarget, SetCursor, tables
    <3>5. UNCHANGED <<head, moves>>
      BY <1>10 DEF SkipTo, SaveCursor, Absorb, FireTarget, Become, outside
    <3>6. Still(t)
      BY <3>1, <3>2, <3>3, <3>4, <3>5 DEF Still
    <3>. QED
      BY <1>1, <3>6, StillKeepsMoves
  <2>. QED
    BY <2>1, <2>2, <2>3
<1>. QED
  BY <1>2, <1>3, <1>5, <1>6, <1>7, <1>8, <1>9, <1>10 DEF Next, Dispatch, TriggerStep

\* A repository trigger fires at most once for each move of HEAD and once for the
\* fingerprint it saw first, however often a tick dies before it saves the cursor
\* and however HEAD moves between its reads.
THEOREM FiringsFollowMoves == Spec => []MovesFireOnce
<1>1. TypeInv /\ MovesInv => MovesFireOnce
  <2> SUFFICES ASSUME TypeInv, MovesInv, NEW t \in RepositoryTrigger
               PROVE  Count(t) <= moves + 1
    BY DEF MovesFireOnce, Count
  <2>1. MovesHold(t)
    BY DEF MovesInv
  <2>2. moves \in Nat /\ Count(t) \in Nat
    BY <2>1, MovesTyped
  <2>. QED
    BY <2>1, <2>2 DEF MovesHold, CursorCounted, Moved
<1>. QED
  BY <1>1, TypeAlways, MovesInit, MovesStep, PTL DEF Spec
=============================================================================
