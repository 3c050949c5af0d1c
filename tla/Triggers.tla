-------------------------------- MODULE Triggers --------------------------------
(***************************************************************************)
(* Workflow triggers: the trigger dispatcher                               *)
(* (murder/runtime/trigger_dispatcher.py) over the trigger tables          *)
(* (murder/state/persistence/triggers.py).  A tick reads the clock once    *)
(* and goes through the triggers in the order of their creation: it reads  *)
(* the cursor, asks the source of occurrences, and for every occurrence    *)
(* fires in one transaction and moves the cursor in another.  The service  *)
(* may crash between any two of them; facts, requests and commits arrive   *)
(* from outside at any time.                                               *)
(***************************************************************************)
EXTENDS Cron, Sequences

CONSTANTS
    CronTrigger, FactTrigger, RepositoryTrigger, ManualTrigger,
    Order,         \* Order[t]: place of t in ORDER BY created_at, trigger_id
    Schedule,      \* Schedule[t]: the labels a cron trigger matches
    Window,        \* Window[t]: dedup_window_seconds
    Debounce,      \* debounce_seconds of the repository triggers
    Limit,         \* limit of a tick
    FactBatch,     \* limit of one replay of facts
    Malformed,     \* cron triggers whose expression does not parse
    Unreachable,   \* triggers whose target cannot be started or signalled
    Fingerprint,   \* what HEAD may be
    ManualKey,     \* occurrence keys of manual requests
    NoFingerprint,
    LastArrival,   \* bound: nothing arrives from outside after this instant
    MaxLag,        \* bound: how long the dispatcher may be late
    FactBound,     \* bound: facts
    MoveBound,     \* bound: moves of HEAD
    CrashBound     \* bound: crashes

Trigger == CronTrigger \cup FactTrigger \cup RepositoryTrigger \cup ManualTrigger

ASSUME TriggersAssumption ==
    /\ CronTrigger \cap (FactTrigger \cup RepositoryTrigger \cup ManualTrigger) = {}
    /\ FactTrigger \cap (RepositoryTrigger \cup ManualTrigger) = {}
    /\ RepositoryTrigger \cap ManualTrigger = {}
    /\ Order \in [Trigger -> Nat]
    /\ \A s, t \in Trigger : Order[s] = Order[t] => s = t
    /\ Schedule \in [CronTrigger -> SUBSET Nat]
    /\ Window \in [Trigger -> Nat]
    /\ Debounce \in Nat
    /\ Limit \in Nat \ {0}
    /\ FactBatch \in Nat \ {0}
    /\ ManualKey \subseteq Nat
    /\ NoFingerprint \notin Fingerprint
    /\ MoveBound \in Nat /\ CrashBound \in Nat

\* An occurrence key: an instant, the sequence of a fact, the key of a request,
\* or a fingerprint together with the time it was first seen.
Key == [what : Fingerprint \cup {NoFingerprint}, at : Nat]
At(n) == [what |-> NoFingerprint, at |-> n]

\* What a source returns: keys to fire and "__cursor__:" keys to skip to, in
\* the order of their rank.
Fire(n, key) == [rank |-> n, key |-> key, fire |-> TRUE]
Skip(n, key) == [rank |-> n, key |-> key, fire |-> FALSE]
Occurrence == [rank : Nat, key : Key, fire : BOOLEAN]

\* A cursor remembers whether it was written after a fire.
Cursor == [key : Key, fire : BOOLEAN]
NoCursor == [key |-> [what |-> NoFingerprint, at |-> -1], fire |-> FALSE]

VARIABLES
    clock,     \* the wall clock
    facts,     \* the retained facts: how each fact trigger sees them
    head,      \* the fingerprint of the repository
    moves,     \* how often it moved
    pending,   \* trigger_manual_pending: key and enqueued_at of each trigger
    firings,   \* trigger_firings: key and fired_at of each trigger
    cursor,    \* trigger_cursors
    proc,      \* the local variables of the tick
    crashes,   \* crashes so far
    effects    \* history: the keys for which a target was started or signalled

outside == <<facts, head, moves, pending>>
tables  == <<firings, cursor, effects>>
vars    == <<clock, outside, tables, proc, crashes>>

\* What a fact is to a trigger.
Sight == {"other kind", "no match", "match"}

TriggersTypeOK ==
    /\ clock \in 0..MaxTime
    /\ facts \in Seq([FactTrigger -> Sight])
    /\ head \in Fingerprint
    /\ moves \in 0..MoveBound
    /\ pending \in [ManualTrigger -> SUBSET [key : ManualKey, at : 0..MaxTime]]
    /\ firings \in [Trigger -> SUBSET [key : Key, at : 0..MaxTime]]
    /\ cursor \in [Trigger -> Cursor \cup {NoCursor}]
    /\ proc \in [step  : {"idle", "reading", "firing", "saving"},
                 now   : 0..MaxTime,
                 todo  : SUBSET Trigger,      \* triggers left to visit
                 cur   : SUBSET Trigger,      \* the trigger being visited
                 keys  : SUBSET Occurrence,   \* its occurrences left to handle
                 fired : 0..(Limit - 1)]
    /\ crashes \in 0..CrashBound
    /\ effects \in [Trigger -> Seq(Key)]

Idle(now) ==
    [step |-> "idle", now |-> now, todo |-> {}, cur |-> {}, keys |-> {}, fired |-> 0]

TriggersInit ==
    /\ clock = 0
    /\ facts = <<>>
    /\ head \in Fingerprint
    /\ moves = 0
    /\ pending = [t \in ManualTrigger |-> {}]
    /\ firings = [t \in Trigger |-> {}]
    /\ cursor = [t \in Trigger |-> NoCursor]
    /\ proc = Idle(0)
    /\ crashes = 0
    /\ effects = [t \in Trigger |-> <<>>]

FiredKeys(t) == {f.key : f \in firings[t]}

-----------------------------------------------------------------------------
(***************************************************************************)
(* Arrivals                                                                *)
(***************************************************************************)

AppendFact(sight) ==
    /\ clock <= LastArrival
    /\ Len(facts) < FactBound
    /\ facts' = Append(facts, sight)
    /\ UNCHANGED <<clock, head, moves, pending, tables, proc, crashes>>

MoveHead(fingerprint) ==
    /\ clock <= LastArrival
    /\ moves < MoveBound
    /\ fingerprint # head
    /\ head' = fingerprint
    /\ moves' = moves + 1
    /\ UNCHANGED <<clock, facts, pending, tables, proc, crashes>>

\* The trigger.fire command: enqueue_manual_trigger_fire.  A key that is already
\* there stays as it is.
RequestFire(t, k) ==
    /\ clock <= LastArrival
    /\ \A p \in pending[t] : p.key # k
    /\ pending' = [pending EXCEPT ![t] = @ \cup {[key |-> k, at |-> clock]}]
    /\ UNCHANGED <<clock, facts, head, moves, tables, proc, crashes>>

-----------------------------------------------------------------------------
(***************************************************************************)
(* The sources of occurrences                                              *)
(***************************************************************************)

\* The first sight of a cron trigger only seeds its cursor.
CronOccurrences(t) ==
    IF cursor[t] = NoCursor
    THEN {Skip(0, At(proc.now))}
    ELSE {Fire(label, At(Utc(label))) :
             label \in Fires(Schedule[t], cursor[t].key.at, proc.now)}

\* Mutant: a fact that does not match moves the cursor to the end of the log.
FactOccurrences_SkipToEnd(t) ==
    LET new == {i \in DOMAIN facts : i > cursor[t].key.at /\ facts[i][t] # "other kind"}
    IN  {[rank |-> i, fire |-> facts[i][t] = "match",
          key |-> At(IF facts[i][t] = "match" THEN i ELSE Len(facts))] :
            i \in FirstOf(new, FactBatch)}

\* Facts of the trigger's kind after the cursor, those that do not satisfy the
\* predicate only to be skipped.
FactOccurrences(t) ==
    LET new == {i \in DOMAIN facts : i > cursor[t].key.at /\ facts[i][t] # "other kind"}
    IN  {[rank |-> i, key |-> At(i), fire |-> facts[i][t] = "match"] :
            i \in FirstOf(new, FactBatch)}

\* Mutant: the occurrence is named after the time it is found.
RepositoryOccurrences_Now(t) ==
    IF cursor[t].key.what # head
    THEN {Skip(0, [what |-> head, at |-> proc.now])}
    ELSE {Fire(0, [c.key EXCEPT !.at = proc.now]) : c \in {c \in {cursor[t]} :
             ~ c.fire /\ proc.now - c.key.at >= Debounce}}

\* A fingerprint that is new to the cursor starts the debounce; one that has not
\* fired yet and is old enough is due.
RepositoryOccurrences(t) ==
    IF cursor[t].key.what # head
    THEN {Skip(0, [what |-> head, at |-> proc.now])}
    ELSE {Fire(0, c.key) : c \in {c \in {cursor[t]} :
             ~ c.fire /\ proc.now - c.key.at >= Debounce}}

\* Mutant: requests are read after the cursor, like facts.
ManualOccurrences_AfterCursor(t) ==
    {Fire(p.key, At(p.key)) : p \in {q \in pending[t] : q.key > cursor[t].key.at}}

\* list_pending_manual_fires: what was requested and never fired.
ManualOccurrences(t) ==
    LET open == {p \in pending[t] : At(p.key) \notin FiredKeys(t)}
        Earlier(p) == {q \in open : q.at < p.at \/ (q.at = p.at /\ q.key < p.key)}
    IN  {Fire(Cardinality(Earlier(p)), At(p.key)) : p \in open}

Occurrences(t) ==
    CASE t \in CronTrigger       -> CronOccurrences(t)
      [] t \in FactTrigger       -> FactOccurrences(t)
      [] t \in RepositoryTrigger -> RepositoryOccurrences(t)
      [] t \in ManualTrigger     -> ManualOccurrences(t)

-----------------------------------------------------------------------------
(***************************************************************************)
(* The tick                                                                *)
(***************************************************************************)

Become(p) == proc' = p /\ UNCHANGED <<clock, outside, crashes>>

BeginTick ==
    /\ proc.step = "idle"
    /\ UNCHANGED tables
    /\ Become([Idle(clock) EXCEPT !.step = "reading", !.todo = Trigger])

\* The next trigger of the loop.
Visits(t) ==
    /\ proc.step = "reading"
    /\ t \in proc.todo
    /\ \A s \in proc.todo : Order[t] <= Order[s]

ParseFails(t) == t \in Malformed /\ cursor[t] # NoCursor

ReadTrigger(t) ==
    /\ Visits(t)
    /\ ~ ParseFails(t)
    /\ UNCHANGED tables
    /\ Become([proc EXCEPT !.step = "firing", !.todo = @ \ {t}, !.cur = {t},
                           !.keys = Occurrences(t)])

\* Whatever raises ends the tick; the loop logs it and starts a new one.
RaiseInSource(t) ==
    /\ Visits(t)
    /\ ParseFails(t)
    /\ UNCHANGED tables
    /\ Become(Idle(proc.now))

EndTick ==
    /\ proc.step = "reading"
    /\ proc.todo = {}
    /\ UNCHANGED tables
    /\ Become(Idle(proc.now))

NextTrigger ==
    /\ proc.step = "firing"
    /\ proc.keys = {}
    /\ UNCHANGED tables
    /\ Become([proc EXCEPT !.step = "reading", !.cur = {}])

\* The tick is about to handle the occurrence o of t.
Handling(t, o, step) ==
    /\ proc.step = step
    /\ t \in proc.cur
    /\ o \in proc.keys
    /\ \A p \in proc.keys : o.rank <= p.rank

SetCursor(t, o) == cursor' = [cursor EXCEPT ![t] = [key |-> o.key, fire |-> o.fire]]

SkipTo(t, o) ==
    /\ Handling(t, o, "firing")
    /\ ~ o.fire
    /\ SetCursor(t, o)
    /\ UNCHANGED <<firings, effects>>
    /\ Become([proc EXCEPT !.keys = @ \ {o}])

\* Mutants: only the cursor tells what was fired; the window is one unit short.
Recorded_Cursor(t, o) == o.key = cursor[t].key
Recent_Short(t) == Window[t] # 0 /\ \E f \in firings[t] : f.at - 1 > proc.now - Window[t]

\* fire_trigger finds a firing of this key, or one inside the dedup window.
Recorded(t, o) == o.key \in FiredKeys(t)
Recent(t) == Window[t] # 0 /\ \E f \in firings[t] : f.at > proc.now - Window[t]

Absorb(t, o) ==
    /\ Handling(t, o, "firing")
    /\ o.fire
    /\ Recorded(t, o) \/ Recent(t)
    /\ UNCHANGED tables
    /\ Become([proc EXCEPT !.step = "saving"])

\* The transaction goes on to the target.
ReachesTarget(t, o) ==
    /\ Handling(t, o, "firing")
    /\ o.fire
    /\ ~ Recorded(t, o)
    /\ ~ Recent(t)

\* The target is started or signalled and the firing inserted, in one
\* transaction.  The wake of the workflow afterwards is best effort.
FireTarget(t, o) ==
    /\ ReachesTarget(t, o)
    /\ t \notin Unreachable
    /\ effects' = [effects EXCEPT ![t] = Append(@, o.key)]
    /\ firings' = [firings EXCEPT ![t] = @ \cup {[key |-> o.key, at |-> proc.now]}]
    /\ UNCHANGED cursor
    /\ Become([proc EXCEPT !.step = "saving"])

RaiseInTarget(t, o) ==
    /\ ReachesTarget(t, o)
    /\ t \in Unreachable
    /\ UNCHANGED tables
    /\ Become(Idle(proc.now))

SaveCursor(t, o) ==
    /\ Handling(t, o, "saving")
    /\ SetCursor(t, o)
    /\ UNCHANGED <<firings, effects>>
    /\ Become(IF proc.fired + 1 >= Limit
              THEN Idle(proc.now)
              ELSE [proc EXCEPT !.step = "firing", !.keys = @ \ {o}, !.fired = @ + 1])

Crash ==
    /\ proc.step # "idle"
    /\ crashes < CrashBound
    /\ crashes' = crashes + 1
    /\ proc' = Idle(proc.now)
    /\ UNCHANGED <<clock, outside, tables>>

TimePasses ==
    /\ clock < MaxTime
    /\ clock < proc.now + MaxLag
    /\ clock' = clock + 1
    /\ UNCHANGED <<outside, tables, proc, crashes>>

TriggerStep(t) ==
    \/ ReadTrigger(t)
    \/ RaiseInSource(t)
    \/ \E o \in proc.keys :
          SkipTo(t, o) \/ Absorb(t, o) \/ FireTarget(t, o) \/ RaiseInTarget(t, o) \/ SaveCursor(t, o)

Dispatch ==
    \/ BeginTick
    \/ EndTick
    \/ NextTrigger
    \/ \E t \in Trigger : TriggerStep(t)

Arrive ==
    \/ \E sight \in [FactTrigger -> Sight] : AppendFact(sight)
    \/ \E fingerprint \in Fingerprint : MoveHead(fingerprint)
    \/ \E t \in ManualTrigger, k \in ManualKey : RequestFire(t, k)

Next == Dispatch \/ Arrive \/ Crash \/ TimePasses

Spec == TriggersInit /\ [][Next]_vars

\* The trigger loop goes on ticking (dispatcher_loops.py) and time passes;
\* nothing is owed by the outside world, and crashes are finitely many.
FairSpec == Spec /\ WF_vars(Dispatch) /\ WF_vars(TimePasses)

-----------------------------------------------------------------------------
(***************************************************************************)
(* Properties                                                              *)
(***************************************************************************)

\* An occurrence starts or signals its target once, although the cursor is
\* written in another transaction than the firing and may be lost in between.
OneEffectPerOccurrence ==
    \A t \in Trigger :
        /\ {effects[t][i] : i \in DOMAIN effects[t]} = FiredKeys(t)
        /\ \A i, j \in DOMAIN effects[t] : effects[t][i] = effects[t][j] => i = j
        /\ \A f, g \in firings[t] : f.key = g.key => f = g

\* The cursor of a fact trigger passes no matching fact that was not fired,
\* unless an earlier one had opened the dedup window.
PassedFactsFired ==
    \A t \in FactTrigger : \A i \in DOMAIN facts :
        (facts[i][t] = "match" /\ i <= cursor[t].key.at) =>
            \/ At(i) \in FiredKeys(t)
            \/ Window[t] # 0 /\ \E f \in firings[t] : f.key.at < i

\* Two firings of a trigger are a dedup window apart, whichever way they came.
FiringsKeepApart ==
    \A t \in Trigger : \A f, g \in firings[t] :
        f.key # g.key =>
            \/ Window[t] = 0
            \/ f.at - g.at >= Window[t]
            \/ g.at - f.at >= Window[t]

\* A repository trigger fires at most once for each move of HEAD and once for
\* the fingerprint it saw first, also when the tick dies before the cursor is saved.
MovesFireOnce ==
    \A t \in RepositoryTrigger : Cardinality(firings[t]) <= moves + 1

\* A repository trigger fires for changes only: what it sees first is the baseline.
OnlyChangesFire ==
    \A t \in RepositoryTrigger : firings[t] # {} => moves > 0

\* No trigger that raises in every tick is visited before t.
Served(t) ==
    \A s \in Malformed \cup Unreachable : Order[t] < Order[s]

\* Every request, matching fact and due instant of a served trigger is fired in
\* the end, across crashes, tick limits and the dedup window of its requests,
\* and the last fingerprint of the repository as well.
OccurrencesFire ==
    /\ \A t \in ManualTrigger, k \in ManualKey :
          Served(t) =>
            (\E p \in pending[t] : p.key = k) ~> (At(k) \in FiredKeys(t))
    /\ \A t \in FactTrigger, i \in 1..FactBound :
          (Served(t) /\ Window[t] = 0) =>
            (i \in DOMAIN facts /\ facts[i][t] = "match") ~> (At(i) \in FiredKeys(t))
    /\ \A t \in RepositoryTrigger :
          (Served(t) /\ Window[t] = 0) =>
            <>[](\E f \in firings[t] : f.key.what = head)

\* A cron trigger fires at every instant that is due after its cursor was
\* seeded; of a label that the wall clock shows twice, at the first.
DueInstantsFire ==
    \A t \in {c \in CronTrigger : Served(c)} :
        \A u \in {v \in 0..MaxTime : Local[v] \in Schedule[t] /\ v = Utc(Local[v])} :
            (cursor[t] # NoCursor /\ cursor[t].key.at < u) ~> (At(u) \in FiredKeys(t))

\* A cron trigger fires within (cursor, now], not before the instant it fires for.
NoEarlyFire ==
    \A t \in CronTrigger : \A f \in firings[t] : f.key.at <= f.at
=============================================================================
