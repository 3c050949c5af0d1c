---------------------------------- MODULE Cron ----------------------------------
(***************************************************************************)
(* The cron evaluator (murder/runtime/cron.py).  An expression is the set  *)
(* of wall-clock labels it matches; the time zone is the label the wall    *)
(* clock shows at each instant.  In spring labels are skipped, in autumn   *)
(* an hour of labels is shown twice.                                       *)
(***************************************************************************)
EXTENDS Integers, FiniteSetsExt

CONSTANTS
    MaxTime,     \* bound: the last instant
    Local,       \* Local[u]: what the wall clock of the zone shows at u
    MaxSteps,    \* max_steps: labels one evaluation looks at
    FireLimit    \* limit: fires one evaluation returns

ASSUME CronAssumption ==
    /\ MaxTime \in Nat
    /\ Local \in [0..MaxTime -> Nat]
    /\ MaxSteps \in Nat \ {0}
    /\ FireLimit \in Nat \ {0}
    \* The bound on time cuts no gap in two.
    /\ \A u \in 0..(MaxTime - 1) : u + Local[u + 1] - Local[u] <= MaxTime + 1

\* Mutant: the last instant that shows the label.
Utc_Last(label) ==
    LET showing == {u \in 0..MaxTime : Local[u] = label}
        before  == {u \in 0..(MaxTime - 1) : Local[u] < label /\ label < Local[u + 1]}
    IN  IF showing # {}
        THEN Max(showing)
        ELSE Min(before) + label - Local[Min(before)]

\* astimezone(UTC) of a naive label with fold = 0: the first instant that shows
\* the label; a label the clock skipped counts on from the instant before it.
Utc(label) ==
    LET showing == {u \in 0..MaxTime : Local[u] = label}
        before  == {u \in 0..(MaxTime - 1) : Local[u] < label /\ label < Local[u + 1]}
    IN  IF showing # {}
        THEN Min(showing)
        ELSE Min(before) + label - Local[Min(before)]

\* The labels of the scan that match: from the minute after the label of the
\* cursor, for max_steps minutes, as long as they do not exceed the label of now.
Matches(schedule, after, until) ==
    LET first == Local[after] + 1
        last  == Min({Local[until], first + MaxSteps - 1})
    IN  {label \in first..last : label \in schedule}

\* The first n members of a set of numbers.
FirstOf(S, n) == {x \in S : Cardinality({y \in S : y < x}) < n}

\* iter_cron_fires: the labels that fire, each of them at Utc(label).
Fires(schedule, after, until) ==
    IF until <= after THEN {} ELSE FirstOf(Matches(schedule, after, until), FireLimit)
=============================================================================
