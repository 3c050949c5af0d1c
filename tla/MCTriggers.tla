------------------------------- MODULE MCTriggers -------------------------------
(* Instances of Triggers for TLC.  A unit of time is half an hour.         *)
EXTENDS Triggers

\* Creation order, dedup windows and schedules of the instances.
MCOrder == [t \in Trigger |-> CASE t \in ManualTrigger     -> 1
                                [] t \in FactTrigger       -> 2
                                [] t \in RepositoryTrigger -> 3
                                [] t \in CronTrigger \ Malformed -> 4
                                [] t \in Malformed         -> 5]
MCWindow == [t \in Trigger |-> IF t \in ManualTrigger THEN 2 ELSE 0]
MCWindowOfFacts == [t \in Trigger |-> IF t \in FactTrigger THEN 2 ELSE 0]
NoWindow == [t \in Trigger |-> 0]

\* UTC; a zone that skips the labels 1 and 2 and shows 5 and 6 twice.
UTC == [u \in 0..MaxTime |-> u]
SummerTime == [u \in 0..MaxTime |-> IF u \in 1..4 THEN u + 2 ELSE u]

EveryHour    == [t \in CronTrigger |-> {n \in 0..40 : n % 2 = 0}]
EveryHalf    == [t \in CronTrigger |-> 0..40]
\* A unit of time is 100 days here, the schedule is 29 February.
LeapDay      == [t \in CronTrigger |-> {15}]
=============================================================================
