---------------------------- MODULE MCWorkflowRuns ----------------------------
(* Two stages, the second after the first, deduplication keys of other       *)
(* producers beside the ticket keys, and two processes.                      *)
EXTENDS WorkflowRuns

CONSTANTS s1, s2, k1, k2, p1, p2

MCDependsOn == [s \in Stage |-> IF s = s2 THEN {s1} ELSE {}]

\* An outcome that only a signal from outside can report and that contradicts
\* the ticket's, and a signal that says nothing about a stage.
MCOffered == {[stage |-> s1, verdict |-> "failed"],
              [stage |-> NoStage, verdict |-> "succeeded"]}

\* The place of a key in the inbox: the signals of s2's ticket are older than
\* those of s1's, the ones from outside are in between.
MCRank == [k \in Key |->
              CASE k = k1 -> 4
                [] k = k2 -> 5
                [] OTHER  -> (IF k.stage = s1 THEN 6 ELSE 1) +
                             (CASE k.status = "done" -> 0
                                [] k.status = "failed" -> 1
                                [] k.status = "archived" -> 2)]
=============================================================================
