----------------------------- MODULE MCTicketRuns -----------------------------
(* A stage, and one that waits for it.                                       *)
EXTENDS TicketRuns

CONSTANTS s1, s2

MCDependsOn == [s \in Stage |-> IF s = s2 THEN {s1} ELSE {}]
================================================================================
