------------------------ MODULE MCActivityDispatcher ------------------------
(* Activities that want the same worktree; a1 may be retried, a2 not.      *)
EXTENDS ActivityDispatcher, TLC

CONSTANTS a1, a2, w1, d1, d2, k1

MCNeeds == [a \in Activity |-> Key]
MCMaxAttempts == [a \in Activity |-> IF a = a1 THEN 2 ELSE 1]
MCRank == [a \in Activity |-> IF a = a1 THEN 0 ELSE 1]

\* Every dispatcher is built with worker_id="activity-dispatcher".
MCWorkerId == [d \in Dispatcher |-> w1]
=============================================================================
