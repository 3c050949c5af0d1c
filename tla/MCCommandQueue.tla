---------------------------- MODULE MCCommandQueue ----------------------------
\* Values for the constants of CommandQueue: a command that may be retried and
\* one that may not.
EXTENDS CommandQueue, TLC

CONSTANTS c1, c2

MCRank == c1 :> 1 @@ c2 :> 2
=============================================================================
