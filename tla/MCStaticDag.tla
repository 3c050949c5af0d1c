----------------------------- MODULE MCStaticDag -----------------------------
(* Every stage graph on three stages; the definition order is s1, s2, s3.   *)
EXTENDS StaticDagMachine

CONSTANTS s1, s2, s3

MCOrder == <<s1, s2, s3>>
=============================================================================
