---------------------------- MODULE MCSubscriptions ----------------------------
(* Two lists, a replay of at most two inputs, two lost connections.           *)
EXTENDS Subscriptions
================================================================================
