------------------------------- MODULE WriterTurn -------------------------------
(***************************************************************************)
(* What the fenced writer leases of a session promise                      *)
(* (murder/runtime/sessions/persistence.py): turns are numbered, a new     *)
(* turn always has a new number, only the newest one may write, it may     *)
(* lapse and come back, and once it is withdrawn it never comes back.      *)
(***************************************************************************)
EXTENDS Naturals, Sequences

CONSTANT Principal

VARIABLES
    holders,   \* who was given which turn
    turn       \* what became of the newest turn

turnVars == <<holders, turn>>

TurnInit ==
    /\ holders = <<>>
    /\ turn = "withdrawn"

Give(p) ==
    /\ holders' = Append(holders, p)
    /\ turn' = "writing"

Lapse ==
    /\ turn = "writing"
    /\ turn' = "lapsed"
    /\ UNCHANGED holders

\* The wall clock was set back.
Resume ==
    /\ turn = "lapsed"
    /\ turn' = "writing"
    /\ UNCHANGED holders

Withdraw ==
    /\ turn # "withdrawn"
    /\ turn' = "withdrawn"
    /\ UNCHANGED holders

TurnNext == (\E p \in Principal : Give(p)) \/ Lapse \/ Resume \/ Withdraw

TurnSpec == TurnInit /\ [][TurnNext]_turnVars
=============================================================================
