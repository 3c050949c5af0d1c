-------------------------- MODULE ActivityContract --------------------------
(***************************************************************************)
(* What a workflow may rely on when it commits an activity request, with   *)
(* routes, reservations, claims, fences, leases and clocks left out: an    *)
(* activity stays open while attempts fail retryably, one after the other, *)
(* and is closed once, by one verdict that the workflow is told about.     *)
(***************************************************************************)
EXTENDS Integers

CONSTANTS
    Activity,     \* activity identifiers
    Attempt,      \* attempt numbers
    MaxAttempts   \* MaxAttempts[a]: the max_attempts of the request

VARIABLES
    verdict,      \* "absent", "open", or what the activity was closed with
    history,      \* the recorded results
    told          \* the results the owning workflow is told about

contractVars == <<verdict, history, told>>

Outcome == {"success", "failure", "retryable", "cancelled"}

VerdictOf(o) == IF o = "success" THEN "succeeded"
                ELSE IF o = "cancelled" THEN "cancelled"
                ELSE "failed"

ContractInit ==
    /\ verdict = [a \in Activity |-> "absent"]
    /\ history = {}
    /\ told = {}

\* Attempt n comes after every attempt of a that has a result.
Latest(a, n) == \A r \in history : r.activity = a => r.attempt < n

Request(a) ==
    /\ verdict[a] = "absent"
    /\ verdict' = [verdict EXCEPT ![a] = "open"]
    /\ UNCHANGED <<history, told>>

\* An attempt fails and another one is due: the workflow hears nothing.
Retry(a, n) ==
    /\ verdict[a] = "open"
    /\ Latest(a, n)
    /\ n < MaxAttempts[a]
    /\ history' = history \cup {[activity |-> a, attempt |-> n, outcome |-> "retryable"]}
    /\ UNCHANGED <<verdict, told>>

Close(a, n, o) ==
    /\ verdict[a] = "open"
    /\ verdict' = [verdict EXCEPT ![a] = VerdictOf(o)]
    /\ history' = history \cup {[activity |-> a, attempt |-> n, outcome |-> o]}
    /\ told' = told \cup {[activity |-> a, attempt |-> n]}

\* The latest attempt settles the activity; a retryable failure does so only
\* when no attempt is left.
Conclude(a, n, o) ==
    /\ Latest(a, n)
    /\ o = "retryable" => n >= MaxAttempts[a]
    /\ Close(a, n, o)

\* The activity is turned down without an attempt.
TurnDown(a) == Close(a, 0, "cancelled")

ContractNext ==
    \E a \in Activity :
        \/ Request(a)
        \/ TurnDown(a)
        \/ \E n \in Attempt : Retry(a, n) \/ \E o \in Outcome : Conclude(a, n, o)

ContractSpec == ContractInit /\ [][ContractNext]_contractVars
=============================================================================
