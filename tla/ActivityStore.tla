--------------------------- MODULE ActivityStore ---------------------------
(***************************************************************************)
(* The durable half of the activity runtime                                *)
(* (murder/state/persistence/activities.py): one row per activity, its     *)
(* admission reservation, the resource locks of the reservation, the       *)
(* results of its attempts and the signals it sends to its workflow.       *)
(* Every action is one committed SQLite transaction.  A call whose guard   *)
(* fails raises, rolls back and changes nothing, so it is no action.       *)
(*                                                                         *)
(* Every operation takes the caller's own timestamp.  The store trusts it: *)
(* here it is ANY time, so what this module guarantees holds for callers   *)
(* whose clocks are late, early or frozen.                                 *)
(***************************************************************************)
EXTENDS Integers, FiniteSets

CONSTANTS
    Activity,     \* activity identifiers
    Owner,        \* worker identifiers that claim activities
    Key,          \* resource keys (a worktree, a parallelism group)
    Capability,   \* capability revisions a route can carry
    Needs,        \* Needs[a]: the resource keys activity a requires
    MaxAttempts,  \* MaxAttempts[a]: the max_attempts of the request
    Lease,        \* lease_for of a claim
    Reserve,      \* reservation_lease_seconds of an admission
    MaxTime,      \* bound: timestamps are 0..MaxTime
    ClaimBound,   \* bound: claims granted per activity
    NoActivity, NoOwner, NoRoute

ASSUME StoreAssumption ==
    /\ Needs \in [Activity -> SUBSET Key]
    /\ MaxAttempts \in [Activity -> Nat \ {0}]
    /\ Lease \in Nat \ {0}
    /\ Reserve \in Nat \ {0}
    /\ MaxTime \in Nat
    /\ ClaimBound \in Nat
    /\ NoActivity \notin Activity
    /\ NoOwner \notin Owner
    /\ NoRoute \notin Capability

VARIABLES
    status,       \* activities.status
    attempts,     \* activities.attempts
    fence,        \* activities.claim_fence
    owner,        \* activities.claim_owner
    expires,      \* activities.claim_expires_at
    route,        \* capability revision of activities.route_json
    reservation,  \* activity_reservations
    locks,        \* activity_reservation_locks, by resource key
    results,      \* activity_results
    signals,      \* ActivityFinished signals enqueued for the workflow
    tokens        \* every ActivityClaim ever handed to a caller

claimVars == <<status, attempts, fence, owner, expires>>
lockVars  == <<reservation, locks>>
storeVars == <<claimVars, route, lockVars, results, signals, tokens>>

Time   == 0..MaxTime
Expiry == 0..(MaxTime + Lease + Reserve)
NoTime == -1

\* ActivityOutcome: an ActivityFailure is either retryable or not.
Outcome == {"success", "failure", "retryable", "cancelled"}

Terminal    == {"succeeded", "failed", "cancelled"}
Live        == {"claimed", "running"}
Unrouted    == {"pending", "routing"}
Status      == {"absent", "waiting_admission"} \cup Unrouted \cup Live \cup Terminal

\* _outcome_status
TerminalStatus(o) == IF o = "success" THEN "succeeded"
                     ELSE IF o = "cancelled" THEN "cancelled"
                     ELSE "failed"

Token       == [activity : Activity, owner : Owner, attempt : Nat, fence : Nat]
Result      == [activity : Activity, attempt : Nat, outcome : Outcome]
Signal      == [activity : Activity, attempt : Nat]
Reservation == [state : {"none", "held", "released"}, keys : SUBSET Key, expires : Expiry]

StoreTypeOK ==
    /\ status \in [Activity -> Status]
    /\ attempts \in [Activity -> Nat]
    /\ fence \in [Activity -> Nat]
    /\ owner \in [Activity -> Owner \cup {NoOwner}]
    /\ expires \in [Activity -> Expiry \cup {NoTime}]
    /\ route \in [Activity -> Capability \cup {NoRoute}]
    /\ reservation \in [Activity -> Reservation]
    /\ locks \in [Key -> Activity \cup {NoActivity}]
    /\ results \subseteq Result
    /\ signals \subseteq Signal
    /\ tokens \subseteq Token

StoreInit ==
    /\ status = [a \in Activity |-> "absent"]
    /\ attempts = [a \in Activity |-> 0]
    /\ fence = [a \in Activity |-> 0]
    /\ owner = [a \in Activity |-> NoOwner]
    /\ expires = [a \in Activity |-> NoTime]
    /\ route = [a \in Activity |-> NoRoute]
    /\ reservation = [a \in Activity |-> [state |-> "none", keys |-> {}, expires |-> 0]]
    /\ locks = [k \in Key |-> NoActivity]
    /\ results = {}
    /\ signals = {}
    /\ tokens = {}

-----------------------------------------------------------------------------
(***************************************************************************)
(* Creation and routing                                                    *)
(***************************************************************************)

\* insert_activity_requests, inside the transition that owns the activity.
InsertActivity(a) ==
    /\ status[a] = "absent"
    /\ status' = [status EXCEPT ![a] = "pending"]
    /\ UNCHANGED <<attempts, fence, owner, expires, route, lockVars, results, signals, tokens>>

Routable(a) == status[a] \in Unrouted \cup {"waiting_admission"}

\* persist_route: the chosen route replaces any earlier one.
PersistRoute(a, cap) ==
    /\ Routable(a)
    /\ status' = [status EXCEPT ![a] = "waiting_admission"]
    /\ route' = [route EXCEPT ![a] = cap]
    /\ UNCHANGED <<attempts, fence, owner, expires, lockVars, results, signals, tokens>>

-----------------------------------------------------------------------------
(***************************************************************************)
(* Admission: reservations and resource locks                              *)
(***************************************************************************)

\* The rows _release_expired_reservations selects.  Its UPDATE of released_at
\* binds the repository and the time to each other's placeholder and matches
\* no row: an expired reservation stays unreleased and only loses its locks.
ExpiredReservations(t) ==
    {a \in Activity : reservation[a].state = "held" /\ reservation[a].expires <= t}

\* A release that forgets the lock rows.
LocksWithout_Kept(holders) == locks

LocksWithout(holders) ==
    [k \in Key |-> IF locks[k] \in holders THEN NoActivity ELSE locks[k]]

\* The locks once the expired ones and a's own are deleted.
LocksLeft(a, t) == LocksWithout(ExpiredReservations(t) \cup {a})

\* Inserting a's lock rows meets no other activity's row.
Admissible(a, t) ==
    /\ status[a] = "waiting_admission"
    /\ \A k \in Needs[a] : LocksLeft(a, t)[k] = NoActivity

\* persist_admission of an Admitted decision that expires at e.
Admit(a, e, t) ==
    /\ Admissible(a, t)
    /\ reservation' = [reservation EXCEPT ![a] =
                         [state |-> "held", keys |-> Needs[a], expires |-> e]]
    /\ locks' = [k \in Key |-> IF k \in Needs[a] THEN a ELSE LocksLeft(a, t)[k]]
    /\ UNCHANGED <<claimVars, route, results, signals, tokens>>

\* persist_admission of a Rejected decision: result 0, cancelled, signalled.
Reject(a) ==
    /\ status[a] = "waiting_admission"
    /\ status' = [status EXCEPT ![a] = "cancelled"]
    /\ results' = results \cup {[activity |-> a, attempt |-> 0, outcome |-> "cancelled"]}
    /\ signals' = signals \cup {[activity |-> a, attempt |-> 0]}
    /\ UNCHANGED <<attempts, fence, owner, expires, route, lockVars, tokens>>

\* reap_expired_reservations
ReapReservations(t) ==
    /\ ExpiredReservations(t) # {}
    /\ locks' = LocksWithout(ExpiredReservations(t))
    /\ UNCHANGED <<claimVars, route, reservation, results, signals, tokens>>

-----------------------------------------------------------------------------
(***************************************************************************)
(* Claims                                                                  *)
(***************************************************************************)

\* A claim that reuses the fence of the claim it takes over.
FreshToken_SameFence(a, w) ==
    [activity |-> a, owner |-> w, attempt |-> attempts[a] + 1,
     fence |-> IF fence[a] = 0 THEN 1 ELSE fence[a]]

\* The ActivityClaim of the next attempt, under the next fence.
FreshToken(a, w) ==
    [activity |-> a, owner |-> w, attempt |-> attempts[a] + 1, fence |-> fence[a] + 1]

\* A claim check that overlooks the lease of the claim it takes over.
Claimable_Leased(a, cap, t) ==
    /\ reservation[a].state = "held"
    /\ reservation[a].expires > t
    /\ status[a] \in {"waiting_admission", "claimed"}
    /\ route[a] = cap

Claimable(a, cap, t) ==
    /\ reservation[a].state = "held"
    /\ reservation[a].expires > t
    /\ \/ status[a] = "waiting_admission"
       \/ status[a] = "claimed" /\ expires[a] <= t
    /\ route[a] = cap

\* claim_activity
Claim(a, w, cap, t) ==
    /\ fence[a] < ClaimBound
    /\ Claimable(a, cap, t)
    /\ status' = [status EXCEPT ![a] = "claimed"]
    /\ attempts' = [attempts EXCEPT ![a] = FreshToken(a, w).attempt]
    /\ fence' = [fence EXCEPT ![a] = FreshToken(a, w).fence]
    /\ owner' = [owner EXCEPT ![a] = w]
    /\ expires' = [expires EXCEPT ![a] = t + Lease]
    /\ tokens' = tokens \cup {FreshToken(a, w)}
    /\ UNCHANGED <<route, lockVars, results, signals>>

\* The predicate of the guarded UPDATEs: the token is the activity's current
\* claim and the lease has not run out at the caller's time.
Holds(c, t) ==
    /\ attempts[c.activity] = c.attempt
    /\ owner[c.activity] = c.owner
    /\ fence[c.activity] = c.fence
    /\ expires[c.activity] > t

Renewable(c, t) == status[c.activity] \in Live /\ Holds(c, t)

\* renew_activity_claim
Renew(c, t) ==
    /\ Renewable(c, t)
    /\ expires' = [expires EXCEPT ![c.activity] = t + Lease]
    /\ UNCHANGED <<status, attempts, fence, owner, route, lockVars, results, signals, tokens>>

Startable(c, t) == status[c.activity] = "claimed" /\ Holds(c, t)

\* start_activity
Start(c, t) ==
    /\ Startable(c, t)
    /\ status' = [status EXCEPT ![c.activity] = "running"]
    /\ UNCHANGED <<attempts, fence, owner, expires, route, lockVars, results, signals, tokens>>

\* A reaper that only looks at claims whose execution has not begun.
ExpiredClaims_NotStarted(t) ==
    {a \in Activity : status[a] = "claimed" /\ expires[a] <= t}

\* A reaper that looks at every activity that is not waiting.
ExpiredClaims_AnyStatus(t) ==
    {a \in Activity : status[a] \notin {"absent", "waiting_admission"} /\ expires[a] <= t}

ExpiredClaims(t) == {a \in Activity : status[a] \in Live /\ expires[a] <= t}

\* reap_expired_claims: attempts and fence stay, so the next claim is a new one.
ReapClaims(t) ==
    LET expired == ExpiredClaims(t)
    IN  /\ expired # {}
        /\ status' = [a \in Activity |-> IF a \in expired THEN "waiting_admission" ELSE status[a]]
        /\ owner' = [a \in Activity |-> IF a \in expired THEN NoOwner ELSE owner[a]]
        /\ expires' = [a \in Activity |-> IF a \in expired THEN NoTime ELSE expires[a]]
        /\ UNCHANGED <<attempts, fence, route, lockVars, results, signals, tokens>>

-----------------------------------------------------------------------------
(***************************************************************************)
(* Completion                                                              *)
(***************************************************************************)

Recorded(a, n) == \E r \in results : r.activity = a /\ r.attempt = n

\* A retry rule that is one attempt too generous.
Retrying_OneMore(c, o) == o = "retryable" /\ c.attempt <= MaxAttempts[c.activity]

Retrying(c, o) == o = "retryable" /\ c.attempt < MaxAttempts[c.activity]

Completable(c, t) ==
    /\ ~Recorded(c.activity, c.attempt)
    /\ status[c.activity] \in Live
    /\ Holds(c, t)

\* complete_activity.  A call for an attempt that already has a result
\* returns it (or raises) and changes nothing.
Complete(c, o, t) ==
    /\ Completable(c, t)
    /\ results' = results \cup
                    {[activity |-> c.activity, attempt |-> c.attempt, outcome |-> o]}
    /\ status' = [status EXCEPT ![c.activity] =
                    IF Retrying(c, o) THEN "waiting_admission" ELSE TerminalStatus(o)]
    /\ owner' = [owner EXCEPT ![c.activity] = NoOwner]
    /\ expires' = [expires EXCEPT ![c.activity] = NoTime]
    /\ reservation' = [reservation EXCEPT ![c.activity] = [@ EXCEPT !.state = "released"]]
    /\ locks' = LocksWithout({c.activity})
    /\ signals' = IF Retrying(c, o) THEN signals
                  ELSE signals \cup {[activity |-> c.activity, attempt |-> c.attempt]}
    /\ UNCHANGED <<attempts, fence, route, tokens>>

-----------------------------------------------------------------------------
StoreNext ==
    \/ \E a \in Activity :
          \/ InsertActivity(a)
          \/ \E cap \in Capability : PersistRoute(a, cap)
          \/ \E t \in Time, e \in Expiry : Admit(a, e, t)
          \/ Reject(a)
          \/ \E w \in Owner, cap \in Capability, t \in Time : Claim(a, w, cap, t)
    \/ \E c \in tokens, t \in Time :
          \/ Renew(c, t)
          \/ Start(c, t)
          \/ \E o \in Outcome : Complete(c, o, t)
    \/ \E t \in Time : ReapClaims(t) \/ ReapReservations(t)

StoreSpec == StoreInit /\ [][StoreNext]_storeVars

-----------------------------------------------------------------------------
(***************************************************************************)
(* What the store guarantees, whatever time its callers believe it is      *)
(***************************************************************************)

\* The result an activity's workflow is told about.
Announces(s, r) == r.activity = s.activity /\ r.attempt = s.attempt

\* "Terminalize once and wake the owning workflow in the same transaction":
\* an activity is terminal exactly when one finished signal exists for it,
\* the signal names a recorded result, and the status is that result's.
TerminalAnnounced ==
    \A a \in Activity :
        /\ status[a] \in Terminal <=> \E s \in signals : s.activity = a
        /\ \A s \in signals : s.activity = a =>
              \E r \in results : Announces(s, r) /\ status[a] = TerminalStatus(r.outcome)
        /\ \A s1, s2 \in signals : s1.activity = a /\ s2.activity = a => s1 = s2

\* Work that was recorded as final is never attempted again: every result
\* the workflow was not told about is a retryable failure of an attempt that
\* had attempts left.
OnlyRetryableFailuresAreRetried ==
    \A r \in results :
        \/ \E s \in signals : Announces(s, r)
        \/ r.outcome = "retryable" /\ r.attempt \in 1..(MaxAttempts[r.activity] - 1)

\* A fence identifies one claim: two tokens of an activity never share it,
\* no token is ahead of the row, and a live claim belongs to the newest token.
FenceIdentifiesClaim ==
    /\ \A c, d \in tokens : c.activity = d.activity /\ c.fence = d.fence => c = d
    /\ \A c \in tokens : c.fence <= fence[c.activity]
    /\ \A a \in Activity : status[a] \in Live =>
          \E c \in tokens : /\ c.activity = a
                            /\ c.fence = fence[a]
                            /\ c.attempt = attempts[a]
                            /\ c.owner = owner[a]

\* A resource is locked only by an activity whose reservation still names it:
\* no completion, retry or re-admission leaves a lock behind.
LocksFollowReservations ==
    \A k \in Key : locks[k] # NoActivity =>
        /\ reservation[locks[k]].state = "held"
        /\ k \in reservation[locks[k]].keys

\* A terminal activity keeps its status and its signals for good: no late
\* completion, claim or reap re-opens it.
TerminalIsFinal ==
    [][\A a \in Activity : status[a] \in Terminal =>
          /\ status[a]' = status[a]
          /\ \A r \in results' : r.activity = a => r \in results]_storeVars

-----------------------------------------------------------------------------
(***************************************************************************)
(* The store keeps the contract with the owning workflow                   *)
(***************************************************************************)

\* A status as the workflow sees it: how far an open activity is, is hidden.
SeenVerdict ==
    [a \in Activity |-> IF status[a] \in Terminal \cup {"absent"} THEN status[a] ELSE "open"]

Contract == INSTANCE ActivityContract
            WITH Attempt <- 1..ClaimBound,
                 verdict <- SeenVerdict, history <- results, told <- signals

\* Every transaction of the store is a step of the contract or invisible to
\* the workflow: in particular no stale claim adds a result behind a newer
\* attempt, and no expiry, reaping or re-admission shows.
StoreKeepsContract == Contract!ContractSpec
=============================================================================
