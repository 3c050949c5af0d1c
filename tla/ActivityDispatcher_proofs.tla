---------------------- MODULE ActivityDispatcher_proofs ----------------------
(***************************************************************************)
(* Proofs about the activity store, for every set of activities, owners    *)
(* and keys, every lease and every timestamp the callers may pass, and     *)
(* then about the dispatchers on top of it, for any number of dispatcher   *)
(* processes over one database and any number of crashes.                  *)
(***************************************************************************)
EXTENDS ActivityDispatcher, TLAPS

\* Every transaction keeps every column in its domain.
LEMMA StoreTypeStep ==
    ASSUME StoreTypeOK, [StoreNext]_storeVars
    PROVE  StoreTypeOK'
<1> USE StoreAssumption DEF StoreTypeOK, Status, Terminal, Live, Unrouted,
        Outcome, Token, Result, Signal, Reservation, Time, Expiry, NoTime
<1>1. ASSUME NEW a \in Activity, InsertActivity(a) PROVE StoreTypeOK'
  BY <1>1 DEF InsertActivity, lockVars
<1>2. ASSUME NEW a \in Activity, NEW cap \in Capability, PersistRoute(a, cap)
      PROVE StoreTypeOK'
  BY <1>2 DEF PersistRoute, Routable, lockVars
<1>3. ASSUME NEW a \in Activity, NEW t \in Time, NEW e \in Expiry, Admit(a, e, t)
      PROVE StoreTypeOK'
  <2>1. reservation' \in [Activity -> Reservation]
    BY <1>3 DEF Admit
  <2>2. locks' \in [Key -> Activity \cup {NoActivity}]
    BY <1>3 DEF Admit, LocksLeft, LocksWithout
  <2> QED BY <1>3, <2>1, <2>2 DEF Admit, claimVars
<1>4. ASSUME NEW a \in Activity, Reject(a) PROVE StoreTypeOK'
  BY <1>4 DEF Reject, lockVars
<1>5. ASSUME NEW a \in Activity, NEW w \in Owner, NEW cap \in Capability,
             NEW t \in Time, Claim(a, w, cap, t)
      PROVE StoreTypeOK'
  <2>1. t + Lease \in Expiry
    OBVIOUS
  <2> QED BY <1>5, <2>1 DEF Claim, Claimable, FreshToken, lockVars
<1>6. ASSUME NEW c \in tokens, NEW t \in Time, Renew(c, t) PROVE StoreTypeOK'
  <2>1. t + Lease \in Expiry
    OBVIOUS
  <2> QED BY <1>6, <2>1 DEF Renew, lockVars
<1>7. ASSUME NEW c \in tokens, NEW t \in Time, Start(c, t) PROVE StoreTypeOK'
  BY <1>7 DEF Start, Startable, lockVars
<1>8. ASSUME NEW c \in tokens, NEW t \in Time, NEW o \in Outcome, Complete(c, o, t)
      PROVE StoreTypeOK'
  <2>1. c \in Token
    OBVIOUS
  <2>2. reservation' \in [Activity -> Reservation]
    <3>1. c.activity \in Activity
      BY <2>1
    <3>2. ASSUME NEW r \in Reservation
          PROVE  [r EXCEPT !.state = "released"] \in Reservation
      OBVIOUS
    <3>3. reservation' = [reservation EXCEPT ![c.activity] =
                            [reservation[c.activity] EXCEPT !.state = "released"]]
      BY <1>8 DEF Complete, Completable
    <3> HIDE DEF Reservation
    <3> QED BY <3>1, <3>2, <3>3
  <2>3. status' \in [Activity -> Status]
    BY <1>8, <2>1 DEF Complete, Completable, TerminalStatus
  <2>4. locks' \in [Key -> Activity \cup {NoActivity}]
    BY <1>8 DEF Complete, Completable, LocksWithout
  <2>5. results' \subseteq Result /\ signals' \subseteq Signal
    BY <1>8, <2>1 DEF Complete, Completable
  <2> QED BY <1>8, <2>1, <2>2, <2>3, <2>4, <2>5 DEF Complete, Completable
<1>9. ASSUME NEW t \in Time, ReapClaims(t) PROVE StoreTypeOK'
  BY <1>9 DEF ReapClaims, ExpiredClaims, lockVars
<1>10. ASSUME NEW t \in Time, ReapReservations(t) PROVE StoreTypeOK'
  BY <1>10 DEF ReapReservations, LocksWithout, claimVars
<1>11. CASE UNCHANGED storeVars
  BY <1>11 DEF storeVars, claimVars, lockVars
<1> QED BY <1>1, <1>2, <1>3, <1>4, <1>5, <1>6, <1>7, <1>8, <1>9, <1>10, <1>11
        DEF StoreNext

\* The same of the empty store.
LEMMA StoreTypeInit == StoreInit => StoreTypeOK
BY StoreAssumption DEF StoreInit, StoreTypeOK, Status, Unrouted, Outcome, Token,
   Result, Signal, Reservation, Time, Expiry, NoTime

\* complete_activity, persist_admission and the claim operations keep every
\* column in its domain.
THEOREM StoreTypeCorrect == StoreSpec => []StoreTypeOK
BY StoreTypeInit, StoreTypeStep, PTL DEF StoreSpec

-----------------------------------------------------------------------------
(***************************************************************************)
(* Fences                                                                  *)
(***************************************************************************)

\* The columns a claim is checked against.
fenceVars == <<status, attempts, fence, owner, tokens>>

\* Tokens count the claims of their activity from one; together with
\* FenceIdentifiesClaim this is inductive.
TokensCounted == \A c \in tokens : c.attempt \in Nat \ {0} /\ c.fence \in Nat \ {0}

FenceInv == StoreTypeOK /\ TokensCounted /\ FenceIdentifiesClaim

\* Every transaction keeps the fence invariant.
LEMMA FenceInvStep ==
    ASSUME FenceInv, StoreTypeOK', [StoreNext]_storeVars
    PROVE  FenceInv'
<1> USE StoreAssumption DEF FenceInv, TokensCounted, FenceIdentifiesClaim
<1>0. /\ status \in [Activity -> Status]
      /\ attempts \in [Activity -> Nat]
      /\ fence \in [Activity -> Nat]
      /\ owner \in [Activity -> Owner \cup {NoOwner}]
      /\ tokens \subseteq Token
  BY DEF StoreTypeOK
<1>1. ASSUME NEW a \in Activity, InsertActivity(a) PROVE FenceInv'
  BY <1>0, <1>1 DEF InsertActivity, Live
<1>2. ASSUME NEW a \in Activity, NEW cap \in Capability, PersistRoute(a, cap)
      PROVE FenceInv'
  BY <1>0, <1>2 DEF PersistRoute, Routable, Live
<1>3. ASSUME NEW a \in Activity, Reject(a) PROVE FenceInv'
  BY <1>0, <1>3 DEF Reject, Live
<1>4. ASSUME NEW a \in Activity, NEW w \in Owner, NEW cap \in Capability,
             NEW t \in Time, Claim(a, w, cap, t)
      PROVE FenceInv'
  <2> DEFINE new == FreshToken(a, w)
  <2>1. /\ new \in Token /\ new.activity = a /\ new.owner = w
        /\ new.attempt = attempts[a] + 1 /\ new.fence = fence[a] + 1
    BY <1>0 DEF FreshToken, Token
  <2>2. /\ tokens' = tokens \cup {new}
        /\ attempts' = [attempts EXCEPT ![a] = new.attempt]
        /\ fence' = [fence EXCEPT ![a] = new.fence]
        /\ owner' = [owner EXCEPT ![a] = w]
        /\ status' = [status EXCEPT ![a] = "claimed"]
    BY <1>4 DEF Claim, Claimable
  <2>3. \A c \in tokens : c.fence \in Nat /\ c.activity \in Activity
    BY <1>0 DEF Token
  <2> HIDE DEF new
  <2>4. TokensCounted'
    BY <1>0, <2>1, <2>2
  <2>5. \A c \in tokens : c.activity = a => c.fence # new.fence
    BY <1>0, <2>1, <2>3
  <2>6. (\A c, d \in tokens : c.activity = d.activity /\ c.fence = d.fence => c = d)'
    BY <2>1, <2>2, <2>5
  <2>7. (\A c \in tokens : c.fence <= fence[c.activity])'
    <3> SUFFICES ASSUME NEW c \in tokens' PROVE c.fence <= fence'[c.activity]
      OBVIOUS
    <3>1. CASE c = new
      BY <1>0, <2>1, <2>2, <3>1
    <3>2. CASE c \in tokens
      BY <1>0, <2>1, <2>2, <2>3, <3>2
    <3> QED BY <2>2, <3>1, <3>2
  <2>8. (\A b \in Activity : status[b] \in Live =>
          \E c \in tokens : /\ c.activity = b
                            /\ c.fence = fence[b]
                            /\ c.attempt = attempts[b]
                            /\ c.owner = owner[b])'
    <3> SUFFICES ASSUME NEW b \in Activity, status'[b] \in Live
                 PROVE  \E c \in tokens' : /\ c.activity = b
                                          /\ c.fence = fence'[b]
                                          /\ c.attempt = attempts'[b]
                                          /\ c.owner = owner'[b]
      OBVIOUS
    <3>1. CASE b = a
      BY <1>0, <2>1, <2>2, <3>1
    <3>2. CASE b # a
      BY <1>0, <2>2, <3>2
    <3> QED BY <3>1, <3>2
  <2> QED BY <2>4, <2>6, <2>7, <2>8
<1>5. ASSUME NEW c \in tokens, NEW t \in Time, NEW o \in Outcome, Complete(c, o, t)
      PROVE FenceInv'
  <2>1. /\ UNCHANGED <<attempts, fence, tokens>>
        /\ owner' = [owner EXCEPT ![c.activity] = NoOwner]
        /\ status'[c.activity] \notin Live
        /\ \A b \in Activity : b # c.activity => status'[b] = status[b]
    BY <1>0, <1>5 DEF Complete, Completable, TerminalStatus, Live, Token
  <2> QED BY <1>0, <2>1
<1>6. ASSUME NEW t \in Time, ReapClaims(t) PROVE FenceInv'
  <2>1. /\ UNCHANGED <<attempts, fence, tokens>>
        /\ \A b \in Activity : status'[b] \in Live => status'[b] = status[b] /\ owner'[b] = owner[b]
    BY <1>0, <1>6 DEF ReapClaims, Live
  <2> QED BY <1>0, <2>1
<1>7. ASSUME NEW c \in tokens, NEW t \in Time, Start(c, t) PROVE FenceInv'
  BY <1>0, <1>7 DEF Start, Startable, Live
<1>8. ASSUME UNCHANGED fenceVars PROVE FenceInv'
  BY <1>8 DEF fenceVars
<1>9. ASSUME NEW a \in Activity, NEW t \in Time, NEW e \in Expiry, Admit(a, e, t)
      PROVE UNCHANGED fenceVars
  BY <1>9 DEF Admit, claimVars, fenceVars
<1>10. ASSUME NEW c \in tokens, NEW t \in Time, Renew(c, t) PROVE UNCHANGED fenceVars
  BY <1>10 DEF Renew, fenceVars
<1>11. ASSUME NEW t \in Time, ReapReservations(t) PROVE UNCHANGED fenceVars
  BY <1>11 DEF ReapReservations, claimVars, fenceVars
<1>12. ASSUME UNCHANGED storeVars PROVE UNCHANGED fenceVars
  BY <1>12 DEF storeVars, claimVars, fenceVars
<1> QED BY <1>1, <1>2, <1>3, <1>4, <1>5, <1>6, <1>7, <1>8, <1>9, <1>10, <1>11, <1>12
        DEF StoreNext

\* FenceInv holds throughout; it carries TokensCounted to the other proofs.
LEMMA FenceInvHolds == StoreSpec => []FenceInv
<1>1. StoreInit /\ StoreTypeOK => FenceInv
  BY DEF StoreInit, FenceInv, TokensCounted, FenceIdentifiesClaim, Live
<1>2. FenceInv /\ StoreTypeOK' /\ [StoreNext]_storeVars => FenceInv'
  BY FenceInvStep
<1> QED BY <1>1, <1>2, StoreTypeCorrect, PTL DEF StoreSpec

\* claim_activity, reap_expired_claims and complete_activity: a fence names
\* one claim for ever, and a live row belongs to the newest token issued.
THEOREM FencesIdentifyClaims == StoreSpec => []FenceIdentifiesClaim
<1>1. FenceInv => FenceIdentifiesClaim
  BY DEF FenceInv
<1> QED BY <1>1, FenceInvHolds, PTL

-----------------------------------------------------------------------------
(***************************************************************************)
(* Terminal states, results and signals                                    *)
(***************************************************************************)

AnnounceInv ==
    StoreTypeOK /\ TokensCounted /\ TerminalAnnounced /\ OnlyRetryableFailuresAreRetried

\* Every transaction keeps signals, results and statuses in step.
LEMMA AnnounceInvStep ==
    ASSUME AnnounceInv, FenceInv', StoreTypeOK', [StoreNext]_storeVars
    PROVE  AnnounceInv'
<1> USE StoreAssumption
<1>0. /\ status \in [Activity -> Status]
      /\ results \subseteq Result
      /\ signals \subseteq Signal
      /\ tokens \subseteq Token
      /\ TokensCounted /\ TerminalAnnounced /\ OnlyRetryableFailuresAreRetried
  BY DEF AnnounceInv, StoreTypeOK
<1>a. SUFFICES TerminalAnnounced' /\ OnlyRetryableFailuresAreRetried'
  BY DEF AnnounceInv, FenceInv
\* A step that adds no result and no signal, and moves no activity into or
\* out of a terminal status, keeps both invariants.
<1>b. ASSUME results' = results, signals' = signals,
             \A b \in Activity : status'[b] # status[b] =>
                  status[b] \notin Terminal /\ status'[b] \notin Terminal
      PROVE  TerminalAnnounced' /\ OnlyRetryableFailuresAreRetried'
  <2>1. \A b \in Activity : \A s \in signals : s.activity = b => status'[b] = status[b]
    BY <1>0, <1>b DEF TerminalAnnounced
  <2>2. TerminalAnnounced'
    BY <1>0, <1>b, <2>1 DEF TerminalAnnounced, Announces
  <2>3. OnlyRetryableFailuresAreRetried'
    BY <1>0, <1>b DEF OnlyRetryableFailuresAreRetried, Announces
  <2> QED BY <2>2, <2>3
\* A step that records result r of a non-terminal activity and announces it.
<1>c. ASSUME NEW r \in Result, status[r.activity] \notin Terminal,
             results' = results \cup {r},
             signals' = signals \cup {[activity |-> r.activity, attempt |-> r.attempt]},
             status' = [status EXCEPT ![r.activity] = TerminalStatus(r.outcome)]
      PROVE  TerminalAnnounced' /\ OnlyRetryableFailuresAreRetried'
  <2> DEFINE new == [activity |-> r.activity, attempt |-> r.attempt]
  <2>1. r.activity \in Activity /\ TerminalStatus(r.outcome) \in Terminal
    BY <1>c DEF Result, TerminalStatus, Terminal
  <2>2. new.activity = r.activity /\ new.attempt = r.attempt
    OBVIOUS
  <2>3. signals' = signals \cup {new}
    BY <1>c
  <2>4. \A s \in signals : s.activity # r.activity
    BY <1>0, <1>c, <2>1 DEF TerminalAnnounced
  <2> HIDE DEF new
  <2>5. TerminalAnnounced'
    <3> SUFFICES ASSUME NEW b \in Activity
                 PROVE  /\ status'[b] \in Terminal <=> \E s \in signals' : s.activity = b
                        /\ \A s \in signals' : s.activity = b =>
                             \E q \in results' : Announces(s, q)
                                                /\ status'[b] = TerminalStatus(q.outcome)
                        /\ \A s1, s2 \in signals' : s1.activity = b /\ s2.activity = b => s1 = s2
      BY DEF TerminalAnnounced, Announces
    <3>1. CASE b = r.activity
      BY <1>0, <1>c, <2>1, <2>2, <2>3, <2>4, <3>1 DEF Announces
    <3>2. CASE b # r.activity
      BY <1>0, <1>c, <2>1, <2>2, <2>3, <3>2 DEF TerminalAnnounced
    <3> QED BY <3>1, <3>2
  <2>6. OnlyRetryableFailuresAreRetried'
    BY <1>0, <1>c, <2>2, <2>3 DEF OnlyRetryableFailuresAreRetried, Announces
  <2> QED BY <2>5, <2>6
<1>1. ASSUME NEW a \in Activity, InsertActivity(a)
      PROVE TerminalAnnounced' /\ OnlyRetryableFailuresAreRetried'
  BY <1>0, <1>1, <1>b DEF InsertActivity, Terminal
<1>2. ASSUME NEW a \in Activity, NEW cap \in Capability, PersistRoute(a, cap)
      PROVE TerminalAnnounced' /\ OnlyRetryableFailuresAreRetried'
  BY <1>0, <1>2, <1>b DEF PersistRoute, Routable, Unrouted, Terminal
<1>3. ASSUME NEW a \in Activity, Reject(a)
      PROVE TerminalAnnounced' /\ OnlyRetryableFailuresAreRetried'
  <2> DEFINE r == [activity |-> a, attempt |-> 0, outcome |-> "cancelled"]
  <2>1. /\ r \in Result /\ r.activity = a /\ r.attempt = 0
        /\ TerminalStatus(r.outcome) = "cancelled"
    BY DEF Result, Outcome, TerminalStatus
  <2>2. /\ status[a] \notin Terminal
        /\ results' = results \cup {r}
        /\ signals' = signals \cup {[activity |-> a, attempt |-> 0]}
        /\ status' = [status EXCEPT ![a] = "cancelled"]
    BY <1>3 DEF Reject, Terminal
  <2> HIDE DEF r
  <2> QED BY <2>1, <2>2, <1>c
<1>4. ASSUME NEW a \in Activity, NEW w \in Owner, NEW cap \in Capability,
             NEW t \in Time, Claim(a, w, cap, t)
      PROVE TerminalAnnounced' /\ OnlyRetryableFailuresAreRetried'
  BY <1>0, <1>4, <1>b DEF Claim, Claimable, Terminal
<1>5. ASSUME NEW c \in tokens, NEW t \in Time, NEW o \in Outcome, Complete(c, o, t)
      PROVE TerminalAnnounced' /\ OnlyRetryableFailuresAreRetried'
  <2> DEFINE r == [activity |-> c.activity, attempt |-> c.attempt, outcome |-> o]
  <2>1. c.activity \in Activity /\ c.attempt \in Nat \ {0}
    BY <1>0 DEF Token, TokensCounted
  <2>2. /\ r \in Result /\ r.activity = c.activity /\ r.attempt = c.attempt /\ r.outcome = o
    BY <2>1 DEF Result
  <2>3. /\ status[c.activity] \notin Terminal
        /\ results' = results \cup {r}
    BY <1>5 DEF Complete, Completable, Live, Terminal
  <2> HIDE DEF r
  <2>4. CASE Retrying(c, o)
    <3>1. signals' = signals /\ status' = [status EXCEPT ![c.activity] = "waiting_admission"]
      BY <1>5, <2>4 DEF Complete, Completable
    <3>2. TerminalAnnounced'
      BY <1>0, <2>1, <2>3, <3>1 DEF TerminalAnnounced, Announces, Terminal
    <3>3. r.outcome = "retryable" /\ r.attempt \in 1..(MaxAttempts[r.activity] - 1)
      BY <2>1, <2>2, <2>4 DEF Retrying
    <3>4. OnlyRetryableFailuresAreRetried'
      BY <1>0, <2>3, <3>1, <3>3 DEF OnlyRetryableFailuresAreRetried, Announces
    <3> QED BY <3>2, <3>4
  <2>5. CASE ~Retrying(c, o)
    <3>1. /\ signals' = signals \cup {[activity |-> c.activity, attempt |-> c.attempt]}
          /\ status' = [status EXCEPT ![c.activity] = TerminalStatus(o)]
      BY <1>5, <2>5 DEF Complete, Completable
    <3> QED BY <2>2, <2>3, <3>1, <1>c
  <2> QED BY <2>4, <2>5
<1>6. ASSUME NEW t \in Time, ReapClaims(t)
      PROVE TerminalAnnounced' /\ OnlyRetryableFailuresAreRetried'
  BY <1>0, <1>6, <1>b DEF ReapClaims, ExpiredClaims, Live, Terminal
<1>7. ASSUME NEW c \in tokens, NEW t \in Time, Start(c, t)
      PROVE TerminalAnnounced' /\ OnlyRetryableFailuresAreRetried'
  BY <1>0, <1>7, <1>b DEF Start, Startable, Terminal, Token
<1>8. ASSUME UNCHANGED <<status, results, signals>>
      PROVE TerminalAnnounced' /\ OnlyRetryableFailuresAreRetried'
  BY <1>8, <1>b
<1>9. ASSUME NEW a \in Activity, NEW t \in Time, NEW e \in Expiry, Admit(a, e, t)
      PROVE UNCHANGED <<status, results, signals>>
  BY <1>9 DEF Admit, claimVars
<1>10. ASSUME NEW c \in tokens, NEW t \in Time, Renew(c, t)
       PROVE UNCHANGED <<status, results, signals>>
  BY <1>10 DEF Renew
<1>11. ASSUME NEW t \in Time, ReapReservations(t) PROVE UNCHANGED <<status, results, signals>>
  BY <1>11 DEF ReapReservations, claimVars
<1>12. ASSUME UNCHANGED storeVars PROVE UNCHANGED <<status, results, signals>>
  BY <1>12 DEF storeVars, claimVars
<1> QED BY <1>1, <1>2, <1>3, <1>4, <1>5, <1>6, <1>7, <1>8, <1>9, <1>10, <1>11, <1>12
        DEF StoreNext

\* Both invariants together are inductive, given the fence invariant.
LEMMA AnnounceInvHolds == StoreSpec => []AnnounceInv
<1>1. StoreInit /\ StoreTypeOK => AnnounceInv
  BY DEF StoreInit, AnnounceInv, TokensCounted, TerminalAnnounced,
         OnlyRetryableFailuresAreRetried, Terminal
<1>2. AnnounceInv /\ FenceInv' /\ StoreTypeOK' /\ [StoreNext]_storeVars => AnnounceInv'
  BY AnnounceInvStep
<1> QED BY <1>1, <1>2, StoreTypeCorrect, FenceInvHolds, PTL DEF StoreSpec

\* complete_activity and persist_admission "terminalize once and wake the
\* owning workflow in the same transaction".
THEOREM TerminalStatusIsAnnounced == StoreSpec => []TerminalAnnounced
<1>1. AnnounceInv => TerminalAnnounced
  BY DEF AnnounceInv
<1> QED BY <1>1, AnnounceInvHolds, PTL

\* complete_activity: a result that was final for its attempt is the last one.
THEOREM FinalResultsAreNotRetried == StoreSpec => []OnlyRetryableFailuresAreRetried
<1>1. AnnounceInv => OnlyRetryableFailuresAreRetried
  BY DEF AnnounceInv
<1> QED BY <1>1, AnnounceInvHolds, PTL

\* The step of TerminalIsFinal.
FinalStep == \A a \in Activity : status[a] \in Terminal =>
               /\ status[a]' = status[a]
               /\ \A r \in results' : r.activity = a => r \in results

\* Every transaction leaves terminal activities alone.
LEMMA FinalStepHolds ==
    ASSUME StoreTypeOK, [StoreNext]_storeVars
    PROVE  FinalStep
<1> USE DEF FinalStep
<1>0. status \in [Activity -> Status] /\ tokens \subseteq Token
  BY DEF StoreTypeOK
<1>1. ASSUME NEW a \in Activity, InsertActivity(a) PROVE FinalStep
  BY <1>0, <1>1 DEF InsertActivity, Terminal
<1>2. ASSUME NEW a \in Activity, NEW cap \in Capability, PersistRoute(a, cap) PROVE FinalStep
  BY <1>0, <1>2 DEF PersistRoute, Routable, Unrouted, Terminal
<1>3. ASSUME NEW a \in Activity, NEW t \in Time, NEW e \in Expiry, Admit(a, e, t)
      PROVE FinalStep
  BY <1>3 DEF Admit, claimVars
<1>4. ASSUME NEW a \in Activity, Reject(a) PROVE FinalStep
  BY <1>0, <1>4 DEF Reject, Terminal
<1>5. ASSUME NEW a \in Activity, NEW w \in Owner, NEW cap \in Capability,
             NEW t \in Time, Claim(a, w, cap, t)
      PROVE FinalStep
  BY <1>0, <1>5 DEF Claim, Claimable, Terminal
<1>6. ASSUME NEW c \in tokens, NEW t \in Time, Renew(c, t) PROVE FinalStep
  BY <1>6 DEF Renew
<1>7. ASSUME NEW c \in tokens, NEW t \in Time, Start(c, t) PROVE FinalStep
  BY <1>0, <1>7 DEF Start, Startable, Terminal, Token
<1>8. ASSUME NEW c \in tokens, NEW t \in Time, NEW o \in Outcome, Complete(c, o, t)
      PROVE FinalStep
  <2>1. status[c.activity] \notin Terminal
    BY <1>8 DEF Complete, Completable, Live, Terminal
  <2>2. results' = results \cup {[activity |-> c.activity, attempt |-> c.attempt, outcome |-> o]}
    BY <1>8 DEF Complete, Completable
  <2>3. \A b \in Activity : b # c.activity => status'[b] = status[b]
    BY <1>0, <1>8 DEF Complete, Completable, Token
  <2> QED BY <2>1, <2>2, <2>3
<1>9. ASSUME NEW t \in Time, ReapClaims(t) PROVE FinalStep
  BY <1>0, <1>9 DEF ReapClaims, ExpiredClaims, Live, Terminal
<1>10. ASSUME NEW t \in Time, ReapReservations(t) PROVE FinalStep
  BY <1>10 DEF ReapReservations, claimVars
<1>11. CASE UNCHANGED storeVars
  BY <1>11 DEF storeVars, claimVars
<1> QED BY <1>1, <1>2, <1>3, <1>4, <1>5, <1>6, <1>7, <1>8, <1>9, <1>10, <1>11 DEF StoreNext

\* Every guarded UPDATE of activities.py leaves a terminal activity alone.
THEOREM TerminalStaysFinal == StoreSpec => TerminalIsFinal
<1>1. StoreTypeOK /\ [StoreNext]_storeVars => [FinalStep]_storeVars
  BY FinalStepHolds
<1> QED BY <1>1, StoreTypeCorrect, PTL DEF StoreSpec, TerminalIsFinal, FinalStep

-----------------------------------------------------------------------------
(***************************************************************************)
(* Locks                                                                   *)
(***************************************************************************)

\* Every transaction keeps locks within held reservations.
LEMMA LocksStep ==
    ASSUME StoreTypeOK, LocksFollowReservations, [StoreNext]_storeVars
    PROVE  LocksFollowReservations'
<1> USE StoreAssumption
<1>0. /\ reservation \in [Activity -> Reservation]
      /\ locks \in [Key -> Activity \cup {NoActivity}]
      /\ tokens \subseteq Token
  BY DEF StoreTypeOK
<1>1. ASSUME NEW holders, locks' = LocksWithout(holders),
             \A b \in Activity \ holders : reservation'[b] = reservation[b]
      PROVE  LocksFollowReservations'
  BY <1>0, <1>1 DEF LocksFollowReservations, LocksWithout
<1>2. ASSUME NEW a \in Activity, NEW t \in Time, NEW e \in Expiry, Admit(a, e, t)
      PROVE LocksFollowReservations'
  <2>1. SUFFICES ASSUME NEW k \in Key, locks'[k] # NoActivity
                 PROVE  /\ reservation'[locks'[k]].state = "held"
                        /\ k \in reservation'[locks'[k]].keys
    BY DEF LocksFollowReservations
  <2>2. /\ reservation'[a].state = "held" /\ reservation'[a].keys = Needs[a]
        /\ \A b \in Activity : b # a => reservation'[b] = reservation[b]
    BY <1>0, <1>2 DEF Admit
  <2>3. CASE k \in Needs[a]
    BY <1>2, <2>2, <2>3 DEF Admit
  <2>4. CASE k \notin Needs[a]
    <3>1. locks'[k] = locks[k] /\ locks[k] # a
      BY <1>2, <2>1, <2>4 DEF Admit, LocksLeft, LocksWithout
    <3> QED BY <1>0, <2>1, <2>2, <3>1 DEF LocksFollowReservations
  <2> QED BY <2>3, <2>4
<1>3. ASSUME NEW c \in tokens, NEW t \in Time, NEW o \in Outcome, Complete(c, o, t)
      PROVE LocksFollowReservations'
  <2>1. locks' = LocksWithout({c.activity})
    BY <1>3 DEF Complete, Completable
  <2>2. \A b \in Activity \ {c.activity} : reservation'[b] = reservation[b]
    BY <1>0, <1>3 DEF Complete, Completable
  <2> QED BY <2>1, <2>2, <1>1
<1>4. ASSUME NEW t \in Time, ReapReservations(t) PROVE LocksFollowReservations'
  BY <1>4, <1>1 DEF ReapReservations
<1>5. ASSUME UNCHANGED lockVars PROVE LocksFollowReservations'
  BY <1>5 DEF lockVars, LocksFollowReservations
<1>6. ASSUME NEW a \in Activity, InsertActivity(a) \/ Reject(a) PROVE UNCHANGED lockVars
  BY <1>6 DEF InsertActivity, Reject
<1>7. ASSUME NEW a \in Activity, NEW cap \in Capability, PersistRoute(a, cap)
      PROVE UNCHANGED lockVars
  BY <1>7 DEF PersistRoute, Routable
<1>8. ASSUME NEW a \in Activity, NEW w \in Owner, NEW cap \in Capability,
             NEW t \in Time, Claim(a, w, cap, t)
      PROVE UNCHANGED lockVars
  BY <1>8 DEF Claim, Claimable
<1>9. ASSUME NEW c \in tokens, NEW t \in Time, Renew(c, t) \/ Start(c, t)
      PROVE UNCHANGED lockVars
  BY <1>9 DEF Renew, Start
<1>10. ASSUME NEW t \in Time, ReapClaims(t) PROVE UNCHANGED lockVars
  BY <1>10 DEF ReapClaims
<1>11. ASSUME UNCHANGED storeVars PROVE UNCHANGED lockVars
  BY <1>11 DEF storeVars
<1> QED BY <1>2, <1>3, <1>4, <1>5, <1>6, <1>7, <1>8, <1>9, <1>10, <1>11 DEF StoreNext

\* persist_admission, complete_activity and both releases of locks keep the
\* lock table within the reservations that are still held.
THEOREM LocksAlwaysFollowReservations == StoreSpec => []LocksFollowReservations
<1>1. StoreInit => LocksFollowReservations
  BY StoreAssumption DEF StoreInit, LocksFollowReservations
<1>2. StoreTypeOK /\ LocksFollowReservations /\ [StoreNext]_storeVars => LocksFollowReservations'
  BY LocksStep
<1> QED BY <1>1, <1>2, StoreTypeCorrect, PTL DEF StoreSpec

-----------------------------------------------------------------------------
(***************************************************************************)
(* The activity store implements the activity contract: every run of the   *)
(* store, seen through SeenVerdict, results and signals, is a run of       *)
(* ActivityContract.                                                       *)
(***************************************************************************)

\* Attempts are counted with the fences, and no result is ahead of its row.
AttemptInv ==
    /\ \A a \in Activity : attempts[a] = fence[a] /\ fence[a] <= ClaimBound
    /\ \A r \in results : r.attempt <= attempts[r.activity]

\* Every transaction keeps AttemptInv: only claim_activity moves the counters.
LEMMA AttemptInvStep ==
    ASSUME StoreTypeOK, AttemptInv, [StoreNext]_storeVars
    PROVE  AttemptInv'
<1> USE StoreAssumption DEF AttemptInv
<1>0. /\ attempts \in [Activity -> Nat]
      /\ fence \in [Activity -> Nat]
      /\ results \subseteq Result
      /\ tokens \subseteq Token
  BY DEF StoreTypeOK
<1>1. ASSUME UNCHANGED <<attempts, fence, results>> PROVE AttemptInv'
  BY <1>1
<1>2. ASSUME NEW a \in Activity, NEW w \in Owner, NEW cap \in Capability,
             NEW t \in Time, Claim(a, w, cap, t)
      PROVE AttemptInv'
  <2>1. /\ attempts' = [attempts EXCEPT ![a] = attempts[a] + 1]
        /\ fence' = [fence EXCEPT ![a] = fence[a] + 1]
        /\ fence[a] < ClaimBound
        /\ results' = results
    BY <1>2 DEF Claim, FreshToken
  <2>2. \A b \in Activity : attempts'[b] = fence'[b] /\ fence'[b] <= ClaimBound
    BY <1>0, <2>1
  <2>3. ASSUME NEW r \in results PROVE r.attempt <= attempts'[r.activity]
    BY <1>0, <2>1, <2>3 DEF Result
  <2> QED BY <2>1, <2>2, <2>3
<1>3. ASSUME NEW a \in Activity, Reject(a) PROVE AttemptInv'
  <2>1. /\ UNCHANGED <<attempts, fence>>
        /\ results' = results \cup {[activity |-> a, attempt |-> 0, outcome |-> "cancelled"]}
    BY <1>3 DEF Reject
  <2> QED BY <1>0, <2>1
<1>4. ASSUME NEW c \in tokens, NEW t \in Time, NEW o \in Outcome, Complete(c, o, t)
      PROVE AttemptInv'
  <2>1. /\ UNCHANGED <<attempts, fence>>
        /\ results' = results \cup
             {[activity |-> c.activity, attempt |-> c.attempt, outcome |-> o]}
        /\ attempts[c.activity] = c.attempt
    BY <1>4 DEF Complete, Completable, Holds
  <2> QED BY <1>0, <2>1 DEF Token
<1>5. ASSUME NEW a \in Activity, InsertActivity(a) PROVE UNCHANGED <<attempts, fence, results>>
  BY <1>5 DEF InsertActivity
<1>6. ASSUME NEW a \in Activity, NEW cap \in Capability, PersistRoute(a, cap)
      PROVE UNCHANGED <<attempts, fence, results>>
  BY <1>6 DEF PersistRoute
<1>7. ASSUME NEW a \in Activity, NEW t \in Time, NEW e \in Expiry, Admit(a, e, t)
      PROVE UNCHANGED <<attempts, fence, results>>
  BY <1>7 DEF Admit, claimVars
<1>8. ASSUME NEW c \in tokens, NEW t \in Time, Renew(c, t) \/ Start(c, t)
      PROVE UNCHANGED <<attempts, fence, results>>
  BY <1>8 DEF Renew, Start
<1>9. ASSUME NEW t \in Time, ReapClaims(t) \/ ReapReservations(t)
      PROVE UNCHANGED <<attempts, fence, results>>
  BY <1>9 DEF ReapClaims, ReapReservations, claimVars
<1>10. ASSUME UNCHANGED storeVars PROVE UNCHANGED <<attempts, fence, results>>
  BY <1>10 DEF storeVars, claimVars
<1> QED BY <1>1, <1>2, <1>3, <1>4, <1>5, <1>6, <1>7, <1>8, <1>9, <1>10 DEF StoreNext

\* AttemptInv holds throughout.
LEMMA AttemptInvHolds == StoreSpec => []AttemptInv
<1>1. StoreInit => AttemptInv
  BY StoreAssumption DEF StoreInit, AttemptInv
<1>2. StoreTypeOK /\ AttemptInv /\ [StoreNext]_storeVars => AttemptInv'
  BY AttemptInvStep
<1> QED BY <1>1, <1>2, StoreTypeCorrect, PTL DEF StoreSpec

-----------------------------------------------------------------------------
\* What the workflow sees.
seenVars == <<SeenVerdict, results, signals>>

\* A step that moves no activity between absent, open and its terminal
\* statuses is invisible.
LEMMA Invisible ==
    ASSUME \A a \in Activity : status'[a] # status[a] =>
               status[a] \notin Terminal \cup {"absent"} /\ status'[a] \notin Terminal \cup {"absent"},
           results' = results, signals' = signals
    PROVE  UNCHANGED seenVars
BY DEF seenVars, SeenVerdict

\* Every transaction is a step of the contract or invisible to the workflow.
LEMMA ContractStep ==
    ASSUME FenceInv, AttemptInv, [StoreNext]_storeVars
    PROVE  [Contract!ContractNext]_seenVars
<1> USE StoreAssumption
<1>0. /\ StoreTypeOK
      /\ status \in [Activity -> Status]
      /\ attempts \in [Activity -> Nat]
      /\ results \subseteq Result
      /\ tokens \subseteq Token
      /\ MaxAttempts \in [Activity -> Nat]
      /\ TokensCounted
  BY DEF FenceInv, StoreTypeOK
<1>1. ASSUME NEW a \in Activity, InsertActivity(a) PROVE Contract!Request(a)
  <2>1. SeenVerdict[a] = "absent"
    BY <1>1 DEF InsertActivity, SeenVerdict
  <2>2. SeenVerdict' = [SeenVerdict EXCEPT ![a] = "open"]
    BY <1>0, <1>1 DEF InsertActivity, SeenVerdict, Terminal
  <2> QED BY <1>1, <2>1, <2>2 DEF InsertActivity, Contract!Request
<1>2. ASSUME NEW a \in Activity, NEW o \in Outcome, NEW n,
             status[a] \notin Terminal \cup {"absent"},
             status' = [status EXCEPT ![a] = TerminalStatus(o)],
             results' = results \cup {[activity |-> a, attempt |-> n, outcome |-> o]},
             signals' = signals \cup {[activity |-> a, attempt |-> n]}
      PROVE Contract!Close(a, n, o)
  <2>1. SeenVerdict[a] = "open"
    BY <1>2 DEF SeenVerdict
  <2>2. SeenVerdict' = [SeenVerdict EXCEPT ![a] = TerminalStatus(o)]
    BY <1>0, <1>2 DEF SeenVerdict, TerminalStatus, Terminal
  <2>3. TerminalStatus(o) = Contract!VerdictOf(o)
    BY DEF TerminalStatus, Contract!VerdictOf
  <2> QED BY <1>2, <2>1, <2>2, <2>3 DEF Contract!Close
<1>3. ASSUME NEW a \in Activity, Reject(a) PROVE Contract!TurnDown(a)
  <2>1. "cancelled" \in Outcome /\ TerminalStatus("cancelled") = "cancelled"
    BY DEF Outcome, TerminalStatus
  <2>2. /\ status[a] \notin Terminal \cup {"absent"}
        /\ status' = [status EXCEPT ![a] = "cancelled"]
        /\ results' = results \cup {[activity |-> a, attempt |-> 0, outcome |-> "cancelled"]}
        /\ signals' = signals \cup {[activity |-> a, attempt |-> 0]}
    BY <1>3 DEF Reject, Terminal
  <2> QED BY <1>2, <2>1, <2>2 DEF Contract!TurnDown
<1>4. ASSUME NEW c \in tokens, NEW t \in Time, NEW o \in Outcome, Complete(c, o, t)
      PROVE Contract!ContractNext
  <2> DEFINE a == c.activity
             n == c.attempt
  <2>1. a \in Activity /\ n \in Nat \ {0} /\ attempts[a] = n
    BY <1>0, <1>4 DEF Complete, Completable, Holds, Token, TokensCounted
  <2>2. n \in 1..ClaimBound
    BY <1>0, <2>1 DEF AttemptInv
  <2>3. Contract!Latest(a, n)
    <3> SUFFICES ASSUME NEW r \in results, r.activity = a PROVE r.attempt < n
      BY DEF Contract!Latest
    <3>1. r.attempt <= n /\ r.attempt \in Nat
      BY <1>0, <2>1 DEF AttemptInv, Result
    <3>2. r.attempt # n
      BY <1>4 DEF Complete, Completable, Recorded
    <3> QED BY <2>1, <3>1, <3>2
  <2>4. /\ status[a] \notin Terminal \cup {"absent"}
        /\ results' = results \cup {[activity |-> a, attempt |-> n, outcome |-> o]}
    BY <1>4 DEF Complete, Completable, Live, Terminal
  <2>5. CASE Retrying(c, o)
    <3>1. /\ status' = [status EXCEPT ![a] = "waiting_admission"]
          /\ signals' = signals
      BY <1>4, <2>5 DEF Complete
    <3>2. SeenVerdict[a] = "open" /\ SeenVerdict' = SeenVerdict
      BY <1>0, <2>1, <2>4, <3>1 DEF SeenVerdict, Terminal
    <3>3. o = "retryable" /\ n < MaxAttempts[a]
      BY <2>5 DEF Retrying
    <3>4. Contract!Retry(a, n)
      BY <2>3, <2>4, <3>1, <3>2, <3>3 DEF Contract!Retry
    <3> QED BY <2>1, <2>2, <3>4 DEF Contract!ContractNext
  <2>6. CASE ~Retrying(c, o)
    <3>1. /\ status' = [status EXCEPT ![a] = TerminalStatus(o)]
          /\ signals' = signals \cup {[activity |-> a, attempt |-> n]}
      BY <1>4, <2>6 DEF Complete
    <3>2. Contract!Close(a, n, o)
      BY <1>2, <2>1, <2>4, <3>1
    <3>3. o = "retryable" => n >= MaxAttempts[a]
      BY <1>0, <2>1, <2>6 DEF Retrying
    <3>4. Contract!Conclude(a, n, o)
      BY <2>3, <3>2, <3>3 DEF Contract!Conclude
    <3> QED BY <2>1, <2>2, <3>4 DEF Contract!ContractNext, Contract!Outcome, Outcome
  <2> QED BY <2>5, <2>6
<1>5. ASSUME NEW a \in Activity, NEW cap \in Capability, PersistRoute(a, cap)
      PROVE UNCHANGED seenVars
  BY <1>0, <1>5, Invisible DEF PersistRoute, Routable, Unrouted, Terminal
<1>6. ASSUME NEW a \in Activity, NEW t \in Time, NEW e \in Expiry, Admit(a, e, t)
      PROVE UNCHANGED seenVars
  BY <1>6, Invisible DEF Admit, claimVars
<1>7. ASSUME NEW a \in Activity, NEW w \in Owner, NEW cap \in Capability,
             NEW t \in Time, Claim(a, w, cap, t)
      PROVE UNCHANGED seenVars
  BY <1>0, <1>7, Invisible DEF Claim, Claimable, Terminal
<1>8. ASSUME NEW c \in tokens, NEW t \in Time, Renew(c, t) PROVE UNCHANGED seenVars
  BY <1>8, Invisible DEF Renew
<1>9. ASSUME NEW c \in tokens, NEW t \in Time, Start(c, t) PROVE UNCHANGED seenVars
  BY <1>0, <1>9, Invisible DEF Start, Startable, Terminal, Token
<1>10. ASSUME NEW t \in Time, ReapClaims(t) PROVE UNCHANGED seenVars
  BY <1>10, Invisible DEF ReapClaims, ExpiredClaims, Live, Terminal
<1>11. ASSUME NEW t \in Time, ReapReservations(t) PROVE UNCHANGED seenVars
  BY <1>11, Invisible DEF ReapReservations, claimVars
<1>12. ASSUME UNCHANGED storeVars PROVE UNCHANGED seenVars
  BY <1>12, Invisible DEF storeVars, claimVars
<1>13. ASSUME NEW a \in Activity, InsertActivity(a) \/ Reject(a) PROVE Contract!ContractNext
  BY <1>1, <1>3, <1>13 DEF Contract!ContractNext
<1> QED BY <1>4, <1>5, <1>6, <1>7, <1>8, <1>9, <1>10, <1>11, <1>12, <1>13 DEF StoreNext

\* activities.py implements the activity contract: whatever time its callers
\* believe it is, workflows see attempts in order and one announced verdict.
THEOREM StoreImplementsContract == StoreSpec => StoreKeepsContract
<1>1. StoreInit => Contract!ContractInit
  BY DEF StoreInit, Contract!ContractInit, SeenVerdict
<1>2. FenceInv /\ AttemptInv /\ [StoreNext]_storeVars
        => [Contract!ContractNext]_(Contract!contractVars)
  BY ContractStep DEF seenVars, Contract!contractVars
<1> QED BY <1>1, <1>2, FenceInvHolds, AttemptInvHolds, PTL
        DEF StoreSpec, StoreKeepsContract, Contract!ContractSpec

-----------------------------------------------------------------------------
(***************************************************************************)
(* The dispatchers                                                         *)
(***************************************************************************)

\* An activity that may be admitted or claimed has a route.
Routed ==
    \A a \in Activity : status[a] \in {"waiting_admission"} \cup Live => route[a] \in Capability

\* What the local variables of a process say of each other and of the store.
ProcessOK(p) ==
    /\ p.now <= clock
    /\ p.step \in {"deciding", "admitting", "claiming"} => p.cur \in Activity
    /\ p.step \in {"starting", "finishing"} \cup Executing <=> p.claim # NoToken
    /\ p.claim # NoToken => p.claim \in tokens

BaseInv ==
    /\ StoreTypeOK
    /\ DispatcherTypeOK
    /\ Routed
    /\ \A d \in Dispatcher : ProcessOK(proc[d])

\* Every transaction of the store keeps Routed.
LEMMA RoutedStep ==
    ASSUME StoreTypeOK, Routed, [StoreNext]_storeVars
    PROVE  Routed'
<1> USE DEF Routed
<1>0. /\ status \in [Activity -> Status]
      /\ route \in [Activity -> Capability \cup {NoRoute}]
      /\ tokens \subseteq Token
  BY DEF StoreTypeOK
<1>1. ASSUME route' = route,
             \A a \in Activity : status'[a] \in {"waiting_admission"} \cup Live =>
                                     status[a] \in {"waiting_admission"} \cup Live
      PROVE  Routed'
  BY <1>1
<1>2. ASSUME NEW a \in Activity, InsertActivity(a) PROVE Routed'
  BY <1>0, <1>1, <1>2 DEF InsertActivity, Live
<1>3. ASSUME NEW a \in Activity, NEW cap \in Capability, PersistRoute(a, cap) PROVE Routed'
  BY <1>0, <1>3 DEF PersistRoute
<1>4. ASSUME NEW a \in Activity, NEW t \in Time, NEW e \in Expiry, Admit(a, e, t) PROVE Routed'
  BY <1>1, <1>4 DEF Admit, claimVars
<1>5. ASSUME NEW a \in Activity, Reject(a) PROVE Routed'
  BY <1>0, <1>1, <1>5 DEF Reject, Live
<1>6. ASSUME NEW a \in Activity, NEW w \in Owner, NEW cap \in Capability,
             NEW t \in Time, Claim(a, w, cap, t)
      PROVE Routed'
  BY <1>0, <1>1, <1>6 DEF Claim, Claimable, Live
<1>7. ASSUME NEW c \in tokens, NEW t \in Time, Renew(c, t) PROVE Routed'
  BY <1>1, <1>7 DEF Renew
<1>8. ASSUME NEW c \in tokens, NEW t \in Time, Start(c, t) PROVE Routed'
  BY <1>0, <1>1, <1>8 DEF Start, Startable, Live
<1>9. ASSUME NEW c \in tokens, NEW t \in Time, NEW o \in Outcome, Complete(c, o, t)
      PROVE Routed'
  <2>1. route' = route /\ status[c.activity] \in Live
    BY <1>9 DEF Complete, Completable
  <2>2. \A b \in Activity : b # c.activity => status'[b] = status[b]
    BY <1>0, <1>9 DEF Complete
  <2> QED BY <1>1, <2>1, <2>2
<1>10. ASSUME NEW t \in Time, ReapClaims(t) PROVE Routed'
  BY <1>0, <1>1, <1>10 DEF ReapClaims, ExpiredClaims
<1>11. ASSUME NEW t \in Time, ReapReservations(t) PROVE Routed'
  BY <1>1, <1>11 DEF ReapReservations, claimVars
<1>12. CASE UNCHANGED storeVars
  BY <1>1, <1>12 DEF storeVars, claimVars
<1> QED BY <1>2, <1>3, <1>4, <1>5, <1>6, <1>7, <1>8, <1>9, <1>10, <1>11, <1>12 DEF StoreNext

\* Every step of the dispatchers is a transaction of the store or leaves the
\* store alone.
LEMMA StepOfStore ==
    ASSUME BaseInv, [DispatcherNext]_vars
    PROVE  [StoreNext]_storeVars
<1> USE StoreAssumption, DispatcherAssumption
<1>0. /\ clock \in Time
      /\ proc \in [Dispatcher -> Process]
      /\ \A d \in Dispatcher : ProcessOK(proc[d])
  BY DEF BaseInv, DispatcherTypeOK
<1>1. ASSUME NEW d \in Dispatcher
      PROVE  /\ proc[d].now \in Time
             /\ proc[d].until \in Expiry
             /\ proc[d].outcome \in Outcome
             /\ WorkerId[d] \in Owner
             /\ proc[d].claim # NoToken => proc[d].claim \in tokens
  BY <1>0 DEF Process, ProcessOK
<1>2. ASSUME NEW d \in Dispatcher, BeginTick(d) PROVE [StoreNext]_storeVars
  BY <1>0, <1>2 DEF BeginTick, StoreNext
<1>3. ASSUME NEW d \in Dispatcher, TickReapReservations(d) PROVE [StoreNext]_storeVars
  BY <1>1, <1>3 DEF TickReapReservations, StoreNext
<1>4. ASSUME NEW d \in Dispatcher, NEW x \in proc[d].todo, NEW r \in Capability,
             RouteCandidate(d, x, r)
      PROVE [StoreNext]_storeVars
  <2>1. x.activity \in Activity
    BY <1>0 DEF Process, Candidate
  <2> QED BY <1>4, <2>1 DEF RouteCandidate, StoreNext
<1>5. ASSUME NEW d \in Dispatcher, PersistAdmission(d) PROVE [StoreNext]_storeVars
  <2>1. proc[d].cur \in Activity
    BY <1>0, <1>5 DEF PersistAdmission, At, ProcessOK
  <2> QED BY <1>1, <1>5, <2>1 DEF PersistAdmission, Deferred, StoreNext
<1>6. ASSUME NEW d \in Dispatcher, ClaimCurrent(d) PROVE [StoreNext]_storeVars
  <2>1. proc[d].cur \in Activity
    BY <1>0, <1>6 DEF ClaimCurrent, At, ProcessOK
  <2>2. ASSUME Claim(proc[d].cur, WorkerId[d], proc[d].cap, proc[d].now)
        PROVE  proc[d].cap \in Capability
    BY <2>1, <2>2 DEF BaseInv, Routed, Claim, Claimable, Live
  <2> QED BY <1>1, <1>6, <2>1, <2>2 DEF ClaimCurrent, Deferred, StoreNext
<1>7. ASSUME NEW d \in Dispatcher, StartCurrent(d) PROVE [StoreNext]_storeVars
  <2>1. proc[d].claim \in tokens
    BY <1>0, <1>7 DEF StartCurrent, At, ProcessOK
  <2> QED BY <1>1, <1>7, <2>1 DEF StartCurrent, Deferred, StoreNext
<1>8. ASSUME NEW d \in Dispatcher, proc[d].step \in Executing, Renew(proc[d].claim, clock)
      PROVE [StoreNext]_storeVars
  <2>1. proc[d].claim \in tokens
    BY <1>0, <1>8 DEF ProcessOK
  <2> QED BY <1>0, <1>8, <2>1 DEF StoreNext
<1>9. ASSUME NEW d \in Dispatcher,
             ReturnFailure(d) \/ OpenSession(d) \/ BeginSend(d) \/ ReturnSuccess(d)
      PROVE [StoreNext]_storeVars
  BY <1>8, <1>9
     DEF ReturnFailure, OpenSession, BeginSend, ReturnSuccess, RenewAndGoTo, At, Executing
<1>10. ASSUME NEW d \in Dispatcher, Heartbeat(d) PROVE [StoreNext]_storeVars
  BY <1>8, <1>10 DEF Heartbeat, Executing
<1>11. ASSUME NEW d \in Dispatcher, FinishCurrent(d) PROVE [StoreNext]_storeVars
  <2>1. proc[d].claim \in tokens
    BY <1>0, <1>11 DEF FinishCurrent, At, ProcessOK
  <2> QED BY <1>0, <1>1, <1>11, <2>1 DEF FinishCurrent, Deferred, StoreNext
<1>12. ASSUME NEW a \in Activity, RequestActivity(a) PROVE [StoreNext]_storeVars
  BY <1>12 DEF RequestActivity, StoreNext
<1>13. ASSUME NEW d \in Dispatcher,
              \/ ListRunnable(d) \/ EndTick(d) \/ DecideAdmission(d) \/ Deliver(d)
              \/ RaiseInExecutor(d) \/ Crash(d)
              \/ \E x \in proc[d].todo : SkipCandidate(d, x) \/ TakeRouted(d, x)
       PROVE UNCHANGED storeVars
  BY <1>13 DEF ListRunnable, EndTick, DecideAdmission, Deliver, RaiseInExecutor, Crash,
               SkipCandidate, TakeRouted, Deferred
<1>14. ASSUME PassTime \/ UNCHANGED vars PROVE UNCHANGED storeVars
  BY <1>14 DEF PassTime, vars
<1> QED BY <1>2, <1>3, <1>4, <1>5, <1>6, <1>7, <1>9, <1>10, <1>11, <1>12, <1>13, <1>14
        DEF DispatcherNext, Proceed

\* Claims are handed out, never taken back.
LEMMA TokensGrow ==
    ASSUME [StoreNext]_storeVars
    PROVE  tokens \subseteq tokens'
BY DEF StoreNext, storeVars, InsertActivity, PersistRoute, Admit, Reject, Claim, Renew, Start,
       Complete, ReapClaims, ReapReservations

\* What a step that replaces the local variables of d by p has to show.
LEMMA Becomes ==
    ASSUME BaseInv, NEW d \in Dispatcher, NEW p \in Process, tokens \subseteq tokens',
           Become(d, p), ProcessOK(p)'
    PROVE  clock' \in Time /\ crashes' \in 0..CrashBound
           /\ proc' \in [Dispatcher -> Process]
           /\ \A e \in Dispatcher : ProcessOK(proc[e])'
<1>1. proc \in [Dispatcher -> Process] /\ \A e \in Dispatcher : ProcessOK(proc[e])
  BY DEF BaseInv, DispatcherTypeOK
<1>2. proc' = [proc EXCEPT ![d] = p] /\ clock' = clock /\ crashes' = crashes
  BY DEF Become
<1>3. proc' \in [Dispatcher -> Process]
  BY <1>1, <1>2
<1>4. ASSUME NEW e \in Dispatcher, e # d PROVE ProcessOK(proc[e])'
  BY <1>1, <1>2, <1>4 DEF ProcessOK
<1>5. proc'[d] = p
  BY <1>1, <1>2
<1>6. ProcessOK(proc[d])'
  BY <1>5 DEF ProcessOK
<1> QED BY <1>2, <1>3, <1>4, <1>6 DEF BaseInv, DispatcherTypeOK

\* A dispatcher that gives up a candidate, or starts afresh, is well-formed.
LEMMA LeavesWell ==
    ASSUME BaseInv, NEW d \in Dispatcher
    PROVE  /\ Fresh \in Process
           /\ [proc[d] EXCEPT !.step = "next", !.cur = NoActivity, !.cap = NoRoute,
                              !.claim = NoToken, !.until = 0, !.lease = 0,
                              !.beating = TRUE, !.outcome = "success"] \in Process
<1>1. proc[d] \in Process
  BY DEF BaseInv, DispatcherTypeOK
<1>2. 0 \in Time /\ 0 \in Expiry
  BY StoreAssumption DEF Time, Expiry
<1> QED BY <1>1, <1>2 DEF Fresh, Process, Step, Executing, Outcome

\* Every step keeps the variables of every process well-formed.
LEMMA BaseInvStep ==
    ASSUME BaseInv, [DispatcherNext]_vars
    PROVE  BaseInv'
<1>a. [StoreNext]_storeVars
  BY StepOfStore
<1>b. StoreTypeOK' /\ Routed' /\ tokens \subseteq tokens' /\ tokens' \subseteq Token
  <2>1. StoreTypeOK /\ Routed
    BY DEF BaseInv
  <2>2. StoreTypeOK'
    BY <1>a, <2>1, StoreTypeStep
  <2> QED BY <1>a, <2>1, <2>2, RoutedStep, TokensGrow DEF StoreTypeOK
<1>c. /\ clock \in Time /\ crashes \in 0..CrashBound
      /\ sent \subseteq Signal
      /\ proc \in [Dispatcher -> Process]
      /\ \A d \in Dispatcher : proc[d] \in Process /\ ProcessOK(proc[d])
      /\ route \in [Activity -> Capability \cup {NoRoute}]
      /\ tokens \subseteq Token
  BY DEF BaseInv, DispatcherTypeOK, StoreTypeOK
<1>d. /\ clock \in Int /\ clock + Reserve \in Expiry /\ clock + Lease \in Expiry
      /\ \A t \in Time : t \in Int /\ t + Lease \in Expiry
  BY <1>c, StoreAssumption DEF Time, Expiry
\* It is enough to name the new local variables p of the process that moves.
<1>e. ASSUME NEW d \in Dispatcher, NEW p \in Process, Become(d, p), ProcessOK(p)',
             sent' \subseteq Signal
      PROVE BaseInv'
  BY <1>b, <1>e, Becomes DEF BaseInv, DispatcherTypeOK
<1>f. ASSUME NEW d \in Dispatcher, NEW p \in Process, Quietly(d, p), ProcessOK(p)'
      PROVE BaseInv'
  BY <1>c, <1>e, <1>f DEF Quietly
<1>1. ASSUME NEW d \in Dispatcher, BeginTick(d) PROVE BaseInv'
  <2>0. PICK p : p = [proc[d] EXCEPT !.step = "reaping", !.now = clock]
    OBVIOUS
  <2>1. p \in Process /\ p.step = "reaping" /\ p.now = clock /\ p.claim = proc[d].claim
    BY <1>c, <2>0 DEF Process, Step
  <2>2. Quietly(d, p) /\ clock' = clock /\ proc[d].step = "idle"
    BY <1>1, <2>0 DEF BeginTick, Quietly, Become, At
  <2>3. ProcessOK(p)'
    BY <1>b, <1>c, <1>d, <2>1, <2>2 DEF ProcessOK, Executing
  <2> QED BY <1>f, <2>1, <2>2, <2>3
\* A step that leaves the claim and the time of the tick alone.
<1>g. ASSUME NEW d \in Dispatcher, NEW p \in Process, clock' = clock,
             p.now = proc[d].now, p.claim = proc[d].claim,
             p.step \in {"deciding", "admitting", "claiming"} => p.cur \in Activity,
             p.step \in {"starting", "finishing"} \cup Executing <=>
                 proc[d].step \in {"starting", "finishing"} \cup Executing
      PROVE ProcessOK(p)'
  BY <1>b, <1>c, <1>g DEF ProcessOK
<1>2. ASSUME NEW d \in Dispatcher, TickReapReservations(d) PROVE BaseInv'
  <2>0. PICK p : p = [proc[d] EXCEPT !.step = "listing"]
    OBVIOUS
  <2>1. p \in Process /\ p.step = "listing" /\ p.now = proc[d].now /\ p.claim = proc[d].claim
    BY <1>c, <2>0 DEF Process, Step
  <2>2. Quietly(d, p) /\ clock' = clock /\ proc[d].step = "reaping"
    BY <1>2, <2>0 DEF TickReapReservations, Quietly, Become, At
  <2>3. ProcessOK(p)'
    BY <1>g, <2>1, <2>2 DEF Executing
  <2> QED BY <1>f, <2>1, <2>2, <2>3
<1>3. ASSUME NEW d \in Dispatcher, ListRunnable(d) PROVE BaseInv'
  <2>0. PICK p : p = [proc[d] EXCEPT !.step = "next", !.todo = Runnable]
    OBVIOUS
  <2>1. Runnable \subseteq Candidate
    <3> SUFFICES ASSUME NEW x \in Runnable PROVE x \in Candidate
      OBVIOUS
    <3>1. PICK a \in Activity : x = [activity |-> a, routed |-> status[a] = "waiting_admission"]
      BY DEF Runnable, RunnableActivities
    <3>2. (status[a] = "waiting_admission") \in BOOLEAN
      OBVIOUS
    <3>3. PICK b \in BOOLEAN : b = (status[a] = "waiting_admission")
      BY <3>2, Zenon
    <3>4. x = [activity |-> a, routed |-> b]
      BY <3>1, <3>3, Zenon
    <3> QED BY <3>4 DEF Candidate
  <2>2. p \in Process /\ p.step = "next" /\ p.now = proc[d].now /\ p.claim = proc[d].claim
    BY <1>c, <2>0, <2>1 DEF Process, Step
  <2>3. Quietly(d, p) /\ clock' = clock /\ proc[d].step = "listing"
    BY <1>3, <2>0 DEF ListRunnable, Quietly, Become, At
  <2>4. ProcessOK(p)'
    BY <1>g, <2>2, <2>3 DEF Executing
  <2> QED BY <1>f, <2>2, <2>3, <2>4
<1>h. ASSUME NEW d \in Dispatcher PROVE Fresh \in Process /\ (clock' = clock => ProcessOK(Fresh)')
  <2>1. Fresh \in Process
    BY LeavesWell
  <2>2. /\ Fresh.now = 0 /\ Fresh.step = "idle" /\ Fresh.claim = NoToken
        /\ clock \in Nat
    BY <1>c, StoreAssumption DEF Fresh, Time
  <2>3. ASSUME clock' = clock PROVE ProcessOK(Fresh)'
    BY <2>2, <2>3 DEF ProcessOK, Executing
  <2> QED BY <2>1, <2>3
<1>4. ASSUME NEW d \in Dispatcher, EndTick(d) PROVE BaseInv'
  <2>1. Quietly(d, Fresh) /\ clock' = clock
    BY <1>4 DEF EndTick, Quietly, Become
  <2> QED BY <1>f, <1>h, <2>1
<1>5. ASSUME NEW d \in Dispatcher, Leave(d) PROVE BaseInv'
  <2>0. PICK p : p = [proc[d] EXCEPT !.step = "next", !.cur = NoActivity, !.cap = NoRoute,
                                     !.claim = NoToken, !.until = 0, !.lease = 0,
                                     !.beating = TRUE, !.outcome = "success"]
    OBVIOUS
  <2>1. p \in Process
    BY <2>0, LeavesWell
  <2>2. p.step = "next" /\ p.claim = NoToken /\ p.now = proc[d].now
    BY <1>c, <2>0 DEF Process
  <2>3. Quietly(d, p) /\ clock' = clock
    BY <1>5, <2>0 DEF Leave, Quietly, Become
  <2>4. ProcessOK(p)'
    BY <1>c, <2>2, <2>3 DEF ProcessOK, Executing
  <2> QED BY <1>f, <2>1, <2>3, <2>4
<1>6. ASSUME NEW d \in Dispatcher, NEW x \in proc[d].todo, SkipCandidate(d, x) PROVE BaseInv'
  <2>0. PICK p : p = [proc[d] EXCEPT !.todo = @ \ {x}]
    OBVIOUS
  <2>1. /\ p \in Process /\ p.step = proc[d].step /\ p.cur = proc[d].cur
        /\ p.now = proc[d].now /\ p.claim = proc[d].claim
    BY <1>c, <2>0 DEF Process
  <2>2. Quietly(d, p) /\ clock' = clock /\ proc[d].step = "next"
    BY <1>6, <2>0 DEF SkipCandidate, Visits, At, Quietly, Become
  <2>3. ProcessOK(p)'
    BY <1>g, <2>1, <2>2
  <2> QED BY <1>f, <2>1, <2>2, <2>3
<1>7. ASSUME NEW d \in Dispatcher, NEW x \in proc[d].todo, Quietly(d, Visiting(d, x)),
             At(d, "next")
      PROVE BaseInv'
  <2>0. PICK p : p = Visiting(d, x)
    OBVIOUS
  <2>1. x.activity \in Activity
    BY <1>c DEF Process, Candidate
  <2>2. /\ p \in Process /\ p.step = "deciding" /\ p.cur = x.activity
        /\ p.now = proc[d].now /\ p.claim = proc[d].claim
    BY <1>c, <2>0, <2>1 DEF Visiting, Process, Step
  <2>3. Quietly(d, p) /\ clock' = clock /\ proc[d].step = "next"
    BY <1>7, <2>0 DEF Quietly, Become, At
  <2>4. ProcessOK(p)'
    BY <1>g, <2>1, <2>2, <2>3 DEF Executing
  <2> QED BY <1>f, <2>2, <2>3, <2>4
<1>8. ASSUME NEW d \in Dispatcher, NEW x \in proc[d].todo, TakeRouted(d, x) PROVE BaseInv'
  BY <1>7, <1>8 DEF TakeRouted, Visits
<1>9. ASSUME NEW d \in Dispatcher, NEW x \in proc[d].todo, NEW r \in Capability,
             RouteCandidate(d, x, r)
      PROVE BaseInv'
  BY <1>7, <1>9 DEF RouteCandidate, Visits
<1>10. ASSUME NEW d \in Dispatcher, DecideAdmission(d) PROVE BaseInv'
  <2>0. PICK p : p = [proc[d] EXCEPT !.step = "admitting", !.until = clock + Reserve]
    OBVIOUS
  <2>1. /\ p \in Process /\ p.step = "admitting" /\ p.cur = proc[d].cur
        /\ p.now = proc[d].now /\ p.claim = proc[d].claim
    BY <1>c, <1>d, <2>0 DEF Process, Step
  <2>2. CASE Quietly(d, p)
    <3>1. clock' = clock /\ proc[d].step = "deciding" /\ proc[d].cur \in Activity
      BY <1>c, <1>10, <2>2 DEF DecideAdmission, Quietly, Become, At, ProcessOK
    <3>2. ProcessOK(p)'
      BY <1>g, <2>1, <3>1 DEF Executing
    <3> QED BY <1>f, <2>1, <2>2, <3>2
  <2> QED BY <1>5, <1>10, <2>0, <2>2 DEF DecideAdmission, Deferred
<1>11. ASSUME NEW d \in Dispatcher, PersistAdmission(d) PROVE BaseInv'
  <2>0. PICK p : p = [proc[d] EXCEPT !.step = "claiming", !.cap = route[proc[d].cur]]
    OBVIOUS
  <2>1. proc[d].step = "admitting" /\ proc[d].cur \in Activity
    BY <1>c, <1>11 DEF PersistAdmission, At, ProcessOK
  <2>2. /\ p \in Process /\ p.step = "claiming" /\ p.cur = proc[d].cur
        /\ p.now = proc[d].now /\ p.claim = proc[d].claim
    BY <1>c, <2>0, <2>1 DEF Process, Step
  <2>3. CASE Quietly(d, p)
    <3>1. clock' = clock
      BY <2>3 DEF Quietly, Become
    <3>2. ProcessOK(p)'
      BY <1>g, <2>1, <2>2, <3>1 DEF Executing
    <3> QED BY <1>f, <2>2, <2>3, <3>2
  <2> QED BY <1>5, <1>11, <2>0, <2>3 DEF PersistAdmission, Deferred
<1>12. ASSUME NEW d \in Dispatcher, ClaimCurrent(d) PROVE BaseInv'
  <2>0. PICK new : new = FreshToken(proc[d].cur, WorkerId[d])
    OBVIOUS
  <2>1. PICK p : p = [proc[d] EXCEPT !.step = "starting", !.lease = proc[d].now + Lease,
                                     !.claim = new]
    OBVIOUS
  <2>2. CASE Claim(proc[d].cur, WorkerId[d], proc[d].cap, proc[d].now) /\ Quietly(d, p)
    <3>1. new \in tokens' /\ new \in Token
      BY <1>b, <2>0, <2>2 DEF Claim
    <3>2. /\ p \in Process /\ p.step = "starting" /\ p.claim = new /\ p.now = proc[d].now
      <4>1. proc[d].now + Lease \in Expiry
        BY <1>c, <1>d DEF Process
      <4> QED BY <1>c, <2>1, <3>1, <4>1 DEF Process, Step
    <3>3. new # NoToken /\ clock' = clock
      BY <2>2, <3>1, DispatcherAssumption DEF Quietly, Become
    <3>4. ProcessOK(p)'
      BY <1>c, <3>1, <3>2, <3>3 DEF ProcessOK, Executing
    <3> QED BY <1>f, <2>2, <3>2, <3>4
  <2> QED BY <1>5, <1>12, <2>0, <2>1, <2>2 DEF ClaimCurrent, Deferred
<1>13. ASSUME NEW d \in Dispatcher, StartCurrent(d) PROVE BaseInv'
  <2>0. PICK p : p = [proc[d] EXCEPT !.step = "opening"]
    OBVIOUS
  <2>1. p \in Process /\ p.step = "opening" /\ p.now = proc[d].now /\ p.claim = proc[d].claim
    BY <1>c, <2>0 DEF Process, Step, Executing
  <2>2. CASE Quietly(d, p)
    <3>1. clock' = clock /\ proc[d].step = "starting"
      BY <1>13, <2>2 DEF StartCurrent, Quietly, Become, At
    <3>2. ProcessOK(p)'
      BY <1>g, <2>1, <3>1 DEF Executing
    <3> QED BY <1>f, <2>1, <2>2, <3>2
  <2> QED BY <1>5, <1>13, <2>0, <2>2 DEF StartCurrent, Deferred
<1>14. ASSUME NEW d \in Dispatcher, NEW step \in Executing \cup {"finishing"}, NEW o \in Outcome,
              proc[d].step \in Executing, RenewAndGoTo(d, step, o)
       PROVE BaseInv'
  <2>0. PICK p : p = [proc[d] EXCEPT !.step = step, !.lease = clock + Lease, !.outcome = o]
    OBVIOUS
  <2>1. p \in Process /\ p.step = step /\ p.now = proc[d].now /\ p.claim = proc[d].claim
    BY <1>c, <1>d, <2>0 DEF Process, Step
  <2>2. Quietly(d, p) /\ clock' = clock
    BY <1>14, <2>0 DEF RenewAndGoTo, Quietly, Become
  <2>3. ProcessOK(p)'
    BY <1>g, <1>14, <2>1, <2>2 DEF Executing
  <2> QED BY <1>f, <2>1, <2>2, <2>3
<1>15. ASSUME NEW d \in Dispatcher,
              ReturnFailure(d) \/ OpenSession(d) \/ BeginSend(d) \/ ReturnSuccess(d)
       PROVE BaseInv'
  BY <1>14, <1>15
     DEF ReturnFailure, OpenSession, BeginSend, ReturnSuccess, At, Executing, Outcome
<1>16. ASSUME NEW d \in Dispatcher, proc[d].step \in Executing PROVE Message(d) \in Signal
  <2>1. proc[d].claim \in Token
    BY <1>c, <1>16 DEF ProcessOK
  <2> QED BY <2>1 DEF Message, Signal, Token
<1>17. ASSUME NEW d \in Dispatcher, Deliver(d) PROVE BaseInv'
  <2>0. PICK p : p = [proc[d] EXCEPT !.step = "sent"]
    OBVIOUS
  <2>1. p \in Process /\ p.step = "sent" /\ p.now = proc[d].now /\ p.claim = proc[d].claim
    BY <1>c, <2>0 DEF Process, Step, Executing
  <2>2. Become(d, p) /\ clock' = clock /\ proc[d].step = "sending"
    BY <1>17, <2>0 DEF Deliver, Become, At
  <2>3. ProcessOK(p)'
    BY <1>g, <2>1, <2>2 DEF Executing
  <2>4. sent' \subseteq Signal
    BY <1>c, <1>16, <1>17 DEF Deliver, At, Executing
  <2> QED BY <1>e, <2>1, <2>2, <2>3, <2>4
<1>18. ASSUME NEW d \in Dispatcher, RaiseInExecutor(d) PROVE BaseInv'
  <2>0. PICK p : p = [proc[d] EXCEPT !.step = "finishing",
                                     !.outcome = ExceptionOutcome(proc[d].claim)]
    OBVIOUS
  <2>1. p \in Process /\ p.step = "finishing" /\ p.now = proc[d].now /\ p.claim = proc[d].claim
    BY <1>c, <2>0 DEF Process, Step, ExceptionOutcome, Outcome
  <2>2. Become(d, p) /\ clock' = clock /\ proc[d].step \in Executing
    BY <1>18, <2>0 DEF RaiseInExecutor, Become, At, Executing
  <2>3. ProcessOK(p)'
    BY <1>g, <2>1, <2>2
  <2>4. sent' \subseteq Signal
    BY <1>c, <1>16, <1>18, <2>2 DEF RaiseInExecutor
  <2> QED BY <1>e, <2>1, <2>2, <2>3, <2>4
<1>19. ASSUME NEW d \in Dispatcher, Heartbeat(d) PROVE BaseInv'
  <2>0. PICK p : \/ p = [proc[d] EXCEPT !.lease = clock + Lease] /\ Quietly(d, p)
                 \/ p = [proc[d] EXCEPT !.beating = FALSE] /\ Quietly(d, p)
    BY <1>19 DEF Heartbeat
  <2>1. /\ p \in Process /\ p.step = proc[d].step /\ p.cur = proc[d].cur
        /\ p.now = proc[d].now /\ p.claim = proc[d].claim
    BY <1>c, <1>d, <2>0 DEF Process
  <2>2. Quietly(d, p) /\ clock' = clock /\ proc[d].step \in {"binding", "sending"}
    BY <1>19, <2>0 DEF Heartbeat, Quietly, Become
  <2>3. ProcessOK(p)'
    BY <1>g, <2>1, <2>2
  <2> QED BY <1>f, <2>1, <2>2, <2>3
<1>20. ASSUME NEW d \in Dispatcher, FinishCurrent(d) PROVE BaseInv'
  BY <1>5, <1>20 DEF FinishCurrent, Deferred
<1>21. ASSUME NEW d \in Dispatcher, Crash(d) PROVE BaseInv'
  <2>2. /\ proc' = [proc EXCEPT ![d] = Fresh] /\ clock' = clock /\ sent' = sent
        /\ crashes' \in 0..CrashBound
    BY <1>c, <1>21, DispatcherAssumption DEF Crash
  <2>4. proc' \in [Dispatcher -> Process]
    BY <1>c, <1>h, <2>2
  <2>5. ASSUME NEW e \in Dispatcher PROVE ProcessOK(proc[e])'
    <3>1. CASE e = d
      <4>1. proc'[e] = Fresh
        BY <1>c, <2>2, <3>1
      <4> QED BY <1>h, <2>2, <4>1 DEF ProcessOK
    <3>2. CASE e # d
      <4>1. proc'[e] = proc[e]
        BY <1>c, <2>2, <3>2
      <4> QED BY <1>b, <1>c, <2>2, <4>1 DEF ProcessOK
    <3> QED BY <3>1, <3>2
  <2> QED BY <1>b, <1>c, <2>2, <2>4, <2>5 DEF BaseInv, DispatcherTypeOK
<1>22. ASSUME proc' = proc, sent' = sent, crashes' = crashes, clock' \in Time, clock <= clock'
       PROVE BaseInv'
  <2>1. ASSUME NEW e \in Dispatcher PROVE ProcessOK(proc[e])'
    <3>1. proc[e].now \in Int /\ clock' \in Int
      BY <1>c, <1>d, <1>22 DEF Process
    <3> QED BY <1>b, <1>c, <1>d, <1>22, <3>1 DEF ProcessOK
  <2> QED BY <1>b, <1>c, <1>22, <2>1 DEF BaseInv, DispatcherTypeOK
<1>23. ASSUME PassTime PROVE BaseInv'
  <2>1. clock' \in Time /\ clock <= clock'
    BY <1>c, <1>23, StoreAssumption DEF PassTime, Time
  <2>2. proc' = proc /\ sent' = sent /\ crashes' = crashes
    BY <1>23 DEF PassTime
  <2> QED BY <1>22, <2>1, <2>2
<1>24. ASSUME (\E a \in Activity : RequestActivity(a)) \/ UNCHANGED vars PROVE BaseInv'
  BY <1>c, <1>d, <1>22, <1>24 DEF RequestActivity, vars
<1> QED BY <1>1, <1>2, <1>3, <1>4, <1>6, <1>8, <1>9, <1>10, <1>11, <1>12, <1>13, <1>15,
           <1>17, <1>18, <1>19, <1>20, <1>21, <1>23, <1>24
        DEF DispatcherNext, Proceed

\* BaseInv holds of the first state and of every step.
LEMMA BaseInvHolds == DispatcherSpec => []BaseInv
<1>1. DispatcherInit => BaseInv
  <2> SUFFICES ASSUME DispatcherInit PROVE BaseInv
    OBVIOUS
  <2>1. StoreInit /\ StoreTypeOK
    BY StoreTypeInit DEF DispatcherInit
  <2>2. Routed
    BY <2>1 DEF StoreInit, Routed, Live
  <2>3. /\ clock \in Time /\ crashes \in 0..CrashBound /\ sent \subseteq Signal
        /\ Fresh \in Process
    BY StoreAssumption, DispatcherAssumption
       DEF DispatcherInit, Time, Expiry, Fresh, Process, Step, Executing, Outcome
  <2>4. proc \in [Dispatcher -> Process]
    BY <2>3 DEF DispatcherInit
  <2>5. ASSUME NEW d \in Dispatcher PROVE ProcessOK(proc[d])
    BY DEF DispatcherInit, ProcessOK, Fresh, Executing
  <2> QED BY <2>1, <2>2, <2>3, <2>4, <2>5 DEF BaseInv, DispatcherTypeOK
<1>2. BaseInv /\ [DispatcherNext]_vars => BaseInv'
  BY BaseInvStep
<1> QED BY <1>1, <1>2, PTL DEF DispatcherSpec

\* activity_dispatcher.py uses the store only through its transactions: what
\* the store guarantees to arbitrary callers, it guarantees to dispatchers.
THEOREM DispatcherImplementsStore == DispatcherSpec => StoreSpec
<1>1. DispatcherInit => StoreInit
  BY DEF DispatcherInit
<1>2. BaseInv /\ [DispatcherNext]_vars => [StoreNext]_storeVars
  BY StepOfStore
<1> QED BY <1>1, <1>2, BaseInvHolds, PTL DEF DispatcherSpec, StoreSpec

\* The local variables of a tick stay in their domains.
THEOREM DispatcherTypeCorrect == DispatcherSpec => []DispatcherTypeOK
<1>1. BaseInv => DispatcherTypeOK
  BY DEF BaseInv
<1> QED BY <1>1, BaseInvHolds, PTL

-----------------------------------------------------------------------------
(***************************************************************************)
(* Leases                                                                  *)
(***************************************************************************)

\* The row of c's activity is claimed by c until x.
Row(c, x) ==
    /\ status[c.activity] \in Live
    /\ attempts[c.activity] = c.attempt
    /\ owner[c.activity] = c.owner
    /\ fence[c.activity] = c.fence
    /\ expires[c.activity] = x

\* A claim object whose own expiry lies in the future is its row's claim, and
\* the row has the same expiry.
Current(p) == p.claim # NoToken /\ p.lease > clock => Row(p.claim, p.lease)

\* No two processes hold the same claim.
Exclusive ==
    \A d, e \in Dispatcher :
        d # e /\ proc[d].claim # NoToken => proc[d].claim # proc[e].claim

LeaseInv == Exclusive /\ \A d \in Dispatcher : Current(proc[d])

\* Transactions that cannot take away a claim that is not expired, whoever
\* runs them: their time is the time of some tick, and never in the future.
Harmless ==
    \/ \E a \in Activity : \/ InsertActivity(a)
                           \/ \E cap \in Capability : PersistRoute(a, cap)
                           \/ \E t \in Time, e \in Expiry : Admit(a, e, t)
    \/ \E a \in Activity, w \in Owner, cap \in Capability, t \in Time :
          t <= clock /\ Claim(a, w, cap, t)
    \/ \E c \in tokens, t \in Time : Start(c, t)
    \/ \E t \in Time : t <= clock /\ (ReapClaims(t) \/ ReapReservations(t))
    \/ UNCHANGED storeVars

\* Transactions on behalf of another claim than c.
ForAnother(c) ==
    \E b \in tokens \ {c}, t \in Time : Renew(b, t) \/ \E o \in Outcome : Complete(b, o, t)

\* Neither kind touches the row of an unexpired claim.
LEMMA RowKept ==
    ASSUME StoreTypeOK, FenceIdentifiesClaim, clock \in Int,
           NEW c \in tokens, NEW x \in Int, x > clock, Row(c, x),
           Harmless \/ ForAnother(c)
    PROVE  Row(c, x)'
<1> DEFINE a == c.activity
<1>0. /\ a \in Activity
      /\ tokens \subseteq Token
      /\ status \in [Activity -> Status]
      /\ attempts \in [Activity -> Nat]
      /\ fence \in [Activity -> Nat]
      /\ owner \in [Activity -> Owner \cup {NoOwner}]
      /\ expires \in [Activity -> Expiry \cup {NoTime}]
      /\ \A t \in Time : t \in Int
  BY StoreAssumption DEF StoreTypeOK, Token, Time
<1>1. status[a] \in Live /\ expires[a] = x
  BY DEF Row
<1>2. ASSUME NEW b \in Activity, InsertActivity(b) PROVE Row(c, x)'
  BY <1>0, <1>1, <1>2 DEF InsertActivity, Row, Live
<1>3. ASSUME NEW b \in Activity, NEW cap \in Capability, PersistRoute(b, cap)
      PROVE Row(c, x)'
  BY <1>0, <1>1, <1>3 DEF PersistRoute, Routable, Unrouted, Row, Live
<1>4. ASSUME NEW b \in Activity, NEW t \in Time, NEW e \in Expiry, Admit(b, e, t)
      PROVE Row(c, x)'
  BY <1>4 DEF Admit, claimVars, Row
<1>5. ASSUME NEW b \in Activity, NEW w \in Owner, NEW cap \in Capability, NEW t \in Time,
             t <= clock, Claim(b, w, cap, t)
      PROVE Row(c, x)'
  <2>1. b # a
    BY <1>0, <1>1, <1>5 DEF Claim, Claimable, Live
  <2> QED BY <1>0, <1>5, <2>1 DEF Claim, Row
<1>6. ASSUME NEW b \in tokens, NEW t \in Time, Start(b, t) PROVE Row(c, x)'
  BY <1>0, <1>1, <1>6 DEF Start, Row, Live, Token
<1>7. ASSUME NEW t \in Time, t <= clock, ReapClaims(t) PROVE Row(c, x)'
  <2>1. a \notin ExpiredClaims(t)
    BY <1>0, <1>1, <1>7 DEF ExpiredClaims
  <2> QED BY <1>0, <1>7, <2>1 DEF ReapClaims, Row
<1>8. ASSUME NEW t \in Time, ReapReservations(t) PROVE Row(c, x)'
  BY <1>8 DEF ReapReservations, claimVars, Row
<1>9. ASSUME UNCHANGED storeVars PROVE Row(c, x)'
  BY <1>9 DEF storeVars, claimVars, Row
<1>10. ASSUME NEW b \in tokens \ {c}, NEW t \in Time, Holds(b, t) PROVE b.activity # a
  <2>1. b.fence = c.fence => b.activity # a
    BY <1>10 DEF FenceIdentifiesClaim
  <2> QED BY <1>10, <2>1 DEF Holds, Row
<1>11. ASSUME NEW b \in tokens \ {c}, NEW t \in Time, Renew(b, t) PROVE Row(c, x)'
  <2>1. b.activity # a
    BY <1>10, <1>11 DEF Renew, Renewable
  <2> QED BY <1>0, <1>11, <2>1 DEF Renew, Row
<1>12. ASSUME NEW b \in tokens \ {c}, NEW t \in Time, NEW o \in Outcome, Complete(b, o, t)
       PROVE Row(c, x)'
  <2>1. b.activity # a
    BY <1>10, <1>12 DEF Complete, Completable
  <2>2. /\ UNCHANGED <<attempts, fence>>
        /\ owner' = [owner EXCEPT ![b.activity] = NoOwner]
        /\ expires' = [expires EXCEPT ![b.activity] = NoTime]
        /\ status'[a] = status[a]
    BY <1>0, <1>12, <2>1 DEF Complete
  <2> QED BY <1>0, <2>1, <2>2 DEF Row
<1> QED BY <1>2, <1>3, <1>4, <1>5, <1>6, <1>7, <1>8, <1>9, <1>11, <1>12
        DEF Harmless, ForAnother

\* What d's step leaves to show: nothing is taken from the other processes,
\* and d's new variables p are current and do not share a claim.
LEMMA LeaseMove ==
    ASSUME BaseInv, FenceInv, LeaseInv, NEW d \in Dispatcher, NEW p \in Process,
           Become(d, p), Current(p)',
           \/ Harmless
           \/ /\ proc[d].claim # NoToken
              /\ \A c \in tokens : c # proc[d].claim => ForAnother(c),
           p.claim \in {NoToken, proc[d].claim} \/ p.claim \notin tokens
    PROVE  LeaseInv'
<1>0. /\ StoreTypeOK /\ FenceIdentifiesClaim
      /\ clock \in Int /\ clock' = clock
      /\ proc \in [Dispatcher -> Process]
      /\ proc' = [proc EXCEPT ![d] = p]
      /\ \A e \in Dispatcher : /\ proc[e] \in Process
                               /\ proc[e].lease \in Int
                               /\ proc[e].claim # NoToken => proc[e].claim \in tokens
      /\ Exclusive
  BY StoreAssumption
     DEF BaseInv, FenceInv, DispatcherTypeOK, LeaseInv, ProcessOK, Become, Process, Time, Expiry
<1>1. ASSUME NEW e \in Dispatcher, e # d PROVE Current(proc[e])'
  <2>0. PICK q : q = proc[e]
    OBVIOUS
  <2>1. proc'[e] = q
    BY <1>0, <1>1, <2>0
  <2>2. SUFFICES ASSUME q.claim # NoToken, q.lease > clock PROVE Row(q.claim, q.lease)'
    BY <1>0, <2>1 DEF Current, Row
  <2>3. q.claim \in tokens /\ q.lease \in Int /\ Row(q.claim, q.lease)
    BY <1>0, <2>0, <2>2 DEF LeaseInv, Current
  <2>4. Harmless \/ ForAnother(q.claim)
    <3>1. proc[d].claim # NoToken => q.claim # proc[d].claim
      BY <1>0, <1>1, <2>0 DEF Exclusive
    <3> QED BY <2>3, <3>1
  <2> QED BY <1>0, <2>2, <2>3, <2>4, RowKept
<1>2. Current(proc[d])'
  <2>1. proc'[d] = p
    BY <1>0
  <2> QED BY <2>1 DEF Current, Row
<1>3. Exclusive'
  <2>1. \A e \in Dispatcher : proc'[e] = IF e = d THEN p ELSE proc[e]
    BY <1>0
  <2> QED BY <1>0, <2>1 DEF Exclusive
<1> QED BY <1>1, <1>2, <1>3 DEF LeaseInv

\* A step of d that keeps its claim and its lease, or gives the claim up, is
\* covered by what it does to the store.
LEMMA LeaseKept ==
    ASSUME BaseInv, FenceInv, LeaseInv, NEW d \in Dispatcher, NEW p \in Process,
           Become(d, p), Harmless,
           p.claim = NoToken \/ (p.claim = proc[d].claim /\ p.lease = proc[d].lease)
    PROVE  LeaseInv'
<1>0. /\ StoreTypeOK /\ FenceIdentifiesClaim
      /\ clock \in Int /\ clock' = clock
      /\ proc[d].lease \in Int
      /\ proc[d].claim # NoToken => proc[d].claim \in tokens
      /\ Current(proc[d])
  BY StoreAssumption
     DEF BaseInv, FenceInv, DispatcherTypeOK, LeaseInv, ProcessOK, Become, Process, Time, Expiry
<1>1. Current(p)'
  <2>1. SUFFICES ASSUME p.claim # NoToken, p.lease > clock PROVE Row(p.claim, p.lease)'
    BY <1>0 DEF Current, Row
  <2>2. p.claim \in tokens /\ p.lease \in Int /\ Row(p.claim, p.lease)
    BY <1>0, <2>1 DEF Current
  <2> QED BY <1>0, <2>1, <2>2, RowKept
<1> QED BY <1>1, LeaseMove

\* Every step keeps the lease invariant.
LEMMA LeaseInvStep ==
    ASSUME BaseInv, FenceInv, LeaseInv, [DispatcherNext]_vars
    PROVE  LeaseInv'
<1>0. /\ StoreTypeOK /\ FenceIdentifiesClaim
      /\ clock \in Time /\ clock \in Int
      /\ proc \in [Dispatcher -> Process]
      /\ \A d \in Dispatcher : /\ proc[d] \in Process
                               /\ proc[d].now \in Time /\ proc[d].now <= clock
                               /\ proc[d].until \in Expiry
                               /\ proc[d].outcome \in Outcome
                               /\ WorkerId[d] \in Owner
                               /\ proc[d].claim # NoToken => proc[d].claim \in tokens
                               /\ ProcessOK(proc[d])
  BY StoreAssumption, DispatcherAssumption
     DEF BaseInv, FenceInv, DispatcherTypeOK, ProcessOK, Process, Time
\* Leaving a candidate, and starting afresh.
<1>1. ASSUME NEW d \in Dispatcher, Leave(d), Harmless PROVE LeaseInv'
  <2>0. PICK p : p = [proc[d] EXCEPT !.step = "next", !.cur = NoActivity, !.cap = NoRoute,
                                     !.claim = NoToken, !.until = 0, !.lease = 0,
                                     !.beating = TRUE, !.outcome = "success"]
    OBVIOUS
  <2>1. p \in Process /\ p.claim = NoToken
    <3>1. p \in Process
      BY <2>0, LeavesWell
    <3> QED BY <1>0, <2>0, <3>1 DEF Process
  <2>2. Become(d, p)
    BY <1>1, <2>0 DEF Leave, Quietly
  <2> QED BY <1>1, <2>1, <2>2, LeaseKept
<1>2. ASSUME NEW d \in Dispatcher, NEW p, Become(d, p), proc'[d] \in Process, Harmless,
             p.claim = proc[d].claim, p.lease = proc[d].lease
      PROVE LeaseInv'
  <2>1. p \in Process
    BY <1>0, <1>2 DEF Become
  <2> QED BY <1>2, <2>1, LeaseKept
<1>3. \A d \in Dispatcher : proc'[d] \in Process
  <2>1. BaseInv'
    BY BaseInvStep
  <2> QED BY <2>1 DEF BaseInv, DispatcherTypeOK
<1>4. ASSUME NEW d \in Dispatcher, BeginTick(d) PROVE LeaseInv'
  <2>0. PICK p : p = [proc[d] EXCEPT !.step = "reaping", !.now = clock]
    OBVIOUS
  <2>1. p.claim = proc[d].claim /\ p.lease = proc[d].lease
    BY <1>0, <2>0 DEF Process
  <2>2. Become(d, p) /\ Harmless
    BY <1>0, <1>4, <2>0 DEF BeginTick, Quietly, Harmless
  <2> QED BY <1>2, <1>3, <2>1, <2>2
<1>5. ASSUME NEW d \in Dispatcher, TickReapReservations(d) PROVE LeaseInv'
  <2>0. PICK p : p = [proc[d] EXCEPT !.step = "listing"]
    OBVIOUS
  <2>1. p.claim = proc[d].claim /\ p.lease = proc[d].lease
    BY <1>0, <2>0 DEF Process
  <2>2. Become(d, p) /\ Harmless
    BY <1>0, <1>5, <2>0 DEF TickReapReservations, Quietly, Harmless
  <2> QED BY <1>2, <1>3, <2>1, <2>2
<1>6. ASSUME NEW d \in Dispatcher, ListRunnable(d) PROVE LeaseInv'
  <2>0. PICK p : p = [proc[d] EXCEPT !.step = "next", !.todo = Runnable]
    OBVIOUS
  <2>1. p.claim = proc[d].claim /\ p.lease = proc[d].lease
    BY <1>0, <2>0 DEF Process
  <2>2. Become(d, p) /\ Harmless
    BY <1>6, <2>0 DEF ListRunnable, Quietly, Harmless
  <2> QED BY <1>2, <1>3, <2>1, <2>2
<1>7. ASSUME NEW d \in Dispatcher, EndTick(d) PROVE LeaseInv'
  <2>1. Become(d, Fresh) /\ Harmless /\ Fresh.claim = NoToken
    BY <1>7 DEF EndTick, Quietly, Harmless, Fresh
  <2>2. PICK p \in Process : p = Fresh
    BY LeavesWell
  <2>3. Become(d, p) /\ p.claim = NoToken
    BY <2>1, <2>2
  <2> QED BY <2>1, <2>3, LeaseKept
<1>8. ASSUME NEW d \in Dispatcher, NEW x \in proc[d].todo, SkipCandidate(d, x) PROVE LeaseInv'
  <2>0. PICK p : p = [proc[d] EXCEPT !.todo = @ \ {x}]
    OBVIOUS
  <2>1. p.claim = proc[d].claim /\ p.lease = proc[d].lease
    BY <1>0, <2>0 DEF Process
  <2>2. Become(d, p) /\ Harmless
    BY <1>8, <2>0 DEF SkipCandidate, Quietly, Harmless
  <2> QED BY <1>2, <1>3, <2>1, <2>2
<1>9. ASSUME NEW d \in Dispatcher, NEW x \in proc[d].todo, Quietly(d, Visiting(d, x)), Harmless
      PROVE LeaseInv'
  <2>0. PICK p : p = Visiting(d, x)
    OBVIOUS
  <2>1. p.claim = proc[d].claim /\ p.lease = proc[d].lease
    BY <1>0, <2>0 DEF Process, Visiting
  <2>2. Become(d, p)
    BY <1>9, <2>0 DEF Quietly
  <2> QED BY <1>2, <1>3, <1>9, <2>1, <2>2
<1>10. ASSUME NEW d \in Dispatcher, NEW x \in proc[d].todo, TakeRouted(d, x) PROVE LeaseInv'
  BY <1>9, <1>10 DEF TakeRouted, Harmless
<1>11. ASSUME NEW d \in Dispatcher, NEW x \in proc[d].todo, NEW r \in Capability,
              RouteCandidate(d, x, r)
       PROVE LeaseInv'
  <2>1. x.activity \in Activity
    BY <1>0 DEF Process, Candidate
  <2> QED BY <1>9, <1>11, <2>1 DEF RouteCandidate, Harmless
<1>12. ASSUME NEW d \in Dispatcher, DecideAdmission(d) PROVE LeaseInv'
  <2>0. PICK p : p = [proc[d] EXCEPT !.step = "admitting", !.until = clock + Reserve]
    OBVIOUS
  <2>1. p.claim = proc[d].claim /\ p.lease = proc[d].lease
    BY <1>0, <2>0 DEF Process
  <2>2. Harmless /\ (Become(d, p) \/ Leave(d))
    BY <1>12, <2>0 DEF DecideAdmission, Deferred, Quietly, Harmless
  <2> QED BY <1>1, <1>2, <1>3, <2>1, <2>2
<1>13. ASSUME NEW d \in Dispatcher, PersistAdmission(d) PROVE LeaseInv'
  <2>0. PICK p : p = [proc[d] EXCEPT !.step = "claiming", !.cap = route[proc[d].cur]]
    OBVIOUS
  <2>1. p.claim = proc[d].claim /\ p.lease = proc[d].lease
    BY <1>0, <2>0 DEF Process
  <2>2. proc[d].cur \in Activity
    BY <1>0, <1>13 DEF PersistAdmission, At, ProcessOK
  <2>3. Harmless /\ (Become(d, p) \/ Leave(d))
    BY <1>0, <1>13, <2>0, <2>2 DEF PersistAdmission, Deferred, Quietly, Harmless
  <2> QED BY <1>1, <1>2, <1>3, <2>1, <2>3
<1>14. ASSUME NEW d \in Dispatcher, ClaimCurrent(d) PROVE LeaseInv'
  <2> DEFINE a == proc[d].cur
             t == proc[d].now
  <2>0. PICK new : new = FreshToken(a, WorkerId[d])
    OBVIOUS
  <2>1. PICK p : p = [proc[d] EXCEPT !.step = "starting", !.lease = t + Lease, !.claim = new]
    OBVIOUS
  <2>2. a \in Activity /\ t \in Time /\ t <= clock
    BY <1>0, <1>14 DEF ClaimCurrent, At, ProcessOK
  <2>3. CASE Deferred(d)
    BY <1>1, <2>3 DEF Deferred, Harmless
  <2>4. CASE Claim(a, WorkerId[d], proc[d].cap, t) /\ Become(d, p)
    <3>1. proc[d].cap \in Capability
      BY <2>2, <2>4 DEF BaseInv, Routed, Claim, Claimable, Live
    <3>2. Harmless
      BY <1>0, <2>2, <2>4, <3>1 DEF Harmless
    <3>3. p \in Process
      BY <1>0, <1>3, <2>4 DEF Become
    <3>4. p.claim = new /\ p.lease = t + Lease
      BY <1>0, <2>1 DEF Process
    <3>5. /\ new.activity = a /\ new.owner = WorkerId[d]
          /\ new.attempt = attempts[a] + 1 /\ new.fence = fence[a] + 1
      BY <2>0 DEF FreshToken
    <3>6. new \notin tokens
      BY <1>0, <2>2, <3>5 DEF FenceIdentifiesClaim, StoreTypeOK
    <3>7. /\ status' = [status EXCEPT ![a] = "claimed"]
          /\ attempts' = [attempts EXCEPT ![a] = new.attempt]
          /\ fence' = [fence EXCEPT ![a] = new.fence]
          /\ owner' = [owner EXCEPT ![a] = WorkerId[d]]
          /\ expires' = [expires EXCEPT ![a] = t + Lease]
      BY <2>0, <2>4 DEF Claim
    <3>8. Current(p)'
      <4>1. PICK x : x = t + Lease
        OBVIOUS
      <4>2. Row(new, x)'
        BY <1>0, <2>2, <3>5, <3>7, <4>1 DEF Row, Live, StoreTypeOK
      <4> QED BY <3>4, <4>1, <4>2 DEF Current
    <3> QED BY <2>4, <3>2, <3>3, <3>4, <3>6, <3>8, LeaseMove
  <2> QED BY <1>14, <2>0, <2>1, <2>3, <2>4 DEF ClaimCurrent, Quietly
<1>15. ASSUME NEW d \in Dispatcher, StartCurrent(d) PROVE LeaseInv'
  <2>0. PICK p : p = [proc[d] EXCEPT !.step = "opening"]
    OBVIOUS
  <2>1. p.claim = proc[d].claim /\ p.lease = proc[d].lease
    BY <1>0, <2>0 DEF Process
  <2>2. proc[d].claim \in tokens
    BY <1>0, <1>15 DEF StartCurrent, At, ProcessOK
  <2>3. Harmless /\ (Become(d, p) \/ Leave(d))
    BY <1>0, <1>15, <2>0, <2>2 DEF StartCurrent, Deferred, Quietly, Harmless
  <2> QED BY <1>1, <1>2, <1>3, <2>1, <2>3
\* A renewal: the row and the claim object get the same new expiry.
<1>16. ASSUME NEW d \in Dispatcher, proc[d].step \in Executing, Renew(proc[d].claim, clock),
              NEW p, Become(d, p), p.claim = proc[d].claim, p.lease = clock + Lease
       PROVE LeaseInv'
  <2>0. proc[d].claim # NoToken /\ proc[d].claim \in tokens /\ p \in Process
    BY <1>0, <1>3, <1>16 DEF ProcessOK, Become
  <2>1. \A c \in tokens : c # proc[d].claim => ForAnother(c)
    BY <1>0, <1>16, <2>0 DEF ForAnother
  <2>2. PICK c : c = proc[d].claim
    OBVIOUS
  <2>3. PICK x : x = clock + Lease
    OBVIOUS
  <2>4. Row(c, x)'
    <3>1. c.activity \in Activity
      BY <1>0, <2>0, <2>2 DEF StoreTypeOK, Token
    <3> QED BY <1>0, <1>16, <2>2, <2>3, <3>1
            DEF Renew, Renewable, Holds, Row, StoreTypeOK
  <2>5. Current(p)'
    BY <1>16, <2>2, <2>3, <2>4 DEF Current
  <2> QED BY <1>16, <2>0, <2>1, <2>5, LeaseMove
<1>17. ASSUME NEW d \in Dispatcher, NEW step, NEW o, proc[d].step \in Executing,
              RenewAndGoTo(d, step, o)
       PROVE LeaseInv'
  <2>0. PICK p : p = [proc[d] EXCEPT !.step = step, !.lease = clock + Lease, !.outcome = o]
    OBVIOUS
  <2>1. p.claim = proc[d].claim /\ p.lease = clock + Lease
    BY <1>0, <2>0 DEF Process
  <2> QED BY <1>16, <1>17, <2>0, <2>1 DEF RenewAndGoTo, Quietly
<1>18. ASSUME NEW d \in Dispatcher,
              ReturnFailure(d) \/ OpenSession(d) \/ BeginSend(d) \/ ReturnSuccess(d)
       PROVE LeaseInv'
  BY <1>17, <1>18 DEF ReturnFailure, OpenSession, BeginSend, ReturnSuccess, At, Executing
<1>19. ASSUME NEW d \in Dispatcher, Heartbeat(d) PROVE LeaseInv'
  <2>0. PICK p : p = [proc[d] EXCEPT !.lease = clock + Lease]
    OBVIOUS
  <2>1. PICK q : q = [proc[d] EXCEPT !.beating = FALSE]
    OBVIOUS
  <2>2. /\ p.claim = proc[d].claim /\ p.lease = clock + Lease
        /\ q.claim = proc[d].claim /\ q.lease = proc[d].lease
    BY <1>0, <2>0, <2>1 DEF Process
  <2>3. CASE Renew(proc[d].claim, clock) /\ Become(d, p)
    BY <1>16, <1>19, <2>2, <2>3 DEF Heartbeat, Executing
  <2>4. CASE UNCHANGED storeVars /\ Become(d, q)
    BY <1>2, <1>3, <2>2, <2>4 DEF Harmless
  <2> QED BY <1>19, <2>0, <2>1, <2>3, <2>4 DEF Heartbeat, Quietly
<1>20. ASSUME NEW d \in Dispatcher, Deliver(d) PROVE LeaseInv'
  <2>0. PICK p : p = [proc[d] EXCEPT !.step = "sent"]
    OBVIOUS
  <2>1. p.claim = proc[d].claim /\ p.lease = proc[d].lease
    BY <1>0, <2>0 DEF Process
  <2> QED BY <1>2, <1>3, <1>20, <2>0, <2>1 DEF Deliver, Harmless
<1>21. ASSUME NEW d \in Dispatcher, RaiseInExecutor(d) PROVE LeaseInv'
  <2>0. PICK p : p = [proc[d] EXCEPT !.step = "finishing",
                                     !.outcome = ExceptionOutcome(proc[d].claim)]
    OBVIOUS
  <2>1. p.claim = proc[d].claim /\ p.lease = proc[d].lease
    BY <1>0, <2>0 DEF Process
  <2> QED BY <1>2, <1>3, <1>21, <2>0, <2>1 DEF RaiseInExecutor, Harmless
<1>22. ASSUME NEW d \in Dispatcher, FinishCurrent(d) PROVE LeaseInv'
  <2>1. CASE Deferred(d)
    BY <1>1, <2>1 DEF Deferred, Harmless
  <2>2. CASE Complete(proc[d].claim, proc[d].outcome, clock) /\ Leave(d)
    <3>0. PICK p : p = [proc[d] EXCEPT !.step = "next", !.cur = NoActivity, !.cap = NoRoute,
                                       !.claim = NoToken, !.until = 0, !.lease = 0,
                                       !.beating = TRUE, !.outcome = "success"]
      OBVIOUS
    <3>1. Become(d, p) /\ p.claim = NoToken /\ p \in Process
      <4>1. p \in Process
        BY <3>0, LeavesWell
      <4> QED BY <1>0, <2>2, <3>0, <4>1 DEF Leave, Quietly, Process
    <3>2. proc[d].claim # NoToken
      BY <1>0, <1>22 DEF FinishCurrent, At, ProcessOK
    <3>3. \A c \in tokens : c # proc[d].claim => ForAnother(c)
      BY <1>0, <2>2, <3>2 DEF ForAnother
    <3>4. Current(p)'
      BY <3>1 DEF Current
    <3> QED BY <3>1, <3>2, <3>3, <3>4, LeaseMove
  <2> QED BY <1>22, <2>1, <2>2 DEF FinishCurrent
\* Time passing and the environment's steps.
<1>23. ASSUME Harmless, clock' >= clock, clock' \in Int,
              \A d \in Dispatcher : proc'[d] \in {proc[d], Fresh}
       PROVE LeaseInv'
  <2>0. Fresh.claim = NoToken
    BY DEF Fresh
  <2>1. Exclusive'
    BY <1>23, <2>0 DEF LeaseInv, Exclusive
  <2>2. ASSUME NEW d \in Dispatcher PROVE Current(proc[d])'
    <3>0. PICK q : q = proc'[d]
      OBVIOUS
    <3>1. SUFFICES ASSUME q.claim # NoToken, q.lease > clock' PROVE Row(q.claim, q.lease)'
      BY <3>0 DEF Current, Row
    <3>2. q = proc[d]
      BY <1>23, <2>0, <3>0, <3>1
    <3>3. q.claim \in tokens /\ q.lease \in Int
      BY <1>0, <3>1, <3>2, StoreAssumption DEF Process, Expiry
    <3>4. q.lease > clock
      BY <1>0, <1>23, <3>1, <3>3
    <3>5. Row(q.claim, q.lease)
      BY <3>1, <3>2, <3>4 DEF LeaseInv, Current
    <3> QED BY <1>0, <1>23, <3>3, <3>4, <3>5, RowKept
  <2> QED BY <2>1, <2>2 DEF LeaseInv
<1>24. ASSUME NEW d \in Dispatcher, Crash(d) PROVE LeaseInv'
  <2>1. Harmless /\ clock' = clock /\ \A e \in Dispatcher : proc'[e] \in {proc[e], Fresh}
    BY <1>0, <1>24 DEF Crash, Harmless
  <2> QED BY <1>0, <1>23, <2>1
<1>25. ASSUME PassTime PROVE LeaseInv'
  <2>1. Harmless /\ clock' = clock + 1 /\ proc' = proc
    BY <1>25 DEF PassTime, Harmless
  <2> QED BY <1>0, <1>23, <2>1
<1>26. ASSUME (\E a \in Activity : RequestActivity(a)) \/ UNCHANGED vars PROVE LeaseInv'
  <2>1. Harmless /\ clock' = clock /\ proc' = proc
    BY <1>26 DEF RequestActivity, vars, Harmless
  <2> QED BY <1>0, <1>23, <2>1
<1> QED BY <1>4, <1>5, <1>6, <1>7, <1>8, <1>10, <1>11, <1>12, <1>13, <1>14, <1>15, <1>18,
           <1>19, <1>20, <1>21, <1>22, <1>24, <1>25, <1>26
        DEF DispatcherNext, Proceed

\* activity_dispatcher.py with its stale ticks: for any number of dispatchers
\* over one database, a claim object that is not expired is the row's claim.
THEOREM LeasesExclude == DispatcherSpec => []UnexpiredClaimIsCurrent
<1>1. DispatcherInit => LeaseInv
  BY DEF DispatcherInit, LeaseInv, Exclusive, Current, Fresh
<1>2. BaseInv /\ FenceInv /\ LeaseInv /\ [DispatcherNext]_vars => LeaseInv'
  BY LeaseInvStep
<1>3. BaseInv /\ LeaseInv => UnexpiredClaimIsCurrent
  <2> SUFFICES ASSUME BaseInv, LeaseInv, NEW d \in Dispatcher,
                      proc[d].claim # NoToken, proc[d].lease > clock
               PROVE  /\ status[proc[d].claim.activity] \in Live
                      /\ Holds(proc[d].claim, clock)
    BY DEF UnexpiredClaimIsCurrent
  <2>1. Row(proc[d].claim, proc[d].lease)
    BY DEF LeaseInv, Current
  <2> QED BY <2>1 DEF Row, Holds
<1> QED BY <1>1, <1>2, <1>3, BaseInvHolds, FenceInvHolds, DispatcherImplementsStore, PTL
        DEF DispatcherSpec

-----------------------------------------------------------------------------
(***************************************************************************)
(* Delivery                                                                *)
(***************************************************************************)

\* Process d is about to report a success.
Succeeding(d) ==
    At(d, "sent") \/ (At(d, "finishing") /\ proc[d].outcome = "success")

DeliveryInv ==
    /\ SuccessWasDelivered
    /\ \A d \in Dispatcher : Succeeding(d) => Message(d) \in sent

\* Every step keeps the delivery invariant.
LEMMA DeliveryInvStep ==
    ASSUME BaseInv, TerminalAnnounced, DeliveryInv, [DispatcherNext]_vars
    PROVE  DeliveryInv'
<1>0. /\ StoreTypeOK
      /\ proc \in [Dispatcher -> Process]
      /\ \A d \in Dispatcher : proc[d] \in Process
      /\ signals \subseteq Signal
      /\ tokens \subseteq Token
  BY DEF BaseInv, DispatcherTypeOK, StoreTypeOK
\* What was delivered stays delivered, and what is terminal stays terminal.
<1>1. ASSUME sent \subseteq sent',
             \A s \in signals' \ signals : status'[s.activity] = "succeeded" => s \in sent'
      PROVE  SuccessWasDelivered'
  <2>1. FinalStep
    BY <1>0, StepOfStore, FinalStepHolds
  <2>2. ASSUME NEW s \in signals PROVE status'[s.activity] = status[s.activity]
    <3>1. s.activity \in Activity /\ status[s.activity] \in Terminal
      BY <1>0 DEF Signal, TerminalAnnounced
    <3> QED BY <2>1, <3>1 DEF FinalStep
  <2> QED BY <1>1, <2>2 DEF DeliveryInv, SuccessWasDelivered
\* A step of d that sends no signal and reports no success that was not sent.
<1>2. ASSUME NEW d \in Dispatcher, NEW p, Become(d, p), sent \subseteq sent',
             \A s \in signals' \ signals : status'[s.activity] = "succeeded" => s \in sent',
             p.step = "sent" \/ (p.step = "finishing" /\ p.outcome = "success") =>
                [activity |-> p.claim.activity, attempt |-> p.claim.attempt] \in sent'
      PROVE  DeliveryInv'
  <2>1. ASSUME NEW e \in Dispatcher, Succeeding(e)' PROVE Message(e)' \in sent'
    <3>1. CASE e = d
      <4>1. proc'[e] = p
        BY <1>0, <1>2, <3>1 DEF Become
      <4> QED BY <1>2, <2>1, <4>1 DEF Succeeding, At, Message
    <3>2. CASE e # d
      <4>1. proc'[e] = proc[e]
        BY <1>0, <1>2, <3>2 DEF Become
      <4>2. Message(e) \in sent
        BY <2>1, <4>1 DEF Succeeding, At, DeliveryInv
      <4> QED BY <1>2, <4>1, <4>2 DEF Message
    <3> QED BY <3>1, <3>2
  <2> QED BY <1>1, <1>2, <2>1 DEF DeliveryInv
<1>3. ASSUME NEW d \in Dispatcher, NEW p, Quietly(d, p), signals' = signals,
             p.step \notin {"sent", "finishing"}
      PROVE  DeliveryInv'
  BY <1>2, <1>3 DEF Quietly
<1>4. ASSUME NEW d \in Dispatcher, Leave(d),
             \A s \in signals' \ signals : status'[s.activity] = "succeeded" => s \in sent
      PROVE DeliveryInv'
  <2>0. PICK p : p = [proc[d] EXCEPT !.step = "next", !.cur = NoActivity, !.cap = NoRoute,
                                     !.claim = NoToken, !.until = 0, !.lease = 0,
                                     !.beating = TRUE, !.outcome = "success"]
    OBVIOUS
  <2>1. p.step = "next"
    BY <1>0, <2>0 DEF Process
  <2> QED BY <1>2, <1>4, <2>0, <2>1 DEF Leave, Quietly
<1>5. ASSUME NEW d \in Dispatcher, BeginTick(d) PROVE DeliveryInv'
  <2>0. PICK p : p = [proc[d] EXCEPT !.step = "reaping", !.now = clock]
    OBVIOUS
  <2>1. p.step = "reaping"
    BY <1>0, <2>0 DEF Process
  <2> QED BY <1>3, <1>5, <2>0, <2>1 DEF BeginTick, ReapClaims, storeVars
<1>6. ASSUME NEW d \in Dispatcher, TickReapReservations(d) PROVE DeliveryInv'
  <2>0. PICK p : p = [proc[d] EXCEPT !.step = "listing"]
    OBVIOUS
  <2>1. p.step = "listing"
    BY <1>0, <2>0 DEF Process
  <2> QED BY <1>3, <1>6, <2>0, <2>1 DEF TickReapReservations, ReapReservations, storeVars
<1>7. ASSUME NEW d \in Dispatcher, ListRunnable(d) PROVE DeliveryInv'
  <2>0. PICK p : p = [proc[d] EXCEPT !.step = "next", !.todo = Runnable]
    OBVIOUS
  <2>1. p.step = "next"
    BY <1>0, <2>0 DEF Process
  <2> QED BY <1>3, <1>7, <2>0, <2>1 DEF ListRunnable, storeVars
<1>8. ASSUME NEW d \in Dispatcher, EndTick(d) PROVE DeliveryInv'
  BY <1>3, <1>8 DEF EndTick, storeVars, Fresh
<1>9. ASSUME NEW d \in Dispatcher, NEW x \in proc[d].todo, SkipCandidate(d, x) PROVE DeliveryInv'
  <2>0. PICK p : p = [proc[d] EXCEPT !.todo = @ \ {x}]
    OBVIOUS
  <2>1. p.step = "next"
    BY <1>0, <1>9, <2>0 DEF Process, SkipCandidate, Visits, At
  <2> QED BY <1>3, <1>9, <2>0, <2>1 DEF SkipCandidate, storeVars
<1>10. ASSUME NEW d \in Dispatcher, NEW x \in proc[d].todo, Quietly(d, Visiting(d, x)),
              signals' = signals
       PROVE DeliveryInv'
  <2>0. PICK p : p = Visiting(d, x)
    OBVIOUS
  <2>1. p.step = "deciding"
    BY <1>0, <2>0 DEF Process, Visiting
  <2> QED BY <1>3, <1>10, <2>0, <2>1
<1>11. ASSUME NEW d \in Dispatcher, NEW x \in proc[d].todo,
              TakeRouted(d, x) \/ \E r \in Capability : RouteCandidate(d, x, r)
       PROVE DeliveryInv'
  BY <1>10, <1>11 DEF TakeRouted, RouteCandidate, PersistRoute, storeVars
<1>12. ASSUME NEW d \in Dispatcher, Deferred(d) PROVE DeliveryInv'
  BY <1>4, <1>12 DEF Deferred, storeVars
<1>13. ASSUME NEW d \in Dispatcher, DecideAdmission(d) PROVE DeliveryInv'
  <2>0. PICK p : p = [proc[d] EXCEPT !.step = "admitting", !.until = clock + Reserve]
    OBVIOUS
  <2>1. p.step = "admitting"
    BY <1>0, <2>0 DEF Process
  <2>2. CASE UNCHANGED storeVars /\ Quietly(d, p)
    BY <1>3, <2>1, <2>2 DEF storeVars
  <2> QED BY <1>12, <1>13, <2>0, <2>2 DEF DecideAdmission
<1>14. ASSUME NEW d \in Dispatcher, PersistAdmission(d) PROVE DeliveryInv'
  <2>0. PICK p : p = [proc[d] EXCEPT !.step = "claiming", !.cap = route[proc[d].cur]]
    OBVIOUS
  <2>1. p.step = "claiming"
    BY <1>0, <2>0 DEF Process
  <2>2. CASE Admit(proc[d].cur, proc[d].until, proc[d].now) /\ Quietly(d, p)
    BY <1>3, <2>1, <2>2 DEF Admit
  <2> QED BY <1>12, <1>14, <2>0, <2>2 DEF PersistAdmission
<1>15. ASSUME NEW d \in Dispatcher, ClaimCurrent(d) PROVE DeliveryInv'
  <2>0. PICK p : p = [proc[d] EXCEPT !.step = "starting", !.lease = proc[d].now + Lease,
                                     !.claim = FreshToken(proc[d].cur, WorkerId[d])]
    OBVIOUS
  <2>1. p.step = "starting"
    BY <1>0, <2>0 DEF Process
  <2>2. CASE Claim(proc[d].cur, WorkerId[d], proc[d].cap, proc[d].now) /\ Quietly(d, p)
    BY <1>3, <2>1, <2>2 DEF Claim
  <2> QED BY <1>12, <1>15, <2>0, <2>2 DEF ClaimCurrent
<1>16. ASSUME NEW d \in Dispatcher, StartCurrent(d) PROVE DeliveryInv'
  <2>0. PICK p : p = [proc[d] EXCEPT !.step = "opening"]
    OBVIOUS
  <2>1. p.step = "opening"
    BY <1>0, <2>0 DEF Process
  <2>2. CASE Start(proc[d].claim, proc[d].now) /\ Quietly(d, p)
    BY <1>3, <2>1, <2>2 DEF Start
  <2> QED BY <1>12, <1>16, <2>0, <2>2 DEF StartCurrent
<1>17. ASSUME NEW d \in Dispatcher, NEW step, NEW o, RenewAndGoTo(d, step, o),
              step = "sent" \/ (step = "finishing" /\ o = "success") => Message(d) \in sent
       PROVE DeliveryInv'
  <2>0. PICK p : p = [proc[d] EXCEPT !.step = step, !.lease = clock + Lease, !.outcome = o]
    OBVIOUS
  <2>1. p.step = step /\ p.outcome = o /\ p.claim = proc[d].claim
    BY <1>0, <2>0 DEF Process
  <2>2. Become(d, p) /\ sent' = sent /\ signals' = signals
    BY <1>17, <2>0 DEF RenewAndGoTo, Renew, Quietly
  <2> QED BY <1>2, <1>17, <2>1, <2>2 DEF Message
<1>18. ASSUME NEW d \in Dispatcher, ReturnFailure(d) \/ OpenSession(d) \/ BeginSend(d)
       PROVE DeliveryInv'
  BY <1>17, <1>18 DEF ReturnFailure, OpenSession, BeginSend
<1>19. ASSUME NEW d \in Dispatcher, ReturnSuccess(d) PROVE DeliveryInv'
  BY <1>17, <1>19 DEF ReturnSuccess, DeliveryInv, Succeeding
<1>20. ASSUME NEW d \in Dispatcher, Deliver(d) PROVE DeliveryInv'
  <2>0. PICK p : p = [proc[d] EXCEPT !.step = "sent"]
    OBVIOUS
  <2>1. p.claim = proc[d].claim
    BY <1>0, <2>0 DEF Process
  <2>2. Become(d, p) /\ sent' = sent \cup {Message(d)} /\ signals' = signals
    BY <1>20, <2>0 DEF Deliver, storeVars
  <2> QED BY <1>2, <2>1, <2>2 DEF Message
<1>21. ASSUME NEW d \in Dispatcher, RaiseInExecutor(d) PROVE DeliveryInv'
  <2>0. PICK p : p = [proc[d] EXCEPT !.step = "finishing",
                                     !.outcome = ExceptionOutcome(proc[d].claim)]
    OBVIOUS
  <2>1. p.step = "finishing" /\ p.outcome # "success"
    BY <1>0, <2>0 DEF Process, ExceptionOutcome
  <2>2. Become(d, p) /\ sent \subseteq sent' /\ signals' = signals
    BY <1>21, <2>0 DEF RaiseInExecutor, storeVars
  <2> QED BY <1>2, <2>1, <2>2
<1>22. ASSUME NEW d \in Dispatcher, Heartbeat(d) PROVE DeliveryInv'
  <2>0. PICK p : /\ \/ p = [proc[d] EXCEPT !.lease = clock + Lease]
                    \/ p = [proc[d] EXCEPT !.beating = FALSE]
                 /\ Quietly(d, p)
    BY <1>22 DEF Heartbeat
  <2>1. p.step \in {"binding", "sending"}
    BY <1>0, <1>22, <2>0 DEF Process, Heartbeat
  <2>2. signals' = signals
    BY <1>22 DEF Heartbeat, Renew, storeVars
  <2> QED BY <1>3, <2>0, <2>1, <2>2
<1>23. ASSUME NEW d \in Dispatcher, FinishCurrent(d) PROVE DeliveryInv'
  <2> DEFINE c == proc[d].claim
             o == proc[d].outcome
  <2>1. CASE Complete(c, o, clock) /\ Leave(d)
    <3>1. c \in Token
      BY <1>0, <1>23 DEF BaseInv, FinishCurrent, At, ProcessOK
    <3>2. signals' \ signals \subseteq {[activity |-> c.activity, attempt |-> c.attempt]}
      BY <2>1 DEF Complete
    <3>3. ASSUME NEW s \in signals' \ signals, status'[s.activity] = "succeeded"
          PROVE  s \in sent
      <4>1. s = Message(d) /\ ~Retrying(c, o)
        BY <2>1, <3>2, <3>3 DEF Complete, Message
      <4>2. TerminalStatus(o) = "succeeded"
        BY <1>0, <2>1, <3>1, <3>3, <4>1 DEF Complete, Message, StoreTypeOK, Token
      <4>3. o = "success"
        BY <4>2 DEF TerminalStatus
      <4> QED BY <1>23, <4>1, <4>3 DEF FinishCurrent, DeliveryInv, Succeeding
    <3> QED BY <1>4, <2>1, <3>3
  <2> QED BY <1>12, <1>23, <2>1 DEF FinishCurrent
<1>24. ASSUME signals' = signals, sent' = sent,
              \A d \in Dispatcher : proc'[d] = proc[d] \/ proc'[d].step = "idle"
       PROVE DeliveryInv'
  <2>1. SuccessWasDelivered'
    BY <1>1, <1>24
  <2>2. ASSUME NEW d \in Dispatcher, Succeeding(d)' PROVE Message(d)' \in sent'
    <3>1. proc'[d] = proc[d]
      BY <1>24, <2>2 DEF Succeeding, At
    <3>2. Message(d) \in sent
      BY <2>2, <3>1 DEF Succeeding, At, DeliveryInv
    <3> QED BY <1>24, <3>1, <3>2 DEF Message
  <2> QED BY <2>1, <2>2 DEF DeliveryInv
<1>25. ASSUME NEW d \in Dispatcher, Crash(d) PROVE DeliveryInv'
  <2>1. /\ signals' = signals /\ sent' = sent
        /\ proc' = [proc EXCEPT ![d] = Fresh]
    BY <1>25 DEF Crash, storeVars
  <2>2. Fresh.step = "idle"
    BY DEF Fresh
  <2> QED BY <1>0, <1>24, <2>1, <2>2
<1>26. ASSUME PassTime \/ (\E a \in Activity : RequestActivity(a)) \/ UNCHANGED vars
       PROVE DeliveryInv'
  BY <1>24, <1>26 DEF PassTime, RequestActivity, InsertActivity, vars, storeVars
<1> QED BY <1>5, <1>6, <1>7, <1>8, <1>9, <1>11, <1>13, <1>14, <1>15, <1>16, <1>18, <1>19,
           <1>20, <1>21, <1>22, <1>23, <1>25, <1>26
        DEF DispatcherNext, Proceed

\* The executor and complete_activity: for any number of dispatchers, a
\* workflow told of a success can rely on the turn having been delivered.
THEOREM SuccessMeansDelivered == DispatcherSpec => []SuccessWasDelivered
<1>1. DispatcherInit => DeliveryInv
  BY DEF DispatcherInit, StoreInit, DeliveryInv, SuccessWasDelivered, Succeeding, At, Fresh
<1>2. BaseInv /\ TerminalAnnounced /\ DeliveryInv /\ [DispatcherNext]_vars => DeliveryInv'
  BY DeliveryInvStep
<1>3. DeliveryInv => SuccessWasDelivered
  BY DEF DeliveryInv
<1> QED BY <1>1, <1>2, <1>3, BaseInvHolds, TerminalStatusIsAnnounced,
           DispatcherImplementsStore, PTL DEF DispatcherSpec
-----------------------------------------------------------------------------
(***************************************************************************)
(* One dispatcher over a database.                                         *)
(***************************************************************************)

\* A transaction of the store other than a claim.
ClaimsNothing ==
    \/ UNCHANGED storeVars
    \/ \E a, cap : PersistRoute(a, cap)
    \/ \E a, e, t : Admit(a, e, t)
    \/ \E a : InsertActivity(a)
    \/ \E c, t : Renew(c, t) \/ Start(c, t)
    \/ \E c, o, t : o \in Outcome /\ Complete(c, o, t)
    \/ \E t : ReapClaims(t) \/ ReapReservations(t)

\* Nothing but a claim makes an activity live.
LEMMA OnlyClaimsAddLive ==
    ASSUME StoreTypeOK, ClaimsNothing
    PROVE  LiveActivities' \subseteq LiveActivities
<1>0. status \in [Activity -> Status]
  BY DEF StoreTypeOK
<1>1. SUFFICES ASSUME NEW b \in Activity, status'[b] \in Live
               PROVE  status[b] \in Live
  BY DEF LiveActivities
<1>2. ASSUME status' = status PROVE status[b] \in Live
  BY <1>1, <1>2
<1>3. ASSUME NEW x, NEW v, status' = [status EXCEPT ![x] = v], v \notin Live
      PROVE  status[b] \in Live
  BY <1>0, <1>1, <1>3
<1>4. CASE UNCHANGED storeVars
  BY <1>2, <1>4 DEF storeVars, claimVars
<1>5. CASE \E a, cap : PersistRoute(a, cap)
  BY <1>3, <1>5 DEF PersistRoute, Live
<1>6. CASE \E a, e, t : Admit(a, e, t)
  BY <1>2, <1>6 DEF Admit, claimVars
<1>7. CASE \E a : InsertActivity(a)
  BY <1>3, <1>7 DEF InsertActivity, Live
<1>8. ASSUME NEW c, NEW t, Renew(c, t) \/ Start(c, t) PROVE status[b] \in Live
  <2>1. CASE Renew(c, t)
    BY <1>2, <2>1 DEF Renew
  <2>2. CASE Start(c, t)
    BY <1>0, <1>1, <2>2 DEF Start, Startable, Live
  <2> QED BY <1>8, <2>1, <2>2
<1>9. ASSUME NEW c, NEW o \in Outcome, NEW t, Complete(c, o, t) PROVE status[b] \in Live
  <2>1. PICK v : v = IF Retrying(c, o) THEN "waiting_admission" ELSE TerminalStatus(o)
    OBVIOUS
  <2>2. v \notin Live
    BY <2>1 DEF TerminalStatus, Live
  <2>3. status' = [status EXCEPT ![c.activity] = v]
    BY <1>9, <2>1 DEF Complete
  <2> QED BY <1>3, <2>2, <2>3
<1>10. ASSUME NEW t, ReapClaims(t) \/ ReapReservations(t) PROVE status[b] \in Live
  <2>1. CASE ReapClaims(t)
    BY <1>1, <2>1 DEF ReapClaims, Live
  <2>2. CASE ReapReservations(t)
    BY <1>2, <2>2 DEF ReapReservations, claimVars
  <2> QED BY <1>10, <2>1, <2>2
<1> QED BY <1>4, <1>5, <1>6, <1>7, <1>8, <1>9, <1>10 DEF ClaimsNothing

\* Between its admission decision and its claim, a candidate shares no key with
\* a live activity.
CandidatesShareNoKey ==
    \A d \in Dispatcher : proc[d].step \in {"admitting", "claiming"} =>
        \A b \in LiveActivities : Needs[proc[d].cur] \cap Needs[b] = {}

ApartInv == LiveActivitiesShareNoKey /\ CandidatesShareNoKey

\* d is past its decision and not yet at the claim, or at it.
Admitted(d) == proc[d].step \in {"admitting", "claiming"}

\* One dispatcher decides admissions and claims one after the other, so nothing
\* becomes live between a decision and its claim.
LEMMA ApartInvStep ==
    ASSUME BaseInv, ApartInv, [DispatcherNext]_vars, \A d, e \in Dispatcher : d = e
    PROVE  ApartInv'
<1>0. /\ StoreTypeOK /\ proc \in [Dispatcher -> Process]
      /\ \A d \in Dispatcher : ProcessOK(proc[d]) /\ proc[d] \in Process
      /\ status \in [Activity -> Status]
      /\ LiveActivitiesShareNoKey
      /\ \A d \in Dispatcher : Admitted(d) =>
             \A b \in LiveActivities : Needs[proc[d].cur] \cap Needs[b] = {}
  BY DEF BaseInv, DispatcherTypeOK, StoreTypeOK, ApartInv, CandidatesShareNoKey, Admitted
\* A step that claims nothing and decides nothing.
<1>1. ASSUME ClaimsNothing,
             \A d \in Dispatcher : Admitted(d)' => Admitted(d) /\ proc'[d].cur = proc[d].cur
      PROVE  ApartInv'
  <2>1. LiveActivities' \subseteq LiveActivities
    BY <1>0, <1>1, OnlyClaimsAddLive
  <2>2. LiveActivitiesShareNoKey'
    BY <1>0, <2>1 DEF LiveActivitiesShareNoKey
  <2>3. CandidatesShareNoKey'
    BY <1>0, <1>1, <2>1 DEF CandidatesShareNoKey, Admitted
  <2> QED BY <2>2, <2>3 DEF ApartInv
\* With one dispatcher only the one that moves has to be looked at.
<1>2. ASSUME NEW d \in Dispatcher, NEW p, Become(d, p), ClaimsNothing,
             p.step \in {"admitting", "claiming"} => Admitted(d) /\ p.cur = proc[d].cur
      PROVE  ApartInv'
  BY <1>0, <1>1, <1>2 DEF Become, Admitted
<1>3. ASSUME NEW d \in Dispatcher, Leave(d), ClaimsNothing PROVE ApartInv'
  <2>1. PICK p : p = [proc[d] EXCEPT !.step = "next", !.cur = NoActivity, !.cap = NoRoute,
                                     !.claim = NoToken, !.until = 0, !.lease = 0,
                                     !.beating = TRUE, !.outcome = "success"]
    OBVIOUS
  <2>2. p.step = "next"
    BY <1>0, <2>1 DEF Process
  <2> QED BY <1>2, <1>3, <2>1, <2>2 DEF Leave, Quietly
<1>4. ASSUME NEW d \in Dispatcher, Deferred(d) PROVE ApartInv'
  BY <1>3, <1>4 DEF Deferred, ClaimsNothing
\* The step that a process goes to decides whether it is admitted.
<1>5. ASSUME NEW d \in Dispatcher, ClaimsNothing,
             proc'[d].step \notin {"admitting", "claiming"}
      PROVE  ApartInv'
  BY <1>0, <1>1, <1>5 DEF Admitted
<1>6. ASSUME NEW d \in Dispatcher,
             BeginTick(d) \/ TickReapReservations(d) \/ ListRunnable(d) \/ EndTick(d)
      PROVE  ApartInv'
  <2>1. ClaimsNothing
    BY <1>6 DEF BeginTick, TickReapReservations, ListRunnable, EndTick, ClaimsNothing
  <2>2. proc'[d].step \in {"reaping", "listing", "next", "idle"}
    <3>1. CASE BeginTick(d)
      BY <1>0, <3>1 DEF BeginTick, Quietly, Become, Process
    <3>2. CASE TickReapReservations(d)
      BY <1>0, <3>2 DEF TickReapReservations, Quietly, Become, Process
    <3>3. CASE ListRunnable(d)
      BY <1>0, <3>3 DEF ListRunnable, Quietly, Become, Process
    <3>4. CASE EndTick(d)
      BY <1>0, <3>4 DEF EndTick, Fresh, Quietly, Become, Process
    <3> QED BY <1>6, <3>1, <3>2, <3>3, <3>4
  <2> QED BY <1>5, <2>1, <2>2
<1>7. ASSUME NEW d \in Dispatcher, NEW x \in proc[d].todo,
             SkipCandidate(d, x) \/ TakeRouted(d, x) \/ \E r \in Capability : RouteCandidate(d, x, r)
      PROVE  ApartInv'
  <2>1. ClaimsNothing
    BY <1>7 DEF SkipCandidate, TakeRouted, RouteCandidate, ClaimsNothing
  <2>2. proc'[d].step \in {"next", "deciding"}
    <3>1. CASE SkipCandidate(d, x)
      BY <1>0, <3>1 DEF SkipCandidate, Visits, At, Quietly, Become, Process
    <3>2. CASE TakeRouted(d, x)
      BY <1>0, <3>2 DEF TakeRouted, Visiting, Quietly, Become, Process
    <3>3. CASE \E r \in Capability : RouteCandidate(d, x, r)
      BY <1>0, <3>3 DEF RouteCandidate, Visiting, Quietly, Become, Process
    <3> QED BY <1>7, <3>1, <3>2, <3>3
  <2> QED BY <1>5, <2>1, <2>2
<1>8. ASSUME NEW d \in Dispatcher, DecideAdmission(d) PROVE ApartInv'
  <2>1. CASE Deferred(d)
    BY <1>4, <2>1
  <2>2. CASE MayAdmit(proc[d].cur) /\ ~Deferred(d)
    <3>1. PICK p : p = [proc[d] EXCEPT !.step = "admitting", !.until = clock + Reserve]
      OBVIOUS
    <3>2. p.cur = proc[d].cur /\ Become(d, p) /\ UNCHANGED storeVars
      BY <1>0, <1>8, <2>2, <3>1 DEF DecideAdmission, Quietly, Process
    <3>3. LiveActivities' = LiveActivities
      BY <3>2 DEF LiveActivities, storeVars, claimVars
    <3>4. \A b \in LiveActivities : Needs[proc[d].cur] \cap Needs[b] = {}
      BY <2>2 DEF MayAdmit, HeldKeys
    <3>5. LiveActivitiesShareNoKey'
      BY <1>0, <3>3 DEF LiveActivitiesShareNoKey
    <3>6. \A e \in Dispatcher : proc'[e].cur = proc[d].cur
      BY <1>0, <3>2 DEF Become
    <3> QED BY <3>3, <3>4, <3>5, <3>6 DEF ApartInv, CandidatesShareNoKey
  <2> QED BY <1>8, <2>1, <2>2 DEF DecideAdmission
<1>9. ASSUME NEW d \in Dispatcher, PersistAdmission(d) PROVE ApartInv'
  <2>1. CASE Deferred(d)
    BY <1>4, <2>1
  <2>2. CASE Admit(proc[d].cur, proc[d].until, proc[d].now) /\ ~Deferred(d)
    <3>1. PICK p : p = [proc[d] EXCEPT !.step = "claiming", !.cap = route[proc[d].cur]]
      OBVIOUS
    <3>2. p.cur = proc[d].cur /\ Become(d, p) /\ Admitted(d)
      BY <1>0, <1>9, <2>2, <3>1 DEF PersistAdmission, Quietly, Process, At, Admitted
    <3>3. ClaimsNothing
      BY <2>2 DEF ClaimsNothing
    <3> QED BY <1>2, <3>2, <3>3
  <2> QED BY <1>9, <2>1, <2>2 DEF PersistAdmission
<1>10. ASSUME NEW d \in Dispatcher, ClaimCurrent(d) PROVE ApartInv'
  <2>1. CASE Deferred(d)
    BY <1>4, <2>1
  <2>2. CASE Claim(proc[d].cur, WorkerId[d], proc[d].cap, proc[d].now) /\ ~Deferred(d)
    <3>1. PICK p : p = [proc[d] EXCEPT !.step = "starting", !.lease = proc[d].now + Lease,
                                       !.claim = FreshToken(proc[d].cur, WorkerId[d])]
      OBVIOUS
    <3>2. p.step = "starting" /\ Become(d, p) /\ Admitted(d)
      BY <1>0, <1>10, <2>2, <3>1 DEF ClaimCurrent, Quietly, Process, At, Admitted
    <3>3. LiveActivities' \subseteq LiveActivities \cup {proc[d].cur}
      BY <1>0, <2>2 DEF Claim, LiveActivities
    <3>4. \A b \in LiveActivities : Needs[proc[d].cur] \cap Needs[b] = {}
      BY <1>0, <3>2
    <3>5. LiveActivitiesShareNoKey'
      BY <1>0, <3>3, <3>4 DEF LiveActivitiesShareNoKey
    <3>6. \A e \in Dispatcher : proc'[e].step = "starting"
      BY <1>0, <3>2 DEF Become
    <3> QED BY <3>5, <3>6 DEF ApartInv, CandidatesShareNoKey
  <2> QED BY <1>10, <2>1, <2>2 DEF ClaimCurrent
<1>11. ASSUME NEW d \in Dispatcher, StartCurrent(d) PROVE ApartInv'
  <2>1. CASE Deferred(d)
    BY <1>4, <2>1
  <2>2. CASE Start(proc[d].claim, proc[d].now) /\ ~Deferred(d)
    <3>1. PICK p : Become(d, p) /\ p.step = "opening"
      BY <1>0, <1>11, <2>2 DEF StartCurrent, Quietly, Process
    <3>2. ClaimsNothing
      BY <2>2 DEF ClaimsNothing
    <3> QED BY <1>2, <3>1, <3>2
  <2> QED BY <1>11, <2>1, <2>2 DEF StartCurrent
<1>12. ASSUME NEW d \in Dispatcher,
              ReturnFailure(d) \/ OpenSession(d) \/ BeginSend(d) \/ ReturnSuccess(d)
       PROVE  ApartInv'
  <2>1. ClaimsNothing
    BY <1>12
       DEF ReturnFailure, OpenSession, BeginSend, ReturnSuccess, RenewAndGoTo, ClaimsNothing
  <2>2. proc'[d].step \in {"finishing", "binding", "sending"}
    <3>1. CASE ReturnFailure(d)
      BY <1>0, <3>1 DEF ReturnFailure, RenewAndGoTo, Quietly, Become, Process
    <3>2. CASE OpenSession(d)
      BY <1>0, <3>2 DEF OpenSession, RenewAndGoTo, Quietly, Become, Process
    <3>3. CASE BeginSend(d)
      BY <1>0, <3>3 DEF BeginSend, RenewAndGoTo, Quietly, Become, Process
    <3>4. CASE ReturnSuccess(d)
      BY <1>0, <3>4 DEF ReturnSuccess, RenewAndGoTo, Quietly, Become, Process
    <3> QED BY <1>12, <3>1, <3>2, <3>3, <3>4
  <2> QED BY <1>5, <2>1, <2>2
<1>13. ASSUME NEW d \in Dispatcher, Deliver(d) \/ RaiseInExecutor(d) PROVE ApartInv'
  <2>1. ClaimsNothing
    BY <1>13 DEF Deliver, RaiseInExecutor, ClaimsNothing
  <2>2. proc'[d].step \in {"sent", "finishing"}
    <3>1. CASE Deliver(d)
      BY <1>0, <3>1 DEF Deliver, Quietly, Become, Process
    <3>2. CASE RaiseInExecutor(d)
      BY <1>0, <3>2 DEF RaiseInExecutor, Quietly, Become, Process
    <3> QED BY <1>13, <3>1, <3>2
  <2> QED BY <1>5, <2>1, <2>2
<1>14. ASSUME NEW d \in Dispatcher, Heartbeat(d) PROVE ApartInv'
  <2>1. ClaimsNothing
    BY <1>14 DEF Heartbeat, ClaimsNothing
  <2>2. proc'[d].step \in {"binding", "sending"}
    BY <1>0, <1>14
       DEF Heartbeat, Quietly, Process, Become
  <2> QED BY <1>5, <2>1, <2>2
<1>15. ASSUME NEW d \in Dispatcher, FinishCurrent(d) PROVE ApartInv'
  <2>1. CASE Deferred(d)
    BY <1>4, <2>1
  <2>2. CASE Complete(proc[d].claim, proc[d].outcome, clock) /\ Leave(d)
    <3>1. proc[d].outcome \in Outcome
      BY <1>0 DEF Process
    <3>2. ClaimsNothing
      BY <2>2, <3>1 DEF ClaimsNothing
    <3> QED BY <1>3, <2>2, <3>2
  <2> QED BY <1>15, <2>1, <2>2 DEF FinishCurrent
<1>16. ASSUME NEW d \in Dispatcher, Crash(d) PROVE ApartInv'
  <2>1. ClaimsNothing
    BY <1>16 DEF Crash, ClaimsNothing
  <2>2. \A e \in Dispatcher : proc'[e].step = "idle"
    BY <1>0, <1>16 DEF Crash, Fresh
  <2> QED BY <1>1, <2>1, <2>2 DEF Admitted
<1>17. ASSUME (\E a \in Activity : RequestActivity(a)) \/ PassTime \/ UNCHANGED vars
       PROVE  ApartInv'
  <2>1. ClaimsNothing /\ proc' = proc
    BY <1>17 DEF RequestActivity, PassTime, vars, ClaimsNothing
  <2> QED BY <1>1, <2>1 DEF Admitted
<1> QED BY <1>6, <1>7, <1>8, <1>9, <1>10, <1>11, <1>12, <1>13, <1>14, <1>15, <1>16, <1>17
        DEF DispatcherNext, Proceed

\* activity_dispatcher.py with decide_admission: one dispatcher over a database
\* never has two activities live that need a common resource, although locks and
\* reservations run out long before an execution has to end.
THEOREM OneDispatcherKeepsKeysApart ==
    ASSUME \A d, e \in Dispatcher : d = e
    PROVE  DispatcherSpec => []LiveActivitiesShareNoKey
<1>1. DispatcherInit => ApartInv
  BY DEF DispatcherInit, StoreInit, ApartInv, LiveActivitiesShareNoKey, CandidatesShareNoKey,
         LiveActivities, Live, Fresh
<1>2. BaseInv /\ ApartInv /\ [DispatcherNext]_vars => ApartInv'
  BY ApartInvStep
<1>3. ApartInv => LiveActivitiesShareNoKey
  BY DEF ApartInv
<1> QED BY <1>1, <1>2, <1>3, BaseInvHolds, PTL DEF DispatcherSpec
=============================================================================
