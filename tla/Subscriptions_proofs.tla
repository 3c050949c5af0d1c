--------------------------- MODULE Subscriptions_proofs ---------------------------
(***************************************************************************)
(* Theorems about Subscriptions: the frames of a connection follow each    *)
(* other without a gap, so that the resume cursor of a client moves over   *)
(* nothing it will not hear of, and a list that is ready shows rows as new *)
(* as what it was told of; for any log, limit and number of faults.        *)
(***************************************************************************)
EXTENDS Subscriptions, TLAPS, FiniteSetTheorems, SequenceTheorems, WellFoundedInduction

-----------------------------------------------------------------------------
(***************************************************************************)
(* Greatest and least numbers                                              *)
(***************************************************************************)

LEMMA NatHasMin ==
    ASSUME NEW T \in SUBSET Nat, T # {}
    PROVE  \E x \in T : \A y \in T : x <= y
<1>1. PICK x \in T : \A y \in T : <<y, x>> \notin OpToRel(<, Nat)
  BY WFMin, NatLessThanWellFounded, Zenon
<1>2. \A y \in T : ~ (y < x)
  BY <1>1, Zenon DEF OpToRel
<1>3. x \in Nat /\ \A y \in T : y \in Nat
  OBVIOUS
<1>4. \A y \in T : x <= y
  BY <1>2, <1>3
<1>. QED
  BY <1>4

LEMMA MinOfNat ==
    ASSUME NEW T \in SUBSET Nat, T # {}
    PROVE  Min(T) \in T /\ \A y \in T : Min(T) <= y
BY NatHasMin DEF Min

LEMMA MaxOfNat ==
    ASSUME NEW n \in Nat, NEW T \in SUBSET (0..n), T # {}
    PROVE  Max(T) \in T /\ Max(T) \in 0..n /\ \A y \in T : y <= Max(T)
<1> DEFINE U == {k \in 0..n : n - k \in T}
<1>1. U \in SUBSET Nat
  OBVIOUS
<1>2. PICK z \in T : TRUE
  OBVIOUS
<1>3. z \in 0..n /\ n - z \in 0..n /\ n - (n - z) = z
  OBVIOUS
<1>4. n - z \in U
  BY <1>2, <1>3
<1>5. PICK u \in U : \A v \in U : u <= v
  BY <1>1, <1>4, NatHasMin
<1>6. n - u \in T /\ u \in 0..n
  BY <1>5
<1>7. ASSUME NEW y \in T
      PROVE  y <= n - u
  <2>1. y \in 0..n /\ n - y \in 0..n /\ n - (n - y) = y
    OBVIOUS
  <2>2. n - y \in U
    BY <2>1
  <2>3. u <= n - y
    BY <1>5, <2>2
  <2> HIDE DEF U
  <2>4. y \in Int /\ u \in Int /\ n \in Int
    BY <1>6, <2>1
  <2>. QED
    BY <2>3, <2>4
<1>8. \E x \in T : \A y \in T : x >= y
  <2>1. \A y \in T : y \in Int
    OBVIOUS
  <2>2. \A y \in T : n - u >= y
    BY <1>6, <1>7, <2>1
  <2>. QED
    BY <1>6, <2>2
<1>9. Max(T) \in T /\ \A y \in T : Max(T) >= y
  BY <1>8 DEF Max
<1>. QED
  BY <1>9

-----------------------------------------------------------------------------
(***************************************************************************)
(* The log                                                                 *)
(***************************************************************************)

LogTyped == log \in Seq(Topic \cup {Foreign})

LEMMA OwnTyped ==
    ASSUME LogTyped
    PROVE  /\ Len(log) \in Nat /\ Own \in SUBSET (1..Len(log)) /\ Own \in SUBSET Nat
           /\ IsFiniteSet(Own)
           /\ \A n \in Own : log[n] \in Topic
<1>1. Len(log) \in Nat /\ \A n \in 1..Len(log) : log[n] \in Topic \cup {Foreign}
  BY DEF LogTyped
<1>2. Own \in SUBSET (1..Len(log)) /\ \A n \in Own : log[n] # Foreign
  BY DEF Own
<1>3. IsFiniteSet(1..Len(log))
  BY <1>1, FS_Interval
<1>4. IsFiniteSet(Own)
  BY <1>2, <1>3, FS_Subset
<1>5. 1..Len(log) \subseteq Nat
  OBVIOUS
<1>6. \A n \in Own : log[n] \in Topic
  BY <1>1, <1>2
<1>. QED
  BY <1>1, <1>2, <1>4, <1>5, <1>6

LEMMA WatermarkTyped ==
    ASSUME LogTyped
    PROVE  /\ Watermark \in Nat /\ Watermark <= Len(log)
           /\ Watermark \in Own \cup {0}
           /\ \A n \in Own : n <= Watermark
<1>1. Len(log) \in Nat /\ Own \cup {0} \in SUBSET (0..Len(log)) /\ Own \cup {0} # {}
  BY OwnTyped
<1>2. /\ Max(Own \cup {0}) \in Own \cup {0} /\ Max(Own \cup {0}) \in 0..Len(log)
      /\ \A y \in Own \cup {0} : y <= Max(Own \cup {0})
  BY <1>1, MaxOfNat
<1>3. /\ Watermark \in Own \cup {0} /\ Watermark \in 0..Len(log)
      /\ \A y \in Own : y <= Watermark
  BY <1>2 DEF Watermark
<1>. QED
  BY <1>1, <1>3

LEMMA BetweenTyped ==
    ASSUME LogTyped, NEW a \in Nat, NEW b \in Nat
    PROVE  /\ Between(a, b) \subseteq Own /\ Between(a, b) \subseteq Nat
           /\ Between(a, b) \in SUBSET (0..Len(log))
           /\ IsFiniteSet(Between(a, b)) /\ Cardinality(Between(a, b)) \in Nat
           /\ \A n \in Between(a, b) : n \in Nat /\ a < n /\ n <= b
<1>1. /\ Own \subseteq Nat /\ IsFiniteSet(Own) /\ Own \in SUBSET (1..Len(log))
      /\ Len(log) \in Nat
  BY OwnTyped
<1>2. Between(a, b) \subseteq Own /\ \A n \in Between(a, b) : a < n /\ n <= b
  BY DEF Between
<1>3. IsFiniteSet(Between(a, b))
  BY <1>1, <1>2, FS_Subset
<1>4. Cardinality(Between(a, b)) \in Nat
  BY <1>3, FS_CardinalityType
<1>5. 1..Len(log) \subseteq 0..Len(log)
  BY <1>1
<1>. QED
  BY <1>1, <1>2, <1>3, <1>4, <1>5

\* A part of an interval of the log counts no more inputs.
LEMMA BetweenCounts ==
    ASSUME LogTyped, NEW a \in Nat, NEW b \in Nat, NEW c \in Nat, NEW d \in Nat, a <= c, d <= b
    PROVE  Cardinality(Between(c, d)) <= Cardinality(Between(a, b))
<1>1. Between(c, d) \subseteq Between(a, b)
  <2>1. Own \subseteq Nat
    BY OwnTyped
  <2>2. \A n \in Own : c < n /\ n <= d => a < n /\ n <= b
    BY <2>1
  <2>. QED
    BY <2>2 DEF Between
<1>2. IsFiniteSet(Between(a, b))
  BY BetweenTyped
<1>. QED
  BY <1>1, <1>2, FS_Subset

-----------------------------------------------------------------------------
(***************************************************************************)
(* Replays                                                                 *)
(***************************************************************************)

\* What a replay reads: the first inputs of the interval.
LEMMA ReplayReads ==
    ASSUME LogTyped, NEW a \in Nat, NEW b \in Nat
    PROVE  /\ Replay(a, b) \in SUBSET Between(a, b)
           /\ \A n \in Between(a, b) :
                 n \in Replay(a, b) <=> Cardinality(Between(a, n)) <= ReplayLimit
<1> DEFINE found == Between(a, b)
<1>1. \A n \in found : {k \in found : k <= n} = Between(a, n)
  <2>1. Own \subseteq Nat
    BY OwnTyped
  <2>2. SUFFICES ASSUME NEW n \in found
                 PROVE  {k \in found : k <= n} = Between(a, n)
    OBVIOUS
  <2>3. n \in Nat /\ n <= b
    BY BetweenTyped
  <2>4. \A k \in Own : k <= n => k <= b
    BY <2>1, <2>3
  <2>. QED
    BY <2>4 DEF Between
<1>2. Replay(a, b) = {n \in found : Cardinality({k \in found : k <= n}) <= ReplayLimit}
  BY DEF Replay
<1> HIDE DEF found
<1>3. \A n \in found : n \in Replay(a, b) <=> Cardinality(Between(a, n)) <= ReplayLimit
  BY <1>1, <1>2
<1>. QED
  BY <1>2, <1>3 DEF found

LEMMA ReplayIsPrefix ==
    ASSUME LogTyped, NEW a \in Nat, NEW b \in Nat, NEW x \in Replay(a, b),
           NEW y \in Between(a, b), y <= x
    PROVE  y \in Replay(a, b)
<1>1. ReplayLimit \in Nat
  BY SubscriptionsAssumption
<1>2. x \in Between(a, b) /\ Cardinality(Between(a, x)) <= ReplayLimit
  BY ReplayReads
<1>3. x \in Nat /\ y \in Nat
  BY <1>2, BetweenTyped
<1>4. /\ Cardinality(Between(a, y)) <= Cardinality(Between(a, x))
      /\ Cardinality(Between(a, y)) \in Nat /\ Cardinality(Between(a, x)) \in Nat
  BY <1>3, BetweenCounts, BetweenTyped
<1>5. Cardinality(Between(a, y)) <= ReplayLimit
  BY <1>1, <1>2, <1>4
<1>. QED
  BY <1>5, ReplayReads

\* A replay that is not empty is an interval of its own, no longer than the limit.
LEMMA ReplayIsBounded ==
    ASSUME LogTyped, NEW a \in Nat, NEW b \in Nat, Replay(a, b) # {}
    PROVE  /\ Max(Replay(a, b)) \in Replay(a, b) /\ Max(Replay(a, b)) \in Nat
           /\ \A n \in Replay(a, b) : n <= Max(Replay(a, b))
           /\ Replay(a, b) = Between(a, Max(Replay(a, b)))
           /\ Cardinality(Replay(a, b)) <= ReplayLimit
<1>1. Replay(a, b) \in SUBSET (0..Len(log)) /\ Len(log) \in Nat
  BY ReplayReads, BetweenTyped, OwnTyped
<1>2. PICK m : m = Max(Replay(a, b))
  OBVIOUS
<1>3. m \in Replay(a, b) /\ m \in Nat /\ \A n \in Replay(a, b) : n <= m
  BY <1>1, <1>2, MaxOfNat
<1>4. m \in Between(a, b) /\ m <= b
  BY <1>3, ReplayReads, BetweenTyped
<1>5. Replay(a, b) = Between(a, m)
  <2>1. ASSUME NEW n \in Replay(a, b)
        PROVE  n \in Between(a, m)
    BY <1>3, ReplayReads DEF Between
  <2>2. ASSUME NEW n \in Between(a, m)
        PROVE  n \in Replay(a, b)
    <3>1. n \in Nat /\ n <= m /\ n \in Own /\ a < n
      BY <1>3, BetweenTyped
    <3>2. n \in Between(a, b)
      BY <1>3, <1>4, <3>1 DEF Between
    <3>. QED
      BY <1>3, <3>1, <3>2, ReplayIsPrefix
  <2>. QED
    BY <2>1, <2>2
<1>6. Cardinality(Between(a, m)) <= ReplayLimit
  BY <1>3, <1>4, ReplayReads
<1>. QED
  BY <1>2, <1>3, <1>5, <1>6

\* An input a replay left out is behind a full replay.
LEMMA LeftOutIsBehind ==
    ASSUME LogTyped, NEW a \in Nat, NEW b \in Nat, NEW n \in Between(a, b), n \notin Replay(a, b)
    PROVE  Cardinality(Replay(a, b)) = ReplayLimit /\ n \in Between(Max(Replay(a, b)), b)
<1>1. ReplayLimit \in Nat /\ ReplayLimit > 0
  BY SubscriptionsAssumption
<1> DEFINE out == {k \in Between(a, b) : k \notin Replay(a, b)}
<1>2. out \in SUBSET Nat /\ n \in out
  BY BetweenTyped
<1>3. PICK m \in out : \A k \in out : m <= k
  BY <1>2, NatHasMin
<1>4. m \in Nat /\ m \in Between(a, b) /\ m \in Own /\ a < m /\ m <= b /\ m \notin Replay(a, b)
  BY <1>3, BetweenTyped
<1>5. ASSUME NEW k \in Replay(a, b)
      PROVE  k < m
  <2>1. k \in Nat /\ k # m
    BY <1>4, ReplayReads, BetweenTyped
  <2>2. ~ (m <= k)
    BY <1>4, ReplayIsPrefix
  <2>. QED
    BY <1>4, <2>1, <2>2
<1>6. Between(a, m) = Replay(a, b) \cup {m}
  <2>1. ASSUME NEW k \in Between(a, m), k # m
        PROVE  k \in Replay(a, b)
    <3>1. k \in Nat /\ k \in Own /\ a < k /\ k <= m
      BY <1>4, BetweenTyped
    <3>2. k \in Between(a, b) /\ ~ (m <= k)
      BY <1>4, <2>1, <3>1 DEF Between
    <3>. QED
      BY <1>3, <3>2
  <2>2. ASSUME NEW k \in Replay(a, b)
        PROVE  k \in Between(a, m)
    <3>1. k \in Own /\ a < k /\ k \in Nat
      BY ReplayReads, BetweenTyped
    <3>. QED
      BY <1>4, <1>5, <3>1 DEF Between
  <2>3. m \in Between(a, m)
    BY <1>4 DEF Between
  <2>. QED
    BY <2>1, <2>2, <2>3
<1>7. IsFiniteSet(Replay(a, b)) /\ Cardinality(Replay(a, b)) \in Nat
  BY ReplayReads, BetweenTyped, FS_Subset, FS_CardinalityType
<1>8. Cardinality(Between(a, m)) = Cardinality(Replay(a, b)) + 1
  BY <1>4, <1>6, <1>7, FS_AddElement
<1>9. ~ (Cardinality(Between(a, m)) <= ReplayLimit)
  BY <1>4, ReplayReads
<1>10. Cardinality(Replay(a, b)) >= ReplayLimit
  BY <1>1, <1>7, <1>8, <1>9
<1>11. Replay(a, b) # {}
  BY <1>1, <1>7, <1>10, FS_EmptySet
<1>12. /\ Cardinality(Replay(a, b)) <= ReplayLimit
       /\ Max(Replay(a, b)) \in Replay(a, b) /\ Max(Replay(a, b)) \in Nat
  BY <1>11, ReplayIsBounded
<1>13. n \in Nat /\ n \in Own /\ n <= b /\ m <= n
  BY <1>2, <1>3, BetweenTyped
<1>14. Max(Replay(a, b)) < n
  BY <1>4, <1>5, <1>12, <1>13
<1>. QED
  BY <1>1, <1>7, <1>10, <1>12, <1>13, <1>14 DEF Between

-----------------------------------------------------------------------------
(***************************************************************************)
(* The events of a poll                                                    *)
(***************************************************************************)

LEMMA LatestReads ==
    ASSUME NEW n \in Nat, NEW S \in SUBSET (0..n)
    PROVE  /\ Latest(S) \subseteq S
           /\ \A x \in S : \E k \in Latest(S) : log[k] = log[x] /\ x <= k
<1>1. Latest(S) \subseteq S
  BY DEF Latest
<1>2. ASSUME NEW x \in S
      PROVE  \E k \in Latest(S) : log[k] = log[x] /\ x <= k
  <2> DEFINE same == {k \in S : log[k] = log[x]}
  <2>1. same \in SUBSET (0..n) /\ x \in same
    OBVIOUS
  <2>2. Max(same) \in same /\ \A y \in same : y <= Max(same)
    BY <2>1, MaxOfNat
  <2>3. PICK k \in S : k = Max(same) /\ log[k] = log[x] /\ \A y \in S : log[y] = log[x] => y <= k
    BY <2>2
  <2>4. k \in Latest(S)
    BY <2>3 DEF Latest
  <2>. QED
    BY <2>1, <2>3, <2>4
<1>. QED
  BY <1>1, <1>2

\* The newest input of a poll is sent.
LEMMA LatestKeepsMax ==
    ASSUME NEW n \in Nat, NEW S \in SUBSET (0..n), S # {}
    PROVE  Latest(S) # {} /\ Max(Latest(S)) = Max(S)
<1>1. Max(S) \in S /\ Max(S) \in 0..n /\ \A y \in S : y <= Max(S)
  BY MaxOfNat
<1>2. PICK m : m = Max(S)
  OBVIOUS
<1>3. m \in S /\ m \in 0..n /\ \A y \in S : y <= m
  BY <1>1, <1>2
<1>4. m \in Latest(S) /\ Latest(S) \in SUBSET (0..n)
  BY <1>3 DEF Latest
<1>5. /\ Max(Latest(S)) \in Latest(S) /\ Max(Latest(S)) \in 0..n
      /\ \A y \in Latest(S) : y <= Max(Latest(S))
  BY <1>4, MaxOfNat
<1>6. Max(Latest(S)) \in S
  BY <1>5 DEF Latest
<1>7. Max(Latest(S)) <= m /\ m <= Max(Latest(S))
  BY <1>3, <1>4, <1>5, <1>6
<1>8. Max(Latest(S)) = m
  BY <1>3, <1>5, <1>7
<1>. QED
  BY <1>2, <1>4, <1>8

\* When the oldest event of a frame is handled, the others are what a poll of
\* the rest would send.
LEMMA LatestOfRest ==
    ASSUME LogTyped, NEW a \in Nat, NEW b \in Nat, NEW next \in Latest(Between(a, b)),
           \A k \in Latest(Between(a, b)) : next <= k
    PROVE  Latest(Between(a, b)) \ {next} = Latest(Between(next, b))
<1>1. next \in Between(a, b) /\ next \in Nat /\ a < next
  BY BetweenTyped DEF Latest
<1>2. Between(next, b) \subseteq Between(a, b)
  <2>1. Own \subseteq Nat
    BY OwnTyped
  <2>2. \A n \in Own : next < n => a < n
    BY <1>1, <2>1
  <2>. QED
    BY <2>2 DEF Between
<1>3. ASSUME NEW n \in Latest(Between(a, b)), n # next
      PROVE  n \in Latest(Between(next, b))
  <2>1. n \in Between(a, b) /\ \A k \in Between(a, b) : log[k] = log[n] => k <= n
    BY <1>3 DEF Latest
  <2>2. n \in Nat /\ n \in Own /\ n <= b /\ next < n
    BY <1>1, <1>3, <2>1, BetweenTyped
  <2>. QED
    BY <1>2, <2>1, <2>2 DEF Between, Latest
<1>4. ASSUME NEW n \in Latest(Between(next, b))
      PROVE  n \in Latest(Between(a, b)) /\ n # next
  <2>1. n \in Between(next, b) /\ \A k \in Between(next, b) : log[k] = log[n] => k <= n
    BY DEF Latest
  <2>2. n \in Nat /\ next < n
    BY <1>1, <2>1, BetweenTyped
  <2>3. ASSUME NEW k \in Between(a, b), log[k] = log[n]
        PROVE  k <= n
    <3>1. k \in Nat /\ k \in Own /\ k <= b
      BY BetweenTyped
    <3>2. CASE next < k
      BY <2>1, <2>3, <3>1, <3>2 DEF Between
    <3>3. CASE k <= next
      BY <1>1, <2>2, <3>1, <3>3
    <3>. QED
      BY <1>1, <3>1, <3>2, <3>3
  <2>. QED
    BY <1>1, <1>2, <2>1, <2>2, <2>3 DEF Latest
<1>. QED
  BY <1>3, <1>4

-----------------------------------------------------------------------------
(***************************************************************************)
(* The log grows                                                           *)
(***************************************************************************)

LogGrows(topic) == topic \in Topic \cup {Foreign} /\ log' = Append(log, topic)

LEMMA OwnGrows ==
    ASSUME LogTyped, NEW topic, LogGrows(topic)
    PROVE  /\ LogTyped'
           /\ Len(log') = Len(log) + 1
           /\ \A n \in Own : n \in Own' /\ log'[n] = log[n]
           /\ \A n \in Own' : n \in Own \/ n = Len(log) + 1
           /\ Watermark <= Watermark'
<1>1. /\ log \in Seq(Topic \cup {Foreign}) /\ topic \in Topic \cup {Foreign}
      /\ log' = Append(log, topic)
  BY DEF LogTyped, LogGrows
<1>2. /\ log' \in Seq(Topic \cup {Foreign}) /\ Len(log') = Len(log) + 1
      /\ \A n \in 1..Len(log) : log'[n] = log[n]
  BY <1>1, AppendProperties
<1>3. LogTyped'
  BY <1>2 DEF LogTyped
<1>4. Len(log) \in Nat
  BY <1>1
<1>5. \A n \in 1..Len(log) : n \in 1..Len(log')
  BY <1>2, <1>4
<1>6. \A n \in 1..Len(log') : n \in 1..Len(log) \/ n = Len(log) + 1
  BY <1>2, <1>4
<1>7. \A n \in Own : n \in Own' /\ log'[n] = log[n]
  BY <1>2, <1>5 DEF Own
<1>8. \A n \in Own' : n \in Own \/ n = Len(log) + 1
  BY <1>2, <1>6 DEF Own
<1>9. Watermark <= Watermark'
  <2>1. Watermark \in Own \cup {0}
    BY WatermarkTyped
  <2>2. Own \in SUBSET (1..Len(log))
    BY OwnTyped
  <2>3. Own' \cup {0} \in SUBSET (0..(Len(log) + 1))
    <3>1. \A n \in 1..Len(log) : n \in 0..(Len(log) + 1)
      BY <1>4
    <3>2. 0 \in 0..(Len(log) + 1) /\ Len(log) + 1 \in 0..(Len(log) + 1)
      BY <1>4
    <3>. QED
      BY <1>8, <2>2, <3>1, <3>2
  <2>4. \A n \in Own' \cup {0} : n <= Max(Own' \cup {0})
    <3>1. Len(log) + 1 \in Nat /\ Own' \cup {0} # {}
      BY <1>4
    <3>. QED
      BY <2>3, <3>1, MaxOfNat
  <2>5. Watermark' = Max(Own' \cup {0})
    BY DEF Watermark
  <2>. QED
    BY <1>7, <2>1, <2>4, <2>5
<1>. QED
  BY <1>2, <1>3, <1>7, <1>8, <1>9

LEMMA PastStays ==
    ASSUME LogTyped, NEW topic, LogGrows(topic)
    PROVE  \A a \in Nat : \A b \in 0..Len(log) :
              /\ Between(a, b)' = Between(a, b)
              /\ Replay(a, b)' = Replay(a, b)
              /\ Latest(Between(a, b))' = Latest(Between(a, b))
<1> SUFFICES ASSUME NEW a \in Nat, NEW b \in 0..Len(log)
             PROVE  /\ Between(a, b)' = Between(a, b)
                    /\ Replay(a, b)' = Replay(a, b)
                    /\ Latest(Between(a, b))' = Latest(Between(a, b))
  OBVIOUS
<1>1. /\ Len(log) \in Nat /\ Own \subseteq Nat
      /\ \A n \in Own : n \in Own' /\ log'[n] = log[n]
      /\ \A n \in Own' : n \in Own \/ n = Len(log) + 1
  BY OwnTyped, OwnGrows
<1>2. \A n \in Own' : n <= b => n \in Own
  BY <1>1
<1>3. {n \in Own' : a < n /\ n <= b} = {n \in Own : a < n /\ n <= b}
  BY <1>1, <1>2
<1>4. Between(a, b)' = Between(a, b)
  BY <1>3 DEF Between
<1>5. Replay(a, b)' = Replay(a, b)
  BY <1>4 DEF Replay
<1>6. \A n \in Between(a, b) : log'[n] = log[n]
  BY <1>1 DEF Between
<1>7. Latest(Between(a, b))' = {n \in Between(a, b) : \A k \in Between(a, b) : log'[k] = log'[n] => k <= n}
  BY <1>4 DEF Latest
<1>8. Latest(Between(a, b))' = Latest(Between(a, b))
  BY <1>6, <1>7 DEF Latest
<1>. QED
  BY <1>4, <1>5, <1>8

-----------------------------------------------------------------------------
(***************************************************************************)
(* The frames of a connection follow each other                            *)
(***************************************************************************)

Frame == Ready \cup Events \cup {StreamError}

BaseTypes ==
    /\ LogTyped
    /\ server \in Server
    /\ wire \in Seq(Frame)
    /\ reg \in Registration
    /\ slice \in [Topic -> Slice]
    /\ told \in [Topic -> Nat]
    /\ passed \subseteq Own

\* How far a client is that has handled the first i frames.
FrameEnd(f) == IF f.op = "ready" THEN f.cursor ELSE Max(f.cursors)
End(i) == IF i = 0 THEN reg.resume ELSE FrameEnd(wire[i])

\* A frame goes on where a client stands at e.
ReadyFollows(e, f) ==
    /\ f.op = "ready" /\ f.cursor \in Nat
    /\ e \in Nat /\ e <= f.cursor /\ f.cursor <= Watermark
    /\ \/ f.mode = "resume" /\ f.replay = Replay(e, f.cursor)
       \/ f.mode = "snapshot_fallback" /\ f.replay = {} /\ \A n \in Own : e < n

EventsFollow(e, f) ==
    /\ f.op = "events"
    /\ e \in Nat /\ Max(f.cursors) \in Own /\ e < Max(f.cursors)
    /\ f.cursors = Latest(Between(e, Max(f.cursors)))
    /\ Cardinality(Between(e, Max(f.cursors))) <= ReplayLimit

\* The frame that hydrates a registration.
Opening(f) ==
    /\ f.op = "ready" /\ f.mode = "cold" /\ f.replay = {}
    /\ f.cursor \in Nat /\ f.shows \in Nat
    /\ f.cursor <= Watermark /\ f.cursor <= f.shows /\ f.shows <= Len(log)

FrameHolds(i) ==
    \E e, f :
        /\ e = End(i - 1) /\ f = wire[i]
        /\ \/ f.op = "error" /\ i = Len(wire) /\ server.step = "idle"
           \/ i = 1 /\ reg.state # "live" /\ Opening(f)
           \/ /\ i > 1 \/ reg.state = "live"
              /\ ReadyFollows(e, f) \/ EventsFollow(e, f)

ChainHolds == \A i \in DOMAIN wire : FrameHolds(i)

ServerHolds ==
    /\ server.step \in {"off", "subscribed"} => wire = <<>>
    /\ server.step \in {"subscribed", "ready", "tail"} => server.cursor = End(Len(wire))
    /\ server.step = "ready" =>
          /\ server.until <= Watermark
          /\ server.cursor # NoCursor => server.cursor <= server.until
    /\ server.step = "tail" => server.cursor # NoCursor

RegHolds ==
    /\ reg.resume # NoCursor <=> reg.state = "live"
    /\ reg.state = "live" => reg.resume <= Watermark /\ reg.delivered <= reg.resume
    /\ reg.state # "live" => reg.delivered = 0
    /\ reg.state = "failed" => server.step \in {"off", "idle"} /\ wire = <<>>

WireInv == ChainHolds /\ ServerHolds /\ RegHolds

LEMMA FrameKinds ==
    ASSUME NEW f \in Frame
    PROVE  /\ f.op \in {"ready", "events", "error"}
           /\ f.op = "ready" => f \in Ready
           /\ f.op = "events" => f \in Events
BY DEF Frame, Ready, Events, StreamError

LEMMA ReadyTyped ==
    ASSUME NEW f \in Ready
    PROVE  /\ f.op = "ready" /\ f.cursor \in Nat /\ f.replay \in SUBSET Nat /\ f.shows \in Nat
           /\ f.mode \in {"cold", "resume", "snapshot_fallback"}
BY DEF Ready

LEMMA BaseFacts ==
    ASSUME BaseTypes
    PROVE  /\ LogTyped
           /\ wire \in Seq(Frame) /\ Len(wire) \in Nat /\ DOMAIN wire = 1..Len(wire)
           /\ \A i \in DOMAIN wire : i \in Nat /\ wire[i] \in Frame
           /\ server.step \in {"off", "idle", "subscribed", "ready", "tail"}
           /\ server.cursor \in Cursor /\ server.until \in Nat
           /\ reg.state \in {"waiting", "live", "failed"}
           /\ reg.resume \in Cursor /\ reg.delivered \in Nat
           /\ NoCursor \notin Nat /\ ReplayLimit \in Nat /\ ReplayLimit > 0
           /\ Watermark \in Nat /\ Len(log) \in Nat /\ Watermark <= Len(log)
<1>1. LogTyped /\ wire \in Seq(Frame)
  BY DEF BaseTypes
<1>2. /\ server.step \in {"off", "idle", "subscribed", "ready", "tail"}
      /\ server.cursor \in Cursor /\ server.until \in Nat
  BY DEF BaseTypes, Server
<1>3. /\ reg.state \in {"waiting", "live", "failed"}
      /\ reg.resume \in Cursor /\ reg.delivered \in Nat
  BY DEF BaseTypes, Registration
<1>4. NoCursor \notin Nat /\ ReplayLimit \in Nat /\ ReplayLimit > 0
  BY SubscriptionsAssumption
<1>5. Watermark \in Nat /\ Len(log) \in Nat /\ Watermark <= Len(log)
  BY <1>1, WatermarkTyped, OwnTyped
<1>. QED
  BY <1>1, <1>2, <1>3, <1>4, <1>5

\* While the subscription goes on, every frame ends at a number not beyond the
\* watermark.
LEMMA EndsAreKnown ==
    ASSUME BaseTypes, WireInv, NEW i \in DOMAIN wire, wire[i].op # "error"
    PROVE  End(i) \in Nat /\ End(i) <= Watermark
<1>1. /\ LogTyped /\ i \in Nat /\ i # 0 /\ wire[i] \in Frame
  BY BaseFacts
<1>2. FrameHolds(i)
  BY DEF WireInv, ChainHolds
<1>3. End(i) = FrameEnd(wire[i])
  BY <1>1 DEF End
<1>4. CASE wire[i].op = "ready"
  <2>1. wire[i].cursor \in Nat
    BY <1>1, <1>4, FrameKinds, ReadyTyped
  <2>2. wire[i].cursor <= Watermark
    BY <1>2, <1>4 DEF FrameHolds, Opening, ReadyFollows, EventsFollow
  <2>. QED
    BY <1>3, <1>4, <2>1, <2>2 DEF FrameEnd
<1>5. CASE wire[i].op = "events"
  <2>1. Max(wire[i].cursors) \in Own
    BY <1>2, <1>5 DEF FrameHolds, Opening, ReadyFollows, EventsFollow
  <2>2. Max(wire[i].cursors) \in Nat /\ Max(wire[i].cursors) <= Watermark
    BY <1>1, <2>1, WatermarkTyped, OwnTyped
  <2>. QED
    BY <1>3, <1>5, <2>2 DEF FrameEnd
<1>. QED
  BY <1>1, <1>4, <1>5, FrameKinds

LEMMA RunningHasNoError ==
    ASSUME WireInv, server.step # "idle", NEW i \in DOMAIN wire
    PROVE  wire[i].op # "error"
BY DEF WireInv, ChainHolds, FrameHolds, Opening, ReadyFollows, EventsFollow

\* Where the subscription stands.
LEMMA ServerCursorKnown ==
    ASSUME BaseTypes, WireInv, server.step \in {"subscribed", "ready", "tail"}
    PROVE  \/ server.cursor = NoCursor /\ wire = <<>> /\ reg.state # "live"
           \/ /\ server.cursor \in Nat /\ server.cursor <= Watermark
              /\ Len(wire) > 0 \/ reg.state = "live"
<1>1. server.cursor = End(Len(wire)) /\ Len(wire) \in Nat
  BY BaseFacts DEF WireInv, ServerHolds
<1>2. CASE Len(wire) = 0
  <2>1. server.cursor = reg.resume /\ wire = <<>>
    BY <1>1, <1>2, BaseFacts DEF End
  <2>. QED
    BY <2>1, BaseFacts DEF WireInv, RegHolds, Cursor
<1>3. CASE Len(wire) # 0
  <2>1. Len(wire) \in DOMAIN wire
    BY <1>1, <1>3, BaseFacts
  <2>2. End(Len(wire)) \in Nat /\ End(Len(wire)) <= Watermark
    BY <2>1, RunningHasNoError, EndsAreKnown
  <2>. QED
    BY <1>1, <1>3, <2>2
<1>. QED
  BY <1>2, <1>3

LEMMA LogKept ==
    ASSUME UNCHANGED log
    PROVE  /\ Own' = Own /\ Watermark' = Watermark
           /\ \A a, b : Between(a, b)' = Between(a, b)
           /\ \A a, b : Replay(a, b)' = Replay(a, b)
           /\ \A S : Latest(S)' = Latest(S)
<1>1. Own' = Own
  BY DEF Own
<1>2. \A a, b : Between(a, b)' = Between(a, b)
  BY <1>1 DEF Between
<1>3. \A a, b : Replay(a, b)' = Replay(a, b)
  BY <1>2 DEF Replay
<1>. QED
  BY <1>1, <1>2, <1>3 DEF Watermark, Latest

-----------------------------------------------------------------------------
(***************************************************************************)
(* Types                                                                   *)
(***************************************************************************)

\* The frames the service can have sent: about inputs of the log, as many as one
\* replay reads, and never without any.
Known ==
    {f \in Frame :
        /\ f.op = "ready" =>
              f.replay \subseteq Own /\ Cardinality(f.replay) <= ReplayLimit /\ f.shows <= Len(log)
        /\ f.op = "events" =>
              f.cursors \subseteq Own /\ f.cursors # {} /\ Cardinality(f.cursors) <= ReplayLimit}

TypeInv ==
    /\ LogTyped
    /\ server \in Server
    /\ wire \in Seq(Known)
    /\ reg \in Registration
    /\ slice \in [Topic -> Slice]
    /\ told \in [Topic -> Nat]
    /\ passed \subseteq Own
    /\ server.step = "tail" => server.cursor \in Nat

LEMMA KnownIsFrame == Known \subseteq Frame
BY DEF Known

LEMMA KnownKept ==
    ASSUME UNCHANGED log
    PROVE  Known' = Known
BY LogKept DEF Known, Frame, Ready, Events, StreamError

LEMMA KnownGrows ==
    ASSUME LogTyped, NEW topic, LogGrows(topic)
    PROVE  Known \subseteq Known'
<1>1. /\ \A n \in Own : n \in Own'
      /\ Len(log') = Len(log) + 1 /\ Len(log) \in Nat
  BY OwnGrows, OwnTyped
<1>2. ASSUME NEW f \in Known
      PROVE  f \in Known'
  <2>1. f \in Frame
    BY KnownIsFrame
  <2>2. f.op = "ready" => /\ f.replay \subseteq Own' /\ Cardinality(f.replay) <= ReplayLimit
                          /\ f.shows <= Len(log')
    <3>1. SUFFICES ASSUME f.op = "ready"
                   PROVE  /\ f.replay \subseteq Own' /\ Cardinality(f.replay) <= ReplayLimit
                          /\ f.shows <= Len(log')
      OBVIOUS
    <3>2. f.shows \in Nat
      BY <2>1, <3>1, FrameKinds, ReadyTyped
    <3>3. f.replay \subseteq Own /\ Cardinality(f.replay) <= ReplayLimit /\ f.shows <= Len(log)
      BY <3>1 DEF Known
    <3>. QED
      BY <1>1, <3>2, <3>3
  <2>3. f.op = "events" => /\ f.cursors \subseteq Own' /\ f.cursors # {}
                           /\ Cardinality(f.cursors) <= ReplayLimit
    BY <1>1 DEF Known
  <2>. QED
    BY <2>1, <2>2, <2>3 DEF Known, Frame, Ready, Events, StreamError
<1>. QED
  BY <1>2

LEMMA TypesGiveBase ==
    ASSUME TypeInv
    PROVE  BaseTypes
<1>1. wire \in Seq(Frame)
  BY KnownIsFrame DEF TypeInv
<1>. QED
  BY <1>1 DEF TypeInv, BaseTypes

LEMMA HeadTyped ==
    ASSUME TypeInv, wire # <<>>
    PROVE  /\ Head(wire) \in Known /\ Head(wire) \in Frame /\ Head(wire) = wire[1]
           /\ Tail(wire) \in Seq(Known)
           /\ Head(wire).op = "ready" =>
                 /\ Head(wire).cursor \in Nat /\ Head(wire).shows \in Nat
                 /\ Head(wire).replay \subseteq Own /\ Head(wire).shows <= Len(log)
           /\ Head(wire).op = "events" =>
                 Head(wire).cursors \subseteq Own /\ Head(wire).cursors # {}
<1>1. wire \in Seq(Known)
  BY DEF TypeInv
<1>2. Head(wire) \in Known /\ Head(wire) = wire[1] /\ Tail(wire) \in Seq(Known)
  BY <1>1, HeadTailProperties
<1>3. Head(wire) \in Frame
  BY <1>2, KnownIsFrame
<1>4. Head(wire).op = "ready" => Head(wire).cursor \in Nat /\ Head(wire).shows \in Nat
  BY <1>3, FrameKinds, ReadyTyped
<1>. QED
  BY <1>2, <1>3, <1>4 DEF Known

\* The numbers the client keeps stay numbers.
LEMMA MaxKnown ==
    ASSUME LogTyped, NEW S \in SUBSET Own, NEW m \in Nat
    PROVE  /\ Max(S \cup {m}) \in Nat /\ m <= Max(S \cup {m})
           /\ Max(S \cup {m}) \in S \cup {m}
           /\ \A n \in S : n <= Max(S \cup {m})
           /\ S = {} => Max(S \cup {m}) = m
<1>1. Len(log) \in Nat /\ Own \in SUBSET (1..Len(log))
  BY OwnTyped
<1>2. PICK top \in Nat : Len(log) <= top /\ m <= top
  <2>1. CASE m <= Len(log)
    BY <1>1, <2>1
  <2>2. CASE ~ (m <= Len(log))
    BY <1>1, <2>2
  <2>. QED
    BY <2>1, <2>2
<1>3. S \cup {m} \in SUBSET (0..top) /\ S \cup {m} # {}
  BY <1>1, <1>2
<1>4. /\ Max(S \cup {m}) \in S \cup {m} /\ Max(S \cup {m}) \in 0..top
      /\ \A y \in S \cup {m} : y <= Max(S \cup {m})
  BY <1>2, <1>3, MaxOfNat
<1>5. Max(S \cup {m}) \in Nat
  BY <1>2, <1>4
<1>. QED
  BY <1>4, <1>5

LEMMA ResumedTyped ==
    ASSUME LogTyped, reg \in Registration, NEW c \in Nat, NEW S \in SUBSET Own
    PROVE  /\ Resumed({c} \cup S) \in Nat
           /\ Resumed({c} \cup S) \in {c} \cup S \cup {reg.resume}
           /\ \A n \in {c} \cup S : n <= Resumed({c} \cup S)
           /\ reg.resume \in Nat => reg.resume <= Resumed({c} \cup S)
<1>1. NoCursor \notin Nat /\ reg.resume \in Nat \cup {NoCursor}
  BY SubscriptionsAssumption DEF Registration, Cursor
<1> DEFINE T == {c} \cup S \cup ({reg.resume} \ {NoCursor})
<1>2. Len(log) \in Nat /\ Own \in SUBSET (1..Len(log))
  BY OwnTyped
<1>3. PICK r \in Nat : reg.resume \in Nat => r = reg.resume
  BY <1>1
<1>4. c + r + Len(log) \in Nat
  BY <1>2
<1>5. T \in SUBSET (0..(c + r + Len(log))) /\ T # {}
  <2>1. c \in 0..(c + r + Len(log)) /\ r \in 0..(c + r + Len(log))
    BY <1>2
  <2>2. \A n \in 1..Len(log) : n \in 0..(c + r + Len(log))
    BY <1>2
  <2>3. reg.resume \in {r, NoCursor}
    BY <1>1, <1>3
  <2>. QED
    BY <1>2, <2>1, <2>2, <2>3
<1>6. /\ Max(T) \in T /\ Max(T) \in 0..(c + r + Len(log))
      /\ \A y \in T : y <= Max(T)
  BY <1>4, <1>5, MaxOfNat
<1>7. Resumed({c} \cup S) = Max(T)
  BY DEF Resumed
<1>8. Max(T) \in Nat
  BY <1>4, <1>6
<1> HIDE DEF T
<1>9. reg.resume \in Nat => reg.resume \in T
  BY <1>1 DEF T
<1>10. {c} \cup S \subseteq T /\ T \subseteq {c} \cup S \cup {reg.resume}
  BY DEF T
<1>. QED
  BY <1>6, <1>7, <1>8, <1>9, <1>10

\* What a step leaves alone, where the log does not grow.
LEMMA TypesKept ==
    ASSUME TypeInv, UNCHANGED log, server' \in Server, wire' \in Seq(Known),
           reg' \in Registration, slice' \in [Topic -> Slice], told' \in [Topic -> Nat],
           passed' \subseteq Own, server'.step = "tail" => server'.cursor \in Nat
    PROVE  TypeInv'
<1>1. Known' = Known /\ Own' = Own
  BY KnownKept, LogKept
<1>2. LogTyped'
  BY DEF TypeInv, LogTyped
<1>. QED
  BY <1>1, <1>2 DEF TypeInv

LEMMA TypesAtStart ==
    ASSUME SubscriptionsInit
    PROVE  TypeInv
<1>1. log = <<>> /\ wire = <<>> /\ passed = {} /\ told = [t \in Topic |-> 0]
  BY DEF SubscriptionsInit
<1>2. server = [step |-> "off", cursor |-> NoCursor, until |-> 0]
  BY DEF SubscriptionsInit
<1>3. reg = [state |-> "waiting", resume |-> NoCursor, delivered |-> 0]
  BY DEF SubscriptionsInit
<1>4. server \in Server /\ server.step # "tail"
  BY <1>2 DEF Server, Cursor
<1>5. reg \in Registration
  BY <1>3 DEF Registration, Cursor
<1>6. slice \in [Topic -> Slice]
  BY DEF SubscriptionsInit, Slice
<1>7. wire \in Seq(Known) /\ LogTyped
  BY <1>1 DEF LogTyped
<1>. QED
  BY <1>1, <1>4, <1>5, <1>6, <1>7 DEF TypeInv

LEMMA AppendKeepsTypes ==
    ASSUME TypeInv, AppendInput
    PROVE  TypeInv' /\ \E topic : LogGrows(topic)
<1>1. PICK topic \in Topic \cup {Foreign} : log' = Append(log, topic)
  BY DEF AppendInput
<1>2. LogGrows(topic) /\ LogTyped
  BY <1>1 DEF LogGrows, TypeInv
<1>3. LogTyped' /\ (\A n \in Own : n \in Own') /\ Known \subseteq Known'
  BY <1>2, OwnGrows, KnownGrows
<1>4. UNCHANGED <<server, wire, reg, slice, told, passed>>
  BY DEF AppendInput
<1>5. wire \in Seq(Known')
  BY <1>3, SeqMonotonic DEF TypeInv
<1>. QED
  BY <1>2, <1>3, <1>4, <1>5 DEF TypeInv

LEMMA ReadyFrameTyped ==
    ASSUME TypeInv
    PROVE  ReadyFrame \in Known /\ ReadyFrame.op = "ready" /\ ReadyFrame.cursor = server.until
<1>1. /\ server.until \in Nat /\ server.cursor \in Nat \cup {NoCursor} /\ LogTyped
      /\ Len(log) \in Nat /\ ReplayLimit \in Nat /\ Own \subseteq Nat
  BY OwnTyped, SubscriptionsAssumption DEF TypeInv, Server, Cursor
<1>2. CASE server.cursor # NoCursor /\ Retained(server.cursor)
  <2> DEFINE f == [op |-> "ready", mode |-> "resume", cursor |-> server.until,
                   replay |-> Replay(server.cursor, server.until), shows |-> 0]
  <2>1. ReadyFrame = f
    BY <1>2 DEF ReadyFrame
  <2>2. Replay(server.cursor, server.until) \subseteq Own
    BY <1>1, <1>2, ReplayReads, BetweenTyped
  <2>3. Cardinality(Replay(server.cursor, server.until)) <= ReplayLimit
    <3>1. CASE Replay(server.cursor, server.until) = {}
      BY <1>1, <3>1, FS_EmptySet
    <3>2. CASE Replay(server.cursor, server.until) # {}
      BY <1>1, <1>2, <3>2, ReplayIsBounded
    <3>. QED
      BY <3>1, <3>2
  <2>4. f \in Frame
    BY <1>1, <2>2 DEF Frame, Ready
  <2>5. f \in Known /\ f.op = "ready" /\ f.cursor = server.until
    BY <1>1, <2>2, <2>3, <2>4 DEF Known
  <2>. QED
    BY <2>1, <2>5
<1>3. CASE ~ (server.cursor # NoCursor /\ Retained(server.cursor))
  <2> DEFINE mode == IF server.cursor = NoCursor THEN "cold" ELSE "snapshot_fallback"
             f == [op |-> "ready", cursor |-> server.until, replay |-> {}, shows |-> Len(log),
                   mode |-> mode]
  <2>1. ReadyFrame = f
    BY <1>3 DEF ReadyFrame
  <2>2. mode \in {"cold", "resume", "snapshot_fallback"}
    OBVIOUS
  <2> HIDE DEF mode
  <2>3. f \in Frame
    BY <1>1, <2>2 DEF Frame, Ready
  <2>4. f \in Known /\ f.op = "ready" /\ f.cursor = server.until
    <3>1. IsFiniteSet({}) /\ Cardinality({}) = 0
      BY FS_EmptySet
    <3>2. f.replay = {} /\ f.shows = Len(log) /\ f.op = "ready" /\ f.cursor = server.until
      OBVIOUS
    <3> HIDE DEF f
    <3>3. /\ f.replay \subseteq Own /\ Cardinality(f.replay) <= ReplayLimit
          /\ f.shows <= Len(log) /\ f.op # "events"
      BY <1>1, <3>1, <3>2
    <3>. QED
      BY <2>3, <3>2, <3>3, Zenon DEF Known
  <2>. QED
    BY <2>1, <2>4
<1>. QED
  BY <1>2, <1>3

\* What a poll reads and sends.
LEMMA EventsTyped ==
    ASSUME LogTyped, NEW c \in Nat, Replay(c, Len(log)) # {}
    PROVE  LET m == Max(Replay(c, Len(log)))
               sent == Latest(Replay(c, Len(log)))
           IN  /\ m \in Own /\ m \in Nat /\ c < m
               /\ Replay(c, Len(log)) = Between(c, m)
               /\ Cardinality(Between(c, m)) <= ReplayLimit
               /\ sent = Latest(Between(c, m)) /\ Max(sent) = m
               /\ [op |-> "events", cursors |-> sent] \in Known
<1>1. Len(log) \in Nat /\ Own \subseteq Nat /\ ReplayLimit \in Nat
  BY OwnTyped, SubscriptionsAssumption
<1>2. PICK found : found = Replay(c, Len(log))
  OBVIOUS
<1>3. /\ Max(found) \in found /\ Max(found) \in Nat /\ found = Between(c, Max(found))
      /\ Cardinality(found) <= ReplayLimit
  BY <1>1, <1>2, ReplayIsBounded
<1>4. found \in SUBSET (0..Len(log)) /\ found \subseteq Own /\ IsFiniteSet(found)
  BY <1>1, <1>2, ReplayReads, BetweenTyped, FS_Subset
<1>5. Latest(found) # {} /\ Max(Latest(found)) = Max(found) /\ Latest(found) \subseteq found
  BY <1>1, <1>2, <1>4, LatestKeepsMax, LatestReads
<1>6. Cardinality(Latest(found)) <= ReplayLimit
  <2>1. /\ Cardinality(Latest(found)) <= Cardinality(found)
        /\ Cardinality(Latest(found)) \in Nat /\ Cardinality(found) \in Nat
    BY <1>4, <1>5, FS_Subset, FS_CardinalityType
  <2>. QED
    BY <1>1, <1>3, <2>1
<1>7. PICK sent : sent = Latest(found)
  OBVIOUS
<1>8. [op |-> "events", cursors |-> sent] \in Known
  <2>1. sent \subseteq Own /\ sent # {} /\ Cardinality(sent) <= ReplayLimit /\ sent \in SUBSET Nat
    BY <1>1, <1>4, <1>5, <1>6, <1>7
  <2>2. [op |-> "events", cursors |-> sent] \in Frame
    BY <2>1 DEF Frame, Events
  <2>. QED
    BY <2>1, <2>2 DEF Known
<1>9. c < Max(found)
  BY <1>3, BetweenTyped
<1>. QED
  BY <1>2, <1>3, <1>4, <1>5, <1>7, <1>8, <1>9

LEMMA ServerKeepsTypes ==
    ASSUME TypeInv, ServerStep \/ StreamFails
    PROVE  TypeInv'
<1>1. /\ LogTyped /\ server \in Server /\ wire \in Seq(Known) /\ reg \in Registration
      /\ slice \in [Topic -> Slice] /\ told \in [Topic -> Nat] /\ passed \subseteq Own
      /\ server.step = "tail" => server.cursor \in Nat
      /\ Watermark \in Nat
  BY WatermarkTyped DEF TypeInv
<1>2. CASE ReadWatermark \/ TailGap
  <2>1. /\ server' = [server EXCEPT !.step = "ready", !.until = Watermark]
        /\ UNCHANGED <<log, wire, reg, slice, told, passed>>
    BY <1>2 DEF ReadWatermark, TailGap
  <2>2. server' \in Server /\ server'.step = "ready"
    BY <1>1, <2>1 DEF Server
  <2>. QED
    BY <1>1, <2>1, <2>2, TypesKept
<1>3. CASE SendReady
  <2>1. /\ server' = [server EXCEPT !.step = "tail", !.cursor = ReadyFrame.cursor]
        /\ wire' = Append(wire, ReadyFrame)
        /\ UNCHANGED <<log, reg, slice, told, passed>>
    BY <1>3 DEF SendReady
  <2>2. ReadyFrame \in Known /\ ReadyFrame.cursor = server.until /\ server.until \in Nat
    BY <1>1, ReadyFrameTyped DEF Server
  <2>3. server' \in Server /\ server'.step = "tail" /\ server'.cursor \in Nat
    BY <1>1, <2>1, <2>2 DEF Server, Cursor
  <2>4. wire' \in Seq(Known)
    BY <1>1, <2>1, <2>2, AppendProperties
  <2>. QED
    BY <1>1, <2>1, <2>3, <2>4, TypesKept
<1>4. CASE SendEvents
  <2>1. /\ server.step = "tail" /\ TailInputs # {}
        /\ server' = [server EXCEPT !.cursor = Max(TailInputs)]
        /\ wire' = Append(wire, [op |-> "events", cursors |-> Latest(TailInputs)])
        /\ UNCHANGED <<log, reg, slice, told, passed>>
    BY <1>4 DEF SendEvents
  <2>2. server.cursor \in Nat /\ TailInputs = Replay(server.cursor, Len(log))
    BY <1>1, <2>1 DEF TailInputs
  <2>3. /\ Max(TailInputs) \in Nat
        /\ [op |-> "events", cursors |-> Latest(TailInputs)] \in Known
    BY <1>1, <2>1, <2>2, EventsTyped
  <2>4. server' \in Server /\ server'.cursor \in Nat
    BY <1>1, <2>1, <2>3 DEF Server, Cursor
  <2>5. wire' \in Seq(Known)
    BY <1>1, <2>1, <2>3, AppendProperties
  <2>. QED
    BY <1>1, <2>1, <2>4, <2>5, TypesKept
<1>5. CASE StreamFails
  <2>1. /\ server' = [server EXCEPT !.step = "idle"]
        /\ wire' = Append(wire, StreamError)
        /\ UNCHANGED <<log, reg, slice, told, passed>>
    BY <1>5 DEF StreamFails
  <2>2. server' \in Server /\ server'.step = "idle"
    BY <1>1, <2>1 DEF Server
  <2>3. StreamError \in Known
    BY DEF Known, Frame, StreamError
  <2>4. wire' \in Seq(Known)
    BY <1>1, <2>1, <2>3, AppendProperties
  <2>. QED
    BY <1>1, <2>1, <2>2, <2>4, TypesKept
<1>. QED
  BY <1>2, <1>3, <1>4, <1>5 DEF ServerStep

\* The steps of a refresh are the slice's own.
LEMMA SliceStepTyped ==
    ASSUME NEW s \in Slice
    PROVE  Refreshed(s) \in Slice /\ Failed(s) \in Slice /\ Answered(s) \in Slice
BY DEF Slice, Refreshed, Failed, Answered

LEMMA SlicesFailTyped ==
    ASSUME slice \in [Topic -> Slice], FailRequests
    PROVE  /\ slice' \in [Topic -> Slice]
           /\ \A t \in Topic :
                 slice'[t] = IF Pending(slice[t]) THEN Failed(slice[t]) ELSE slice[t]
<1>1. /\ slice' = [t \in Topic |-> IF Pending(slice[t]) THEN Failed(slice[t]) ELSE slice[t]]
      /\ \A t \in Topic : slice[t] \in Slice
  BY DEF FailRequests
<1>2. \A t \in Topic : Failed(slice[t]) \in Slice
  BY <1>1, SliceStepTyped
<1>3. slice' \in [Topic -> Slice]
  BY <1>1, <1>2
<1>4. \A t \in Topic : slice'[t] = IF Pending(slice[t]) THEN Failed(slice[t]) ELSE slice[t]
  BY <1>1
<1>. QED
  BY <1>3, <1>4, Zenon

LEMMA RefreshKeepsTypes ==
    ASSUME TypeInv, NEW t \in Topic, RefreshStep(t) \/ QueryFails(t)
    PROVE  /\ TypeInv' /\ UNCHANGED <<log, server, wire, reg, told, passed>>
           /\ slice' = [slice EXCEPT ![t] = slice'[t]]
           /\ \/ slice[t].step = "deferred" /\ slice'[t] = [slice[t] EXCEPT !.step = "asked"]
              \/ /\ slice[t].step = "asked"
                 /\ slice'[t] = [slice[t] EXCEPT !.step = "answered", !.read = Len(log)]
              \/ slice[t].step = "answered" /\ slice'[t] = Answered(slice[t])
              \/ Pending(slice[t]) /\ slice'[t] = Failed(slice[t])
<1>1. /\ LogTyped /\ server \in Server /\ wire \in Seq(Known) /\ reg \in Registration
      /\ slice \in [Topic -> Slice] /\ told \in [Topic -> Nat] /\ passed \subseteq Own
      /\ server.step = "tail" => server.cursor \in Nat
      /\ Len(log) \in Nat
  BY OwnTyped DEF TypeInv
<1>2. UNCHANGED <<log, server, wire, reg, told, passed>>
  BY DEF RefreshStep, Ask, ServeQuery, AcceptReply, QueryFails
<1>3. \/ /\ slice[t].step = "deferred"
         /\ slice' = [slice EXCEPT ![t] = [slice[t] EXCEPT !.step = "asked"]]
      \/ /\ slice[t].step = "asked"
         /\ slice' = [slice EXCEPT ![t] = [slice[t] EXCEPT !.step = "answered", !.read = Len(log)]]
      \/ slice[t].step = "answered" /\ slice' = [slice EXCEPT ![t] = Answered(slice[t])]
      \/ Pending(slice[t]) /\ slice' = [slice EXCEPT ![t] = Failed(slice[t])]
  <2>1. CASE Ask(t)
    BY <1>1, <2>1 DEF Ask
  <2>2. CASE ServeQuery(t)
    BY <1>1, <2>2 DEF ServeQuery
  <2>3. CASE AcceptReply(t)
    BY <2>3 DEF AcceptReply
  <2>4. CASE QueryFails(t)
    BY <2>4 DEF QueryFails
  <2>. QED
    BY <2>1, <2>2, <2>3, <2>4 DEF RefreshStep
<1>4. slice[t] \in Slice
  BY <1>1
<1>5. /\ [slice[t] EXCEPT !.step = "asked"] \in Slice
      /\ [slice[t] EXCEPT !.step = "answered", !.read = Len(log)] \in Slice
      /\ Answered(slice[t]) \in Slice /\ Failed(slice[t]) \in Slice
  BY <1>1, <1>4, SliceStepTyped DEF Slice
<1>6. PICK s \in Slice : /\ slice' = [slice EXCEPT ![t] = s]
                         /\ \/ slice[t].step = "deferred" /\ s = [slice[t] EXCEPT !.step = "asked"]
                            \/ /\ slice[t].step = "asked"
                               /\ s = [slice[t] EXCEPT !.step = "answered", !.read = Len(log)]
                            \/ slice[t].step = "answered" /\ s = Answered(slice[t])
                            \/ Pending(slice[t]) /\ s = Failed(slice[t])
  BY <1>3, <1>5
<1>7. slice' \in [Topic -> Slice] /\ slice'[t] = s
  BY <1>1, <1>6
<1>8. TypeInv'
  BY <1>1, <1>2, <1>7, TypesKept
<1>. QED
  BY <1>2, <1>6, <1>7, <1>8

LEMMA ConnectionKeepsTypes ==
    ASSUME TypeInv, Connect \/ ConnectFails \/ Drop
    PROVE  TypeInv'
<1>1. /\ LogTyped /\ server \in Server /\ wire \in Seq(Known) /\ reg \in Registration
      /\ slice \in [Topic -> Slice] /\ told \in [Topic -> Nat] /\ passed \subseteq Own
      /\ server.step = "tail" => server.cursor \in Nat
  BY DEF TypeInv
<1>2. CASE Connect
  <2>1. /\ server' = [step |-> IF reg.state = "failed" THEN "idle" ELSE "subscribed",
                      cursor |-> reg.resume, until |-> 0]
        /\ UNCHANGED <<log, wire, reg, slice, told, passed>>
    BY <1>2 DEF Connect
  <2>2. reg.resume \in Cursor
    BY <1>1 DEF Registration
  <2>3. server' \in Server /\ server'.step # "tail"
    BY <2>1, <2>2 DEF Server
  <2>. QED
    BY <1>1, <2>1, <2>3, TypesKept
<1>3. CASE ConnectFails
  <2>1. /\ FailRequests /\ UNCHANGED <<log, server, wire, told, passed>>
        /\ \/ reg' = reg
           \/ reg.state = "waiting" /\ reg' = [reg EXCEPT !.state = "failed"]
    BY <1>3 DEF ConnectFails
  <2>2. reg' \in Registration
    BY <1>1, <2>1 DEF Registration
  <2>3. slice' \in [Topic -> Slice]
    BY <1>1, <2>1, SlicesFailTyped
  <2>. QED
    BY <1>1, <2>1, <2>2, <2>3, TypesKept
<1>4. CASE Drop
  <2>1. /\ server' = [step |-> "off", cursor |-> NoCursor, until |-> 0]
        /\ wire' = <<>> /\ FailRequests
        /\ UNCHANGED <<log, reg, told, passed>>
    BY <1>4 DEF Drop
  <2>2. server' \in Server /\ server'.step # "tail" /\ wire' \in Seq(Known)
    BY <2>1 DEF Server, Cursor
  <2>3. slice' \in [Topic -> Slice]
    BY <1>1, <2>1, SlicesFailTyped
  <2>. QED
    BY <1>1, <2>1, <2>2, <2>3, TypesKept
<1>. QED
  BY <1>2, <1>3, <1>4

\* Who is told of an input refreshes its slice.
LEMMA ToldStep ==
    ASSUME LogTyped, reg \in Registration, slice \in [Topic -> Slice], told \in [Topic -> Nat],
           NEW S \in SUBSET Own, RefreshTold(S)
    PROVE  /\ slice' \in [Topic -> Slice] /\ told' \in [Topic -> Nat]
           /\ \A t \in Topic :
                 /\ told[t] <= told'[t]
                 /\ \/ told'[t] = told[t] /\ slice'[t] = slice[t]
                    \/ told'[t] \in Own \cup {told[t]} /\ slice'[t] = Refreshed(slice[t])
           /\ \A n \in S : n > reg.delivered => n <= told'[log[n]]
<1>1. /\ slice' = [t \in Topic |-> IF \E n \in Fresh(S) : log[n] = t
                                   THEN Refreshed(slice[t]) ELSE slice[t]]
      /\ told' = [t \in Topic |-> Max({n \in Fresh(S) : log[n] = t} \cup {told[t]})]
  BY DEF RefreshTold
<1>2. \A t \in Topic : slice[t] \in Slice /\ Refreshed(slice[t]) \in Slice
  BY SliceStepTyped
<1> DEFINE about(t) == {n \in Fresh(S) : log[n] = t}
<1>3. \A t \in Topic : about(t) \in SUBSET Own /\ told[t] \in Nat
  BY DEF Fresh
<1>4. ASSUME NEW t \in Topic
      PROVE  /\ told'[t] = Max(about(t) \cup {told[t]})
             /\ told'[t] \in Nat /\ told[t] <= told'[t] /\ told'[t] \in about(t) \cup {told[t]}
             /\ \A n \in about(t) : n <= told'[t]
             /\ about(t) = {} => told'[t] = told[t]
  <2>1. told'[t] = Max(about(t) \cup {told[t]})
    BY <1>1
  <2>2. about(t) \in SUBSET Own /\ told[t] \in Nat
    BY <1>3
  <2>3. PICK T \in SUBSET Own : T = about(t)
    BY <2>2
  <2>4. PICK m \in Nat : m = told[t]
    BY <2>2
  <2>5. /\ Max(T \cup {m}) \in Nat /\ m <= Max(T \cup {m}) /\ Max(T \cup {m}) \in T \cup {m}
        /\ \A n \in T : n <= Max(T \cup {m})
        /\ T = {} => Max(T \cup {m}) = m
    BY MaxKnown
  <2> HIDE DEF about
  <2>. QED
    BY <2>1, <2>3, <2>4, <2>5
<1>5. told' \in [Topic -> Nat]
  <2>1. \A t \in Topic : Max(about(t) \cup {told[t]}) \in Nat
    BY <1>4
  <2>. QED
    BY <1>1, <2>1
<1>6. \A t \in Topic : slice'[t] = IF about(t) # {} THEN Refreshed(slice[t]) ELSE slice[t]
  BY <1>1
<1>7. slice' \in [Topic -> Slice]
  BY <1>1, <1>2
<1>8. ASSUME NEW t \in Topic
      PROVE  \/ told'[t] = told[t] /\ slice'[t] = slice[t]
             \/ told'[t] \in Own \cup {told[t]} /\ slice'[t] = Refreshed(slice[t])
  <2>1. about(t) \subseteq Own
    BY <1>3
  <2> HIDE DEF about
  <2>. QED
    BY <1>4, <1>6, <2>1
<1>9. ASSUME NEW n \in S, n > reg.delivered
      PROVE  n <= told'[log[n]]
  <2>1. n \in Fresh(S) /\ log[n] \in Topic
    BY <1>9, OwnTyped DEF Fresh
  <2>2. n \in about(log[n])
    BY <2>1
  <2> HIDE DEF about
  <2>. QED
    BY <1>4, <2>1, <2>2
<1>10. \A t \in Topic : told[t] <= told'[t]
  BY <1>4
<1>. QED
  BY <1>5, <1>7, <1>8, <1>9, <1>10

LEMMA PassedByKnown ==
    ASSUME NEW f
    PROVE  PassedBy(f) \subseteq Own
BY DEF PassedBy, Between

LEMMA HydrateMoves ==
    ASSUME TypeInv, RegHolds, Hydrate
    PROVE  LET f == Head(wire)
           IN  /\ TypeInv'
               /\ wire # <<>> /\ f.op = "ready" /\ reg.state = "waiting" /\ wire' = Tail(wire)
               /\ reg'.state = "live" /\ reg'.resume = f.cursor /\ reg'.delivered = reg.delivered
               /\ told' = [t \in Topic |-> f.shows]
               /\ \A t \in Topic : /\ slice'[t].step = slice[t].step /\ slice'[t].shows = f.shows
                                   /\ slice'[t].again = slice[t].again /\ slice'[t].read = slice[t].read
               /\ UNCHANGED <<log, server, passed>>
<1>1. /\ LogTyped /\ server \in Server /\ wire \in Seq(Known) /\ reg \in Registration
      /\ slice \in [Topic -> Slice] /\ told \in [Topic -> Nat] /\ passed \subseteq Own
      /\ server.step = "tail" => server.cursor \in Nat
  BY DEF TypeInv
<1>2. /\ wire # <<>> /\ Head(wire).op = "ready" /\ reg.state = "waiting" /\ wire' = Tail(wire)
      /\ reg' = [reg EXCEPT !.state = "live", !.resume = Resumed({Head(wire).cursor})]
      /\ slice' = [t \in Topic |-> [slice[t] EXCEPT !.shows = Head(wire).shows, !.status = "ready"]]
      /\ told' = [t \in Topic |-> Head(wire).shows]
      /\ UNCHANGED <<log, server, passed>>
  BY DEF Hydrate
<1>3. Head(wire).cursor \in Nat /\ Head(wire).shows \in Nat /\ Tail(wire) \in Seq(Known)
  BY <1>2, HeadTyped
<1>4. Resumed({Head(wire).cursor}) = Head(wire).cursor
  <2>1. reg.resume = NoCursor
    BY <1>2 DEF RegHolds
  <2>2. Resumed({Head(wire).cursor} \cup {}) \in {Head(wire).cursor} \cup {} \cup {reg.resume}
    BY <1>1, <1>3, ResumedTyped
  <2>3. Resumed({Head(wire).cursor} \cup {}) \in Nat
    BY <1>1, <1>3, ResumedTyped
  <2>4. {Head(wire).cursor} \cup {} = {Head(wire).cursor}
    OBVIOUS
  <2>. QED
    BY <2>1, <2>2, <2>3, <2>4, SubscriptionsAssumption
<1>5. /\ reg' \in Registration /\ reg'.state = "live" /\ reg'.resume = Head(wire).cursor
      /\ reg'.delivered = reg.delivered
  BY <1>1, <1>2, <1>3, <1>4, SubscriptionsAssumption DEF Registration, Cursor
<1>6. slice' \in [Topic -> Slice]
  BY <1>1, <1>2, <1>3 DEF Slice
<1>7. \A t \in Topic : /\ slice'[t].step = slice[t].step /\ slice'[t].shows = Head(wire).shows
                       /\ slice'[t].again = slice[t].again /\ slice'[t].read = slice[t].read
  BY <1>1, <1>2 DEF Slice
<1>8. told' \in [Topic -> Nat]
  BY <1>2, <1>3
<1>9. TypeInv'
  BY <1>1, <1>2, <1>3, <1>5, <1>6, <1>8, TypesKept
<1>. QED
  BY <1>2, <1>5, <1>7, <1>9

LEMMA ReadyMoves ==
    ASSUME TypeInv, AcceptReady
    PROVE  LET f == Head(wire)
           IN  /\ TypeInv'
               /\ wire # <<>> /\ f.op = "ready" /\ reg.state = "live" /\ wire' = Tail(wire)
               /\ reg'.state = "live" /\ reg'.resume = Resumed({f.cursor} \cup f.replay)
               /\ reg'.delivered = Max(f.replay \cup {reg.delivered})
               /\ RefreshTold(f.replay) /\ passed' = passed \cup PassedBy(f)
               /\ UNCHANGED <<log, server>>
<1>1. /\ LogTyped /\ server \in Server /\ wire \in Seq(Known) /\ reg \in Registration
      /\ slice \in [Topic -> Slice] /\ told \in [Topic -> Nat] /\ passed \subseteq Own
      /\ server.step = "tail" => server.cursor \in Nat
  BY DEF TypeInv
<1>2. /\ wire # <<>> /\ Head(wire).op = "ready" /\ reg.state = "live" /\ wire' = Tail(wire)
      /\ reg' = [reg EXCEPT !.resume = Resumed({Head(wire).cursor} \cup Head(wire).replay),
                            !.delivered = Max(Head(wire).replay \cup {reg.delivered})]
      /\ RefreshTold(Head(wire).replay)
      /\ passed' = passed \cup PassedBy(Head(wire))
      /\ UNCHANGED <<log, server>>
  BY DEF AcceptReady
<1>3. Head(wire).cursor \in Nat /\ Head(wire).replay \subseteq Own /\ Tail(wire) \in Seq(Known)
  BY <1>2, HeadTyped
<1>4. /\ Resumed({Head(wire).cursor} \cup Head(wire).replay) \in Nat
      /\ Max(Head(wire).replay \cup {reg.delivered}) \in Nat
  BY <1>1, <1>3, ResumedTyped, MaxKnown DEF Registration
<1>5. /\ reg' \in Registration /\ reg'.state = "live"
      /\ reg'.resume = Resumed({Head(wire).cursor} \cup Head(wire).replay)
      /\ reg'.delivered = Max(Head(wire).replay \cup {reg.delivered})
  BY <1>1, <1>2, <1>4, SubscriptionsAssumption DEF Registration, Cursor
<1>6. slice' \in [Topic -> Slice] /\ told' \in [Topic -> Nat]
  BY <1>1, <1>2, <1>3, ToldStep
<1>7. passed' \subseteq Own
  BY <1>1, <1>2, PassedByKnown
<1>8. TypeInv'
  BY <1>1, <1>2, <1>3, <1>5, <1>6, <1>7, TypesKept
<1>. QED
  BY <1>2, <1>5, <1>8

LEMMA EventMoves ==
    ASSUME TypeInv, AcceptEvent
    PROVE  LET f == Head(wire)
               next == Min(f.cursors)
           IN  /\ TypeInv'
               /\ wire # <<>> /\ f.op = "events"
               /\ next \in f.cursors /\ next \in Own /\ \A n \in f.cursors : next <= n
               /\ \/ f.cursors = {next} /\ wire' = Tail(wire)
                  \/ /\ f.cursors # {next}
                     /\ wire' = [wire EXCEPT ![1] = [op |-> "events", cursors |-> f.cursors \ {next}]]
               /\ reg'.state = reg.state /\ reg'.resume = Resumed({next} \cup {})
               /\ reg'.delivered = Max({next} \cup {reg.delivered})
               /\ RefreshTold({next})
               /\ UNCHANGED <<log, server, passed>>
<1>1. /\ LogTyped /\ server \in Server /\ wire \in Seq(Known) /\ reg \in Registration
      /\ slice \in [Topic -> Slice] /\ told \in [Topic -> Nat] /\ passed \subseteq Own
      /\ server.step = "tail" => server.cursor \in Nat
      /\ reg.delivered \in Nat
  BY DEF TypeInv, Registration
<1> DEFINE f == Head(wire)
           next == Min(f.cursors)
<1>2. /\ wire # <<>> /\ f.op = "events"
      /\ reg' = [reg EXCEPT !.resume = Resumed({next}), !.delivered = Max({next, reg.delivered})]
      /\ RefreshTold({next})
      /\ wire' = IF f.cursors = {next} THEN Tail(wire)
                 ELSE [wire EXCEPT ![1].cursors = @ \ {next}]
      /\ UNCHANGED <<log, server, passed>>
  BY DEF AcceptEvent
<1>3. /\ f \in Known /\ f \in Frame /\ f = wire[1] /\ Tail(wire) \in Seq(Known)
      /\ f.cursors \subseteq Own /\ f.cursors # {} /\ Cardinality(f.cursors) <= ReplayLimit
  BY <1>1, <1>2, HeadTyped DEF Known
<1>4. Own \subseteq Nat /\ IsFiniteSet(Own) /\ ReplayLimit \in Nat
  BY <1>1, OwnTyped, SubscriptionsAssumption
<1>5. next \in f.cursors /\ \A n \in f.cursors : next <= n
  <2>1. f.cursors \in SUBSET Nat
    BY <1>3, <1>4
  <2> HIDE DEF f
  <2>. QED
    BY <1>3, <2>1, MinOfNat
<1> HIDE DEF next
<1>6. next \in Own /\ next \in Nat
  BY <1>3, <1>4, <1>5
<1>7. {next} \cup {} = {next} /\ {next, reg.delivered} = {next} \cup {reg.delivered}
  OBVIOUS
<1>8. Resumed({next} \cup {}) \in Nat /\ Max({next} \cup {reg.delivered}) \in Nat
  <2>1. {next} \in SUBSET Own
    BY <1>6
  <2>. QED
    BY <1>1, <1>6, <2>1, ResumedTyped, MaxKnown
<1>9. /\ reg' \in Registration /\ reg'.state = reg.state
      /\ reg'.resume = Resumed({next} \cup {}) /\ reg'.delivered = Max({next} \cup {reg.delivered})
  BY <1>1, <1>2, <1>7, <1>8 DEF Registration, Cursor
<1>11. slice' \in [Topic -> Slice] /\ told' \in [Topic -> Nat]
  <2>1. {next} \in SUBSET Own
    BY <1>6
  <2>. QED
    BY <1>1, <1>2, <2>1, ToldStep
<1>12. /\ wire' \in Seq(Known)
       /\ \/ f.cursors = {next} /\ wire' = Tail(wire)
          \/ /\ f.cursors # {next}
             /\ wire' = [wire EXCEPT ![1] = [op |-> "events", cursors |-> f.cursors \ {next}]]
  <2>1. CASE f.cursors = {next}
    BY <1>2, <1>3, <2>1
  <2>2. CASE f.cursors # {next}
    <3> DEFINE g == [op |-> "events", cursors |-> f.cursors \ {next}]
    <3>1. f \in Events
      BY <1>2, <1>3, FrameKinds
    <3>2. [f EXCEPT !.cursors = f.cursors \ {next}] = g
      <4>1. f \in [op : {"events"}, cursors : SUBSET Nat]
        BY <3>1 DEF Events
      <4> HIDE DEF f
      <4>. QED
        BY <4>1
    <3>3. 1 \in DOMAIN wire
      BY <1>1, <1>2
    <3>4. wire' = [wire EXCEPT ![1] = [wire[1] EXCEPT !.cursors = wire[1].cursors \ {next}]]
      BY <1>2, <2>2
    <3>5. wire' = [wire EXCEPT ![1] = g]
      BY <1>3, <3>2, <3>4
    <3>6. f.cursors \ {next} \subseteq Own /\ f.cursors \ {next} # {}
      BY <1>3, <1>5, <2>2
    <3>7. Cardinality(f.cursors \ {next}) <= ReplayLimit
      <4>1. /\ Cardinality(f.cursors \ {next}) <= Cardinality(f.cursors)
            /\ Cardinality(f.cursors \ {next}) \in Nat /\ Cardinality(f.cursors) \in Nat
        BY <1>3, <1>4, FS_Subset, FS_CardinalityType
      <4>. QED
        BY <1>3, <1>4, <4>1
    <3>8. g \in Frame
      BY <1>4, <3>6 DEF Frame, Events
    <3>9. g \in Known
      BY <3>6, <3>7, <3>8 DEF Known
    <3>10. wire' \in Seq(Known)
      <4> HIDE DEF g
      <4>. QED
        BY <1>1, <3>3, <3>5, <3>9, ExceptSeq
    <3>. QED
      BY <2>2, <3>5, <3>10
  <2>. QED
    BY <2>1, <2>2
<1>13. TypeInv'
  BY <1>1, <1>2, <1>9, <1>11, <1>12, TypesKept
<1>. QED
  BY <1>2, <1>5, <1>6, <1>9, <1>12, <1>13 DEF next

LEMMA ErrorMoves ==
    ASSUME TypeInv, AcceptError
    PROVE  /\ TypeInv'
           /\ wire # <<>> /\ Head(wire).op = "error" /\ wire' = Tail(wire)
           /\ reg' = [reg EXCEPT !.state = IF reg.state = "waiting" THEN "failed" ELSE reg.state]
           /\ UNCHANGED <<log, server, slice, told, passed>>
<1>1. /\ wire # <<>> /\ Head(wire).op = "error" /\ wire' = Tail(wire)
      /\ reg' = [reg EXCEPT !.state = IF reg.state = "waiting" THEN "failed" ELSE reg.state]
      /\ UNCHANGED <<log, server, slice, told, passed>>
  BY DEF AcceptError
<1>2. reg' \in Registration
  BY <1>1 DEF TypeInv, Registration
<1>3. wire' \in Seq(Known)
  BY <1>1, HeadTyped
<1>4. TypeInv'
  BY <1>1, <1>2, <1>3, TypesKept DEF TypeInv
<1>. QED
  BY <1>1, <1>4

-----------------------------------------------------------------------------
(***************************************************************************)
(* The chain of frames is kept                                             *)
(***************************************************************************)

LEMMA FollowsKept ==
    ASSUME UNCHANGED log
    PROVE  \A e, f : /\ ReadyFollows(e, f) => ReadyFollows(e, f)'
                     /\ EventsFollow(e, f) => EventsFollow(e, f)'
                     /\ Opening(f) => Opening(f)'
<1>1. /\ Own' = Own /\ Watermark' = Watermark
      /\ \A a, b : Between(a, b)' = Between(a, b)
      /\ \A a, b : Replay(a, b)' = Replay(a, b)
      /\ \A S : Latest(S)' = Latest(S)
  BY LogKept
<1>2. ASSUME NEW e, NEW f, ReadyFollows(e, f)
      PROVE  ReadyFollows(e, f)'
  <2>1. Replay(e, f.cursor)' = Replay(e, f.cursor)
    BY <1>1
  <2>. QED
    BY <1>1, <1>2, <2>1 DEF ReadyFollows
<1>3. ASSUME NEW e, NEW f, EventsFollow(e, f)
      PROVE  EventsFollow(e, f)'
  <2>1. Between(e, Max(f.cursors))' = Between(e, Max(f.cursors))
    BY <1>1
  <2>2. Latest(Between(e, Max(f.cursors)))' = Latest(Between(e, Max(f.cursors)))
    BY <2>1 DEF Latest
  <2>. QED
    BY <1>1, <1>3, <2>1, <2>2 DEF EventsFollow
<1>4. ASSUME NEW f, Opening(f)
      PROVE  Opening(f)'
  BY <1>1, <1>4 DEF Opening
<1>. QED
  BY <1>2, <1>3, <1>4

LEMMA FollowsGrow ==
    ASSUME LogTyped, NEW topic, LogGrows(topic)
    PROVE  \A e, f : /\ ReadyFollows(e, f) => ReadyFollows(e, f)'
                     /\ EventsFollow(e, f) => EventsFollow(e, f)'
                     /\ Opening(f) => Opening(f)'
<1>1. /\ Watermark \in Nat /\ Watermark' \in Nat /\ Watermark <= Watermark'
      /\ Len(log) \in Nat /\ Len(log') = Len(log) + 1 /\ Watermark <= Len(log)
      /\ Own \in SUBSET (1..Len(log)) /\ \A n \in Own : n \in Own'
      /\ \A n \in Own' : n \in Own \/ n = Len(log) + 1
  <2>1. LogTyped'
    BY OwnGrows
  <2>2. Watermark' \in Nat
    <3>1. /\ Own' \in SUBSET (0..Len(log')) /\ Len(log') \in Nat /\ Own' \cup {0} # {}
      BY <2>1 DEF LogTyped, Own
    <3>2. Own' \cup {0} \in SUBSET (0..Len(log'))
      BY <3>1
    <3>3. Max(Own' \cup {0}) \in 0..Len(log')
      BY <3>1, <3>2, MaxOfNat
    <3>. QED
      BY <3>1, <3>3 DEF Watermark
  <2>. QED
    BY <2>2, OwnGrows, WatermarkTyped, OwnTyped
<1>2. ASSUME NEW e, NEW f, ReadyFollows(e, f)
      PROVE  ReadyFollows(e, f)'
  <2>1. /\ e \in Nat /\ f.cursor \in Nat /\ e <= f.cursor /\ f.cursor <= Watermark
        /\ f.op = "ready"
    BY <1>2 DEF ReadyFollows
  <2>2. f.cursor \in 0..Len(log) /\ f.cursor <= Watermark'
    BY <1>1, <2>1
  <2>3. Replay(e, f.cursor)' = Replay(e, f.cursor)
    BY <2>1, <2>2, PastStays
  <2>4. (\A n \in Own : e < n) => \A n \in Own' : e < n
    <3>1. e < Len(log) + 1
      BY <1>1, <2>1
    <3>2. \A n \in Own' : n \in Own \/ n = Len(log) + 1
      BY <1>1
    <3>. QED
      BY <3>1, <3>2
  <2>. QED
    BY <1>2, <2>1, <2>2, <2>3, <2>4 DEF ReadyFollows
<1>3. ASSUME NEW e, NEW f, EventsFollow(e, f)
      PROVE  EventsFollow(e, f)'
  <2>1. e \in Nat /\ Max(f.cursors) \in Own
    BY <1>3 DEF EventsFollow
  <2>2. Max(f.cursors) \in 0..Len(log) /\ Max(f.cursors) \in Own'
    <3>1. PICK m \in Own : m = Max(f.cursors)
      BY <2>1
    <3>2. m \in 1..Len(log) /\ m \in Own'
      BY <1>1
    <3>3. m \in 0..Len(log)
      BY <1>1, <3>2
    <3>. QED
      BY <3>1, <3>2, <3>3
  <2>3. /\ Between(e, Max(f.cursors))' = Between(e, Max(f.cursors))
        /\ Latest(Between(e, Max(f.cursors)))' = Latest(Between(e, Max(f.cursors)))
    BY <2>1, <2>2, PastStays
  <2>. QED
    BY <1>3, <2>2, <2>3 DEF EventsFollow
<1>4. ASSUME NEW f, Opening(f)
      PROVE  Opening(f)'
  BY <1>1, <1>4 DEF Opening
<1>. QED
  BY <1>2, <1>3, <1>4

\* A frame that holds goes on to, at the place it moves to.
LEMMA FrameKept ==
    ASSUME NEW i \in Nat, NEW j \in Nat, FrameHolds(i), wire'[j] = wire[i],
           UNCHANGED log \/ (LogTyped /\ \E topic : LogGrows(topic)),
           wire[i].op = "error" /\ i = Len(wire) /\ server.step = "idle"
              => j = Len(wire)' /\ server'.step = "idle",
           i = 1 /\ reg.state # "live" /\ Opening(wire[i]) => j = 1 /\ reg'.state # "live",
           wire[i].op # "error" /\ (i > 1 \/ reg.state = "live")
              => (j > 1 \/ reg'.state = "live") /\ End(j - 1)' = End(i - 1)
    PROVE  FrameHolds(j)'
<1>1. PICK e, f :
        /\ e = End(i - 1) /\ f = wire[i]
        /\ \/ f.op = "error" /\ i = Len(wire) /\ server.step = "idle"
           \/ i = 1 /\ reg.state # "live" /\ Opening(f)
           \/ /\ i > 1 \/ reg.state = "live"
              /\ ReadyFollows(e, f) \/ EventsFollow(e, f)
  BY DEF FrameHolds
<1>2. /\ ReadyFollows(e, f) => ReadyFollows(e, f)'
      /\ EventsFollow(e, f) => EventsFollow(e, f)'
      /\ Opening(f) => Opening(f)'
  BY FollowsKept, FollowsGrow
<1>3. f = wire'[j]
  BY <1>1
<1>4. PICK d : d = End(j - 1)'
  OBVIOUS
<1>5. CASE f.op = "error" /\ i = Len(wire) /\ server.step = "idle"
  <2>1. j = Len(wire)' /\ server'.step = "idle"
    BY <1>1, <1>5
  <2>. QED
    BY <1>3, <1>4, <1>5, <2>1 DEF FrameHolds
<1>6. CASE i = 1 /\ reg.state # "live" /\ Opening(f)
  <2>1. j = 1 /\ reg'.state # "live"
    BY <1>1, <1>6
  <2>. QED
    BY <1>2, <1>3, <1>4, <1>6, <2>1 DEF FrameHolds
<1>7. CASE (i > 1 \/ reg.state = "live") /\ (ReadyFollows(e, f) \/ EventsFollow(e, f))
  <2>1. f.op # "error"
    BY <1>7 DEF ReadyFollows, EventsFollow
  <2>2. (j > 1 \/ reg'.state = "live") /\ e = End(j - 1)'
    BY <1>1, <1>7, <2>1
  <2>. QED
    BY <1>2, <1>3, <1>7, <2>2 DEF FrameHolds
<1>. QED
  BY <1>1, <1>5, <1>6, <1>7

LEMMA WireAtStart ==
    ASSUME SubscriptionsInit
    PROVE  WireInv
<1>1. /\ wire = <<>>
      /\ server = [step |-> "off", cursor |-> NoCursor, until |-> 0]
      /\ reg = [state |-> "waiting", resume |-> NoCursor, delivered |-> 0]
  BY DEF SubscriptionsInit
<1>2. ServerHolds
  BY <1>1 DEF ServerHolds
<1>3. RegHolds
  BY <1>1 DEF RegHolds
<1>4. ChainHolds
  BY <1>1 DEF ChainHolds
<1>. QED
  BY <1>2, <1>3, <1>4 DEF WireInv

LEMMA AppendKeepsWire ==
    ASSUME TypeInv, WireInv, AppendInput
    PROVE  WireInv'
<1>1. PICK topic : LogGrows(topic)
  BY AppendKeepsTypes
<1>2. UNCHANGED <<server, wire, reg>>
  BY DEF AppendInput
<1>3. BaseTypes /\ LogTyped
  BY TypesGiveBase DEF TypeInv
<1>4. Watermark \in Nat /\ Watermark' \in Nat /\ Watermark <= Watermark'
  <2>1. TypeInv' /\ LogTyped'
    BY AppendKeepsTypes DEF TypeInv
  <2>2. Own' \cup {0} \in SUBSET (0..Len(log')) /\ Len(log') \in Nat /\ Own' \cup {0} # {}
    BY <2>1 DEF LogTyped, Own
  <2>3. Max(Own' \cup {0}) \in 0..Len(log')
    BY <2>2, MaxOfNat
  <2>4. Watermark' \in Nat
    BY <2>2, <2>3 DEF Watermark
  <2>. QED
    BY <1>1, <1>3, <2>4, OwnGrows, WatermarkTyped
<1>5. \A i : End(i)' = End(i)
  BY <1>2 DEF End
<1>6. ChainHolds'
  <2>1. SUFFICES ASSUME NEW i \in DOMAIN wire
                 PROVE  FrameHolds(i)'
    BY <1>2 DEF ChainHolds
  <2>2. FrameHolds(i) /\ i \in Nat
    BY <1>3, BaseFacts DEF WireInv, ChainHolds
  <2>3. End(i - 1)' = End(i - 1)
    BY <1>5
  <2>. QED
    BY <1>1, <1>2, <1>3, <2>2, <2>3, FrameKept
<1>7. ServerHolds'
  <2>1. End(Len(wire))' = End(Len(wire))
    BY <1>2 DEF End
  <2>2. server.until \in Nat
    BY <1>3, BaseFacts
  <2>. QED
    BY <1>2, <1>4, <2>1, <2>2 DEF WireInv, ServerHolds
<1>8. RegHolds'
  <2>1. reg.state = "live" => reg.resume \in Nat
    BY <1>3, BaseFacts DEF WireInv, RegHolds, Cursor
  <2>. QED
    BY <1>2, <1>4, <2>1 DEF WireInv, RegHolds
<1>. QED
  BY <1>6, <1>7, <1>8 DEF WireInv

\* Nothing on the connection moves.
LEMMA WireQuiet ==
    ASSUME TypeInv, WireInv, UNCHANGED <<log, server, wire, reg>>
    PROVE  WireInv'
<1>1. BaseTypes
  BY TypesGiveBase
<1>2. \A i : End(i)' = End(i)
  BY DEF End
<1>3. ChainHolds'
  <2>1. SUFFICES ASSUME NEW i \in DOMAIN wire
                 PROVE  FrameHolds(i)'
    BY DEF ChainHolds
  <2>2. FrameHolds(i) /\ i \in Nat
    BY <1>1, BaseFacts DEF WireInv, ChainHolds
  <2>3. End(i - 1)' = End(i - 1)
    BY <1>2
  <2>. QED
    BY <2>2, <2>3, FrameKept
<1>4. Watermark' = Watermark
  BY LogKept
<1>5. ServerHolds'
  <2>1. End(Len(wire))' = End(Len(wire))
    BY DEF End
  <2>. QED
    BY <1>4, <2>1 DEF WireInv, ServerHolds
<1>6. RegHolds'
  BY <1>4 DEF WireInv, RegHolds
<1>. QED
  BY <1>3, <1>5, <1>6 DEF WireInv

\* A frame is sent that goes on where the subscription stands.
LEMMA FrameSent ==
    ASSUME TypeInv, WireInv, server.step \in {"ready", "tail"}, NEW f \in Known,
           wire' = Append(wire, f), UNCHANGED <<log, reg>>,
           \/ f.op = "error" /\ server'.step = "idle"
           \/ server.cursor = NoCursor /\ Opening(f)
           \/ server.cursor \in Nat /\ (ReadyFollows(server.cursor, f) \/ EventsFollow(server.cursor, f))
    PROVE  /\ ChainHolds' /\ RegHolds'
           /\ Len(wire') = Len(wire) + 1 /\ End(Len(wire))' = FrameEnd(f)
<1>1. /\ BaseTypes /\ wire \in Seq(Known) /\ Len(wire) \in Nat /\ DOMAIN wire = 1..Len(wire)
      /\ NoCursor \notin Nat
  BY TypesGiveBase, BaseFacts DEF TypeInv
<1>2. /\ Len(wire') = Len(wire) + 1 /\ wire'[Len(wire) + 1] = f
      /\ \A i \in 1..Len(wire) : wire'[i] = wire[i]
      /\ DOMAIN wire' = 1..(Len(wire) + 1)
  BY <1>1, AppendProperties
<1>3. ASSUME NEW i \in 0..Len(wire)
      PROVE  End(i)' = End(i)
  BY <1>1, <1>2 DEF End
<1>4. server.cursor = End(Len(wire))
  BY DEF WireInv, ServerHolds
<1>5. \/ server.cursor = NoCursor /\ wire = <<>> /\ reg.state # "live"
      \/ server.cursor \in Nat /\ (Len(wire) > 0 \/ reg.state = "live")
  BY <1>1, ServerCursorKnown
<1>6. ASSUME NEW i \in 1..Len(wire)
      PROVE  FrameHolds(i)'
  <2>1. FrameHolds(i) /\ wire[i].op # "error" /\ wire'[i] = wire[i] /\ i \in Nat
    BY <1>1, <1>2, RunningHasNoError DEF WireInv, ChainHolds
  <2>2. i - 1 \in 0..Len(wire)
    BY <1>1
  <2>3. End(i - 1)' = End(i - 1)
    BY <1>3, <2>2
  <2>. QED
    BY <2>1, <2>3, FrameKept
<1>7. \E n : n = Len(wire) + 1 /\ FrameHolds(n)'
  <2>0. PICK k \in 0..Len(wire) : k = Len(wire)
    <3>1. Len(wire) \in 0..Len(wire)
      BY <1>1
    <3>. QED
      BY <3>1, Zenon
  <2>e. PICK e : e = server.cursor
    OBVIOUS
  <2>n. PICK n \in Nat : n = k + 1
    OBVIOUS
  <2>1. /\ e = server.cursor /\ k = Len(wire) /\ k \in 0..Len(wire)
        /\ n = k + 1 /\ n \in Nat /\ n - 1 = k
    BY <1>1, <2>0, <2>e, <2>n
  <2>2. End(k)' = e
    BY <1>3, <1>4, <2>1
  <2>3. /\ wire'[n] = f /\ n = Len(wire)' /\ reg'.state = reg.state
    BY <1>2, <2>1
  <2>4. End(n - 1)' = e
    BY <2>1, <2>2
  <2>5. FrameHolds(n)'
    <3>1. CASE f.op = "error" /\ server'.step = "idle"
      BY <2>3, <2>4, <3>1 DEF FrameHolds
    <3>2. CASE server.cursor = NoCursor /\ Opening(f)
      <4>1. n = 1 /\ reg'.state # "live"
        BY <1>1, <1>5, <2>1, <3>2
      <4>2. Opening(f)'
        BY <3>2, FollowsKept
      <4>. QED
        BY <2>3, <2>4, <4>1, <4>2 DEF FrameHolds
    <3>3. CASE server.cursor \in Nat /\ (ReadyFollows(server.cursor, f) \/ EventsFollow(server.cursor, f))
      <4>1. n > 1 \/ reg'.state = "live"
        BY <1>1, <1>5, <2>1, <3>3
      <4>2. ReadyFollows(e, f)' \/ EventsFollow(e, f)'
        BY <2>1, <3>3, FollowsKept
      <4>. QED
        BY <2>3, <2>4, <4>1, <4>2 DEF FrameHolds
    <3>. QED
      BY <3>1, <3>2, <3>3
  <2>. QED
    BY <2>1, <2>5
<1>8. ChainHolds'
  <2>1. ASSUME NEW i \in 1..(Len(wire) + 1)
        PROVE  FrameHolds(i)'
    <3>1. i \in 1..Len(wire) \/ i = Len(wire) + 1
      BY <1>1
    <3>. QED
      BY <1>6, <1>7, <3>1
  <2>. QED
    BY <1>2, <2>1 DEF ChainHolds
<1>9. RegHolds'
  <2>1. Watermark' = Watermark /\ reg.state # "failed"
    BY LogKept DEF WireInv, RegHolds
  <2>. QED
    BY <2>1 DEF WireInv, RegHolds
<1>10. End(Len(wire))' = FrameEnd(f)
  BY <1>1, <1>2 DEF End
<1>. QED
  BY <1>2, <1>8, <1>9, <1>10

\* The ready frame goes on where the client asked to go on.
LEMMA ReadyFrameFollows ==
    ASSUME TypeInv, WireInv, server.step = "ready"
    PROVE  \/ server.cursor = NoCursor /\ Opening(ReadyFrame)
           \/ server.cursor \in Nat /\ ReadyFollows(server.cursor, ReadyFrame)
<1>1. /\ BaseTypes /\ LogTyped /\ server.until \in Nat /\ Watermark \in Nat /\ Len(log) \in Nat
      /\ Watermark <= Len(log) /\ NoCursor \notin Nat
  BY TypesGiveBase, BaseFacts
<1>2. server.until <= Watermark /\ (server.cursor # NoCursor => server.cursor <= server.until)
  BY DEF WireInv, ServerHolds
<1>3. \/ server.cursor = NoCursor
      \/ server.cursor \in Nat /\ server.cursor <= Watermark
  BY <1>1, ServerCursorKnown
<1>4. CASE server.cursor = NoCursor
  <2>1. ReadyFrame = [op |-> "ready", cursor |-> server.until, replay |-> {},
                      shows |-> Len(log), mode |-> "cold"]
    BY <1>4 DEF ReadyFrame
  <2>2. server.until <= Len(log)
    BY <1>1, <1>2
  <2>. QED
    BY <1>1, <1>2, <1>4, <2>1, <2>2 DEF Opening
<1>5. CASE server.cursor # NoCursor /\ Retained(server.cursor)
  <2>1. ReadyFrame = [op |-> "ready", mode |-> "resume", cursor |-> server.until,
                      replay |-> Replay(server.cursor, server.until), shows |-> 0]
    BY <1>5 DEF ReadyFrame
  <2>. QED
    BY <1>1, <1>2, <1>3, <1>5, <2>1 DEF ReadyFollows
<1>6. CASE server.cursor # NoCursor /\ ~Retained(server.cursor)
  <2>1. ReadyFrame = [op |-> "ready", cursor |-> server.until, replay |-> {},
                      shows |-> Len(log), mode |-> "snapshot_fallback"]
    BY <1>6 DEF ReadyFrame
  <2>2. \A n \in Own : server.cursor < n
    <3>1. CASE Own = {}
      BY <3>1
    <3>2. CASE Own # {}
      <4>1. ~ (server.cursor >= Min(Own) - 1)
        BY <1>3, <1>6, <3>2 DEF Retained
      <4>2. Min(Own) \in Own /\ \A n \in Own : Min(Own) <= n
        BY <1>1, <3>2, OwnTyped, MinOfNat
      <4>3. PICK m \in Nat : m = Min(Own)
        BY <1>1, <4>2, OwnTyped
      <4>4. Own \subseteq Nat
        BY <1>1, OwnTyped
      <4>5. server.cursor \in Nat
        BY <1>3, <1>6
      <4>6. server.cursor < m
        BY <4>1, <4>3, <4>5
      <4>. QED
        BY <4>2, <4>3, <4>4, <4>5, <4>6
    <3>. QED
      BY <3>1, <3>2
  <2>. QED
    BY <1>1, <1>2, <1>3, <1>6, <2>1, <2>2 DEF ReadyFollows
<1>. QED
  BY <1>4, <1>5, <1>6

LEMMA ServerKeepsWire ==
    ASSUME TypeInv, WireInv, ServerStep \/ StreamFails
    PROVE  WireInv'
<1>1. /\ BaseTypes /\ LogTyped /\ server \in Server /\ server.until \in Nat
      /\ Watermark \in Nat /\ Len(log) \in Nat /\ NoCursor \notin Nat
  BY TypesGiveBase, BaseFacts DEF TypeInv
<1>2. CASE ReadWatermark \/ TailGap
  <2>1. /\ server.step \in {"subscribed", "tail"}
        /\ server' = [server EXCEPT !.step = "ready", !.until = Watermark]
        /\ UNCHANGED <<log, wire, reg>>
    BY <1>2 DEF ReadWatermark, TailGap
  <2>2. server'.step = "ready" /\ server'.until = Watermark /\ server'.cursor = server.cursor
    BY <1>1, <2>1 DEF Server
  <2>3. ChainHolds'
    <3>1. SUFFICES ASSUME NEW i \in DOMAIN wire
                   PROVE  FrameHolds(i)'
      BY <2>1 DEF ChainHolds
    <3>2. FrameHolds(i) /\ i \in Nat /\ wire[i].op # "error"
      BY <1>1, <2>1, BaseFacts, RunningHasNoError DEF WireInv, ChainHolds
    <3>3. End(i - 1)' = End(i - 1)
      BY <2>1 DEF End
    <3>. QED
      BY <2>1, <3>2, <3>3, FrameKept
  <2>4. Watermark' = Watermark
    BY <2>1, LogKept
  <2>5. server.cursor = NoCursor \/ (server.cursor \in Nat /\ server.cursor <= Watermark)
    BY <1>1, <2>1, ServerCursorKnown
  <2>6. ServerHolds'
    <3>1. End(Len(wire))' = End(Len(wire)) /\ server.cursor = End(Len(wire))
      BY <2>1 DEF End, WireInv, ServerHolds
    <3>2. server'.until <= Watermark'
      BY <1>1, <2>2, <2>4
    <3>. QED
      BY <2>2, <2>4, <2>5, <3>1, <3>2 DEF ServerHolds
  <2>7. RegHolds'
    BY <2>1, <2>4 DEF WireInv, RegHolds
  <2>. QED
    BY <2>3, <2>6, <2>7 DEF WireInv
<1>3. CASE SendReady
  <2>1. /\ server.step = "ready"
        /\ server' = [server EXCEPT !.step = "tail", !.cursor = ReadyFrame.cursor]
        /\ wire' = Append(wire, ReadyFrame)
        /\ UNCHANGED <<log, reg>>
    BY <1>3 DEF SendReady
  <2>2. PICK f \in Known : f = ReadyFrame /\ f.op = "ready" /\ f.cursor = server.until
    BY ReadyFrameTyped
  <2>3. \/ server.cursor = NoCursor /\ Opening(f)
        \/ server.cursor \in Nat /\ ReadyFollows(server.cursor, f)
    BY <2>1, <2>2, ReadyFrameFollows
  <2>4. server'.step = "tail" /\ server'.cursor = f.cursor
    BY <1>1, <2>1, <2>2 DEF Server
  <2>5. wire' = Append(wire, f)
    BY <2>1, <2>2
  <2>6. ChainHolds' /\ RegHolds' /\ Len(wire') = Len(wire) + 1 /\ End(Len(wire))' = FrameEnd(f)
    BY <2>1, <2>3, <2>5, FrameSent
  <2>7. FrameEnd(f) = f.cursor /\ f.cursor \in Nat
    BY <1>1, <2>2 DEF FrameEnd
  <2>8. ServerHolds'
    BY <1>1, <2>4, <2>6, <2>7 DEF ServerHolds
  <2>. QED
    BY <2>6, <2>8 DEF WireInv
<1>4. CASE SendEvents
  <2>1. /\ server.step = "tail" /\ TailInputs # {}
        /\ server' = [server EXCEPT !.cursor = Max(TailInputs)]
        /\ wire' = Append(wire, [op |-> "events", cursors |-> Latest(TailInputs)])
        /\ UNCHANGED <<log, reg>>
    BY <1>4 DEF SendEvents
  <2>2. server.cursor \in Nat /\ TailInputs = Replay(server.cursor, Len(log))
    BY <2>1 DEF TailInputs, TypeInv
  <2>3. PICK c \in Nat : c = server.cursor
    BY <2>2
  <2>4. PICK m : m = Max(TailInputs)
    OBVIOUS
  <2>5. PICK f : f = [op |-> "events", cursors |-> Latest(TailInputs)]
    OBVIOUS
  <2>6. /\ m \in Own /\ m \in Nat /\ c < m
        /\ Cardinality(Between(c, m)) <= ReplayLimit
        /\ f.cursors = Latest(Between(c, m)) /\ Max(f.cursors) = m
        /\ f \in Known /\ f.op = "events"
    BY <1>1, <2>1, <2>2, <2>3, <2>4, <2>5, EventsTyped
  <2>7. EventsFollow(server.cursor, f)
    BY <2>3, <2>6 DEF EventsFollow
  <2>8. server'.step = "tail" /\ server'.cursor = m
    BY <1>1, <2>1, <2>4 DEF Server
  <2>9. wire' = Append(wire, f)
    BY <2>1, <2>5
  <2>10. ChainHolds' /\ RegHolds' /\ Len(wire') = Len(wire) + 1 /\ End(Len(wire))' = FrameEnd(f)
    BY <2>1, <2>2, <2>6, <2>7, <2>9, FrameSent
  <2>11. FrameEnd(f) = m
    BY <2>6 DEF FrameEnd
  <2>12. ServerHolds'
    BY <1>1, <2>6, <2>8, <2>10, <2>11 DEF ServerHolds
  <2>. QED
    BY <2>10, <2>12 DEF WireInv
<1>5. CASE StreamFails
  <2>1. /\ server.step \in {"subscribed", "ready", "tail"}
        /\ server' = [server EXCEPT !.step = "idle"]
        /\ wire' = Append(wire, StreamError)
        /\ UNCHANGED <<log, reg>>
    BY <1>5 DEF StreamFails
  <2>2. PICK f \in Known : f = StreamError /\ f.op = "error"
    <3>1. StreamError \in Known /\ StreamError.op = "error"
      BY DEF Known, Frame, StreamError
    <3>. QED
      BY <3>1
  <2>3. server'.step = "idle"
    BY <1>1, <2>1 DEF Server
  <2>4. CASE server.step \in {"ready", "tail"}
    <3>1. ChainHolds' /\ RegHolds'
      BY <2>1, <2>2, <2>3, <2>4, FrameSent
    <3>2. ServerHolds'
      BY <2>3 DEF ServerHolds
    <3>. QED
      BY <3>1, <3>2 DEF WireInv
  <2>5. CASE server.step = "subscribed"
    <3>1. wire = <<>>
      BY <2>5 DEF WireInv, ServerHolds
    <3>2. wire' = <<f>>
      BY <2>1, <2>2, <3>1
    <3>3. DOMAIN wire' = {1} /\ Len(wire)' = 1 /\ wire'[1] = f
      BY <3>2
    <3>4. FrameHolds(1)'
      BY <2>2, <2>3, <3>3 DEF FrameHolds
    <3>5. ChainHolds'
      BY <3>3, <3>4 DEF ChainHolds
    <3>6. ServerHolds'
      BY <2>3 DEF ServerHolds
    <3>7. RegHolds'
      <4>1. Watermark' = Watermark /\ reg.state # "failed"
        BY <2>1, <2>5, LogKept DEF WireInv, RegHolds
      <4>. QED
        BY <2>1, <4>1 DEF WireInv, RegHolds
    <3>. QED
      BY <3>5, <3>6, <3>7 DEF WireInv
  <2>. QED
    BY <2>1, <2>4, <2>5
<1>. QED
  BY <1>2, <1>3, <1>4, <1>5 DEF ServerStep

LEMMA ConnectionKeepsWire ==
    ASSUME TypeInv, WireInv, Connect \/ ConnectFails \/ Drop
    PROVE  WireInv'
<1>1. /\ BaseTypes /\ server \in Server /\ reg \in Registration
      /\ reg.state \in {"waiting", "live", "failed"}
  BY TypesGiveBase, BaseFacts DEF TypeInv
<1>2. UNCHANGED log => Watermark' = Watermark
  BY LogKept
<1>3. CASE Connect
  <2>1. /\ server.step = "off" /\ UNCHANGED <<log, wire, reg>>
        /\ server' = [step |-> IF reg.state = "failed" THEN "idle" ELSE "subscribed",
                      cursor |-> reg.resume, until |-> 0]
    BY <1>3 DEF Connect, Connected
  <2>2. wire = <<>> /\ wire' = <<>>
    BY <2>1 DEF WireInv, ServerHolds
  <2>3. ChainHolds'
    BY <2>2 DEF ChainHolds
  <2>4. server'.step \in {"idle", "subscribed"} /\ server'.cursor = reg.resume
    BY <2>1
  <2>5. End(Len(wire))' = reg.resume
    BY <2>1, <2>2 DEF End
  <2>6. ServerHolds'
    BY <2>2, <2>4, <2>5 DEF ServerHolds
  <2>7. reg.state = "failed" => server'.step = "idle"
    BY <2>1
  <2>8. RegHolds'
    BY <1>2, <2>1, <2>2, <2>7 DEF WireInv, RegHolds
  <2>. QED
    BY <2>3, <2>6, <2>8 DEF WireInv
<1>4. CASE ConnectFails
  <2>1. /\ server.step = "off" /\ UNCHANGED <<log, server, wire>>
        /\ \/ reg' = reg
           \/ reg.state = "waiting" /\ reg' = [reg EXCEPT !.state = "failed"]
    BY <1>4 DEF ConnectFails, Connected
  <2>2. wire = <<>> /\ wire' = <<>>
    BY <2>1 DEF WireInv, ServerHolds
  <2>3. ChainHolds'
    BY <2>2 DEF ChainHolds
  <2>4. ServerHolds'
    BY <2>1, <2>2 DEF ServerHolds
  <2>5. RegHolds'
    <3>1. CASE reg' = reg
      BY <1>2, <2>1, <3>1 DEF WireInv, RegHolds
    <3>2. CASE reg.state = "waiting" /\ reg' = [reg EXCEPT !.state = "failed"]
      <4>1. /\ reg'.state = "failed" /\ reg'.resume = reg.resume /\ reg'.delivered = reg.delivered
        BY <1>1, <3>2 DEF Registration
      <4>. QED
        BY <2>1, <2>2, <3>2, <4>1 DEF WireInv, RegHolds
    <3>. QED
      BY <2>1, <3>1, <3>2
  <2>. QED
    BY <2>3, <2>4, <2>5 DEF WireInv
<1>5. CASE Drop
  <2>1. /\ wire' = <<>> /\ server'.step = "off" /\ UNCHANGED <<log, reg>>
    BY <1>5 DEF Drop
  <2>2. ChainHolds' /\ ServerHolds'
    BY <2>1 DEF ChainHolds, ServerHolds
  <2>3. RegHolds'
    BY <1>2, <2>1 DEF WireInv, RegHolds
  <2>. QED
    BY <2>2, <2>3 DEF WireInv
<1>. QED
  BY <1>3, <1>4, <1>5

\* The client has handled the first frame.
LEMMA FrameHandled ==
    ASSUME TypeInv, WireInv, wire # <<>>, Head(wire).op # "error",
           UNCHANGED <<log, server>>, wire' = Tail(wire),
           reg'.state = "live", reg'.resume = FrameEnd(Head(wire)),
           reg'.resume \in Nat, reg'.resume <= Watermark, reg'.delivered <= reg'.resume
    PROVE  WireInv'
<1>1. /\ BaseTypes /\ wire \in Seq(Known) /\ Len(wire) \in Nat /\ DOMAIN wire = 1..Len(wire)
      /\ NoCursor \notin Nat
  BY TypesGiveBase, BaseFacts DEF TypeInv
<1>2. /\ Len(wire) > 0 /\ Len(wire') = Len(wire) - 1 /\ DOMAIN wire' = 1..(Len(wire) - 1)
      /\ Head(wire) = wire[1]
      /\ \A i \in 1..(Len(wire) - 1) : wire'[i] = wire[i + 1]
  BY <1>1, HeadTailProperties
<1>3. ASSUME NEW i \in 0..(Len(wire) - 1), NEW k, k = i + 1
      PROVE  End(i)' = End(k)
  <2>1. CASE i = 0
    BY <1>2, <1>3, <2>1 DEF End
  <2>2. CASE i # 0
    <3>1. i \in 1..(Len(wire) - 1) /\ k # 0
      BY <1>1, <1>3, <2>2
    <3>. QED
      BY <1>2, <1>3, <2>2, <3>1 DEF End
  <2>. QED
    BY <2>1, <2>2
<1>4. ChainHolds'
  <2>1. SUFFICES ASSUME NEW j \in 1..(Len(wire) - 1)
                 PROVE  FrameHolds(j)'
    BY <1>2 DEF ChainHolds
  <2>2. PICK i \in DOMAIN wire : i = j + 1 /\ i > 1 /\ i \in Nat /\ j \in Nat /\ i - 1 = j
    BY <1>1
  <2>3. FrameHolds(i) /\ wire'[j] = wire[i]
    BY <1>2, <2>2 DEF WireInv, ChainHolds
  <2>4. j - 1 \in 0..(Len(wire) - 1) /\ i - 1 = (j - 1) + 1
    BY <1>1, <2>2
  <2>5. End(j - 1)' = End(i - 1)
    BY <1>3, <2>4
  <2>6. i = Len(wire) => j = Len(wire)'
    BY <1>1, <1>2, <2>2
  <2>. QED
    BY <2>2, <2>3, <2>5, <2>6, FrameKept
<1>5. ServerHolds'
  <2>1. server.step \notin {"off", "subscribed"}
    BY DEF WireInv, ServerHolds
  <2>2. End(Len(wire))' = End(Len(wire))
    <3>1. PICK i \in 0..(Len(wire) - 1) : i = Len(wire) - 1 /\ Len(wire) = i + 1
      <4>1. Len(wire) - 1 \in 0..(Len(wire) - 1) /\ Len(wire) = Len(wire) - 1 + 1
        BY <1>1, <1>2
      <4>. QED
        BY <4>1, Zenon
    <3>2. End(i)' = End(Len(wire))
      BY <1>3, <3>1
    <3>3. End(Len(wire))' = IF Len(wire') = 0 THEN reg'.resume ELSE FrameEnd(wire'[Len(wire')])
      BY DEF End
    <3>4. End(i)' = IF i = 0 THEN reg'.resume ELSE FrameEnd(wire'[i])
      BY DEF End
    <3>5. Len(wire') = i
      BY <1>2, <3>1
    <3>. QED
      BY <3>2, <3>3, <3>4, <3>5
  <2>3. Watermark' = Watermark
    BY LogKept
  <2>. QED
    BY <2>1, <2>2, <2>3 DEF WireInv, ServerHolds
<1>6. RegHolds'
  <2>1. Watermark' = Watermark
    BY LogKept
  <2>. QED
    BY <1>1, <2>1 DEF RegHolds
<1>. QED
  BY <1>4, <1>5, <1>6 DEF WireInv

\* Where the first frame stands when the client handles it.
LEMMA FirstFrame ==
    ASSUME TypeInv, WireInv, wire # <<>>
    PROVE  LET f == Head(wire)
           IN  \/ f.op = "error" /\ Tail(wire) = <<>> /\ server.step = "idle"
               \/ reg.state # "live" /\ Opening(f)
               \/ reg.state = "live" /\ (ReadyFollows(reg.resume, f) \/ EventsFollow(reg.resume, f))
<1>1. /\ BaseTypes /\ wire \in Seq(Known) /\ Len(wire) \in Nat /\ DOMAIN wire = 1..Len(wire)
  BY TypesGiveBase, BaseFacts DEF TypeInv
<1>2. /\ Len(wire) > 0 /\ Head(wire) = wire[1] /\ 1 \in DOMAIN wire
      /\ Tail(wire) \in Seq(Known) /\ Len(Tail(wire)) = Len(wire) - 1
  BY <1>1, HeadTailProperties
<1>3. FrameHolds(1) /\ End(1 - 1) = reg.resume
  BY <1>2 DEF WireInv, ChainHolds, End
<1>4. Len(wire) = 1 => Tail(wire) = <<>>
  <2>1. PICK w \in Seq(Known) : w = Tail(wire)
    BY <1>2
  <2>2. Len(w) = 0 => w = <<>>
    BY EmptySeq
  <2>. QED
    BY <1>2, <2>1, <2>2
<1>. QED
  BY <1>2, <1>3, <1>4 DEF FrameHolds

\* A ready frame of a live registration moves the cursor to its own.
LEMMA ReadyMovesTo ==
    ASSUME TypeInv, WireInv, AcceptReady
    PROVE  LET f == Head(wire)
           IN  /\ ReadyFollows(reg.resume, f) /\ reg'.resume = f.cursor
               /\ reg'.delivered \in Nat /\ reg.delivered <= reg'.delivered
               /\ reg'.delivered <= f.cursor
<1>1. /\ LogTyped /\ reg \in Registration /\ NoCursor \notin Nat /\ reg.delivered \in Nat
      /\ Own \subseteq Nat
  BY SubscriptionsAssumption, OwnTyped DEF TypeInv, Registration
<1>2. /\ wire # <<>> /\ Head(wire).op = "ready" /\ reg.state = "live"
      /\ reg'.resume = Resumed({Head(wire).cursor} \cup Head(wire).replay)
      /\ reg'.delivered = Max(Head(wire).replay \cup {reg.delivered})
      /\ Head(wire).cursor \in Nat /\ Head(wire).replay \subseteq Own
  BY ReadyMoves, HeadTyped
<1>3. PICK f : f = Head(wire)
  OBVIOUS
<1>4. ReadyFollows(reg.resume, Head(wire))
  BY <1>2, FirstFrame DEF Opening, EventsFollow
<1>5. /\ reg.resume \in Nat /\ reg.resume <= f.cursor /\ f.cursor \in Nat /\ f.replay \in SUBSET Own
      /\ \A n \in f.replay : n \in Nat /\ n <= f.cursor
  <2>1. reg.resume \in Nat /\ reg.resume <= f.cursor /\ f.cursor \in Nat /\ f.replay \in SUBSET Own
    BY <1>2, <1>3, <1>4 DEF ReadyFollows
  <2>2. f.replay = {} \/ f.replay = Replay(reg.resume, f.cursor)
    BY <1>3, <1>4 DEF ReadyFollows
  <2>3. PICK e, c : e = reg.resume /\ c = f.cursor /\ e \in Nat /\ c \in Nat
    BY <2>1
  <2>4. \A n \in Replay(e, c) : n \in Nat /\ n <= c
    BY <1>1, <2>3, ReplayReads, BetweenTyped
  <2>. QED
    BY <2>1, <2>2, <2>3, <2>4
<1>6. reg.delivered <= reg.resume
  BY <1>2 DEF WireInv, RegHolds
<1>7. /\ Resumed({f.cursor} \cup f.replay) \in {f.cursor} \cup f.replay \cup {reg.resume}
      /\ Resumed({f.cursor} \cup f.replay) \in Nat
      /\ f.cursor <= Resumed({f.cursor} \cup f.replay)
  BY <1>1, <1>5, ResumedTyped
<1>8. reg'.resume = f.cursor
  <2>1. PICK r \in Nat : r = reg'.resume /\ (r = f.cursor \/ r \in f.replay \/ r = reg.resume)
                         /\ f.cursor <= r
    BY <1>2, <1>3, <1>7
  <2>2. r <= f.cursor
    BY <1>5, <2>1
  <2>. QED
    BY <1>5, <2>1, <2>2
<1>9. /\ Max(f.replay \cup {reg.delivered}) \in Nat
      /\ reg.delivered <= Max(f.replay \cup {reg.delivered})
      /\ Max(f.replay \cup {reg.delivered}) \in f.replay \cup {reg.delivered}
  BY <1>1, <1>5, MaxKnown
<1>10. reg'.delivered \in Nat /\ reg.delivered <= reg'.delivered /\ reg'.delivered <= f.cursor
  <2>1. PICK d \in Nat : d = reg'.delivered /\ reg.delivered <= d
                         /\ (d \in f.replay \/ d = reg.delivered)
    BY <1>2, <1>3, <1>9
  <2>2. d <= f.cursor
    BY <1>1, <1>5, <1>6, <2>1
  <2>. QED
    BY <2>1, <2>2
<1>. QED
  BY <1>3, <1>4, <1>8, <1>10

\* An event moves it to the oldest input of its frame.
LEMMA EventMovesTo ==
    ASSUME TypeInv, WireInv, AcceptEvent
    PROVE  LET f == Head(wire)
               next == Min(f.cursors)
           IN  /\ reg.state = "live" /\ EventsFollow(reg.resume, f)
               /\ next \in Nat /\ reg.resume < next /\ next \in Between(reg.resume, Max(f.cursors))
               /\ reg'.state = "live" /\ reg'.resume = next /\ reg'.delivered = next
<1>1. /\ LogTyped /\ reg \in Registration /\ NoCursor \notin Nat /\ reg.delivered \in Nat
      /\ Own \subseteq Nat
  BY SubscriptionsAssumption, OwnTyped DEF TypeInv, Registration
<1>2. PICK f, next : f = Head(wire) /\ next = Min(Head(wire).cursors)
  OBVIOUS
<1>3. /\ wire # <<>> /\ f.op = "events" /\ next \in f.cursors /\ next \in Own
      /\ reg'.state = reg.state /\ reg'.resume = Resumed({next} \cup {})
      /\ reg'.delivered = Max({next} \cup {reg.delivered})
  BY <1>2, EventMoves
<1>4. reg.state = "live" /\ EventsFollow(reg.resume, f)
  BY <1>2, <1>3, FirstFrame DEF Opening, ReadyFollows
<1>5. PICK e \in Nat : e = reg.resume
  BY <1>4 DEF EventsFollow
<1>6. PICK m \in Nat : m = Max(f.cursors)
  BY <1>1, <1>4 DEF EventsFollow
<1>7. next \in Between(e, m) /\ next \in Nat /\ e < next
  <2>1. next \in Between(e, m)
    BY <1>3, <1>4, <1>5, <1>6 DEF EventsFollow, Latest
  <2>. QED
    BY <1>1, <2>1, BetweenTyped
<1>8. reg.delivered <= e
  BY <1>4, <1>5 DEF WireInv, RegHolds
<1>9. reg'.resume = next
  <2>1. {} \in SUBSET Own
    OBVIOUS
  <2>2. /\ Resumed({next} \cup {}) \in {next} \cup {} \cup {reg.resume}
        /\ Resumed({next} \cup {}) \in Nat
        /\ next <= Resumed({next} \cup {})
    BY <1>1, <1>7, <2>1, ResumedTyped
  <2>3. PICK r \in Nat : r = Resumed({next} \cup {}) /\ (r = next \/ r = e) /\ next <= r
    BY <1>5, <2>2
  <2>. QED
    BY <1>3, <1>7, <2>3
<1>10. reg'.delivered = next
  <2>1. {next} \in SUBSET Own
    BY <1>3
  <2>2. /\ Max({next} \cup {reg.delivered}) \in {next} \cup {reg.delivered}
        /\ Max({next} \cup {reg.delivered}) \in Nat
        /\ next <= Max({next} \cup {reg.delivered})
    BY <1>1, <2>1, MaxKnown
  <2>3. PICK d \in Nat : d = Max({next} \cup {reg.delivered}) /\ (d = next \/ d = reg.delivered)
                         /\ next <= d
    BY <2>2
  <2>4. reg'.delivered = d
    BY <1>3, <2>3
  <2>5. reg.delivered \in Nat /\ reg.delivered <= e /\ e < next /\ next \in Nat
    BY <1>1, <1>7, <1>8
  <2>6. d # reg.delivered
    BY <2>3, <2>5
  <2>. QED
    BY <2>3, <2>4, <2>6
<1>. QED
  BY <1>2, <1>3, <1>4, <1>5, <1>6, <1>7, <1>9, <1>10

LEMMA HydrateKeepsWire ==
    ASSUME TypeInv, WireInv, Hydrate
    PROVE  WireInv' /\ Opening(Head(wire))
<1>1. RegHolds
  BY DEF WireInv
<1>2. /\ wire # <<>> /\ Head(wire).op = "ready" /\ reg.state = "waiting" /\ wire' = Tail(wire)
      /\ reg'.state = "live" /\ reg'.resume = Head(wire).cursor /\ reg'.delivered = reg.delivered
      /\ UNCHANGED <<log, server>>
  BY <1>1, HydrateMoves
<1>3. Opening(Head(wire))
  BY <1>2, FirstFrame
<1>4. /\ Head(wire).cursor \in Nat /\ Head(wire).cursor <= Watermark
      /\ FrameEnd(Head(wire)) = Head(wire).cursor
  BY <1>2, <1>3 DEF Opening, FrameEnd
<1>5. reg.delivered = 0
  BY <1>2 DEF WireInv, RegHolds
<1>6. WireInv'
  BY <1>2, <1>4, <1>5, FrameHandled
<1>. QED
  BY <1>3, <1>6

LEMMA ReadyKeepsWire ==
    ASSUME TypeInv, WireInv, AcceptReady
    PROVE  WireInv'
<1>1. /\ wire # <<>> /\ Head(wire).op = "ready" /\ wire' = Tail(wire) /\ reg'.state = "live"
      /\ UNCHANGED <<log, server>>
  BY ReadyMoves
<1>2. /\ ReadyFollows(reg.resume, Head(wire)) /\ reg'.resume = Head(wire).cursor
      /\ reg'.delivered <= Head(wire).cursor
  BY ReadyMovesTo
<1>3. /\ Head(wire).cursor \in Nat /\ Head(wire).cursor <= Watermark
      /\ FrameEnd(Head(wire)) = Head(wire).cursor
  BY <1>1, <1>2 DEF ReadyFollows, FrameEnd
<1>. QED
  BY <1>1, <1>2, <1>3, FrameHandled

LEMMA EventKeepsWire ==
    ASSUME TypeInv, WireInv, AcceptEvent
    PROVE  WireInv'
<1>1. /\ BaseTypes /\ LogTyped /\ wire \in Seq(Known) /\ Len(wire) \in Nat
      /\ DOMAIN wire = 1..Len(wire) /\ NoCursor \notin Nat
      /\ Own \subseteq Nat /\ ReplayLimit \in Nat
  BY TypesGiveBase, BaseFacts, OwnTyped DEF TypeInv
<1>2. PICK f, next : f = Head(wire) /\ next = Min(Head(wire).cursors)
  OBVIOUS
<1>3. /\ wire # <<>> /\ f.op = "events" /\ next \in f.cursors /\ next \in Own
      /\ \A n \in f.cursors : next <= n
      /\ \/ f.cursors = {next} /\ wire' = Tail(wire)
         \/ /\ f.cursors # {next}
            /\ wire' = [wire EXCEPT ![1] = [op |-> "events", cursors |-> f.cursors \ {next}]]
      /\ UNCHANGED <<log, server, passed>>
  BY <1>2, EventMoves
<1>4. /\ reg.state = "live" /\ EventsFollow(reg.resume, f)
      /\ next \in Nat /\ reg.resume < next /\ next \in Between(reg.resume, Max(f.cursors))
      /\ reg'.state = "live" /\ reg'.resume = next /\ reg'.delivered = next
  BY <1>2, EventMovesTo
<1>5. PICK e, m : e = reg.resume /\ m = Max(f.cursors)
  OBVIOUS
<1>6. /\ e \in Nat /\ m \in Own /\ m \in Nat /\ e < m /\ f.cursors = Latest(Between(e, m))
      /\ Cardinality(Between(e, m)) <= ReplayLimit /\ next \in Between(e, m)
      /\ next <= m /\ m <= Watermark /\ Watermark \in Nat
  <2>1. /\ e \in Nat /\ m \in Own /\ m \in Nat /\ e < m /\ f.cursors = Latest(Between(e, m))
        /\ Cardinality(Between(e, m)) <= ReplayLimit /\ next \in Between(e, m)
    BY <1>1, <1>4, <1>5 DEF EventsFollow
  <2>. QED
    BY <1>1, <2>1, BetweenTyped, WatermarkTyped
<1>7. next <= Watermark
  BY <1>4, <1>6
<1>8. CASE f.cursors = {next} /\ wire' = Tail(wire)
  <2>1. m = next
    <3>1. Max({next}) = next
      <4>1. {next} \in SUBSET (0..next) /\ {next} # {}
        BY <1>4
      <4>. QED
        BY <1>4, <4>1, MaxOfNat
    <3>. QED
      BY <1>5, <1>8, <3>1
  <2>2. FrameEnd(Head(wire)) = next
    BY <1>2, <1>3, <1>5, <2>1 DEF FrameEnd
  <2>. QED
    BY <1>2, <1>3, <1>4, <1>7, <1>8, <2>2, FrameHandled
<1>9. CASE /\ f.cursors # {next}
           /\ wire' = [wire EXCEPT ![1] = [op |-> "events", cursors |-> f.cursors \ {next}]]
  <2>1. PICK g : g = [op |-> "events", cursors |-> f.cursors \ {next}]
    OBVIOUS
  <2>2. /\ DOMAIN wire' = DOMAIN wire /\ Len(wire') = Len(wire) /\ wire'[1] = g /\ wire[1] = f
        /\ 1 \in DOMAIN wire
        /\ \A i \in DOMAIN wire : i # 1 => wire'[i] = wire[i]
    <3>1. wire' = [wire EXCEPT ![1] = g]
      BY <1>9, <2>1
    <3>2. Len(wire) > 0 /\ Head(wire) = wire[1] /\ 1 \in 1..Len(wire)
      BY <1>1, <1>3, HeadTailProperties
    <3>. QED
      BY <1>1, <1>2, <3>1, <3>2
  <2>3. f.cursors \ {next} = Latest(Between(next, m))
    BY <1>1, <1>3, <1>6, LatestOfRest
  <2>4. m \in f.cursors \ {next}
    <3>1. f.cursors \in SUBSET (0..m)
      <4>1. \A n \in Between(e, m) : n \in Nat /\ n <= m
        BY <1>1, <1>6, BetweenTyped
      <4>2. Latest(Between(e, m)) \subseteq Between(e, m)
        BY DEF Latest
      <4>3. \A n \in f.cursors : n \in 0..m
        BY <1>6, <4>1, <4>2
      <4>. QED
        BY <4>3
    <3>2. f.cursors # {}
      BY <1>3
    <3>3. Max(f.cursors) \in f.cursors /\ \A n \in f.cursors : n <= Max(f.cursors)
      BY <1>6, <3>1, <3>2, MaxOfNat
    <3>4. m \in f.cursors /\ \A n \in f.cursors : n <= m
      BY <1>5, <3>3
    <3>5. PICK k \in f.cursors : k # next
      BY <1>3, <1>9
    <3>6. k \in Nat /\ next < k
      BY <1>3, <1>4, <3>1, <3>5
    <3>. QED
      BY <1>4, <1>6, <3>4, <3>5, <3>6
  <2>5. next < m
    BY <1>3, <1>4, <1>6, <2>4
  <2>6. Max(g.cursors) = m
    <3>1. PICK T : T = f.cursors \ {next}
      OBVIOUS
    <3>2. T \in SUBSET (0..m) /\ m \in T
      <4>1. \A n \in Between(next, m) : n \in Nat /\ n <= m
        BY <1>1, <1>4, <1>6, BetweenTyped
      <4>2. \A n \in T : n \in Between(next, m)
        BY <2>3, <3>1 DEF Latest
      <4>. QED
        BY <1>6, <2>4, <3>1, <4>1, <4>2
    <3>3. Max(T) \in T /\ Max(T) \in 0..m /\ \A n \in T : n <= Max(T)
      BY <1>6, <3>2, MaxOfNat
    <3>4. Max(T) = m
      BY <1>6, <3>2, <3>3
    <3>. QED
      BY <2>1, <3>1, <3>4
  <2>7. Cardinality(Between(next, m)) <= ReplayLimit
    <3>1. /\ Cardinality(Between(next, m)) <= Cardinality(Between(e, m))
          /\ Cardinality(Between(next, m)) \in Nat /\ Cardinality(Between(e, m)) \in Nat
      <4>1. e <= next /\ m <= m
        BY <1>4, <1>5, <1>6
      <4>. QED
        BY <1>1, <1>4, <1>6, <4>1, BetweenCounts, BetweenTyped
    <3>. QED
      BY <1>1, <1>6, <3>1
  <2>8. EventsFollow(next, g)
    BY <1>4, <1>6, <2>1, <2>3, <2>5, <2>6, <2>7 DEF EventsFollow
  <2>9. EventsFollow(next, g)'
    BY <1>3, <2>8, FollowsKept
  <2>10. FrameHolds(1)'
    <3>1. End(1 - 1)' = next
      BY <1>4 DEF End
    <3>. QED
      BY <1>4, <2>2, <2>9, <3>1 DEF FrameHolds
  <2>11. ASSUME NEW i \in DOMAIN wire
         PROVE  End(i)' = End(i)
    <3>1. CASE i = 1
      <4>1. FrameEnd(g) = m /\ FrameEnd(f) = m
        BY <1>3, <1>5, <2>1, <2>6 DEF FrameEnd
      <4>. QED
        BY <2>2, <3>1, <4>1 DEF End
    <3>2. CASE i # 1
      BY <1>1, <2>2, <3>2 DEF End
    <3>. QED
      BY <3>1, <3>2
  <2>12. ChainHolds'
    <3>1. ASSUME NEW i \in DOMAIN wire, i # 1
          PROVE  FrameHolds(i)'
      <4>1. i \in Nat /\ i > 1 /\ i - 1 \in DOMAIN wire
        BY <1>1, <3>1
      <4>2. FrameHolds(i) /\ wire'[i] = wire[i] /\ End(i - 1)' = End(i - 1)
        BY <2>2, <2>11, <3>1, <4>1 DEF WireInv, ChainHolds
      <4>. QED
        BY <1>3, <1>4, <2>2, <4>1, <4>2, FrameKept
    <3>. QED
      BY <2>2, <2>10, <3>1 DEF ChainHolds
  <2>13. ServerHolds'
    <3>1. server.step \notin {"off", "subscribed"}
      BY <1>3 DEF WireInv, ServerHolds
    <3>2. Watermark' = Watermark
      BY <1>3, LogKept
    <3>3. End(Len(wire))' = End(Len(wire))
      <4>1. PICK i \in DOMAIN wire : i = Len(wire)
        <5>1. Len(wire) \in DOMAIN wire
          BY <1>1, <2>2
        <5>. QED
          BY <5>1, Zenon
      <4>2. End(i)' = End(i)
        BY <2>11
      <4>3. End(i)' = IF i = 0 THEN reg'.resume ELSE FrameEnd(wire'[i])
        BY DEF End
      <4>4. End(Len(wire))' = IF Len(wire') = 0 THEN reg'.resume ELSE FrameEnd(wire'[Len(wire')])
        BY DEF End
      <4>. QED
        BY <2>2, <4>1, <4>2, <4>3, <4>4
    <3>. QED
      BY <1>3, <3>1, <3>2, <3>3 DEF WireInv, ServerHolds
  <2>14. RegHolds'
    <3>1. Watermark' = Watermark
      BY <1>3, LogKept
    <3>. QED
      BY <1>1, <1>4, <1>7, <3>1 DEF RegHolds
  <2>. QED
    BY <2>12, <2>13, <2>14 DEF WireInv
<1>. QED
  BY <1>3, <1>8, <1>9

LEMMA ErrorKeepsWire ==
    ASSUME TypeInv, WireInv, AcceptError
    PROVE  WireInv'
<1>1. /\ wire # <<>> /\ Head(wire).op = "error" /\ wire' = Tail(wire)
      /\ reg' = [reg EXCEPT !.state = IF reg.state = "waiting" THEN "failed" ELSE reg.state]
      /\ UNCHANGED <<log, server>>
  BY ErrorMoves
<1>2. wire' = <<>> /\ server.step = "idle"
  BY <1>1, FirstFrame DEF Opening, ReadyFollows, EventsFollow
<1>3. ChainHolds' /\ ServerHolds'
  BY <1>1, <1>2 DEF ChainHolds, ServerHolds
<1>4. /\ reg'.resume = reg.resume /\ reg'.delivered = reg.delivered
      /\ reg'.state = IF reg.state = "waiting" THEN "failed" ELSE reg.state
  BY <1>1 DEF TypeInv, Registration
<1>5. RegHolds'
  <2>1. Watermark' = Watermark
    BY <1>1, LogKept
  <2>. QED
    BY <1>1, <1>2, <1>4, <2>1 DEF WireInv, RegHolds
<1>. QED
  BY <1>3, <1>5 DEF WireInv

Inv == TypeInv /\ WireInv

LEMMA InvAtStart ==
    ASSUME SubscriptionsInit
    PROVE  Inv
BY TypesAtStart, WireAtStart DEF Inv

LEMMA InvKept ==
    ASSUME Inv, [SubscriptionsNext]_vars
    PROVE  Inv'
<1>1. TypeInv /\ WireInv
  BY DEF Inv
<1>2. CASE AppendInput
  BY <1>1, <1>2, AppendKeepsTypes, AppendKeepsWire DEF Inv
<1>3. CASE ServerStep \/ StreamFails
  BY <1>1, <1>3, ServerKeepsTypes, ServerKeepsWire DEF Inv
<1>4. CASE Connect \/ ConnectFails \/ Drop
  BY <1>1, <1>4, ConnectionKeepsTypes, ConnectionKeepsWire DEF Inv
<1>5. CASE Hydrate
  <2>1. RegHolds
    BY <1>1 DEF WireInv
  <2>. QED
    BY <1>1, <1>5, <2>1, HydrateMoves, HydrateKeepsWire DEF Inv
<1>6. CASE AcceptReady
  BY <1>1, <1>6, ReadyMoves, ReadyKeepsWire DEF Inv
<1>7. CASE AcceptEvent
  BY <1>1, <1>7, EventMoves, EventKeepsWire DEF Inv
<1>8. CASE AcceptError
  BY <1>1, <1>8, ErrorMoves, ErrorKeepsWire DEF Inv
<1>9. CASE \E t \in Topic : RefreshStep(t) \/ QueryFails(t)
  BY <1>1, <1>9, RefreshKeepsTypes, WireQuiet DEF Inv
<1>10. CASE UNCHANGED vars
  <2>1. UNCHANGED <<log, server, wire, reg, slice, told, passed>>
    BY <1>10 DEF vars
  <2>2. TypeInv'
    BY <1>1, <2>1, TypesKept DEF TypeInv
  <2>. QED
    BY <1>1, <2>1, <2>2, WireQuiet DEF Inv
<1>. QED
  BY <1>2, <1>3, <1>4, <1>5, <1>6, <1>7, <1>8, <1>9, <1>10
     DEF SubscriptionsNext, Accept, Fault

\* Types, the chain of frames and the registration's cursor hold together after
\* every step of server, wire and client.
LEMMA InvHolds == SubscriptionsSpec => []Inv
<1>1. SubscriptionsInit => Inv
  BY InvAtStart
<1>2. Inv /\ [SubscriptionsNext]_vars => Inv'
  BY InvKept
<1>. QED
  BY <1>1, <1>2, PTL DEF SubscriptionsSpec

\* Every variable keeps its type; a replay and a poll are no longer than the
\* limit (replay and collect_invalidations), no poll sends an empty frame, and a
\* client has a resume cursor exactly when it was hydrated.
THEOREM SubscriptionsTypeCorrect == SubscriptionsSpec => []SubscriptionsTypeOK
<1>1. Inv => SubscriptionsTypeOK
  <2> SUFFICES ASSUME Inv
               PROVE  SubscriptionsTypeOK
    OBVIOUS
  <2>1. TypeInv /\ RegHolds /\ BaseTypes
    BY TypesGiveBase DEF Inv, WireInv
  <2>2. wire \in Seq(Ready \cup Events \cup {StreamError})
    BY <2>1 DEF BaseTypes, Frame
  <2>3. reg.resume = NoCursor <=> reg.state # "live"
    BY <2>1 DEF RegHolds
  <2>4. ASSUME NEW i \in DOMAIN wire
        PROVE  LET sent == CASE wire[i].op = "ready" -> wire[i].replay
                             [] wire[i].op = "events" -> wire[i].cursors
                             [] OTHER -> {}
               IN  /\ sent \subseteq Own /\ Cardinality(sent) <= ReplayLimit
                   /\ wire[i].op = "events" => sent # {}
    <3>1. wire[i] \in Known /\ wire[i] \in Frame /\ ReplayLimit \in Nat
      BY <2>1, KnownIsFrame, SubscriptionsAssumption DEF TypeInv
    <3>2. CASE wire[i].op = "ready"
      BY <3>1, <3>2 DEF Known
    <3>3. CASE wire[i].op = "events"
      BY <3>1, <3>3 DEF Known
    <3>4. CASE wire[i].op \notin {"ready", "events"}
      <4>1. Cardinality({}) = 0
        BY FS_EmptySet
      <4>. QED
        BY <3>1, <3>4, <4>1
    <3>. QED
      BY <3>2, <3>3, <3>4
  <2>. QED
    BY <2>1, <2>2, <2>3, <2>4 DEF SubscriptionsTypeOK, TypeInv, LogTyped
<1>. QED
  BY <1>1, InvHolds, PTL

-----------------------------------------------------------------------------
(***************************************************************************)
(* A slice that is ready is current                                        *)
(***************************************************************************)

Fits(s, n) ==
    /\ s.step = "idle" /\ s.status = "ready" => s.shows >= n
    /\ s.step = "answered" /\ ~s.again => s.read >= n

SlicesHold ==
    \A t \in Topic : /\ told[t] <= Len(log) /\ Fits(slice[t], told[t])
                     /\ reg.state # "live" => slice[t].step = "idle"

\* Whatever was refreshed meanwhile makes a reply that is on its way too old.
LEMMA RefreshedFits ==
    ASSUME NEW s \in Slice
    PROVE  \A n \in Nat : Fits(Refreshed(s), n)
BY DEF Slice, Refreshed, Fits

LEMMA FailedFits ==
    ASSUME NEW s \in Slice
    PROVE  \A n \in Nat : Fits(Failed(s), n)
BY DEF Slice, Failed, Fits

LEMMA AnsweredFits ==
    ASSUME NEW s \in Slice, NEW n \in Nat, s.step = "answered", Fits(s, n)
    PROVE  Fits(Answered(s), n)
BY DEF Slice, Answered, Fits

LEMMA SlicesKept ==
    ASSUME Inv, SlicesHold, [SubscriptionsNext]_vars
    PROVE  SlicesHold'
<1>1. /\ TypeInv /\ WireInv /\ LogTyped /\ reg \in Registration /\ slice \in [Topic -> Slice]
      /\ told \in [Topic -> Nat] /\ Len(log) \in Nat /\ Own \in SUBSET (1..Len(log))
  BY OwnTyped DEF Inv, TypeInv
<1>2. ASSUME NEW t \in Topic
      PROVE  /\ slice[t] \in Slice /\ told[t] \in Nat /\ told[t] <= Len(log)
             /\ Fits(slice[t], told[t])
             /\ reg.state # "live" => slice[t].step = "idle"
  BY <1>1 DEF SlicesHold
<1>3. CASE AppendInput
  <2>1. Len(log') = Len(log) + 1 /\ UNCHANGED <<reg, slice, told>>
    BY <1>1, <1>3, AppendKeepsTypes, OwnGrows DEF AppendInput
  <2>. QED
    BY <1>1, <1>2, <2>1 DEF SlicesHold
<1>4. CASE UNCHANGED <<log, reg, slice, told>>
  BY <1>4 DEF SlicesHold
<1>5. CASE ConnectFails \/ Drop
  <2>1. /\ FailRequests /\ UNCHANGED <<log, told>>
        /\ reg' = reg \/ (reg.state = "waiting" /\ reg' = [reg EXCEPT !.state = "failed"])
    BY <1>5 DEF ConnectFails, Drop
  <2>2. reg'.state # "live" => reg.state # "live"
    BY <1>1, <2>1 DEF Registration
  <2>3. ASSUME NEW t \in Topic
        PROVE  /\ Fits(slice'[t], told[t])
               /\ reg.state # "live" => slice'[t].step = "idle"
    <3>1. slice'[t] = IF Pending(slice[t]) THEN Failed(slice[t]) ELSE slice[t]
      BY <1>1, <2>1, SlicesFailTyped
    <3>2. Fits(Failed(slice[t]), told[t])
      BY <1>2, FailedFits
    <3>3. reg.state # "live" => ~ Pending(slice[t])
      BY <1>2 DEF Pending
    <3>. QED
      BY <1>2, <3>1, <3>2, <3>3
  <2>. QED
    BY <1>2, <2>1, <2>2, <2>3 DEF SlicesHold
<1>6. CASE Hydrate
  <2>1. PICK f : f = Head(wire)
    OBVIOUS
  <2>2. /\ reg.state = "waiting" /\ reg'.state = "live"
        /\ told' = [t \in Topic |-> f.shows]
        /\ \A t \in Topic : slice'[t].step = slice[t].step /\ slice'[t].shows = f.shows
        /\ UNCHANGED log
    BY <1>1, <1>6, <2>1, HydrateMoves DEF WireInv
  <2>3. f.shows \in Nat /\ f.shows <= Len(log)
    BY <1>1, <1>6, <2>1, HydrateKeepsWire DEF Opening
  <2>4. \A t \in Topic : slice'[t].step = "idle"
    BY <1>2, <2>2
  <2>5. \A t \in Topic : told'[t] = f.shows
    BY <2>2
  <2>6. \A t \in Topic : Fits(slice'[t], told'[t])
    BY <2>2, <2>3, <2>4, <2>5 DEF Fits
  <2>. QED
    BY <2>2, <2>3, <2>5, <2>6 DEF SlicesHold
<1>7. CASE AcceptReady \/ AcceptEvent
  <2>1. PICK S \in SUBSET Own : RefreshTold(S)
    <3>1. CASE AcceptReady
      <4>1. /\ RefreshTold(Head(wire).replay) /\ wire # <<>> /\ Head(wire).op = "ready"
        BY <1>1, <3>1, ReadyMoves
      <4>2. Head(wire).replay \subseteq Own
        BY <1>1, <4>1, HeadTyped
      <4>. QED
        BY <4>1, <4>2
    <3>2. CASE AcceptEvent
      <4>1. PICK next : next = Min(Head(wire).cursors)
        OBVIOUS
      <4>2. RefreshTold({next}) /\ next \in Own
        BY <1>1, <3>2, <4>1, EventMoves
      <4>. QED
        BY <4>2
    <3>. QED
      BY <1>7, <3>1, <3>2
  <2>2. reg.state = "live" /\ reg'.state = "live" /\ UNCHANGED log
    BY <1>1, <1>7, ReadyMoves, EventMoves, EventMovesTo
  <2>3. ASSUME NEW t \in Topic
        PROVE  told'[t] <= Len(log) /\ Fits(slice'[t], told'[t])
    <3>1. /\ told' \in [Topic -> Nat]
          /\ \/ told'[t] = told[t] /\ slice'[t] = slice[t]
             \/ told'[t] \in Own \cup {told[t]} /\ slice'[t] = Refreshed(slice[t])
      BY <1>1, <2>1, ToldStep
    <3>2. told'[t] \in Nat
      BY <3>1
    <3>3. Fits(Refreshed(slice[t]), told'[t])
      BY <1>2, <3>2, RefreshedFits
    <3>4. told'[t] <= Len(log)
      BY <1>1, <1>2, <3>1
    <3>. QED
      BY <1>2, <3>1, <3>3, <3>4
  <2>. QED
    BY <2>2, <2>3 DEF SlicesHold
<1>8. CASE AcceptError
  <2>1. /\ reg' = [reg EXCEPT !.state = IF reg.state = "waiting" THEN "failed" ELSE reg.state]
        /\ UNCHANGED <<log, slice, told>>
    BY <1>1, <1>8, ErrorMoves
  <2>2. reg'.state # "live" => reg.state # "live"
    BY <1>1, <2>1 DEF Registration
  <2>. QED
    BY <1>2, <2>1, <2>2 DEF SlicesHold
<1>9. CASE \E t \in Topic : RefreshStep(t) \/ QueryFails(t)
  <2>1. PICK t \in Topic : RefreshStep(t) \/ QueryFails(t)
    BY <1>9
  <2>2. /\ UNCHANGED <<log, server, wire, reg, told, passed>>
        /\ slice' = [slice EXCEPT ![t] = slice'[t]]
        /\ \/ slice[t].step = "deferred" /\ slice'[t] = [slice[t] EXCEPT !.step = "asked"]
           \/ /\ slice[t].step = "asked"
              /\ slice'[t] = [slice[t] EXCEPT !.step = "answered", !.read = Len(log)]
           \/ slice[t].step = "answered" /\ slice'[t] = Answered(slice[t])
           \/ Pending(slice[t]) /\ slice'[t] = Failed(slice[t])
    BY <1>1, <2>1, RefreshKeepsTypes
  <2>3. reg.state = "live"
    BY <1>2, <2>2 DEF Pending
  <2>4. Fits(slice'[t], told[t])
    <3>1. CASE slice[t].step = "deferred" /\ slice'[t] = [slice[t] EXCEPT !.step = "asked"]
      BY <1>2, <3>1 DEF Fits, Slice
    <3>2. CASE /\ slice[t].step = "asked"
               /\ slice'[t] = [slice[t] EXCEPT !.step = "answered", !.read = Len(log)]
      BY <1>1, <1>2, <3>2 DEF Fits, Slice
    <3>3. CASE slice[t].step = "answered" /\ slice'[t] = Answered(slice[t])
      BY <1>2, <3>3, AnsweredFits
    <3>4. CASE Pending(slice[t]) /\ slice'[t] = Failed(slice[t])
      BY <1>2, <3>4, FailedFits
    <3>. QED
      BY <2>2, <3>1, <3>2, <3>3, <3>4
  <2>5. \A u \in Topic : u # t => slice'[u] = slice[u]
    BY <1>1, <2>2
  <2>. QED
    BY <1>2, <2>2, <2>3, <2>4, <2>5 DEF SlicesHold
<1>. QED
  <2>1. ServerStep \/ StreamFails \/ Connect \/ UNCHANGED vars => UNCHANGED <<log, reg, slice, told>>
    BY DEF ServerStep, ReadWatermark, SendReady, SendEvents, TailGap, StreamFails, Connect, vars
  <2>. QED
    BY <1>3, <1>4, <1>5, <1>6, <1>7, <1>8, <1>9, <2>1 DEF SubscriptionsNext, Accept, Fault

\* A slice that is ready, with no refresh under way, shows rows at least as new as
\* the newest input it was told of: a reply that was overtaken by another call of
\* refresh() is thrown away and asked for again (the token of createRefreshAction).
THEOREM ReadySlicesShowWhatWasTold == SubscriptionsSpec => []ReadySlicesAreCurrent
<1>1. SubscriptionsInit => SlicesHold
  <2> SUFFICES ASSUME SubscriptionsInit
               PROVE  SlicesHold
    OBVIOUS
  <2>1. ASSUME NEW t \in Topic
        PROVE  told[t] = 0 /\ slice[t].step = "idle" /\ slice[t].status = "empty"
    BY DEF SubscriptionsInit
  <2>2. Len(log) = 0
    BY DEF SubscriptionsInit
  <2>. QED
    BY <2>1, <2>2 DEF SlicesHold, Fits
<1>2. Inv /\ SlicesHold /\ [SubscriptionsNext]_vars => SlicesHold'
  BY SlicesKept
<1>3. SlicesHold => ReadySlicesAreCurrent
  BY DEF SlicesHold, Fits, ReadySlicesAreCurrent
<1>. QED
  BY <1>1, <1>2, <1>3, InvHolds, PTL DEF SubscriptionsSpec

-----------------------------------------------------------------------------
(***************************************************************************)
(* Nothing is passed over                                                  *)
(***************************************************************************)

\* A later input of the topic is ahead of e, and so near that the next replay
\* from e reads it.
Ahead(n, e) ==
    \E k \in Own : e < k /\ log[k] = log[n] /\ Cardinality(Between(e, k)) <= ReplayLimit

Heard(n, e) == n <= told[log[n]] \/ n \in passed \/ Ahead(n, e)

BehindHolds ==
    reg.state = "live" => \A n \in Own : n <= reg.resume => Heard(n, reg.resume)

\* What is ahead of e stays ahead of a later place that is not beyond it.
LEMMA AheadMoves ==
    ASSUME LogTyped, NEW n \in Own, NEW e \in Nat, NEW d \in Nat, e <= d,
           NEW k \in Own, d < k, log[k] = log[n], Cardinality(Between(e, k)) <= ReplayLimit
    PROVE  Ahead(n, d)
<1>1. k \in Nat /\ ReplayLimit \in Nat /\ k <= k
  BY OwnTyped, SubscriptionsAssumption
<1>2. /\ Cardinality(Between(d, k)) <= Cardinality(Between(e, k))
      /\ Cardinality(Between(d, k)) \in Nat /\ Cardinality(Between(e, k)) \in Nat
  BY <1>1, BetweenCounts, BetweenTyped
<1>3. Cardinality(Between(d, k)) <= ReplayLimit
  BY <1>1, <1>2
<1>. QED
  BY <1>3 DEF Ahead

\* Nobody who is behind the cursor is forgotten while the cursor stays.
LEMMA BehindStays ==
    ASSUME Inv, BehindHolds,
           UNCHANGED log \/ (\E topic : LogGrows(topic)),
           UNCHANGED <<told, passed>>, reg'.resume = reg.resume,
           reg'.state = "live" => reg.state = "live"
    PROVE  BehindHolds'
<1>1. /\ LogTyped /\ Own \in SUBSET (1..Len(log)) /\ Own \subseteq Nat /\ Len(log) \in Nat
      /\ NoCursor \notin Nat
  BY OwnTyped, SubscriptionsAssumption DEF Inv, TypeInv
<1>2. SUFFICES ASSUME reg'.state = "live"
               PROVE  \A n \in Own' : n <= reg.resume => Heard(n, reg.resume)'
  BY DEF BehindHolds
<1>3. PICK e \in Nat : e = reg.resume /\ e <= Len(log)
  <2>1. BaseTypes /\ RegHolds
    BY TypesGiveBase DEF Inv, WireInv
  <2>2. reg.resume \in Nat
    BY <1>2, <2>1, BaseFacts DEF RegHolds, Cursor
  <2>3. reg.resume <= Watermark /\ Watermark <= Len(log) /\ Watermark \in Nat
    BY <1>2, <2>1, BaseFacts DEF RegHolds
  <2>. QED
    BY <1>1, <2>2, <2>3
<1>4. /\ \A n \in Own : n \in Own' /\ log'[n] = log[n]
      /\ \A n \in Own' : n \in Own \/ n = Len(log) + 1
  <2>1. CASE UNCHANGED log
    BY <2>1 DEF Own
  <2>2. CASE \E topic : LogGrows(topic)
    BY <1>1, <2>2, OwnGrows
  <2>. QED
    BY <2>1, <2>2
<1>5. \A k \in Own : Between(e, k)' = Between(e, k)
  <2>1. CASE UNCHANGED log
    BY <2>1, LogKept
  <2>2. CASE \E topic : LogGrows(topic)
    <3>1. \A k \in Own : k \in 0..Len(log)
      BY <1>1
    <3>. QED
      BY <1>1, <2>2, <3>1, PastStays
  <2>. QED
    BY <2>1, <2>2
<1>6. ASSUME NEW n \in Own', n <= e
      PROVE  Heard(n, e)'
  <2>1. n \in Own
    BY <1>1, <1>3, <1>4, <1>6
  <2>2. Heard(n, e) /\ log'[n] = log[n]
    BY <1>2, <1>3, <1>4, <1>6, <2>1 DEF BehindHolds
  <2>3. ASSUME Ahead(n, e)
        PROVE  Ahead(n, e)'
    <3>1. PICK k \in Own : e < k /\ log[k] = log[n] /\ Cardinality(Between(e, k)) <= ReplayLimit
      BY <2>3 DEF Ahead
    <3>2. /\ k \in Own' /\ log'[k] = log[k] /\ Between(e, k)' = Between(e, k)
      BY <1>4, <1>5
    <3>. QED
      BY <2>2, <3>1, <3>2 DEF Ahead
  <2>4. n <= told[log[n]] \/ n \in passed \/ Ahead(n, e)
    BY <2>2 DEF Heard
  <2>. QED
    BY <2>2, <2>3, <2>4 DEF Heard
<1>7. ASSUME NEW n \in Own', n <= reg.resume
      PROVE  Heard(n, reg.resume)'
  <2>1. Heard(n, e)'
    BY <1>3, <1>6, <1>7
  <2>2. (n <= told[log[n]])' \/ (n \in passed)' \/ Ahead(n, e)'
    BY <2>1 DEF Heard
  <2>3. Ahead(n, e)' => Ahead(n, reg.resume)'
    BY <1>3 DEF Ahead
  <2>. QED
    BY <2>2, <2>3 DEF Heard
<1>. QED
  BY <1>7

\* The store is told, or the cursor has not reached it: what a move of the cursor
\* from e to d has to show.
LEMMA BehindMoves ==
    ASSUME UNCHANGED log, NEW d \in Nat, reg'.resume = d,
           \A n \in Own : n <= d => n <= told'[log[n]] \/ n \in passed' \/ Ahead(n, d)
    PROVE  BehindHolds'
<1>1. /\ Own' = Own /\ log' = log
      /\ \A a, b : Between(a, b)' = Between(a, b)
  BY LogKept
<1>2. ASSUME NEW n \in Own, n <= d
      PROVE  Heard(n, d)'
  <2>1. CASE Ahead(n, d)
    <3>1. PICK k \in Own : d < k /\ log[k] = log[n] /\ Cardinality(Between(d, k)) <= ReplayLimit
      BY <2>1 DEF Ahead
    <3>2. Between(d, k)' = Between(d, k)
      BY <1>1
    <3>3. Ahead(n, d)'
      BY <1>1, <3>1, <3>2 DEF Ahead
    <3>. QED
      BY <3>3 DEF Heard
  <2>2. CASE n <= told'[log[n]] \/ n \in passed'
    BY <1>1, <2>2 DEF Heard
  <2>. QED
    BY <1>2, <2>1, <2>2
<1>3. ASSUME NEW n \in Own', n <= reg'.resume
      PROVE  Heard(n, reg.resume)'
  <2>1. Heard(n, d)'
    BY <1>1, <1>2, <1>3
  <2>2. (n <= told[log[n]])' \/ (n \in passed)' \/ Ahead(n, d)'
    BY <2>1 DEF Heard
  <2>3. Ahead(n, d)' => Ahead(n, reg.resume)'
    BY DEF Ahead
  <2>. QED
    BY <2>2, <2>3 DEF Heard
<1>. QED
  BY <1>3 DEF BehindHolds

LEMMA HydrateLeavesNothingBehind ==
    ASSUME Inv, Hydrate
    PROVE  BehindHolds'
<1>1. /\ TypeInv /\ WireInv /\ LogTyped /\ Own \subseteq Nat /\ RegHolds
      /\ \A n \in Own : log[n] \in Topic
  BY OwnTyped DEF Inv, TypeInv, WireInv
<1>2. PICK f : f = Head(wire)
  OBVIOUS
<1>3. /\ reg'.resume = f.cursor /\ told' = [t \in Topic |-> f.shows] /\ UNCHANGED log
  BY <1>1, <1>2, HydrateMoves
<1>4. f.cursor \in Nat /\ f.shows \in Nat /\ f.cursor <= f.shows
  BY <1>1, <1>2, HydrateKeepsWire DEF Opening
<1>5. \A n \in Own : n <= f.cursor => n <= told'[log[n]]
  BY <1>1, <1>3, <1>4
<1>. QED
  BY <1>3, <1>4, <1>5, BehindMoves

LEMMA ReadyLeavesNothingBehind ==
    ASSUME Inv, BehindHolds, AcceptReady
    PROVE  BehindHolds'
<1>1. /\ TypeInv /\ WireInv /\ LogTyped /\ Own \subseteq Nat /\ RegHolds
      /\ reg \in Registration /\ slice \in [Topic -> Slice] /\ told \in [Topic -> Nat]
      /\ \A n \in Own : log[n] \in Topic
  BY OwnTyped DEF Inv, TypeInv, WireInv
<1>2. PICK f, e : f = Head(wire) /\ e = reg.resume
  OBVIOUS
<1>3. /\ wire # <<>> /\ f.op = "ready" /\ reg.state = "live"
      /\ RefreshTold(f.replay) /\ passed' = passed \cup PassedBy(f) /\ UNCHANGED log
      /\ f.replay \in SUBSET Own
  BY <1>1, <1>2, ReadyMoves, HeadTyped
<1>4. ReadyFollows(e, f) /\ reg'.resume = f.cursor
  BY <1>1, <1>2, ReadyMovesTo
<1>5. e \in Nat /\ f.cursor \in Nat /\ e <= f.cursor
  BY <1>4 DEF ReadyFollows
<1>6. reg.delivered \in Nat /\ reg.delivered <= e
  BY <1>1, <1>2, <1>3 DEF RegHolds, Registration
<1>7. /\ told' \in [Topic -> Nat]
      /\ \A t \in Topic : told[t] <= told'[t]
      /\ \A n \in f.replay : n > reg.delivered => n <= told'[log[n]]
  BY <1>1, <1>3, ToldStep
<1>8. \A n \in f.replay : e < n => n <= told'[log[n]]
  <2>1. \A n \in f.replay : n \in Nat
    BY <1>1, <1>3
  <2>2. \A n \in f.replay : e < n => n > reg.delivered
    BY <1>5, <1>6, <2>1
  <2>. QED
    BY <1>7, <2>2
<1>9. ASSUME NEW n \in Own, n <= f.cursor
      PROVE  n <= told'[log[n]] \/ n \in passed' \/ Ahead(n, f.cursor)
  <2>1. n \in Nat /\ log[n] \in Topic /\ told[log[n]] \in Nat /\ told'[log[n]] \in Nat
    BY <1>1, <1>7
  <2>2. CASE f.mode = "resume" /\ f.replay = Replay(e, f.cursor)
    <3>1. CASE e < n
      <4>1. n \in Between(e, f.cursor)
        BY <1>9, <3>1 DEF Between
      <4>2. CASE n \in f.replay
        BY <1>8, <3>1, <4>2
      <4>3. CASE n \notin f.replay
        <5>1. Cardinality(f.replay) = ReplayLimit /\ n \in Between(Max(f.replay), f.cursor)
          BY <1>1, <1>5, <2>2, <4>1, <4>3, LeftOutIsBehind
        <5>2. PassedBy(f) = Between(Max(f.replay), f.cursor)
          BY <2>2, <5>1 DEF PassedBy
        <5>. QED
          BY <1>3, <5>1, <5>2
      <4>. QED
        BY <4>2, <4>3
    <3>2. CASE n <= e
      <4>1. Heard(n, e)
        BY <1>2, <1>3, <3>2 DEF BehindHolds
      <4>2. CASE n <= told[log[n]]
        <5>1. told[log[n]] <= told'[log[n]]
          BY <1>7, <2>1
        <5>. QED
          BY <2>1, <4>2, <5>1
      <4>3. CASE n \in passed
        BY <1>3, <4>3
      <4>4. CASE Ahead(n, e)
        <5>1. PICK k \in Own : e < k /\ log[k] = log[n] /\ Cardinality(Between(e, k)) <= ReplayLimit
          BY <4>4 DEF Ahead
        <5>2. k \in Nat
          BY <1>1
        <5>3. CASE f.cursor < k
          BY <1>1, <1>5, <5>1, <5>3, AheadMoves
        <5>4. CASE k <= f.cursor
          <6>1. k \in Between(e, f.cursor)
            BY <5>1, <5>4 DEF Between
          <6>2. k \in f.replay
            BY <1>1, <1>5, <2>2, <5>1, <6>1, ReplayReads
          <6>3. k <= told'[log[n]]
            BY <1>8, <5>1, <6>2
          <6>. QED
            BY <1>5, <2>1, <3>2, <5>1, <5>2, <6>3
        <5>. QED
          BY <1>5, <5>2, <5>3, <5>4
      <4>. QED
        BY <4>1, <4>2, <4>3, <4>4 DEF Heard
    <3>. QED
      BY <1>5, <2>1, <3>1, <3>2
  <2>3. CASE f.mode = "snapshot_fallback" /\ f.replay = {} /\ \A m \in Own : e < m
    <3>1. n \in Between(e, f.cursor)
      BY <1>9, <2>3 DEF Between
    <3>2. PassedBy(f) = Between(e, f.cursor)
      <4>1. Cardinality(f.replay) # ReplayLimit
        BY <2>3, FS_EmptySet, SubscriptionsAssumption
      <4>. QED
        BY <1>2, <2>3, <4>1 DEF PassedBy
    <3>. QED
      BY <1>3, <3>1, <3>2
  <2>. QED
    BY <1>4, <2>2, <2>3 DEF ReadyFollows
<1>. QED
  BY <1>3, <1>4, <1>5, <1>9, BehindMoves

LEMMA EventLeavesNothingBehind ==
    ASSUME Inv, BehindHolds, AcceptEvent
    PROVE  BehindHolds'
<1>1. /\ TypeInv /\ WireInv /\ LogTyped /\ Own \subseteq Nat /\ RegHolds
      /\ reg \in Registration /\ slice \in [Topic -> Slice] /\ told \in [Topic -> Nat]
      /\ \A n \in Own : log[n] \in Topic
      /\ Len(log) \in Nat
  BY OwnTyped DEF Inv, TypeInv, WireInv
<1>2. PICK f, e, next, m : /\ f = Head(wire) /\ e = reg.resume /\ next = Min(Head(wire).cursors)
                           /\ m = Max(Head(wire).cursors)
  OBVIOUS
<1>3. /\ RefreshTold({next}) /\ UNCHANGED <<log, passed>>
      /\ next \in f.cursors /\ next \in Own /\ \A n \in f.cursors : next <= n
  BY <1>1, <1>2, EventMoves
<1>4. /\ reg.state = "live" /\ EventsFollow(e, f) /\ next \in Nat /\ e < next
      /\ next \in Between(e, m) /\ reg'.resume = next
  BY <1>1, <1>2, EventMovesTo
<1>5. /\ e \in Nat /\ m \in Nat /\ m \in Own /\ f.cursors = Latest(Between(e, m))
      /\ Cardinality(Between(e, m)) <= ReplayLimit /\ next <= m
  <2>1. /\ e \in Nat /\ m \in Nat /\ m \in Own /\ f.cursors = Latest(Between(e, m))
        /\ Cardinality(Between(e, m)) <= ReplayLimit
    BY <1>1, <1>2, <1>4 DEF EventsFollow
  <2>. QED
    BY <1>1, <1>4, <2>1, BetweenTyped
<1>6. reg.delivered \in Nat /\ reg.delivered <= e
  BY <1>1, <1>2, <1>4 DEF RegHolds, Registration
<1>7. /\ told' \in [Topic -> Nat]
      /\ \A t \in Topic : told[t] <= told'[t]
      /\ next <= told'[log[next]]
  <2>1. {next} \in SUBSET Own
    BY <1>3
  <2>2. next > reg.delivered
    BY <1>4, <1>5, <1>6
  <2>. QED
    BY <1>1, <1>3, <2>1, <2>2, ToldStep
<1>8. ASSUME NEW x \in Between(e, m), NEW n \in Own, log[n] = log[x], n <= x, n <= next
      PROVE  n <= told'[log[n]] \/ Ahead(n, next)
  <2>1. Between(e, m) \in SUBSET (0..Len(log))
    BY <1>1, <1>5, BetweenTyped
  <2>2. PICK k \in Latest(Between(e, m)) : log[k] = log[x] /\ x <= k
    BY <1>1, <2>1, LatestReads
  <2>3. /\ k \in Own /\ k \in Nat /\ k <= m /\ next <= k /\ n \in Nat
    BY <1>1, <1>3, <1>5, <2>2, BetweenTyped DEF Latest
  <2>4. CASE k = next
    <3>1. next <= told'[log[n]] /\ told'[log[n]] \in Nat
      BY <1>1, <1>7, <1>8, <2>2, <2>4
    <3>. QED
      BY <1>4, <1>8, <2>3, <3>1
  <2>5. CASE k # next
    <3>1. next < k
      BY <1>4, <2>3, <2>5
    <3>2. Cardinality(Between(next, k)) <= ReplayLimit
      <4>1. e <= next
        BY <1>4, <1>5
      <4>2. /\ Cardinality(Between(next, k)) <= Cardinality(Between(e, m))
            /\ Cardinality(Between(next, k)) \in Nat /\ Cardinality(Between(e, m)) \in Nat
        BY <1>1, <1>4, <1>5, <2>3, <4>1, BetweenCounts, BetweenTyped
      <4>3. ReplayLimit \in Nat
        BY SubscriptionsAssumption
      <4>. QED
        BY <1>5, <4>2, <4>3
    <3>. QED
      BY <1>8, <2>2, <2>3, <3>1, <3>2 DEF Ahead
  <2>. QED
    BY <2>4, <2>5
<1>9. ASSUME NEW n \in Own, n <= next
      PROVE  n <= told'[log[n]] \/ n \in passed' \/ Ahead(n, next)
  <2>1. n \in Nat /\ log[n] \in Topic /\ told[log[n]] \in Nat /\ told'[log[n]] \in Nat
    BY <1>1, <1>7
  <2>2. CASE e < n
    <3>1. n \in Between(e, m)
      BY <1>4, <1>5, <1>9, <2>1, <2>2 DEF Between
    <3>2. n <= n
      BY <2>1
    <3>. QED
      BY <1>8, <1>9, <3>1, <3>2
  <2>3. CASE n <= e
    <3>1. Heard(n, e)
      BY <1>2, <1>4, <2>3 DEF BehindHolds
    <3>2. CASE n <= told[log[n]]
      <4>1. told[log[n]] <= told'[log[n]]
        BY <1>7, <2>1
      <4>. QED
        BY <2>1, <3>2, <4>1
    <3>3. CASE n \in passed
      BY <1>3, <3>3
    <3>4. CASE Ahead(n, e)
      <4>1. PICK k \in Own : e < k /\ log[k] = log[n] /\ Cardinality(Between(e, k)) <= ReplayLimit
        BY <3>4 DEF Ahead
      <4>2. k \in Nat
        BY <1>1
      <4>3. CASE next < k
        <5>1. e <= next
          BY <1>4, <1>5
        <5>. QED
          BY <1>1, <1>4, <1>5, <4>1, <4>3, <5>1, AheadMoves
      <4>4. CASE k <= next
        <5>1. k \in Between(e, m)
          BY <1>4, <1>5, <4>1, <4>2, <4>4 DEF Between
        <5>2. n <= k
          BY <1>5, <2>1, <2>3, <4>1, <4>2
        <5>. QED
          BY <1>8, <1>9, <4>1, <5>1, <5>2
      <4>. QED
        BY <1>4, <4>2, <4>3, <4>4
    <3>. QED
      BY <3>1, <3>2, <3>3, <3>4 DEF Heard
  <2>. QED
    BY <1>5, <2>1, <2>2, <2>3
<1>. QED
  BY <1>3, <1>4, <1>9, BehindMoves

LEMMA BehindKept ==
    ASSUME Inv, BehindHolds, [SubscriptionsNext]_vars
    PROVE  BehindHolds'
<1>1. TypeInv /\ WireInv /\ reg \in Registration
  BY DEF Inv, TypeInv
<1>2. CASE AppendInput
  <2>1. (\E topic : LogGrows(topic)) /\ UNCHANGED <<reg, told, passed>>
    BY <1>1, <1>2, AppendKeepsTypes DEF AppendInput
  <2>. QED
    BY <2>1, BehindStays
<1>3. CASE UNCHANGED <<log, reg, told, passed>>
  BY <1>3, BehindStays
<1>4. CASE ConnectFails \/ AcceptError
  <2>1. /\ UNCHANGED <<log, told, passed>>
        /\ \/ reg' = reg
           \/ reg' = [reg EXCEPT !.state = "failed"]
           \/ reg' = [reg EXCEPT !.state = IF reg.state = "waiting" THEN "failed" ELSE reg.state]
    BY <1>1, <1>4, ErrorMoves DEF ConnectFails
  <2>2. reg'.resume = reg.resume /\ (reg'.state = "live" => reg.state = "live")
    BY <1>1, <2>1 DEF Registration
  <2>. QED
    BY <2>1, <2>2, BehindStays
<1>5. CASE Hydrate
  BY <1>5, HydrateLeavesNothingBehind
<1>6. CASE AcceptReady
  BY <1>6, ReadyLeavesNothingBehind
<1>7. CASE AcceptEvent
  BY <1>7, EventLeavesNothingBehind
<1>. QED
  <2>1. ServerStep \/ StreamFails \/ Connect \/ Drop \/ UNCHANGED vars
           => UNCHANGED <<log, reg, told, passed>>
    BY DEF ServerStep, ReadWatermark, SendReady, SendEvents, TailGap, StreamFails, Connect, Drop, vars
  <2>2. (\E t \in Topic : RefreshStep(t) \/ QueryFails(t)) => UNCHANGED <<log, reg, told, passed>>
    BY DEF RefreshStep, Ask, ServeQuery, AcceptReply, QueryFails
  <2>. QED
    BY <1>2, <1>3, <1>4, <1>5, <1>6, <1>7, <2>1, <2>2 DEF SubscriptionsNext, Accept, Fault

\* The resume cursor of a live registration (acceptReady and acceptEvent) never
\* moves over an input the store will not hear of: it was told of it or of a later
\* one of its topic, such a one is still ahead, or it is among those a full replay
\* or an unheard fallback left out.
THEOREM TheCursorPassesNothing == SubscriptionsSpec => []NothingIsPassedOver
<1>1. SubscriptionsInit => BehindHolds
  BY DEF SubscriptionsInit, BehindHolds
<1>2. Inv /\ BehindHolds /\ [SubscriptionsNext]_vars => BehindHolds'
  BY BehindKept
<1>3. Inv /\ BehindHolds => NothingIsPassedOver
  BY DEF BehindHolds, Heard, Ahead, Between, NothingIsPassedOver, Superseded
<1>. QED
  BY <1>1, <1>2, <1>3, InvHolds, PTL DEF SubscriptionsSpec
=============================================================================
