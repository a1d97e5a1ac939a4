--------------------------- MODULE PanelPush_proofs ---------------------------
(***************************************************************************)
(* Proofs about PanelPush, for any number of overlapping pushes and any    *)
(* limits: the types, the order of the failures the breaker remembers, and *)
(* how far they can outgrow its threshold.                                 *)
(***************************************************************************)
EXTENDS PanelPush, FiniteSetTheorems, SequenceTheorems,
        WellFoundedInduction, TLAPS

-----------------------------------------------------------------------------
(* Types *)

\* The versions are positive: the target itself is counted.
LEMMA VersionsPositive ==
  ASSUME NEW v \in Versions
  PROVE  v \in 1 .. Cardinality(Panels)
  <1>1. PICK keyed \in Batches : v = BatchVersion(keyed)
    BY DEF Versions
  <1> DEFINE upTo == {q \in keyed : q <= Target}
  <1>2. upTo \in SUBSET Panels /\ Target \in upTo
    <2>1. keyed \subseteq Panels /\ Target \in keyed
      BY DEF Batches
    <2>2. Target <= Target
      BY PanelsAssumption
    <2>3. QED BY <2>1, <2>2
  <1>3. /\ IsFiniteSet(upTo) /\ Cardinality(upTo) \in Nat
        /\ Cardinality(upTo) <= Cardinality(Panels)
        /\ Cardinality(Panels) \in Nat
    BY <1>2, PanelsAssumption, FS_Subset, FS_CardinalityType
  <1>4. Cardinality(upTo) # 0
    BY <1>2, <1>3, FS_EmptySet
  <1> HIDE DEF upTo
  <1>5. Cardinality(upTo) \in 1 .. Cardinality(Panels)
    BY <1>3, <1>4
  <1>6. QED BY <1>1, <1>5 DEF upTo, BatchVersion

\* The payload of a call is one.
LEMMA PayloadType ==
  ASSUME NEW p \in Pushes, NEW keyed \in Batches
  PROVE  Payload(p, keyed) \in Payloads
  BY DEF Payload, Payloads, Versions

\* Every payload is a configuration as the receiving side takes it.
LEMMA PayloadsAreConfigs ==
  Payloads \subseteq [version : Nat \ {0}, body : Pushes]
  <1>1. ASSUME NEW v \in Versions PROVE v \in Nat \ {0}
    <2>1. v \in 1 .. Cardinality(Panels) /\ Cardinality(Panels) \in Nat
      BY VersionsPositive, PanelsAssumption, FS_CardinalityType
    <2>2. QED BY <2>1
  <1>2. QED BY <1>1 DEF Payloads

\* A failure is remembered, at the end of the list.
LEMMA RecordType ==
  ASSUME failures \in Seq(0 .. Window - 1), NEW transient \in BOOLEAN,
         RecordFailure(transient)
  PROVE  /\ failures' \in Seq(0 .. Window - 1)
         /\ Len(failures') \in {Len(failures), Len(failures) + 1}
         /\ \A i \in 1 .. Len(failures') :
               failures'[i] = IF i <= Len(failures) THEN failures[i] ELSE 0
  <1>1. 0 \in 0 .. Window - 1
    BY LimitsAssumption
  <1>2. CASE transient
    <2>1. failures' = Append(failures, 0)
      BY <1>2 DEF RecordFailure
    <2>2. /\ Append(failures, 0) \in Seq(0 .. Window - 1)
          /\ Len(Append(failures, 0)) = Len(failures) + 1
          /\ \A i \in 1 .. Len(failures) : Append(failures, 0)[i] = failures[i]
          /\ Append(failures, 0)[Len(failures) + 1] = 0
          /\ Len(failures) \in Nat
      BY <1>1, AppendProperties, LenProperties
    <2>3. \A i \in 1 .. Len(failures) + 1 :
             i \in 1 .. Len(failures) \/ i = Len(failures) + 1
      BY <2>2
    <2>4. QED BY <2>1, <2>2, <2>3
  <1>3. CASE ~transient
    <2>1. failures' = failures /\ Len(failures) \in Nat
      BY <1>3, LenProperties DEF RecordFailure
    <2>2. QED BY <2>1
  <1>4. QED BY <1>2, <1>3

\* Time makes every failure older by one, and takes off the first n.
LEMMA TickType ==
  ASSUME failures \in Seq(0 .. Window - 1), Tick
  PROVE  /\ failures' \in Seq(0 .. Window - 1)
         /\ \E n \in 0 .. Len(failures) :
               /\ Len(failures') = Len(failures) - n
               /\ \A i \in 1 .. Len(failures') :
                     failures'[i] = failures[n + i] + 1
  <1>1. PICK n \in 0 .. Len(failures) :
           /\ \A i \in n + 1 .. Len(failures) : failures[i] < Window - 1
           /\ failures' = [i \in 1 .. Len(failures) - n |-> failures[n+i] + 1]
    BY DEF Tick
  <1>2. /\ Len(failures) \in Nat /\ DOMAIN failures = 1 .. Len(failures)
        /\ \A i \in 1 .. Len(failures) : failures[i] \in 0 .. Window - 1
    BY LenProperties, ElementOfSeq
  <1>3. Len(failures) - n \in Nat
    BY <1>2
  <1>4. ASSUME NEW i \in 1 .. Len(failures) - n
        PROVE  failures[n + i] + 1 \in 0 .. Window - 1
    <2>1. n + i \in 1 .. Len(failures) /\ n + i \in n + 1 .. Len(failures)
      BY <1>2, <1>3
    <2>2. failures[n + i] \in 0 .. Window - 1 /\ failures[n + i] < Window - 1
      BY <1>1, <1>2, <2>1
    <2>3. QED BY <2>2, LimitsAssumption
  <1>5. failures' \in [1 .. Len(failures) - n -> 0 .. Window - 1]
    BY <1>1, <1>4
  <1>6. failures' \in Seq(0 .. Window - 1)
    BY <1>3, <1>5, SeqDef
  <1>7. Len(failures') = Len(failures) - n
    <2>1. DOMAIN failures' = 1 .. Len(failures')
          /\ DOMAIN failures' = 1 .. Len(failures) - n
          /\ Len(failures') \in Nat
      BY <1>5, <1>6, LenProperties
    <2>2. QED BY <1>3, <2>1
  <1>8. QED BY <1>1, <1>6, <1>7

\* A call that sleeps has an attempt left; one under way has made one.
AttemptsLeft == \A p \in Pushes :
    /\ state[p] = "sleeping" => attempt[p] < MaxAttempts
    /\ state[p] \in Running => attempt[p] > 0

\* The breaker remembers the failures in the order they happened: none is
\* older than one before it.
OldestFirst == \A i, j \in 1 .. Len(failures) :
    i <= j => failures[i] >= failures[j]

TypeInv == TypeOK /\ AttemptsLeft /\ OldestFirst

\* The first state is well typed.
LEMMA InitTypeInv == Init => TypeInv
  BY LimitsAssumption, EmptySeq
  DEF Init, TypeInv, TypeOK, AttemptsLeft, OldestFirst, Running

\* Every step keeps the types.
LEMMA NextTypeInv == TypeInv /\ [Next]_vars => TypeInv'
  <1> SUFFICES ASSUME TypeInv, [Next]_vars PROVE TypeInv'
    OBVIOUS
  <1>a. TypeOK /\ AttemptsLeft /\ OldestFirst
        /\ Len(failures) \in Nat
        /\ \A i \in 1 .. Len(failures) : failures[i] \in 0 .. Window - 1
    BY LenProperties, ElementOfSeq DEF TypeInv, TypeOK
  <1> USE DEF Running, Ended
  <1>1. ASSUME NEW p \in Pushes, NEW keyed \in Batches,
               Refuse(p, keyed) \/ Begin(p, keyed)
        PROVE  TypeInv'
    <2>1. Payload(p, keyed) \in Payloads /\ 0 \in 0..MaxAttempts
          /\ 1 \in 0..MaxAttempts
      BY PayloadType, LimitsAssumption
    <2>2. UNCHANGED failures
      BY <1>1 DEF Refuse, Begin
    <2>3. TypeOK'
      <3>1. CASE Refuse(p, keyed)
        BY <1>a, <2>1, <3>1 DEF Refuse, TypeOK
      <3>2. CASE Begin(p, keyed)
        BY <1>a, <2>1, <3>2 DEF Begin, TypeOK
      <3>3. QED BY <1>1, <3>1, <3>2
    <2>4. AttemptsLeft'
      <3>1. CASE Refuse(p, keyed)
        BY <1>a, <3>1 DEF Refuse, TypeOK, AttemptsLeft
      <3>2. CASE Begin(p, keyed)
        <4>1. MaxAttempts \in Nat \ {0} /\ 1 > 0
          BY LimitsAssumption
        <4>2. /\ state'[p] = "waiting" /\ attempt'[p] = 1
              /\ \A q \in Pushes \ {p} :
                    state'[q] = state[q] /\ attempt'[q] = attempt[q]
          BY <1>a, <3>2 DEF Begin, TypeOK
        <4>3. QED BY <1>a, <4>1, <4>2 DEF AttemptsLeft
      <3>3. QED BY <1>1, <3>1, <3>2
    <2>5. QED BY <1>a, <2>2, <2>3, <2>4 DEF TypeInv, OldestFirst
  <1>2. ASSUME NEW p \in Pushes, Succeed(p) PROVE TypeInv'
    <2>1. TypeOK' /\ AttemptsLeft'
      BY <1>a, <1>2, EmptySeq DEF Succeed, TypeOK, AttemptsLeft
    <2>2. OldestFirst'
      BY <1>2, EmptySeq DEF Succeed, OldestFirst
    <2>3. QED BY <2>1, <2>2 DEF TypeInv
  <1>3. ASSUME NEW p \in Pushes, NEW transient \in BOOLEAN,
               AttemptFails(p, transient)
        PROVE  TypeInv'
    <2>1. failures' = failures \/ RecordFailure(transient)
      BY <1>3 DEF AttemptFails
    <2>2. /\ failures' \in Seq(0 .. Window - 1)
          /\ Len(failures') \in {Len(failures), Len(failures) + 1}
          /\ \A i \in 1 .. Len(failures') :
                failures'[i] = IF i <= Len(failures) THEN failures[i] ELSE 0
      BY <1>a, <2>1, RecordType DEF TypeOK
    <2>3. TypeOK' /\ AttemptsLeft'
      BY <1>a, <1>3, <2>2 DEF AttemptFails, TypeOK, AttemptsLeft
    <2>4. OldestFirst'
      BY <1>a, <2>2 DEF OldestFirst
    <2>5. QED BY <2>3, <2>4 DEF TypeInv
  <1>4. ASSUME NEW p \in Pushes, Retry(p) PROVE TypeInv'
    <2>1. attempt[p] \in 0..MaxAttempts /\ attempt[p] < MaxAttempts
      BY <1>a, <1>4 DEF Retry, TypeOK, AttemptsLeft
    <2>2. attempt[p] + 1 \in 0..MaxAttempts /\ attempt[p] + 1 > 0
      BY <2>1, LimitsAssumption
    <2>3. TypeOK' /\ AttemptsLeft' /\ UNCHANGED failures
      BY <1>a, <1>4, <2>2 DEF Retry, TypeOK, AttemptsLeft
    <2>4. QED BY <1>a, <2>3 DEF TypeInv, OldestFirst
  <1>5. CASE Tick
    <2>1. PICK n \in 0 .. Len(failures) :
             /\ failures' \in Seq(0 .. Window - 1)
             /\ Len(failures') = Len(failures) - n
             /\ \A i \in 1 .. Len(failures') :
                   failures'[i] = failures[n + i] + 1
      BY <1>a, <1>5, TickType DEF TypeOK
    <2>2. TypeOK' /\ AttemptsLeft'
      BY <1>a, <1>5, <2>1 DEF Tick, TypeOK, AttemptsLeft
    <2>3. ASSUME NEW i \in 1 .. Len(failures'), NEW j \in 1 .. Len(failures'),
                 i <= j
          PROVE  failures'[i] >= failures'[j]
      <3>1. /\ n + i \in 1 .. Len(failures) /\ n + j \in 1 .. Len(failures)
            /\ n + i <= n + j
        BY <1>a, <2>1, <2>3
      <3>2. failures[n + i] >= failures[n + j]
        BY <1>a, <3>1 DEF OldestFirst
      <3>3. failures[n + i] \in Int /\ failures[n + j] \in Int
        BY <1>a, <3>1
      <3>4. QED BY <2>1, <3>2, <3>3
    <2>4. QED BY <2>2, <2>3 DEF TypeInv, OldestFirst
  <1>6. CASE Restart
    <2>1. TypeOK' /\ AttemptsLeft'
      BY <1>6, EmptySeq, LimitsAssumption DEF Restart, TypeOK, AttemptsLeft
    <2>2. OldestFirst'
      BY <1>6, EmptySeq DEF Restart, OldestFirst
    <2>3. QED BY <2>1, <2>2 DEF TypeInv
  <1>7. CASE UNCHANGED vars
    BY <1>a, <1>7 DEF vars, TypeInv, TypeOK, AttemptsLeft, OldestFirst
  <1>8. QED
    BY <1>1, <1>2, <1>3, <1>4, <1>5, <1>6, <1>7 DEF Next

\* Types, attempts and the order of the failures, in every state.
LEMMA TypeInvHolds == Spec => []TypeInv
  BY InitTypeInv, NextTypeInv, PTL DEF Spec

\* Whatever the panel answers, and when, every call is where its type says
\* and makes no more attempts than there are delays.
THEOREM TypeCorrect == Spec => []TypeOK
  <1>1. TypeInv => TypeOK
    BY DEF TypeInv
  <1>2. QED BY <1>1, TypeInvHolds, PTL

\* The breaker's list is in the order of time, so that its window is a
\* suffix of it: Tick may drop from the front.
THEOREM InOrder == Spec => []OldestFirst
  <1>1. TypeInv => OldestFirst
    BY DEF TypeInv
  <1>2. QED BY <1>1, TypeInvHolds, PTL

-----------------------------------------------------------------------------
(* The clock never stops: some prefix is what has reached the window *)

\* A set of naturals that is not empty has a least member.
LEMMA NatMinimum ==
  ASSUME NEW S \in SUBSET Nat, S # {}
  PROVE  \E m \in S : \A n \in S : m <= n
  <1>1. IsWellFoundedOn(OpToRel(<, Nat), Nat)
    BY NatLessThanWellFounded
  <1>2. PICK m \in S : \A n \in S : ~ (<<n, m>> \in OpToRel(<, Nat))
    BY <1>1, WFMin
  <1>3. \A n \in S : ~ (n < m)
    <2>1. SUFFICES ASSUME NEW n \in S, n < m PROVE FALSE
      OBVIOUS
    <2>2. <<n, m>> \in OpToRel(<, Nat)
      BY <2>1 DEF OpToRel
    <2>3. QED BY <1>2, <2>2
  <1>4. QED BY <1>3

\* The condition of Tick on what it drops is met by some number, whatever
\* failures are remembered.
LEMMA SomePrefixExpired ==
  ASSUME TypeInv
  PROVE  \E n \in 0 .. Len(failures) :
            /\ \A i \in 1..n : failures[i] = Window - 1
            /\ \A i \in n + 1 .. Len(failures) : failures[i] < Window - 1
  <1>1. /\ Len(failures) \in Nat /\ Window \in Nat \ {0}
        /\ \A i \in 1 .. Len(failures) : failures[i] \in 0 .. Window - 1
        /\ OldestFirst
    BY LenProperties, ElementOfSeq, LimitsAssumption DEF TypeInv, TypeOK
  <1> DEFINE Recent == {i \in 1 .. Len(failures) : failures[i] < Window - 1}
  <1>2. CASE Recent = {}
    <2>1. \A i \in 1 .. Len(failures) : failures[i] = Window - 1
      BY <1>1, <1>2
    <2>2. Len(failures) \in 0 .. Len(failures)
          /\ Len(failures) + 1 .. Len(failures) = {}
      BY <1>1
    <2>3. QED BY <2>1, <2>2
  <1>3. CASE Recent # {}
    <2>a. Recent \in SUBSET Nat
      BY <1>1
    <2> HIDE DEF Recent
    <2>1. PICK m \in Recent : \A i \in Recent : m <= i
      BY <2>a, <1>3, NatMinimum
    <2> USE DEF Recent
    <2>2. m \in 1 .. Len(failures) /\ m - 1 \in 0 .. Len(failures)
          /\ failures[m] < Window - 1
      BY <1>1
    <2>3. ASSUME NEW i \in 1 .. m - 1 PROVE failures[i] = Window - 1
      <3>1. i \in 1 .. Len(failures) /\ i < m
        BY <1>1, <2>2
      <3>2. i \notin Recent
        BY <1>1, <2>1, <2>2, <3>1
      <3>3. QED BY <1>1, <3>1, <3>2
    <2>4. ASSUME NEW i \in (m - 1) + 1 .. Len(failures)
          PROVE  failures[i] < Window - 1
      <3>1. i \in 1 .. Len(failures) /\ m <= i
        BY <1>1, <2>2
      <3>2. failures[m] >= failures[i]
        BY <1>1, <2>2, <3>1 DEF OldestFirst
      <3>3. QED BY <1>1, <2>2, <3>1, <3>2
    <2>5. QED BY <2>2, <2>3, <2>4
  <1>4. QED BY <1>2, <1>3

-----------------------------------------------------------------------------
(* The breaker's threshold and the calls that have passed it *)

UnderWay == {p \in Pushes : state[p] \in Running}

\* The calls under way, and how many of them there can be.
LEMMA UnderWayBounded ==
  ASSUME NEW S \in SUBSET Pushes
  PROVE  /\ IsFiniteSet(S) /\ Cardinality(S) \in Nat
         /\ Cardinality(Pushes) \in Nat
         /\ Cardinality(S) <= Cardinality(Pushes)
  BY PushesAssumption, FS_Subset, FS_CardinalityType

\* The bound of BreakerOvershootBounded, with the calls under way named.
Bounded ==
    Len(failures) + Cardinality(UnderWay)
        <= (MaxFailures - 1) + Cardinality(Pushes)

\* A step keeps the bound when it makes the list no longer and adds no call,
\* or removes a call for the failure it adds.
LEMMA NextBounded ==
  TypeInv /\ Bounded /\ [Next]_vars => Bounded'
  <1> SUFFICES ASSUME TypeInv, Bounded, [Next]_vars PROVE Bounded'
    OBVIOUS
  <1>a. /\ TypeOK /\ state \in [Pushes -> {"new"} \cup Running \cup Ended]
        /\ Len(failures) \in Nat /\ MaxFailures \in Nat \ {0}
        /\ TypeInv'
    BY LenProperties, LimitsAssumption, NextTypeInv DEF TypeInv, TypeOK
  <1>b. Len(failures') \in Nat
    BY <1>a, LenProperties DEF TypeInv, TypeOK
  <1>c. /\ UnderWay \in SUBSET Pushes /\ UnderWay' \in SUBSET Pushes
        /\ IsFiniteSet(UnderWay)
        /\ Cardinality(UnderWay) \in Nat /\ Cardinality(UnderWay') \in Nat
        /\ Cardinality(Pushes) \in Nat
        /\ Cardinality(UnderWay') <= Cardinality(Pushes)
    <2>1. UnderWay \in SUBSET Pushes /\ UnderWay' \in SUBSET Pushes
      BY DEF UnderWay
    <2>2. QED BY <2>1, UnderWayBounded
  \* The three ways a step can keep the bound.
  <1>d. ASSUME Len(failures') <= MaxFailures - 1 PROVE Bounded'
    BY <1>a, <1>b, <1>c, <1>d DEF Bounded
  <1>e. ASSUME Len(failures') <= Len(failures), UnderWay' = UnderWay
        PROVE  Bounded'
    BY <1>a, <1>b, <1>c, <1>e DEF Bounded
  <1>f. ASSUME NEW p \in UnderWay, UnderWay' = UnderWay \ {p},
               Len(failures') <= Len(failures) + 1
        PROVE  Bounded'
    <2>1. Cardinality(UnderWay') = Cardinality(UnderWay) - 1
      BY <1>c, <1>f, FS_RemoveElement
    <2>2. QED BY <1>a, <1>b, <1>c, <1>f, <2>1 DEF Bounded
  <1> USE DEF Running, Ended
  <1>1. ASSUME NEW p \in Pushes, NEW keyed \in Batches, Refuse(p, keyed)
        PROVE  Bounded'
    <2>1. UNCHANGED failures /\ UnderWay' = UnderWay
      BY <1>a, <1>1 DEF Refuse, UnderWay
    <2>2. QED BY <1>a, <1>e, <2>1
  <1>2. ASSUME NEW p \in Pushes, NEW keyed \in Batches, Begin(p, keyed)
        PROVE  Bounded'
    <2>1. UNCHANGED failures /\ Len(failures) < MaxFailures
      BY <1>a, <1>2 DEF Begin, Degraded
    <2>2. QED BY <1>a, <1>d, <2>1
  <1>3. ASSUME NEW p \in Pushes, Succeed(p) PROVE Bounded'
    <2>1. Len(failures') = 0
      BY <1>3, EmptySeq DEF Succeed
    <2>2. QED BY <1>a, <1>d, <2>1
  <1>4. ASSUME NEW p \in Pushes, NEW transient \in BOOLEAN,
               AttemptFails(p, transient)
        PROVE  Bounded'
    <2>1. CASE attempt[p] < MaxAttempts /\ state'[p] = "sleeping"
      <3>1. UNCHANGED failures
        BY <1>a, <1>4, <2>1 DEF AttemptFails, TypeOK
      <3>2. UnderWay' = UnderWay
        BY <1>a, <1>4, <2>1 DEF AttemptFails, UnderWay
      <3>3. QED BY <1>a, <1>e, <3>1, <3>2
    <2>2. CASE RecordFailure(transient) /\ state'[p] = "failed"
      <3>1. Len(failures') <= Len(failures) + 1
        <4>1. Len(failures') \in {Len(failures), Len(failures) + 1}
          BY <1>a, <2>2, RecordType DEF TypeOK
        <4>2. QED BY <1>a, <4>1
      <3>2. p \in UnderWay /\ UnderWay' = UnderWay \ {p}
        BY <1>a, <1>4, <2>2 DEF AttemptFails, UnderWay
      <3>3. QED BY <1>f, <3>1, <3>2
    <2>3. QED BY <1>a, <1>4, <2>1, <2>2 DEF AttemptFails
  <1>5. ASSUME NEW p \in Pushes, Retry(p) PROVE Bounded'
    <2>1. UNCHANGED failures /\ UnderWay' = UnderWay
      BY <1>a, <1>5 DEF Retry, UnderWay
    <2>2. QED BY <1>a, <1>e, <2>1
  <1>6. CASE Tick
    <2>1. Len(failures') <= Len(failures)
      <3>1. PICK n \in 0 .. Len(failures) : Len(failures') = Len(failures) - n
        BY <1>a, <1>6, TickType DEF TypeOK
      <3>2. QED BY <1>a, <3>1
    <2>2. UnderWay' = UnderWay
      BY <1>6 DEF Tick, UnderWay
    <2>3. QED BY <1>e, <2>1, <2>2
  <1>7. CASE Restart
    <2>1. Len(failures') = 0
      BY <1>7, EmptySeq DEF Restart
    <2>2. QED BY <1>a, <1>d, <2>1
  <1>8. CASE UNCHANGED vars
    <2>1. UNCHANGED failures /\ UnderWay' = UnderWay
      BY <1>8 DEF vars, UnderWay
    <2>2. QED BY <1>a, <1>e, <2>1
  <1>9. QED
    BY <1>1, <1>2, <1>3, <1>4, <1>5, <1>6, <1>7, <1>8 DEF Next

\* However many pushes overlap, whatever the panel answers and whenever the
\* window moves: the failures the breaker remembers outgrow its threshold by
\* no more than the calls that could have passed it together.
THEOREM BreakerBounded == Spec => []BreakerOvershootBounded
  <1>1. Init => Bounded
    <2>1. SUFFICES ASSUME Init PROVE Bounded
      OBVIOUS
    <2>2. Len(failures) = 0
      BY <2>1, EmptySeq DEF Init
    <2>3. /\ Cardinality(UnderWay) \in Nat /\ Cardinality(Pushes) \in Nat
          /\ Cardinality(UnderWay) <= Cardinality(Pushes)
      BY UnderWayBounded DEF UnderWay
    <2>4. QED BY <2>2, <2>3, LimitsAssumption DEF Bounded
  <1>2. Bounded => BreakerOvershootBounded
    BY DEF Bounded, UnderWay, BreakerOvershootBounded
  <1>3. QED
    BY <1>1, <1>2, NextBounded, TypeInvHolds, PTL DEF Spec

-----------------------------------------------------------------------------
(* A push cannot go on for ever *)

\* How many steps a call that is under way can still take: for each delay
\* that is left a request and a sleep.
Left(p) ==
    CASE state[p] = "waiting"  -> 2 * (MaxAttempts - attempt[p]) + 2
      [] state[p] = "sleeping" -> 2 * (MaxAttempts - attempt[p]) + 1
      [] OTHER                 -> 0

\* What a step that moves a call under way does to its measure.
MovesDown(p) ==
    (/\ state[p] \in Running
     /\ <<state[p], attempt[p]>>' # <<state[p], attempt[p]>>)
        => Left(p)' < Left(p)

\* The measure is a number, at most two for each attempt a call may make,
\* and positive as long as the call is under way.
LEMMA LeftType ==
  ASSUME TypeInv, NEW p \in Pushes
  PROVE  /\ Left(p) \in 0 .. 2 * MaxAttempts
         /\ state[p] \in Running => Left(p) > 0
  <1>1. /\ MaxAttempts \in Nat \ {0} /\ attempt[p] \in 0..MaxAttempts
        /\ state[p] = "sleeping" => attempt[p] < MaxAttempts
        /\ state[p] \in Running => attempt[p] > 0
    BY LimitsAssumption DEF TypeInv, TypeOK, AttemptsLeft
  <1>2. CASE state[p] = "waiting"
    BY <1>1, <1>2 DEF Left, Running
  <1>3. CASE state[p] = "sleeping"
    BY <1>1, <1>3 DEF Left, Running
  <1>4. CASE state[p] \notin Running
    BY <1>1, <1>4 DEF Left, Running
  <1>5. QED BY <1>2, <1>3, <1>4 DEF Running

\* Every step that moves a call under way brings it nearer to its end.
LEMMA NextMovesDown ==
  TypeInv /\ [Next]_vars => \A p \in Pushes : MovesDown(p)
  <1> SUFFICES ASSUME TypeInv, [Next]_vars, NEW p \in Pushes,
                      state[p] \in Running,
                      <<state[p], attempt[p]>>' # <<state[p], attempt[p]>>
               PROVE  Left(p)' < Left(p)
    BY DEF MovesDown
  <1>a. /\ state \in [Pushes -> {"new"} \cup Running \cup Ended]
        /\ attempt \in [Pushes -> 0..MaxAttempts]
        /\ MaxAttempts \in Nat \ {0}
        /\ attempt[p] \in 0..MaxAttempts
    BY LimitsAssumption DEF TypeInv, TypeOK
  <1>b. Left(p) \in 0 .. 2 * MaxAttempts /\ Left(p) > 0
    BY LeftType
  \* A call that ends has nothing left.
  <1>c. ASSUME state'[p] \notin Running PROVE Left(p)' < Left(p)
    BY <1>b, <1>c DEF Left, Running
  <1>1. ASSUME NEW q \in Pushes, NEW keyed \in Batches,
               Refuse(q, keyed) \/ Begin(q, keyed)
        PROVE  FALSE
    <2>1. q # p
      BY <1>1 DEF Refuse, Begin
    <2>2. state'[p] = state[p] /\ attempt'[p] = attempt[p]
      BY <1>a, <1>1, <2>1 DEF Refuse, Begin
    <2>3. QED BY <2>2
  <1>2. ASSUME NEW q \in Pushes, Succeed(q) PROVE Left(p)' < Left(p)
    <2>1. q = p
      BY <1>a, <1>2 DEF Succeed
    <2>2. state'[p] = "success"
      BY <1>a, <1>2, <2>1 DEF Succeed
    <2>3. QED BY <1>c, <2>2 DEF Running
  <1>3. ASSUME NEW q \in Pushes, NEW transient \in BOOLEAN,
               AttemptFails(q, transient)
        PROVE  Left(p)' < Left(p)
    <2>1. q = p
      BY <1>a, <1>3 DEF AttemptFails
    <2>2. state[p] = "waiting" /\ attempt'[p] = attempt[p]
      BY <1>3, <2>1 DEF AttemptFails
    <2>3. state'[p] \in {"sleeping", "failed"}
      BY <1>a, <1>3, <2>1 DEF AttemptFails
    <2>4. CASE state'[p] = "sleeping"
      <3>1. Left(p) = 2 * (MaxAttempts - attempt[p]) + 2
        BY <2>2 DEF Left
      <3>2. Left(p)' = 2 * (MaxAttempts - attempt[p]) + 1
        BY <2>2, <2>4 DEF Left
      <3>3. QED BY <1>a, <3>1, <3>2
    <2>5. QED BY <1>c, <2>3, <2>4 DEF Running
  <1>4. ASSUME NEW q \in Pushes, Retry(q) PROVE Left(p)' < Left(p)
    <2>1. q = p
      BY <1>a, <1>4 DEF Retry
    <2>2. /\ state[p] = "sleeping" /\ state'[p] = "waiting"
          /\ attempt'[p] = attempt[p] + 1
      BY <1>a, <1>4, <2>1 DEF Retry
    <2>3. Left(p) = 2 * (MaxAttempts - attempt[p]) + 1
      BY <2>2 DEF Left
    <2>4. Left(p)' = 2 * (MaxAttempts - (attempt[p] + 1)) + 2
      BY <2>2 DEF Left
    <2>5. QED BY <1>a, <2>3, <2>4
  <1>5. CASE Restart
    <2>1. state'[p] = "new"
      BY <1>5 DEF Restart
    <2>2. QED BY <1>c, <2>1 DEF Running
  <1>6. CASE Tick \/ UNCHANGED vars
    BY <1>6 DEF Tick, vars
  <1>7. QED
    BY <1>1, <1>2, <1>3, <1>4, <1>5, <1>6 DEF Next

\* Whatever the panel answers, and however the other calls and the breaker
\* interfere, every step of a call under way brings it nearer to its end: at
\* most two steps for each of its attempts, and none of them is undone before
\* it has ended.  What fairness must add for PushEnds is that it keeps moving.
THEOREM PushesRunDown ==
  Spec => /\ [](\A p \in Pushes : Left(p) \in 0 .. 2 * MaxAttempts)
          /\ [][\A p \in Pushes : MovesDown(p)]_vars
  <1>1. TypeInv => \A p \in Pushes : Left(p) \in 0 .. 2 * MaxAttempts
    BY LeftType
  <1>2. QED BY <1>1, TypeInvHolds, NextMovesDown, PTL DEF Spec
=============================================================================
