-------------------------- MODULE PanelHealth_proofs --------------------------
(***************************************************************************)
(* Proofs about PanelHealth, for any number of panels and any limits that  *)
(* LimitsAssumption allows.                                                *)
(***************************************************************************)
EXTENDS PanelHealth, TLAPS

-----------------------------------------------------------------------------
(* Types *)

\* The first state is well typed.
LEMMA InitTypeOK == Init => TypeOK
  BY LimitsAssumption DEF Init, TypeOK, NoProbe

\* A failure count stays where it saturates, and one that has reached the
\* limit never falls below it by a failure.
LEMMA CountType ==
  ASSUME TypeOK, NEW p \in Panels
  PROVE  /\ Count(p) \in 1..MaxCount
         /\ failures[p] # Absent /\ failures[p] >= Limit => Count(p) >= Limit
         /\ failures[p] # Absent => Count(p) <= failures[p] + 1
         /\ failures[p] = Absent => Count(p) = 1
  BY LimitsAssumption, AbsentAssumption DEF TypeOK, Count

\* What the cycle writes for a tested panel is well typed.
LEMMA TestedType ==
  ASSUME TypeOK, NEW p \in Panels, Reached(p) \/ Unreached(p)
  PROVE  /\ failures' \in [Panels -> (0..MaxCount) \cup {Absent}]
         /\ fallback' \subseteq Panels
         /\ snapshot' \in [Panels -> Snapshots \cup {Absent}]
  <1>1. Count(p) \in 0..MaxCount
    BY CountType, LimitsAssumption
  <1>2. CASE Reached(p)
    BY <1>2, LimitsAssumption DEF TypeOK, Reached, Snap, Snapshots
  <1>3. CASE Unreached(p)
    <2>1. fallback' \subseteq Panels
      BY <1>3 DEF TypeOK, Unreached
    <2>2. failures' \in [Panels -> (0..MaxCount) \cup {Absent}]
      BY <1>1, <1>3 DEF TypeOK, Unreached
    <2>3. \E s \in {"offline", "degraded"} : Snap(p, s, p \in fallback')
      BY <1>3 DEF Unreached
    <2>4. QED BY <2>1, <2>2, <2>3 DEF TypeOK, Snap, Snapshots
  <1>4. QED BY <1>2, <1>3

\* Every step keeps the types.
LEMMA NextTypeOK == TypeOK /\ [Next]_vars => TypeOK'
  <1> SUFFICES ASSUME TypeOK, [Next]_vars PROVE TypeOK'
    OBVIOUS
  <1> USE DEF dbVars, envVars, mapVars, listVars, cycleVars
  <1>1. ASSUME NEW p \in Panels, WriteRow(p) PROVE TypeOK'
    BY <1>1 DEF WriteRow, TypeOK
  <1>2. ASSUME NEW p \in Panels, DeleteRow(p) PROVE TypeOK'
    BY <1>2 DEF DeleteRow, TypeOK
  <1>3. ASSUME NEW p \in Panels, Invalidate(p) PROVE TypeOK'
    BY <1>3, LimitsAssumption DEF Invalidate, invalidatePanelListCache, TypeOK
  <1>4. ASSUME NEW p \in Panels, evictPanel(p) PROVE TypeOK'
    BY <1>4, LimitsAssumption DEF evictPanel, invalidatePanelListCache, TypeOK
  <1>5. ASSUME NEW p \in Panels, Reachability(p) PROVE TypeOK'
    BY <1>5 DEF Reachability, TypeOK
  <1>6. CASE Interval
    BY <1>6, LimitsAssumption DEF Interval, StartCycle, Less, TypeOK
  <1>7. CASE QueryPanels
    BY <1>7 DEF QueryPanels, Active, TypeOK
  <1>8. CASE CacheList
    BY <1>8, LimitsAssumption DEF CacheList, TypeOK
  <1>9. CASE EndCycle
    BY <1>9, LimitsAssumption DEF EndCycle, TypeOK
  <1>10. CASE PanelTested
    <2>1. probe.panel \in Panels
      BY <1>10 DEF PanelTested, TypeOK
    <2>2. Reached(probe.panel) \/ Unreached(probe.panel)
      BY <1>10 DEF PanelTested
    <2>3. QED BY <1>10, <2>1, <2>2, TestedType DEF PanelTested, NoProbe, TypeOK
  <1>11. ASSUME NEW p \in Panels, TestPanel(p) PROVE TypeOK'
    BY <1>11 DEF TestPanel, Registered, TypeOK
  <1>12. CASE QueryFails
    BY <1>12, LimitsAssumption DEF QueryFails, TypeOK
  <1>13. CASE LookupFails
    BY <1>13 DEF LookupFails, NoProbe, TypeOK
  <1>14. CASE Restart
    BY <1>14, LimitsAssumption
       DEF Restart, invalidatePanelListCache, NoProbe, TypeOK
  <1>15. CASE Settle
    BY <1>15 DEF Settle, TypeOK
  <1>16. CASE UNCHANGED vars
    BY <1>16 DEF vars, TypeOK
  <1>17. QED
    BY <1>1, <1>2, <1>3, <1>4, <1>5, <1>6, <1>7, <1>8, <1>9, <1>10, <1>11,
       <1>12, <1>13, <1>14, <1>15, <1>16 DEF Next, Cycle

\* Type correctness of the health checks and of the panel routes.
THEOREM TypeCorrect == Spec => []TypeOK
  <1>1. QED BY InitTypeOK, NextTypeOK, PTL DEF Spec

-----------------------------------------------------------------------------
(* Fallback set, counts and snapshots *)

\* Every step keeps them consistent.
LEMMA NextFallbackConsistent ==
  TypeOK /\ FallbackConsistent /\ [Next]_vars => FallbackConsistent'
  <1> SUFFICES ASSUME TypeOK, FallbackConsistent, [Next]_vars
               PROVE  FallbackConsistent'
    OBVIOUS
  <1>1. CASE mapVars' = mapVars
    BY <1>1 DEF mapVars, FallbackConsistent
  <1>2. ASSUME NEW p \in Panels, evictPanel(p) PROVE FallbackConsistent'
    BY <1>2 DEF evictPanel, TypeOK, FallbackConsistent
  <1>3. CASE Restart
    BY <1>3 DEF Restart, FallbackConsistent
  <1>4. CASE PanelTested
    <2>1. PICK p \in Panels : Reached(p) \/ Unreached(p)
      BY <1>4 DEF PanelTested, TypeOK
    <2>2. CASE Reached(p)
      BY <2>2, AbsentAssumption
         DEF Reached, Snap, Snapshots, TypeOK, FallbackConsistent
    <2>3. CASE Unreached(p)
      <3>1. PICK s \in {"offline", "degraded"} : Snap(p, s, p \in fallback')
        BY <2>3 DEF Unreached
      <3>2. [status |-> s, isFallback |-> p \in fallback'] \in Snapshots
        BY DEF Snapshots
      <3>3. /\ snapshot'[p] # Absent
            /\ snapshot'[p].isFallback <=> p \in fallback'
        BY <3>1, <3>2, AbsentAssumption DEF Snap, TypeOK
      <3>4. \A q \in Panels \ {p} : /\ snapshot'[q] = snapshot[q]
                                    /\ failures'[q] = failures[q]
                                    /\ q \in fallback' <=> q \in fallback
        BY <2>3, <3>1 DEF Unreached, Snap, TypeOK
      <3>5. p \in fallback' => failures'[p] # Absent /\ failures'[p] >= Limit
        <4>1. failures'[p] = Count(p)
          BY <2>3 DEF Unreached, TypeOK
        <4> Count(p) \in Nat /\ Count(p) # Absent
          BY CountType, LimitsAssumption, AbsentAssumption
        <4>2. CASE p \in fallback
          <5>1. failures[p] # Absent /\ failures[p] >= Limit
            BY <4>2 DEF FallbackConsistent
          <5>2. Count(p) >= Limit
            BY <5>1, CountType
          <5>3. QED BY <4>1, <5>2
        <4>3. CASE p \notin fallback
          <5>1. p \in fallback' => Count(p) >= Limit
            BY <2>3, <4>3 DEF Unreached
          <5>2. QED BY <4>1, <5>1, CountType, LimitsAssumption
        <4>4. QED BY <4>2, <4>3
      <3>6. QED BY <3>3, <3>4, <3>5 DEF FallbackConsistent
    <2>4. QED BY <2>1, <2>2, <2>3
  <1>5. QED
    BY <1>1, <1>2, <1>3, <1>4
       DEF Next, Cycle, WriteRow, DeleteRow, Invalidate, Reachability, Settle,
           Interval, QueryPanels, CacheList, EndCycle, TestPanel, QueryFails,
           LookupFails, mapVars, vars

\* The status API never contradicts the fallback set, and only panels with
\* Limit failed probes in a row are in it.
THEOREM FallbackHolds == Spec => []FallbackConsistent
  <1>1. Init => FallbackConsistent
    BY DEF Init, FallbackConsistent
  <1>2. QED BY <1>1, TypeCorrect, NextFallbackConsistent, PTL DEF Spec

-----------------------------------------------------------------------------
(* Deleted panels *)

Counted(p)   == IF failures[p] = Absent THEN 0 ELSE failures[p]
UnderTest(p) == IF p \in todo \/ (cycle = "testing" /\ probe.panel = p)
                THEN 1 ELSE 0
ToCome(p)    == IF p \in list /\ listLife > 0 THEN listLife - 1 ELSE 0

\* The failures of a deleted panel, counted, under way and still to come from
\* the cached list, are never more than the uses a list can have.
Budget(p) ==
    /\ cycle = "queried" /\ p \in todo => Counted(p) = 0
    /\ Counted(p) + UnderTest(p) + ToCome(p) <= ListTTL + 1

\* The cycle tests each panel of its list once.
CycleInv ==
    /\ cycle \in {"idle", "query"} => todo = {}
    /\ cycle = "testing" => probe.panel \notin todo

EvictedInv ==
    /\ CycleInv
    /\ \A p \in Panels : Evicted(p) => Budget(p)

\* Counted is a number, and a failed probe adds at most one to it.
LEMMA CountedType ==
  ASSUME TypeOK, NEW p \in Panels
  PROVE  /\ Counted(p) \in Nat
         /\ UnderTest(p) \in 0..1
         /\ ToCome(p) \in Nat
         /\ Count(p) <= Counted(p) + 1
  <1>1. Counted(p) \in Nat /\ Count(p) <= Counted(p) + 1
    BY CountType, LimitsAssumption DEF TypeOK, Counted
  <1>2. ToCome(p) \in Nat
    BY LimitsAssumption DEF TypeOK, ToCome
  <1>3. QED BY <1>1, <1>2 DEF UnderTest

\* Every step keeps the cycle's invariant.
LEMMA NextCycleInv == TypeOK /\ CycleInv /\ [Next]_vars => CycleInv'
  <1> SUFFICES ASSUME TypeOK, CycleInv, [Next]_vars PROVE CycleInv'
    OBVIOUS
  <1>1. CASE UNCHANGED cycleVars
    BY <1>1 DEF cycleVars, CycleInv
  <1>2. CASE Interval
    BY <1>2 DEF Interval, StartCycle, CycleInv
  <1>3. CASE Cycle
    BY <1>3 DEF Cycle, QueryPanels, CacheList, EndCycle, PanelTested,
                TestPanel, CycleInv
  <1>4. CASE QueryFails \/ LookupFails \/ Restart
    BY <1>4 DEF QueryFails, LookupFails, Restart, CycleInv
  <1>5. QED
    BY <1>1, <1>2, <1>3, <1>4
       DEF Next, WriteRow, DeleteRow, Invalidate, evictPanel, Reachability,
           Settle, cycleVars, vars

\* A deleted panel that a step leaves alone keeps its budget; the step may
\* forget the list.
LEMMA BudgetKept ==
  ASSUME TypeOK, NEW p \in Panels, Budget(p),
         UNCHANGED cycleVars, failures'[p] = failures[p],
         UNCHANGED listVars \/ invalidatePanelListCache
  PROVE  Budget(p)'
  <1>1. Counted(p)' = Counted(p) /\ UnderTest(p)' = UnderTest(p)
    BY DEF Counted, UnderTest, cycleVars
  <1>2. ToCome(p)' <= ToCome(p)
    BY LimitsAssumption
       DEF ToCome, TypeOK, listVars, invalidatePanelListCache
  <1>3. ToCome(p)' \in Nat
    BY LimitsAssumption
       DEF ToCome, TypeOK, listVars, invalidatePanelListCache
  <1>4. QED
    BY <1>1, <1>2, <1>3, CountedType, LimitsAssumption
       DEF Budget, cycleVars

\* An evicted panel starts with one failure at most: the one under way.
LEMMA BudgetAtEviction ==
  ASSUME TypeOK, NEW p \in Panels, evictPanel(p)
  PROVE  Budget(p)'
  <1>1. Counted(p)' = 0
    BY DEF evictPanel, TypeOK, Counted
  <1>2. ToCome(p)' = 0
    BY DEF evictPanel, invalidatePanelListCache, ToCome
  <1>3. UnderTest(p)' \in 0..1
    BY DEF UnderTest
  <1>4. QED BY <1>1, <1>2, <1>3, LimitsAssumption DEF Budget

\* The interval: a cycle moves one unit from the list to the panel under test.
LEMMA BudgetOverInterval ==
  ASSUME TypeOK, CycleInv, NEW p \in Panels, Budget(p), Interval
  PROVE  Budget(p)'
  <1>1. Counted(p)' = Counted(p)
    BY DEF Interval, mapVars, Counted
  <1>2. listLife \in Nat /\ listLife' = Less(listLife) /\ list' = list
    BY LimitsAssumption DEF Interval, TypeOK
  <1>3. CASE cycle # "idle"
    <2>1. UnderTest(p)' = UnderTest(p)
      BY <1>3 DEF Interval, UnderTest
    <2>2. ToCome(p)' \in Nat /\ ToCome(p)' <= ToCome(p)
      BY <1>2 DEF ToCome, Less
    <2>3. (cycle = "queried" /\ p \in todo)' => cycle = "queried" /\ p \in todo
      BY <1>3 DEF Interval
    <2>4. QED
      BY <1>1, <2>1, <2>2, <2>3, CountedType, LimitsAssumption DEF Budget
  <1>4. CASE cycle = "idle"
    <2>1. UnderTest(p) = 0
      BY <1>4 DEF CycleInv, UnderTest
    <2>2. UnderTest(p)' + ToCome(p)' <= ToCome(p)
      BY <1>2, <1>4 DEF Interval, StartCycle, UnderTest, ToCome, Less
    <2>3. ToCome(p)' \in Nat /\ UnderTest(p)' \in 0..1
      BY <1>2 DEF ToCome, Less, UnderTest
    <2>4. cycle' # "queried"
      BY <1>4 DEF Interval, StartCycle
    <2>5. QED
      BY <1>1, <2>1, <2>2, <2>3, <2>4, CountedType, LimitsAssumption DEF Budget
  <1>5. QED BY <1>3, <1>4

\* The cycle: a panel tested costs one, and a new list lives for what is left.
LEMMA BudgetOverCycle ==
  ASSUME TypeOK, CycleInv, NEW p \in Panels, Evicted(p), Budget(p), Cycle
  PROVE  Budget(p)'
  <1>1. CASE QueryPanels
    <2>1. p \notin todo' /\ cycle' # "testing"
      BY <1>1 DEF QueryPanels, Active, Evicted
    <2>2. Counted(p)' = Counted(p) /\ ToCome(p)' = ToCome(p)
      BY <1>1 DEF QueryPanels, mapVars, listVars, Counted, ToCome
    <2>3. UnderTest(p)' = 0
      BY <2>1 DEF UnderTest
    <2>4. QED BY <2>1, <2>2, <2>3, CountedType, LimitsAssumption DEF Budget
  <1>2. CASE CacheList
    <2>1. /\ Counted(p)' = Counted(p)
          /\ cycle' = "loop" /\ todo' = todo /\ list' = todo
          /\ listLife' \in 0 .. (ListTTL - cycleAge) + 1
          /\ cycleAge \in 0..ListTTL
      BY <1>2 DEF CacheList, mapVars, Counted, TypeOK
    <2>2. CASE p \notin todo
      <3>1. UnderTest(p)' = 0 /\ ToCome(p)' = 0
        BY <2>1, <2>2 DEF UnderTest, ToCome
      <3>2. QED BY <2>1, <3>1, CountedType, LimitsAssumption DEF Budget
    <2>3. CASE p \in todo
      <3>1. Counted(p) = 0
        BY <1>2, <2>3 DEF CacheList, Budget
      <3>2. UnderTest(p)' = 1 /\ ToCome(p)' <= ListTTL /\ ToCome(p)' \in Nat
        <4>1. UnderTest(p)' = 1
          BY <2>1, <2>3 DEF UnderTest
        <4>2. listLife' \in 0 .. (ListTTL + 1)
          BY <2>1, LimitsAssumption
        <4>3. /\ ToCome(p)' \in {0, listLife' - 1}
              /\ listLife' = 0 => ToCome(p)' = 0
          BY <4>2 DEF ToCome
        <4>4. QED BY <4>1, <4>2, <4>3, LimitsAssumption
      <3>3. QED BY <2>1, <3>1, <3>2, LimitsAssumption DEF Budget
    <2>4. QED BY <2>2, <2>3
  <1>3. CASE EndCycle
    <2>1. Counted(p)' = Counted(p) /\ ToCome(p)' = ToCome(p)
      BY <1>3 DEF EndCycle, mapVars, listVars, Counted, ToCome
    <2>2. UnderTest(p)' = 0 /\ cycle' # "queried"
      BY <1>3 DEF EndCycle, UnderTest
    <2>3. QED BY <2>1, <2>2, CountedType, LimitsAssumption DEF Budget
  <1>4. ASSUME NEW q \in Panels, TestPanel(q) PROVE Budget(p)'
    <2>1. Counted(p)' = Counted(p) /\ ToCome(p)' = ToCome(p)
      BY <1>4 DEF TestPanel, mapVars, listVars, Counted, ToCome
    <2>2. UnderTest(p)' <= UnderTest(p) /\ UnderTest(p)' \in 0..1
      BY <1>4 DEF TestPanel, UnderTest
    <2>3. cycle' # "queried"
      BY <1>4 DEF TestPanel
    <2>4. QED BY <2>1, <2>2, <2>3, CountedType, LimitsAssumption DEF Budget
  <1>5. CASE PanelTested
    <2>1. ToCome(p)' = ToCome(p) /\ cycle' = "loop" /\ todo' = todo
      BY <1>5 DEF PanelTested, listVars, ToCome
    <2>2. PICK q \in Panels : q = probe.panel /\ (Reached(q) \/ Unreached(q))
      BY <1>5 DEF PanelTested, TypeOK
    <2>3. CASE p # q
      <3>1. failures'[p] = failures[p]
        BY <2>2, <2>3 DEF Reached, Unreached, TypeOK
      <3>2. Counted(p)' = Counted(p)
        BY <3>1 DEF Counted
      <3>3. UnderTest(p)' <= UnderTest(p) /\ UnderTest(p)' \in 0..1
        BY <2>1 DEF UnderTest
      <3>4. QED BY <2>1, <3>2, <3>3, CountedType, LimitsAssumption DEF Budget
    <2>4. CASE p = q
      <3>1. UnderTest(p) = 1 /\ UnderTest(p)' = 0
        BY <1>5, <2>1, <2>2, <2>4 DEF PanelTested, CycleInv, UnderTest
      <3>2. failures'[p] \in {0, Count(p)}
        BY <2>2, <2>4 DEF Reached, Unreached, TypeOK
      <3>3. Counted(p)' \in Nat /\ Counted(p)' <= Counted(p) + 1
        BY <3>2, CountedType, CountType, LimitsAssumption, AbsentAssumption
           DEF Counted
      <3>4. QED BY <2>1, <3>1, <3>3, CountedType, LimitsAssumption DEF Budget
    <2>5. QED BY <2>3, <2>4
  <1>6. QED BY <1>1, <1>2, <1>3, <1>4, <1>5 DEF Cycle

\* Every step keeps the invariant of the deleted panels.
LEMMA NextEvictedInv == TypeOK /\ EvictedInv /\ [Next]_vars => EvictedInv'
  <1> SUFFICES ASSUME TypeOK, EvictedInv, [Next]_vars, CycleInv',
                      NEW p \in Panels, Evicted(p)'
               PROVE  Budget(p)'
    BY NextCycleInv DEF EvictedInv
  <1>1. CycleInv /\ (Evicted(p) => Budget(p))
    BY DEF EvictedInv
  <1>2. ASSUME NEW q \in Panels, WriteRow(q) PROVE Budget(p)'
    <2>1. Evicted(p)
      BY <1>2 DEF WriteRow, TypeOK, Evicted
    <2>2. QED BY <1>1, <1>2, <2>1, BudgetKept DEF WriteRow, mapVars
  <1>3. ASSUME NEW q \in Panels, DeleteRow(q) PROVE Budget(p)'
    <2>1. Evicted(p)
      BY <1>3 DEF DeleteRow, TypeOK, Evicted
    <2>2. QED BY <1>1, <1>3, <2>1, BudgetKept DEF DeleteRow, mapVars
  <1>4. ASSUME NEW q \in Panels, Invalidate(q) PROVE Budget(p)'
    <2>1. Evicted(p)
      BY <1>4 DEF Invalidate, TypeOK, Evicted
    <2>2. QED BY <1>1, <1>4, <2>1, BudgetKept DEF Invalidate, mapVars
  <1>5. ASSUME NEW q \in Panels, evictPanel(q) PROVE Budget(p)'
    <2>1. CASE p = q
      BY <1>5, <2>1, BudgetAtEviction
    <2>2. CASE p # q
      <3>1. Evicted(p) /\ failures'[p] = failures[p]
        BY <1>5, <2>2 DEF evictPanel, TypeOK, Evicted
      <3>2. QED BY <1>1, <1>5, <3>1, BudgetKept DEF evictPanel
    <2>3. QED BY <2>1, <2>2
  <1>6. ASSUME NEW q \in Panels, Reachability(q) PROVE Budget(p)'
    BY <1>1, <1>6, BudgetKept DEF Reachability, dbVars, mapVars, Evicted
  <1>7. CASE Interval
    BY <1>1, <1>7, BudgetOverInterval DEF Interval, dbVars, Evicted
  <1>8. CASE Cycle
    <2>1. Evicted(p)
      BY <1>8 DEF Cycle, QueryPanels, CacheList, EndCycle, PanelTested,
                  TestPanel, dbVars, Evicted
    <2>2. QED BY <1>1, <1>8, <2>1, BudgetOverCycle
  <1>9. CASE QueryFails \/ LookupFails
    <2>1. Evicted(p) /\ Counted(p)' = Counted(p) /\ ToCome(p)' = ToCome(p)
      BY <1>9 DEF QueryFails, LookupFails, dbVars, mapVars, listVars,
                  Evicted, Counted, ToCome
    <2>2. UnderTest(p)' <= UnderTest(p) /\ UnderTest(p)' \in 0..1
      BY <1>9 DEF QueryFails, LookupFails, UnderTest
    <2>3. cycle' # "queried"
      BY <1>9 DEF QueryFails, LookupFails
    <2>4. QED
      BY <1>1, <2>1, <2>2, <2>3, CountedType, LimitsAssumption DEF Budget
  <1>10. CASE Restart
    <2>1. Counted(p)' = 0 /\ UnderTest(p)' = 0 /\ ToCome(p)' = 0
      BY <1>10 DEF Restart, invalidatePanelListCache, Counted, UnderTest, ToCome
    <2>2. QED BY <2>1, LimitsAssumption DEF Budget
  <1>11. CASE Settle \/ UNCHANGED vars
    BY <1>1, <1>11, BudgetKept
       DEF Settle, vars, dbVars, mapVars, cycleVars, listVars, Evicted
  <1>12. QED
    BY <1>2, <1>3, <1>4, <1>5, <1>6, <1>7, <1>8, <1>9, <1>10, <1>11 DEF Next

\* A panel that was deleted and evicted is counted as failing a bounded number
\* of times, whatever the suspended cycle writes back and however the ticks
\* fall on the end of the list's life.
THEOREM EvictedHolds == Spec => []EvictedFailuresBounded
  <1>1. Init => EvictedInv
    BY DEF Init, CycleInv, Evicted, EvictedInv
  <1>2. TypeOK /\ EvictedInv => EvictedFailuresBounded
    <2> SUFFICES ASSUME TypeOK, EvictedInv, NEW p \in Panels, Evicted(p),
                        failures[p] # Absent
                 PROVE  failures[p] <= ListTTL + 1
      BY DEF EvictedFailuresBounded
    <2>1. Counted(p) = failures[p]
      BY DEF Counted
    <2>2. QED
      BY <2>1, CountedType, LimitsAssumption DEF EvictedInv, Budget
  <1>3. QED
    BY <1>1, <1>2, TypeCorrect, NextEvictedInv, PTL DEF Spec

-----------------------------------------------------------------------------
(* The safety half of DeletedLeftAlone *)

\* The cycle has let go of a deleted panel, and no list that may still be
\* used has it.
LetGo(p) ==
    /\ row[p] = "deleted"
    /\ p \notin todo /\ probe.panel # p
    /\ p \notin list \/ listLife <= 1

\* Nothing brings the panel back: its row is not written again, a query does
\* not find it, and a list is only stored or used without it.
LEMMA StaysLetGo ==
  ASSUME TypeOK, NEW p \in Panels, LetGo(p), [Next]_vars
  PROVE  LetGo(p)'
  <1> USE DEF LetGo, dbVars, envVars, mapVars, listVars, cycleVars
  <1>1. ASSUME NEW q \in Panels, WriteRow(q) PROVE LetGo(p)'
    BY <1>1 DEF WriteRow, TypeOK
  <1>2. ASSUME NEW q \in Panels, DeleteRow(q) PROVE LetGo(p)'
    BY <1>2 DEF DeleteRow, TypeOK
  <1>3. ASSUME NEW q \in Panels, Invalidate(q) \/ evictPanel(q)
        PROVE  LetGo(p)'
    BY <1>3 DEF Invalidate, evictPanel, invalidatePanelListCache
  <1>4. CASE Interval
    <2>1. listLife \in Nat
      BY LimitsAssumption DEF TypeOK
    <2>2. listLife' <= listLife /\ (listLife <= 1 => listLife' = 0)
      BY <1>4, <2>1 DEF Interval, Less
    <2>3. p \notin list' \/ listLife' <= 1
      BY <1>4, <2>1, <2>2 DEF Interval, Less
    <2>4. p \notin todo'
      BY <1>4, <2>2 DEF Interval, StartCycle
    <2>5. QED BY <1>4, <2>3, <2>4 DEF Interval
  <1>5. CASE QueryPanels
    BY <1>5 DEF QueryPanels, Active
  <1>6. CASE CacheList
    BY <1>6 DEF CacheList
  <1>7. CASE EndCycle \/ QueryFails
    BY <1>7 DEF EndCycle, QueryFails
  <1>8. CASE PanelTested \/ LookupFails
    BY <1>8, AbsentAssumption DEF PanelTested, LookupFails, NoProbe
  <1>9. ASSUME NEW q \in Panels, TestPanel(q) PROVE LetGo(p)'
    BY <1>9 DEF TestPanel
  <1>10. ASSUME NEW q \in Panels, Reachability(q) PROVE LetGo(p)'
    BY <1>10 DEF Reachability
  <1>11. CASE Restart
    BY <1>11, AbsentAssumption DEF Restart, invalidatePanelListCache, NoProbe
  <1>12. CASE Settle \/ UNCHANGED vars
    BY <1>12 DEF Settle, vars
  <1>13. QED
    BY <1>1, <1>2, <1>3, <1>4, <1>5, <1>6, <1>7, <1>8, <1>9, <1>10, <1>11,
       <1>12 DEF Next, Cycle

\* What DeletedLeftAlone says of a deleted panel once the cycle and the list
\* have let go of it, whatever is created, switched, tested, restarted or
\* left suspended afterwards: it is never probed again.  (That they let go of
\* it is the other half, and needs fairness.)
THEOREM LetGoForGood ==
  ASSUME NEW p \in Panels
  PROVE  Spec => [](LetGo(p) => [](p \notin todo /\ probe.panel # p))
  <1>1. TypeOK /\ LetGo(p) /\ [Next]_vars => LetGo(p)'
    BY StaysLetGo
  <1>2. LetGo(p) => p \notin todo /\ probe.panel # p
    BY DEF LetGo
  <1>3. QED BY <1>1, <1>2, TypeCorrect, PTL DEF Spec
=============================================================================
