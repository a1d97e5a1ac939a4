------------------------------ MODULE PanelHealth ------------------------------
(***************************************************************************)
(* The periodic health checks of the remote panels: the 30 s interval with *)
(* its in-flight guard, the cached list of active panels, the per-panel    *)
(* failure counts, fallback set and status snapshots, and the panel routes *)
(* that create, switch, and delete panels while a cycle is suspended at an *)
(* await.                                                                  *)
(***************************************************************************)
EXTENDS Naturals

CONSTANTS Panels,   \* the ids panels may get (never reused)
          Limit,    \* consecutive failures that mean fallback
          ListTTL,  \* PANEL_LIST_TTL_MS in intervals
          MaxCount, \* where the counting of failures saturates
          Absent    \* no entry in a Map

Snapshots == [status : {"connected", "offline", "degraded"},
              isFallback : BOOLEAN]

\* Counts saturate only past every value they are compared with.
ASSUME LimitsAssumption ==
    /\ Limit \in Nat \ {0} /\ ListTTL \in Nat \ {0} /\ MaxCount \in Nat
    /\ MaxCount >= Limit /\ MaxCount > ListTTL + 1
ASSUME AbsentAssumption == Absent \notin Nat \cup Snapshots \cup Panels

VARIABLES
    row,        \* RemotePanel: the state of each row
    edit,       \* what the routes that wrote the row still have to do in memory
    up,         \* the panels that answer a probe (environment)
    troubled,   \* whether restarts and errors still happen (environment)
    failures,   \* consecutiveFailures
    fallback,   \* fallbackPanels
    snapshot,   \* healthSnapshotCache
    list,       \* panelListCache.panels
    listLife,   \* ticks until panelListCache is found expired; 0: expired, null
    cycle,      \* where the health-check cycle is
    cycleAge,   \* intervals since the cycle took its time stamp
    todo,       \* the panels the cycle has still to test
    probe       \* the panel under test, and whether its row was found

dbVars    == <<row, edit>>
envVars   == <<up, troubled>>
mapVars   == <<failures, fallback, snapshot>>
listVars  == <<list, listLife>>
cycleVars == <<cycle, cycleAge, todo, probe>>
vars      == <<dbVars, envVars, mapVars, listVars, cycleVars>>

NoProbe   == [panel |-> Absent, found |-> FALSE]

TypeOK ==
    /\ row \in [Panels -> {"new", "active", "inactive", "deleted"}]
    /\ edit \in [Panels -> SUBSET {"invalidate", "evict"}]
    /\ up \subseteq Panels
    /\ troubled \in BOOLEAN
    /\ failures \in [Panels -> (0..MaxCount) \cup {Absent}]
    /\ fallback \subseteq Panels
    /\ snapshot \in [Panels -> Snapshots \cup {Absent}]
    /\ list \subseteq Panels
    /\ listLife \in 0 .. (ListTTL + 1)
    /\ cycle \in {"idle", "query", "queried", "loop", "testing"}
    /\ cycleAge \in 0..ListTTL
    /\ todo \subseteq Panels
    /\ probe \in [panel : Panels \cup {Absent}, found : BOOLEAN]
    /\ cycle = "testing" => probe.panel \in Panels

Init ==
    /\ row \in [Panels -> {"new", "active"}]
    /\ edit = [p \in Panels |-> {}]
    /\ up \in SUBSET Panels
    /\ troubled = TRUE
    /\ failures = [p \in Panels |-> Absent]
    /\ fallback = {}
    /\ snapshot = [p \in Panels |-> Absent]
    /\ list = {}
    /\ listLife = 0
    /\ cycle = "idle"
    /\ cycleAge = 0
    /\ todo = {}
    /\ probe = NoProbe

Registered(p) == row[p] \in {"active", "inactive"}
Active        == {p \in Panels : row[p] = "active"}

-----------------------------------------------------------------------------
(* The panel routes: the database first, the memory after an await *)

\* POST /api/panels, and PUT /api/panels/[id], which may leave isActive alone.
WriteRow(p) ==
    /\ row[p] # "deleted"
    /\ \E isActive \in {"active", "inactive"} :
          /\ row[p] = "new" => isActive = "active"
          /\ row' = [row EXCEPT ![p] = isActive]
    /\ edit' = [edit EXCEPT ![p] = @ \cup {"invalidate"}]
    /\ UNCHANGED <<envVars, mapVars, listVars, cycleVars>>

\* DELETE /api/panels/[id].
DeleteRow(p) ==
    /\ Registered(p)
    /\ row' = [row EXCEPT ![p] = "deleted"]
    /\ edit' = [edit EXCEPT ![p] = @ \cup {"evict"}]
    /\ UNCHANGED <<envVars, mapVars, listVars, cycleVars>>

invalidatePanelListCache ==
    /\ list' = {}
    /\ listLife' = 0

Invalidate(p) ==
    /\ "invalidate" \in edit[p]
    /\ invalidatePanelListCache
    /\ edit' = [edit EXCEPT ![p] = @ \ {"invalidate"}]
    /\ UNCHANGED <<row, envVars, mapVars, cycleVars>>

evictPanelKeepingCount(p) ==
    /\ "evict" \in edit[p]
    /\ fallback' = fallback \ {p}
    /\ snapshot' = [snapshot EXCEPT ![p] = Absent]
    /\ invalidatePanelListCache
    /\ edit' = [edit EXCEPT ![p] = @ \ {"evict"}]
    /\ UNCHANGED <<row, envVars, failures, cycleVars>>

evictPanel(p) ==
    /\ "evict" \in edit[p]
    /\ failures' = [failures EXCEPT ![p] = Absent]
    /\ fallback' = fallback \ {p}
    /\ snapshot' = [snapshot EXCEPT ![p] = Absent]
    /\ invalidatePanelListCache
    /\ edit' = [edit EXCEPT ![p] = @ \ {"evict"}]
    /\ UNCHANGED <<row, envVars, cycleVars>>

-----------------------------------------------------------------------------
(* The health-check cycle *)

Less(n) == IF n = 0 THEN 0 ELSE n - 1

StartCycleOnOldList ==
    /\ cycleAge' = 0
    /\ \/ /\ list # {}
          /\ cycle' = "loop"
          /\ todo' = list
       \/ /\ list = {}
          /\ cycle' = "query"
          /\ todo' = {}

\* A cycle begins with the list it has, or queries the database.
StartCycle ==
    /\ cycleAge' = 0
    /\ \/ /\ listLife' > 0
          /\ cycle' = "loop"
          /\ todo' = list
       \/ /\ listLife' = 0
          /\ cycle' = "query"
          /\ todo' = {}

\* The interval fires.  With a cycle in flight it does nothing, but the time
\* has passed for the list and for the time stamp of that cycle.
Interval ==
    /\ listLife' = Less(listLife)
    /\ \/ /\ cycle = "idle"
          /\ StartCycle
       \/ /\ cycle # "idle"
          /\ cycleAge' = IF cycleAge < ListTTL THEN cycleAge + 1 ELSE ListTTL
          /\ UNCHANGED <<cycle, todo>>
    /\ UNCHANGED <<dbVars, envVars, mapVars, list, probe>>

\* The database answers the query ...
QueryPanels ==
    /\ cycle = "query"
    /\ cycle' = "queried"
    /\ todo' = Active
    /\ UNCHANGED <<dbVars, envVars, mapVars, listVars, cycleAge, probe>>

CacheListOneLonger ==
    /\ cycle = "queried"
    /\ cycle' = "loop"
    /\ list' = todo
    /\ listLife' \in 0 .. (ListTTL - cycleAge) + 2
    /\ UNCHANGED <<dbVars, envVars, mapVars, cycleAge, todo, probe>>

\* ... and the cycle resumes: it stores the answer as the new list, dated
\* from its start, whatever was invalidated meanwhile.  The list's life is a
\* whole number of intervals, so the tick at its end may come just before it,
\* and use the list once more, or after; and any tick may come late.
CacheList ==
    /\ cycle = "queried"
    /\ cycle' = "loop"
    /\ list' = todo
    /\ listLife' \in 0 .. (ListTTL - cycleAge) + 1
    /\ UNCHANGED <<dbVars, envVars, mapVars, cycleAge, todo, probe>>

\* testPanel looks up the row, then probes it.
TestPanel(p) ==
    /\ cycle = "loop"
    /\ p \in todo
    /\ cycle' = "testing"
    /\ todo' = todo \ {p}
    /\ probe' = [panel |-> p, found |-> Registered(p)]
    /\ UNCHANGED <<dbVars, envVars, mapVars, listVars, cycleAge>>

Snap(p, status, isFallback) ==
    snapshot' = [snapshot EXCEPT
                    ![p] = [status |-> status, isFallback |-> isFallback]]

Count(p) == IF failures[p] = Absent THEN 1
            ELSE IF failures[p] < MaxCount THEN failures[p] + 1 ELSE MaxCount

ReachedKeepingFlag(p) ==
    /\ failures' = [failures EXCEPT ![p] = 0]
    /\ fallback' = fallback \ {p}
    /\ Snap(p, "connected", p \in fallback)

ReachedKeepingFallback(p) ==
    /\ failures' = [failures EXCEPT ![p] = 0]
    /\ UNCHANGED fallback
    /\ Snap(p, "connected", p \in fallback)

\* What the cycle does with a result, without an await.
Reached(p) ==
    /\ failures' = [failures EXCEPT ![p] = 0]
    /\ fallback' = fallback \ {p}
    /\ Snap(p, "connected", FALSE)

Unreached(p) ==
    LET enters == Count(p) >= Limit /\ p \notin fallback
    IN  /\ failures' = [failures EXCEPT ![p] = Count(p)]
        /\ fallback' = IF enters THEN fallback \cup {p} ELSE fallback
        /\ Snap(p, IF enters THEN "degraded" ELSE "offline", p \in fallback')

PanelTested ==
    /\ cycle = "testing"
    /\ \/ probe.found /\ probe.panel \in up /\ Reached(probe.panel)
       \/ (~probe.found \/ probe.panel \notin up) /\ Unreached(probe.panel)
    /\ cycle' = "loop"
    /\ probe' = NoProbe
    /\ UNCHANGED <<dbVars, envVars, listVars, cycleAge, todo>>

EndCycle ==
    /\ cycle = "loop"
    /\ todo = {}
    /\ cycle' = "idle"
    /\ cycleAge' = 0
    /\ UNCHANGED <<dbVars, envVars, mapVars, listVars, todo, probe>>

\* The query, or an import or write in the loop, throws: logged and dropped.
QueryFails ==
    /\ troubled
    /\ cycle = "query"
    /\ cycle' = "idle"
    /\ cycleAge' = 0
    /\ UNCHANGED <<dbVars, envVars, mapVars, listVars, todo, probe>>

LookupFails ==
    /\ troubled
    /\ cycle = "testing"
    /\ cycle' = "loop"
    /\ probe' = NoProbe
    /\ UNCHANGED <<dbVars, envVars, mapVars, listVars, cycleAge, todo>>

-----------------------------------------------------------------------------
(* Environment *)

Reachability(p) ==
    /\ up' = IF p \in up THEN up \ {p} ELSE up \cup {p}
    /\ UNCHANGED <<dbVars, troubled, mapVars, listVars, cycleVars>>

\* From here on nothing fails (which need not ever happen).
Settle ==
    /\ troubled
    /\ troubled' = FALSE
    /\ UNCHANGED <<dbVars, up, mapVars, listVars, cycleVars>>

\* The process stops and starts again: memory is lost, rows stay.
Restart ==
    /\ troubled
    /\ edit' = [p \in Panels |-> {}]
    /\ failures' = [p \in Panels |-> Absent]
    /\ fallback' = {}
    /\ snapshot' = [p \in Panels |-> Absent]
    /\ invalidatePanelListCache
    /\ cycle' = "idle"
    /\ cycleAge' = 0
    /\ todo' = {}
    /\ probe' = NoProbe
    /\ UNCHANGED <<row, envVars>>

Cycle ==
    \/ QueryPanels \/ CacheList \/ EndCycle \/ PanelTested
    \/ \E p \in Panels : TestPanel(p)

Next ==
    \/ \E p \in Panels : \/ WriteRow(p) \/ DeleteRow(p)
                         \/ Invalidate(p) \/ evictPanel(p)
                         \/ Reachability(p)
    \/ Interval
    \/ Cycle
    \/ QueryFails \/ LookupFails
    \/ Restart
    \/ Settle

Spec == Init /\ [][Next]_vars

\* The runtime resumes what it suspended, and the interval keeps firing.
Fairness ==
    /\ WF_vars(Cycle)
    /\ WF_vars(Interval)
    /\ \A p \in Panels : WF_vars(Invalidate(p)) /\ WF_vars(evictPanel(p))

FairSpec == Spec /\ Fairness

-----------------------------------------------------------------------------

\* The status API never contradicts the fallback set, although the set, the
\* counts and the snapshots are written in three places (cycle, eviction,
\* exit from fallback), and only panels whose last Limit probes or more failed
\* are in it.
FallbackConsistent ==
    \A p \in Panels :
        /\ snapshot[p] # Absent => (snapshot[p].isFallback <=> p \in fallback)
        /\ p \in fallback =>
               /\ snapshot[p] # Absent
               /\ failures[p] # Absent /\ failures[p] >= Limit

Evicted(p) == row[p] = "deleted" /\ "evict" \notin edit[p]

\* A panel is not counted as failing for ever after its eviction: only a
\* list that a suspended cycle writes back can name it, and that is used at
\* most ListTTL + 1 times, however late the cycle resumes.  (With the numbers
\* of the code that is the Limit: the panel may just fall back.)
EvictedFailuresBounded ==
    \A p \in Panels :
        Evicted(p) => failures[p] = Absent \/ failures[p] <= ListTTL + 1

\* Once nothing fails any more ...
Calm == <>~troubled

\* ... an active panel that stays up is seen as connected for good, and one
\* that stays down ends in fallback for good: an invalidation that a cycle
\* overwrites only delays that by the life of the list.
FollowsReachability ==
    Calm => \A p \in Panels :
        /\ <>[](row[p] = "active" /\ p \in up) =>
               <>[](/\ p \notin fallback
                    /\ snapshot[p] = [status |-> "connected",
                                      isFallback |-> FALSE])
        /\ <>[](row[p] = "active" /\ p \notin up) => <>[](p \in fallback)

\* A deleted panel is eventually probed no more.
DeletedLeftAlone ==
    Calm => \A p \in Panels :
        row[p] = "deleted" ~> [](p \notin todo /\ probe.panel # p)

\* "Evict all in-memory state for a panel when it is deleted": after the
\* eviction no Map has an entry for the panel.
EvictedLeavesNoTrace ==
    \A p \in Panels : Evicted(p) => failures[p] = Absent /\ snapshot[p] = Absent
=============================================================================
