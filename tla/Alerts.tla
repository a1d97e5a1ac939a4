-------------------------------- MODULE Alerts --------------------------------
(***************************************************************************)
(* The two checks that raise alerts: of the server's resources             *)
(* (POST /api/alerts/resource-check) and of the users' traffic quotas      *)
(* (POST /api/alerts/quota-check). Both may be called at any time, also    *)
(* while an earlier call runs, and both are to raise an alert of a kind    *)
(* at most once in a window: the first looks for a recent alert before     *)
(* each alert it creates, the second reads the recent ones once.           *)
(***************************************************************************)
EXTENDS Integers, Sequences, FiniteSets, SequencesExt

CONSTANTS ResourceChecks, QuotaChecks,  \* calls that may be under way
          Metrics,     \* RESOURCE_THRESHOLDS: a sequence of metrics
          Users,       \* usersWithQuotas, in whatever order they are read
          Thresholds,  \* QUOTA_THRESHOLDS: percentages
          AlertWindow  \* of both checks (30 minutes, an hour), in ticks

ASSUME AlertsAssumption ==
    /\ AlertWindow \in Nat
    /\ IsFiniteSet(ResourceChecks) /\ IsFiniteSet(QuotaChecks)
    /\ ResourceChecks \cap QuotaChecks = {}
    /\ IsInjective(Metrics) /\ DOMAIN Metrics \subseteq Nat
    /\ Range(Metrics) \cap Users = {}
    /\ Thresholds \subseteq Nat \ {0}

Checks == ResourceChecks \cup QuotaChecks
Severities == {"WARNING", "CRITICAL"}

\* The type of an alert, with its severity where two severities share one.
ResourceKinds == Range(Metrics) \X Severities
QuotaKinds == Users \X Thresholds
AlertKinds == ResourceKinds \cup QuotaKinds

VARIABLES
    alerts,  \* the ages of the alerts of each kind, while they are recent
    check    \* the calls

alertVars == <<alerts, check>>

Idle == [at |-> "idle", todo |-> {}, exceeded |-> {}, quiet |-> TRUE]

AlertTypeOK ==
    /\ alerts \in [AlertKinds -> Seq(0 .. AlertWindow)]
    /\ check \in [Checks -> [at : {"idle", "look", "create", "done"},
                             todo : SUBSET AlertKinds,
                             exceeded : SUBSET AlertKinds,
                             quiet : BOOLEAN]]

AlertInit ==
    /\ alerts = [k \in AlertKinds |-> <<>>]
    /\ check = [c \in Checks |-> Idle]

Over(c) == check[c].at \in {"idle", "done"}

-----------------------------------------------------------------------------

\* The order of the kinds: the metrics one after the other; the thresholds
\* of one user from below.
Ahead(k, l) ==
    \/ \E i, j \in DOMAIN Metrics :
          i < j /\ Metrics[i] = k[1] /\ Metrics[j] = l[1]
    \/ {k, l} \subseteq QuotaKinds /\ k[1] = l[1] /\ k[2] < l[2]

\* The kinds of todo that may be dealt with next.
Foremost(todo) == {k \in todo : \A l \in todo : ~Ahead(l, k)}

\* The check has still to deal with the kinds of todo.
Continue(c, at, todo) ==
    [check EXCEPT ![c].at = IF todo = {} THEN "done" ELSE at,
                  ![c].todo = todo]

\* The same for a check that has just read what is exceeded.
Begun(at, todo, exceeded) ==
    [Idle EXCEPT !.at = IF todo = {} THEN "done" ELSE at,
                 !.todo = todo, !.exceeded = exceeded]

\* What a sample of the metrics exceeds: of each metric one threshold.
ResourceExceeded(sample) == {k \in ResourceKinds : sample[k[1]] = k[2]}

\* What the users' traffic exceeds: every threshold up to their usage.
QuotaExceeded(usage) == {k \in QuotaKinds : k[2] <= usage[k[1]]}

\* checkResourceThresholds has read the resources of the server.
BeginResource(c) ==
    /\ c \in ResourceChecks /\ Over(c)
    /\ \E sample \in [Range(Metrics) -> Severities \cup {"none"}] :
          LET todo == ResourceExceeded(sample)
          IN  check' = [check EXCEPT ![c] = Begun("look", todo, todo)]
    /\ UNCHANGED alerts

SuppressByType(k) ==
    \E other \in ResourceKinds : other[1] = k[1] /\ alerts[other] # <<>>

\* A recent alert of the same type and severity.
Suppress(k) == alerts[k] # <<>>

\* createResourceAlert looks for a recent alert, and leaves it at that.
Look(c) ==
    /\ check[c].at = "look"
    /\ \E k \in Foremost(check[c].todo) :
          \/ /\ Suppress(k)
             /\ check' = Continue(c, "look", check[c].todo \ {k})
          \/ ~Suppress(k) /\ check' = [check EXCEPT ![c].at = "create"]
    /\ UNCHANGED alerts

PendingAlways(todo, recent) == todo

\* The kinds a quota check does not find among the recent ones.
Pending(todo, recent) == todo \ recent

\* checkUserQuotas has read the users, their traffic and the recent alerts.
BeginQuota(c) ==
    /\ c \in QuotaChecks /\ Over(c)
    /\ \E usage \in [Users -> {0} \cup Thresholds] :
          LET recent == {k \in QuotaKinds : alerts[k] # <<>>}
              exceeded == QuotaExceeded(usage)
          IN  check' = [check EXCEPT ![c] =
                  Begun("create", Pending(exceeded, recent), exceeded)]
    /\ UNCHANGED alerts

\* createAlert stores an alert; the check goes on with the next kind.
Create(c) ==
    /\ check[c].at = "create"
    /\ LET next == IF c \in QuotaChecks THEN "create" ELSE "look"
       IN  \E k \in Foremost(check[c].todo) :
              /\ alerts' = [alerts EXCEPT ![k] = Append(@, 0)]
              /\ check' = Continue(c, next, check[c].todo \ {k})

\* A query or createAlert throws: the route answers with an error.
CheckFails(c) ==
    /\ ~Over(c)
    /\ check' = [check EXCEPT ![c] = Idle]
    /\ UNCHANGED alerts

Disturbed == [c \in Checks |-> [check[c] EXCEPT !.quiet = FALSE]]

\* DELETE /api/alerts/[id].
deleteAlert ==
    /\ \E k \in AlertKinds : \E i \in DOMAIN alerts[k] :
          alerts' = [alerts EXCEPT ![k] = RemoveAt(@, i)]
    /\ check' = Disturbed

\* The ages of some alerts a tick later. The oldest come first, so those that
\* leave the window are the first n.
Later(ages) ==
    LET n == CHOOSE n \in 0 .. Len(ages) :
                /\ \A i \in 1 .. n : ages[i] = AlertWindow
                /\ \A i \in n + 1 .. Len(ages) : ages[i] < AlertWindow
    IN  [i \in 1 .. Len(ages) - n |-> ages[n + i] + 1]

\* Time passes; an alert that leaves the window no longer counts. The daily
\* cleanup of much older alerts changes none that does.
AlertsAge ==
    /\ \E k \in AlertKinds : alerts[k] # <<>>
    /\ alerts' = [k \in AlertKinds |-> Later(alerts[k])]
    /\ check' = Disturbed

AlertNext ==
    \/ \E c \in Checks :
          BeginResource(c) \/ BeginQuota(c) \/ Look(c) \/ Create(c)
             \/ CheckFails(c)
    \/ deleteAlert
    \/ AlertsAge

AlertSpec == AlertInit /\ [][AlertNext]_alertVars

-----------------------------------------------------------------------------
(* Properties.                                                             *)

\* "Prevents duplicate alerts": however the calls overlap, there are never
\* more recent alerts of one kind than calls that can be under way at once,
\* each of which looked before there was any.
DuplicatesNeedOverlap ==
    /\ \A k \in ResourceKinds : Len(alerts[k]) <= Cardinality(ResourceChecks)
    /\ \A k \in QuotaKinds : Len(alerts[k]) <= Cardinality(QuotaChecks)

\* Suppression never swallows a first alert: when a check ends, there is a
\* recent alert for every threshold it saw exceeded, the critical one of a
\* metric that has had its warning included, unless alerts aged or were
\* deleted meanwhile.
ExceededMeansAlert ==
    \A c \in Checks : check[c].at = "done" /\ check[c].quiet =>
        \A k \in check[c].exceeded : alerts[k] # <<>>
=============================================================================
