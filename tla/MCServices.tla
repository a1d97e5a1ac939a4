----------------------------- MODULE MCServices -----------------------------
(***************************************************************************)
(* The components that share no state with one another, on small           *)
(* instances: the initial state chooses the one that runs.                 *)
(***************************************************************************)
EXTENDS AwgPeers, LoginRateLimit, GeoIPIndex, GeoIPManager, PanelPair,
        Alerts, ApplyConfig, Transport, PrFlow, TLC

CONSTANTS cpu, n1, n2, x1, x2, a1, a2, c, e

MCMetrics == <<cpu>>
MCNodeSeq == <<n1, n2>>
MCServicesOf == n1 :> <<"awg">> @@ n2 :> <<"awg">>
MCKinds == c :> {"resync", "rollback"} @@ e :> {"push"}

VARIABLE focus  \* the component that runs

Components == {"addresses", "login", "index", "database", "pair",
               "resource alerts", "quota alerts", "apply", "transport",
               "flow"}

servicesVars == <<focus, vars, loginVars, indexVars, geoVars, pairVars,
                  alertVars, applyVars, transportVars, prVars>>

\* What may hold at first of a component is pinned where it does not run.
MCInit ==
    /\ focus \in Components
    /\ Init /\ LoginInit /\ IndexInit /\ GeoInit /\ PairInit
    /\ AlertInit /\ ApplyInit /\ TransportInit /\ PrInit
    /\ focus # "database" => geoFile = NoDatabase
    /\ IF focus = "apply" THEN received[x1]
       ELSE \A x \in Panels : ~received[x]
    /\ focus # "transport" =>
          /\ \A h \in Hostnames : tailnet[h] = NoAddress
          /\ server.hostname = CHOOSE h \in Hostnames : TRUE

\* Bounds. Of the operations of two panels, and of the requests to them that
\* nobody waits for (one) there are two at a time; and one payload is old.
FewRequests ==
    LET begun == {b \in UNION {{y} \X Kinds[y] : y \in Sides} :
                     op[b[1]][b[2]].at # "ended"}
        waiting == Cardinality(late[c]) + Cardinality(late[e])
    IN  /\ Cardinality(begun) + waiting <= 2 /\ waiting <= 1
        /\ Cardinality(stale) <= 1

\* The second node of a chain has the panel of the first, another, or none;
\* two requests are under way at a time; and of two calls, which are alike,
\* the first begins first.
FewPosts ==
    /\ \A r \in Runs : run[r].at # "idle" => run[r].to[n1] = x1
    /\ Cardinality({q \in Posts : UnderWay(q)}) <= 2
    /\ run[a2].at # "idle" => run[a1].at # "idle"

\* A worker's run ends, and wakes, when no other wake is left.
TitleAlone ==
    orch["title"].at # "idle" \/ due["title"] # "none" =>
        \A g \in Groups \ {"title"} : orch[g].at = "idle" /\ due[g] = "none"

MCNext ==
    \/ /\ focus = "addresses" /\ Next
       /\ UNCHANGED <<focus, loginVars, indexVars, geoVars,
                      pairVars, alertVars, applyVars, transportVars,
                      prVars>>
    \/ /\ focus = "login" /\ LoginNext
       /\ UNCHANGED <<focus, vars, indexVars, geoVars, pairVars,
                      alertVars, applyVars, transportVars,
                      prVars>>
    \/ /\ focus = "index" /\ IndexNext
       /\ UNCHANGED <<focus, vars, loginVars, geoVars, pairVars,
                      alertVars, applyVars, transportVars,
                      prVars>>
    \/ /\ focus = "database" /\ GeoNext
       /\ UNCHANGED <<focus, vars, loginVars, indexVars,
                      pairVars, alertVars, applyVars, transportVars,
                      prVars>>
    \/ /\ focus = "pair" /\ PairNext /\ FewRequests'
       /\ UNCHANGED <<focus, vars, loginVars, indexVars, geoVars,
                      alertVars, applyVars, transportVars,
                      prVars>>
    \/ /\ focus \in {"resource alerts", "quota alerts"} /\ AlertNext
       /\ \A q \in IF focus = "quota alerts" THEN ResourceChecks
                                             ELSE QuotaChecks :
             check'[q].at = "idle"
       /\ UNCHANGED <<focus, vars, loginVars, indexVars, geoVars,
                      pairVars, applyVars, transportVars,
                      prVars>>
    \/ /\ focus = "apply" /\ ApplyNext /\ FewPosts'
       /\ UNCHANGED <<focus, vars, loginVars, indexVars, geoVars,
                      pairVars, alertVars, transportVars,
                      prVars>>
    \/ /\ focus = "transport" /\ TransportNext
       /\ UNCHANGED <<focus, vars, loginVars, indexVars, geoVars,
                      pairVars, alertVars, applyVars, prVars>>
    \/ /\ focus = "flow" /\ PrNext /\ TitleAlone'
       /\ UNCHANGED <<focus, vars, loginVars, indexVars, geoVars,
                      pairVars, alertVars, applyVars, transportVars>>

MCSpec == MCInit /\ [][MCNext]_servicesVars

\* Every component is of its type. (One that does not run stays as it is
\* at first.)
ServicesTypeOK ==
    /\ focus = "addresses" => TypeOK
    /\ focus = "login" => LoginTypeOK
    /\ focus = "index" => IndexTypeOK
    /\ focus = "database" => GeoTypeOK
    /\ focus = "pair" => PairTypeOK
    /\ focus \in {"resource alerts", "quota alerts"} => AlertTypeOK
    /\ focus = "apply" => ApplyTypeOK
    /\ focus = "transport" => TransportTypeOK
    /\ focus = "flow" => PrTypeOK
=============================================================================
