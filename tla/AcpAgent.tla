------------------------------ MODULE AcpAgent ------------------------------
(***************************************************************************)
(* The server agent: the upgrade, care and cleanup runs that its timers    *)
(* start, over one Docker daemon with the container of the app.  systemd   *)
(* starts no second run of a service while one is active, but runs of      *)
(* different services overlap.                                             *)
(*                                                                         *)
(* A failed health check ends the script: healthcheck calls die, which     *)
(* exits, also where its result is tested (wait_for_health, care).  The    *)
(* further attempts, the repairs of care and rollback_image are therefore  *)
(* never reached, and the count of failures stays 0; they have no action.  *)
(***************************************************************************)
EXTENDS Integers

CONSTANTS Images, Bad,  \* the images of the app; those that do not work
          NoImage,
          MaxReleases,  \* bound: the releases during one behaviour
          MaxFaults     \* bound: what happens to Docker and the container

ASSUME AcpAgentAssumption == /\ Bad \subseteq Images /\ NoImage \notin Images
                             /\ {MaxReleases, MaxFaults} \subseteq Nat

VARIABLES
    registry,   \* the image the registry has under IMAGE_REF
    configured, \* the image IMAGE_REF names on the server
    lastGood,   \* the image ROLLBACK_REF names
    container,  \* the container of the app: its image and status
    docker,     \* the daemon is running
    upgradeAt,  \* where the upgrade run is
    careAt,     \* where the care run is
    upgraded,   \* the image an upgrade run started from, and how it ended
    releases,   \* history: releases so far
    faults      \* history: faults so far

agentVars == <<registry, configured, lastGood, container, docker, upgradeAt,
               careAt, upgraded, releases, faults>>

Missing == [image |-> NoImage, status |-> "missing"]

AgentTypeOK ==
    /\ registry \in Images
    /\ {configured, lastGood} \subseteq Images \cup {NoImage}
    /\ container \in [image : Images,
                      status : {"exited", "starting", "healthy", "unhealthy"}]
                        \cup {Missing}
    /\ docker \in BOOLEAN
    /\ upgradeAt \in {"idle", "scripts", "docker", "tag", "pull", "up",
                      "check", "mark"}
    /\ careAt \in {"idle", "docker", "check"}
    /\ upgraded \in [from : Images \cup {NoImage},
                     result : {"none", "good", "failed", "unhealthy"}]
    /\ releases \in 0 .. MaxReleases /\ faults \in 0 .. MaxFaults

\* After the installation: an image that works, and no last good one yet.
AgentInit ==
    /\ registry \in Images \ Bad
    /\ configured = registry /\ lastGood = NoImage
    /\ container = [image |-> registry, status |-> "healthy"]
    /\ docker = TRUE
    /\ upgradeAt = "idle" /\ careAt = "idle"
    /\ upgraded = [from |-> NoImage, result |-> "none"]
    /\ releases = 0 /\ faults = 0

-----------------------------------------------------------------------------
(* Runs of the agent *)

serverVars == <<registry, configured, lastGood, container, docker>>
countVars  == <<releases, faults>>

EndUpgradeFailed(result) ==
    /\ upgradeAt' = IF result = "good" THEN "idle" ELSE "failed"
    /\ upgraded' = [upgraded EXCEPT !.result = result]

\* The run ends, and how.
EndUpgrade(result) ==
    /\ upgradeAt' = "idle"
    /\ upgraded' = [upgraded EXCEPT !.result = result]

StartUpgradeHealthy ==
    /\ upgradeAt = "idle" /\ container.status = "healthy"
    /\ upgradeAt' = "scripts"
    /\ upgraded' = [from |-> NoImage, result |-> "none"]
    /\ UNCHANGED <<serverVars, careAt, countVars>>

\* The timer starts "upgrade all".
StartUpgrade ==
    /\ upgradeAt = "idle"
    /\ upgradeAt' = "scripts"
    /\ upgraded' = [from |-> NoImage, result |-> "none"]
    /\ UNCHANGED <<serverVars, careAt, countVars>>

\* upgrade_scripts; set -e ends the run when it fails.
UpgradeScripts ==
    /\ upgradeAt = "scripts"
    /\ upgradeAt' = "docker"
    /\ UNCHANGED <<serverVars, careAt, upgraded, countVars>>

\* enable_docker, at the head of upgrade_image
UpgradeEnable ==
    /\ upgradeAt = "docker"
    /\ docker' = TRUE
    /\ upgradeAt' = "tag"
    /\ UNCHANGED <<registry, configured, lastGood, container, careAt,
                   upgraded, countVars>>

\* tag_last_good_image. Nothing is tagged, and that is no failure, if
\* IMAGE_REF is a digest (which no release changes) or if the image is not
\* found, also because the daemon does not answer.
Tag == \/ docker /\ configured # NoImage /\ lastGood' = configured
       \/ UNCHANGED lastGood

\* Before the pull.
TagLastGood ==
    /\ upgradeAt = "tag" /\ Tag
    /\ upgraded' = [upgraded EXCEPT !.from = configured]
    /\ upgradeAt' = "pull"
    /\ UNCHANGED <<registry, configured, container, docker, careAt, countVars>>

\* docker_auth_compose_pull
PullImage ==
    /\ upgradeAt = "pull" /\ docker
    /\ configured' = registry
    /\ upgradeAt' = "up"
    /\ UNCHANGED <<registry, lastGood, container, docker, careAt, upgraded,
                   countVars>>

\* compose up -d: a container that is missing, has another image or does
\* not run is made anew.
ComposeUp ==
    /\ upgradeAt = "up" /\ docker
    /\ container' =
          IF \/ container.image # configured
             \/ container.status \in {"missing", "exited"}
          THEN [image |-> configured, status |-> "starting"] ELSE container
    /\ upgradeAt' = "check"
    /\ UNCHANGED <<registry, configured, lastGood, docker, careAt, upgraded,
                   countVars>>

\* A step of the upgrade fails, and set -e or die ends the run; what fails
\* may be the tag, or what follows it.
UpgradeFails ==
    /\ upgradeAt \in {"scripts", "docker", "tag", "pull", "up", "mark"}
    /\ IF upgradeAt \in {"tag", "mark"} THEN Tag ELSE UNCHANGED lastGood
    /\ EndUpgrade("failed")
    /\ UNCHANGED <<registry, configured, container, docker, careAt, countVars>>

\* A container that is starting has not passed.
HealthCheck == docker /\ container.status = "healthy"

\* wait_for_health: the run goes on, or exits at the first attempt.
CheckUpgrade ==
    /\ upgradeAt = "check"
    /\ \/ HealthCheck /\ upgradeAt' = "mark" /\ UNCHANGED upgraded
       \/ ~HealthCheck /\ EndUpgrade("unhealthy")
    /\ UNCHANGED <<serverVars, careAt, countVars>>

\* The image that has passed is tagged, if it can be.
TagUpgraded ==
    /\ upgradeAt = "mark" /\ Tag
    /\ EndUpgrade("good")
    /\ UNCHANGED <<registry, configured, container, docker, careAt, countVars>>

\* The timer starts "care": enable_docker, then the health check, which
\* ends the run in either case.
StartCare ==
    /\ careAt = "idle"
    /\ careAt' = "docker"
    /\ UNCHANGED <<serverVars, upgradeAt, upgraded, countVars>>

CareEnable ==
    /\ careAt = "docker"
    /\ docker' = TRUE /\ careAt' = "check"
    /\ UNCHANGED <<registry, configured, lastGood, container, upgradeAt,
                   upgraded, countVars>>

EndCare ==
    /\ careAt # "idle"
    /\ careAt' = "idle"
    /\ UNCHANGED <<serverVars, upgradeAt, upgraded, countVars>>

\* cleanup prunes containers that have stopped.
CleanupImages ==
    /\ docker /\ container.status = "exited"
    /\ container' = Missing
    /\ UNCHANGED <<registry, configured, lastGood, docker, upgradeAt, careAt,
                   upgraded, countVars>>

-----------------------------------------------------------------------------
(* The world of the agent *)

\* A release, good or bad.
Release ==
    /\ releases < MaxReleases
    /\ \E image \in Images \ {registry} : registry' = image
    /\ releases' = releases + 1
    /\ UNCHANGED <<configured, lastGood, container, docker, upgradeAt, careAt,
                   upgraded, faults>>

\* A started container works, or does not, as its image does; the daemon
\* runs the checks, and restarts nothing because of them.
ContainerSettles ==
    /\ docker /\ container.status = "starting"
    /\ container' = [container EXCEPT !.status =
                        IF container.image \in Bad THEN "unhealthy"
                        ELSE "healthy"]
    /\ UNCHANGED <<registry, configured, lastGood, docker, upgradeAt, careAt,
                   upgraded, countVars>>

\* The app hangs, its container is stopped or removed, or the daemon stops
\* and the container with it.
Fault ==
    /\ faults < MaxFaults /\ docker
    /\ faults' = faults + 1
    /\ \/ /\ container.status \in {"starting", "healthy"}
          /\ container' = [container EXCEPT !.status = "unhealthy"]
          /\ UNCHANGED docker
       \/ /\ container.status \notin {"exited", "missing"}
          /\ container' = [container EXCEPT !.status = "exited"]
          /\ docker' \in BOOLEAN
       \/ container' = Missing /\ UNCHANGED docker
    /\ UNCHANGED <<registry, configured, lastGood, upgradeAt, careAt,
                   upgraded, releases>>

Upgrade == \/ StartUpgrade \/ UpgradeScripts \/ UpgradeEnable
           \/ TagLastGood \/ PullImage \/ ComposeUp \/ UpgradeFails
           \/ CheckUpgrade \/ TagUpgraded

Agent == Upgrade \/ StartCare \/ CareEnable \/ EndCare \/ CleanupImages

AgentNext == Agent \/ Release \/ ContainerSettles \/ Fault

\* The timers start runs, runs go on, a step that may fail does not fail
\* for ever, and a container settles.
AgentFairness ==
    /\ WF_agentVars(Upgrade)
    /\ SF_agentVars(UpgradeScripts) /\ SF_agentVars(UpgradeEnable)
    /\ SF_agentVars(TagLastGood) /\ SF_agentVars(PullImage)
    /\ SF_agentVars(ComposeUp)
    /\ WF_agentVars(ContainerSettles)

AgentSpec == AgentInit /\ [][AgentNext]_agentVars /\ AgentFairness

-----------------------------------------------------------------------------
(* Properties.                                                             *)

\* The app hangs in an image that would work.
Hung == container.status = "unhealthy" /\ container.image \notin Bad

\* Once the last release is one that works, the app is brought to it and
\* runs it, whatever went wrong before: a bad image in between, a stopped,
\* removed or pruned container, a stopped daemon, runs that ended half way.
\* Except for an app that hangs and is not replaced by another release:
\* nothing restarts it.
GoodReleaseRuns ==
    <>[](registry \notin Bad) /\ ~<>[]Hung =>
        <>[](container = [image |-> registry, status |-> "healthy"])

\* "If the new image fails post-upgrade health checks, the agent retags the
\* last-good image back to the configured image reference".
FailedUpgradeRollsBack ==
    upgraded.result = "unhealthy" /\ container.image \in Bad
        => configured = upgraded.from
=============================================================================
