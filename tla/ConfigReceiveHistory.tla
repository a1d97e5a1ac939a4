------------------------- MODULE ConfigReceiveHistory -------------------------
(***************************************************************************)
(* ConfigReceive with two history variables, and the properties that need  *)
(* them.  Neither variable constrains a step.                              *)
(***************************************************************************)
EXTENDS ConfigReceive

VARIABLES
    retired,  \* the configurations that were in force and were replaced
    held,     \* the configurations in force since a handler's last arrival
    late      \* the handlers whose payload had expired when it arrived

hvars == <<vars, retired, held, late>>

HTypeOK ==
    /\ TypeOK
    /\ retired \subseteq Payloads
    /\ held \in [Handlers -> SUBSET (Payloads \cup {NoConfig})]
    /\ late \subseteq Handlers

HInit ==
    /\ Init
    /\ retired = {}
    /\ held = [h \in Handlers |-> {}]
    /\ late = {}

Arriving(h) == pc[h] = "idle" /\ pc'[h] = "read"

Remember ==
    /\ retired' = IF rowVars' = rowVars THEN retired
                  ELSE retired \cup ({current} \ {NoConfig})
    /\ held' = [h \in Handlers |->
                   IF Arriving(h) THEN {current}
                   ELSE IF pc[h] = "idle" THEN held[h]
                   ELSE held[h] \cup {current'}]
    /\ late' = {h \in Handlers :
                   IF Arriving(h) THEN age[payload'[h]] = "expired"
                   ELSE h \in late}

HNext == Next /\ Remember

HSpec == HInit /\ [][HNext]_hvars

-----------------------------------------------------------------------------

\* The row of the panel is the register CachedConfig describes: whatever the
\* concurrent pushes do, "previous" is the configuration the last commit
\* replaced (the re-read inside the transaction), and a rollback only brings
\* back a configuration that had been in force.
Cache == INSTANCE CachedConfig WITH Configs <- Payloads

ImplementsCachedConfig == Cache!Spec

\* "applied: true" is never a lie about the version: the version a handler
\* reports was in force at some moment between the arrival of its request and
\* its answer, also when the idempotent branch answers without a commit.
AppliedWasInForce ==
    \A h \in Handlers :
        reply[h].status = "applied" =>
            \E c \in held[h] : c # NoConfig /\ c.version = reply[h].version

\* A push that overlaps no other change of the row never lowers the version
\* (nor repeats it): only a commit that slips in between the read and the
\* transaction, or a rollback, can.
UndisturbedUp(h) ==
    /\ pc[h] = "commit"
    /\ reply'[h].status = "applied"
    /\ held[h] \subseteq {current}
    => current = NoConfig \/ current'.version > current.version

DowngradeNeedsOverlap == [][\A h \in Handlers : UndisturbedUp(h)]_hvars

\* The replay defense: a request whose payload had expired before it arrived
\* never reaches the transaction, whatever runs meanwhile.
ExpiredNeverCommits ==
    \A h \in Handlers : h \in late => pc[h] # "commit"

-----------------------------------------------------------------------------
(* What a comment of the code says, and concurrent requests refute *)

\* "A captured older payload must not downgrade the cached routing/WireGuard
\* config": the commit of a push never installs a version older than the one
\* it replaces.
PushNeverDowngrades ==
    [][\A h \in Handlers :
          /\ pc[h] = "commit"
          /\ reply'[h].status = "applied"
          /\ current # NoConfig
          => current'.version >= current.version]_hvars
=============================================================================
