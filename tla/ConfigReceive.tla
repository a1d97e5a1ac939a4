---------------------------- MODULE ConfigReceive ----------------------------
(***************************************************************************)
(* The receiving side of configuration sync on one panel: every concurrent *)
(* run of POST /api/sync/receive for one sender, and the administrator's   *)
(* POST /api/panels/rollback on the same row of cached_panel_configs.      *)
(*                                                                         *)
(* A handler is one run of the route.  It reads the row, decides from that *)
(* snapshot, and commits in a transaction that reads the row again; other  *)
(* handlers and rollbacks run at every await in between.  Any payload in   *)
(* Payloads may reach the route any number of times and in any order: the  *)
(* sender retries, the network delays, and a captured request verifies as  *)
(* well as the original.                                                   *)
(***************************************************************************)
EXTENDS Naturals

CONSTANTS Handlers,  \* concurrent runs of the receive route
          Admins,    \* concurrent runs of the rollback route
          Bodies,    \* what a configuration holds apart from its version
          Payloads,  \* the signed payloads in circulation
          NoConfig   \* a missing row, or a null previousConfig

\* configVersion is a positive integer (zod); "body" stands for the rest of
\* the payload, the data that is applied.
Configs == [version : Nat \ {0}, body : Bodies]

ASSUME PayloadsAssumption == Payloads \subseteq Configs
ASSUME NoConfigAssumption == NoConfig \notin Configs

VARIABLES
    current,    \* config and configVersion of the row; NoConfig if no row
    previous,   \* previousConfig and previousConfigVersion of the row
    age,        \* generatedAt of a payload against the clock of the panel
    pc,         \* where each handler is
    payload,    \* the payload each handler works on
    seen,       \* existingConfig: the row each handler read before deciding
    reply,      \* the last answer of each handler
    adminPc,    \* where each rollback is
    restored    \* the previous configuration each rollback read

rowVars   == <<current, previous>>
pushVars  == <<pc, payload, seen, reply>>
adminVars == <<adminPc, restored>>
vars      == <<rowVars, age, pushVars, adminVars>>

Ages    == {"early", "fresh", "expired"}
NoReply == [status |-> "none", version |-> 0]
Replies == [status : {"none", "applied", "ignored", "stale", "rejected",
                      "error"},
            version : Nat]

TypeOK ==
    /\ current \in Payloads \cup {NoConfig}
    /\ previous \in Payloads \cup {NoConfig}
    /\ current = NoConfig => previous = NoConfig
    /\ age \in [Payloads -> Ages]
    /\ pc \in [Handlers -> {"idle", "read", "decide", "commit"}]
    /\ payload \in [Handlers -> Payloads \cup {NoConfig}]
    /\ \A h \in Handlers : pc[h] # "idle" => payload[h] \in Payloads
    /\ seen \in [Handlers -> Payloads \cup {NoConfig}]
    /\ reply \in [Handlers -> Replies]
    /\ adminPc \in [Admins -> {"idle", "swap"}]
    /\ restored \in [Admins -> Payloads \cup {NoConfig}]
    /\ \A a \in Admins : adminPc[a] # "idle" => restored[a] \in Payloads

Init ==
    /\ current = NoConfig
    /\ previous = NoConfig
    /\ age \in [Payloads -> {"early", "fresh"}]
    /\ pc = [h \in Handlers |-> "idle"]
    /\ payload = [h \in Handlers |-> NoConfig]
    /\ seen = [h \in Handlers |-> NoConfig]
    /\ reply = [h \in Handlers |-> NoReply]
    /\ adminPc = [a \in Admins |-> "idle"]
    /\ restored = [a \in Admins |-> NoConfig]

-----------------------------------------------------------------------------
(* POST /api/sync/receive *)

Answer(h, status, version) ==
    /\ pc' = [pc EXCEPT ![h] = "idle"]
    /\ reply' = [reply EXCEPT ![h] = [status |-> status, version |-> version]]
    /\ payload' = [payload EXCEPT ![h] = NoConfig]
    /\ seen' = [seen EXCEPT ![h] = NoConfig]

\* A request that passes authentication, validation and the HMAC check.
Arrive(h, p) ==
    /\ pc[h] = "idle"
    /\ pc' = [pc EXCEPT ![h] = "read"]
    /\ payload' = [payload EXCEPT ![h] = p]
    /\ reply' = [reply EXCEPT ![h] = NoReply]
    /\ UNCHANGED <<rowVars, age, seen, adminVars>>

\* A request that does not: 401 or 400 before the row is looked at.
Reject(h) ==
    /\ pc[h] = "idle"
    /\ Answer(h, "rejected", 0)
    /\ UNCHANGED <<rowVars, age, adminVars>>

\* The read of existingConfig, outside the transaction.
Read(h) ==
    /\ pc[h] = "read"
    /\ pc' = [pc EXCEPT ![h] = "decide"]
    /\ seen' = [seen EXCEPT ![h] = current]
    /\ UNCHANGED <<rowVars, age, payload, reply, adminVars>>

\* (Mutated forms of a definition stand before it; see "mutants" in
\* PROJECT.json.)
SameOrOlderVersion(h) ==
    seen[h] # NoConfig /\ payload[h].version <= seen[h].version
SameVersion(h) == seen[h] # NoConfig /\ seen[h].version = payload[h].version

NotFromTheFuture(p) == age[p] # "early"
Fresh(p)            == age[p] = "fresh"

SupersededSwapped(h) ==
    seen[h] # NoConfig /\ seen[h].version <= payload[h].version
Superseded(h) ==
    seen[h] # NoConfig /\ payload[h].version <= seen[h].version

\* The four outcomes decided on the snapshot, in the order of the code.
Decide(h) ==
    /\ pc[h] = "decide"
    /\ \/ /\ SameVersion(h)
          /\ Answer(h, "applied", payload[h].version)
       \/ /\ ~SameVersion(h)
          /\ ~Fresh(payload[h])
          /\ Answer(h, "stale", 0)
       \/ /\ ~SameVersion(h)
          /\ Fresh(payload[h])
          /\ Superseded(h)
          /\ Answer(h, "ignored", seen[h].version)
       \/ /\ ~SameVersion(h)
          /\ Fresh(payload[h])
          /\ ~Superseded(h)
          /\ pc' = [pc EXCEPT ![h] = "commit"]
          /\ UNCHANGED <<payload, seen, reply>>
    /\ UNCHANGED <<rowVars, age, adminVars>>

StoreConfigFromSnapshot(h) ==
    /\ previous' = seen[h]
    /\ current' = payload[h]

\* The transaction: it keeps the row it finds, not the one decided on.
StoreConfig(h) ==
    /\ previous' = current
    /\ current' = payload[h]

Commit(h) ==
    /\ pc[h] = "commit"
    /\ StoreConfig(h)
    /\ Answer(h, "applied", payload[h].version)
    /\ UNCHANGED <<age, adminVars>>

\* A database error: the transaction, if any, is rolled back; 500.
Fail(h) ==
    /\ pc[h] # "idle"
    /\ Answer(h, "error", 0)
    /\ UNCHANGED <<rowVars, age, adminVars>>

-----------------------------------------------------------------------------
(* POST /api/panels/rollback *)

RollbackReadUnchecked(a) ==
    /\ adminPc[a] = "idle"
    /\ current # NoConfig
    /\ adminPc' = [adminPc EXCEPT ![a] = "swap"]
    /\ restored' = [restored EXCEPT ![a] = previous]
    /\ UNCHANGED <<rowVars, age, pushVars>>

\* Fetch the row; without a previous configuration the rollback is refused
\* and changes nothing.
RollbackRead(a) ==
    /\ adminPc[a] = "idle"
    /\ previous # NoConfig
    /\ adminPc' = [adminPc EXCEPT ![a] = "swap"]
    /\ restored' = [restored EXCEPT ![a] = previous]
    /\ UNCHANGED <<rowVars, age, pushVars>>

\* A statement of its own, written from the values fetched before.
RollbackSwap(a) ==
    /\ adminPc[a] = "swap"
    /\ current' = restored[a]
    /\ previous' = NoConfig
    /\ adminPc' = [adminPc EXCEPT ![a] = "idle"]
    /\ restored' = [restored EXCEPT ![a] = NoConfig]
    /\ UNCHANGED <<age, pushVars>>

\* That statement throws: the row stays as it is; 500.
RollbackFail(a) ==
    /\ adminPc[a] = "swap"
    /\ adminPc' = [adminPc EXCEPT ![a] = "idle"]
    /\ restored' = [restored EXCEPT ![a] = NoConfig]
    /\ UNCHANGED <<rowVars, age, pushVars>>

-----------------------------------------------------------------------------
(* Environment *)

\* Time passes for one payload.  A payload generated by a clock that runs
\* ahead becomes acceptable later; an expired one never does again.
GrowOld(p) ==
    /\ \/ age[p] = "early" /\ age' = [age EXCEPT ![p] = "fresh"]
       \/ age[p] = "fresh" /\ age' = [age EXCEPT ![p] = "expired"]
    /\ UNCHANGED <<rowVars, pushVars, adminVars>>

\* The server process stops: requests in progress vanish, the row stays.
Restart ==
    /\ pc' = [h \in Handlers |-> "idle"]
    /\ payload' = [h \in Handlers |-> NoConfig]
    /\ seen' = [h \in Handlers |-> NoConfig]
    /\ reply' = [h \in Handlers |-> NoReply]
    /\ adminPc' = [a \in Admins |-> "idle"]
    /\ restored' = [a \in Admins |-> NoConfig]
    /\ UNCHANGED <<rowVars, age>>

Handle(h) == Read(h) \/ Decide(h) \/ Commit(h)
Rollback(a) == RollbackRead(a) \/ RollbackSwap(a) \/ RollbackFail(a)

Next ==
    \/ \E h \in Handlers :
          \/ \E p \in Payloads : Arrive(h, p)
          \/ Reject(h) \/ Handle(h) \/ Fail(h)
    \/ \E a \in Admins : Rollback(a)
    \/ \E p \in Payloads : GrowOld(p)
    \/ Restart

Spec == Init /\ [][Next]_vars
=============================================================================
