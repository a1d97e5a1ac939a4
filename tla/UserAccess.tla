----------------------------- MODULE UserAccess -----------------------------
(***************************************************************************)
(* One VPN user, kept in two places: the row of the user and of its        *)
(* protocols in the database, and a client (an AWG peer, a 3x-ui client)   *)
(* in each VPN service.  The routes that create, update, delete, block,    *)
(* unblock and sync the user change the two places in turn, with an await  *)
(* between any two steps, so that requests for the same user interleave,   *)
(* and any call to a VPN service may fail, before or after it took effect. *)
(* Addresses are left to AwgPeers; here a client is known by its key.      *)
(***************************************************************************)

CONSTANTS Services,   \* the service types: AWG, THREE_XUI
          InPlace,    \* those that can disable a client and keep it
          Keys,       \* public keys and uuids that may be generated
          NoKey,      \* an empty config
          Requests    \* the requests that may be under way together

ASSUME ServicesAssumption == InPlace \subseteq Services
ASSUME NoKeyAssumption == NoKey \notin Keys

VARIABLES
    user,      \* the row of the user
    protocol,  \* its userProtocol row for each service
    client,    \* what each VPN service holds for each key
    req,       \* the requests under way
    again      \* the further additions of a request that names one twice

vars == <<user, protocol, client, req, again>>

Ops    == {"create", "update", "delete", "block", "unblock", "sync",
           "syncAll", "idle"}
Phases == {"idle", "provision", "compensate", "deactivate", "write", "remove",
           "add", "revoke", "erase", "reactivate", "resync", "switch", "flag",
           "answer"}
Steps  == {"none", "todo", "held", "called", "created", "update", "insert",
           "done"}
Marks  == {"disturbed", "failed", "agreed", "repeated"}
Status == {"absent", "off", "on"}

NoUser     == [exists |-> FALSE, isActive |-> FALSE, isBlocked |-> FALSE]
NoProtocol == [state |-> "none", config |-> NoKey]
Idle       == [op |-> "idle", phase |-> "idle", stale |-> FALSE,
               step |-> [s \in Services |-> "none"],
               key |-> [s \in Services |-> NoKey],
               adds |-> {}, block |-> FALSE, revive |-> FALSE, marks |-> {}]

Requested == [op : Ops, phase : Phases, stale : BOOLEAN,
              step : [Services -> Steps], key : [Services -> Keys \cup {NoKey}],
              adds : SUBSET Services, block : BOOLEAN, revive : BOOLEAN,
              marks : SUBSET Marks]

Additions == [service : Services, key : Keys \cup {NoKey},
              step : {"todo", "created", "update", "insert"}]

TypeOK ==
    /\ user \in [exists : BOOLEAN, isActive : BOOLEAN, isBlocked : BOOLEAN]
    /\ protocol \in [Services -> [state : {"none", "inactive", "active"},
                                  config : Keys \cup {NoKey}]]
    /\ client \in [Services -> [Keys -> Status]]
    /\ \A s \in Services \ InPlace, k \in Keys : client[s][k] # "off"
    /\ req \in [Requests -> Requested]
    /\ again \in [Requests -> SUBSET Additions]
    /\ ~user.exists => /\ user = NoUser
                       /\ \A s \in Services : protocol[s] = NoProtocol

Init ==
    /\ user = NoUser
    /\ protocol = [s \in Services |-> NoProtocol]
    /\ client = [s \in Services |-> [k \in Keys |-> "absent"]]
    /\ req = [r \in Requests |-> Idle]
    /\ again = [r \in Requests |-> {}]

-----------------------------------------------------------------------------
(* What the two places say of each other.                                  *)

Active  == {s \in Services : protocol[s].state = "active"}
Blocked(s) == IF s \in InPlace THEN "off" ELSE "absent"
Wanted(s)  == IF user.isBlocked THEN Blocked(s) ELSE "on"

\* isPendingProvisioning: recorded, but never provisioned.
Pending == {s \in Services : protocol[s] = [state |-> "inactive",
                                            config |-> NoKey]}

\* Every active protocol has its client in the state the row asks for, and
\* the services hold no other client.
Agreement ==
    /\ \A s \in Active : /\ protocol[s].config # NoKey
                         /\ client[s][protocol[s].config] = Wanted(s)
    /\ \A s \in Services, k \in Keys :
          client[s][k] # "absent" => s \in Active /\ protocol[s].config = k

-----------------------------------------------------------------------------
(* Requests.                                                               *)

Set(r, q)     == req' = [req EXCEPT ![r] = q]
End(r)        == Set(r, Idle)
Enter(r, p)   == Set(r, [req[r] EXCEPT !.phase = p])
Plan(q, p, S) == [q EXCEPT !.phase = p,
                           !.step = [s \in Services |->
                                        IF s \in S THEN "todo" ELSE "none"],
                           !.key = [s \in Services |-> NoKey]]

\* A request starts; it and the ones under way disturb each other, as does
\* a restart of the interface.  The marks are history: no action reads them.
Begin(r, q) ==
    LET others == {t \in Requests : req[t].op # "idle"}
        now == (IF others # {} THEN {"disturbed"} ELSE {})
               \cup (IF Agreement THEN {"agreed"} ELSE {})
    IN /\ req[r].op = "idle"
       /\ req' = [t \in Requests |->
                     IF t = r THEN [q EXCEPT !.marks = now]
                     ELSE IF t \in others
                     THEN [req[t] EXCEPT !.marks = @ \cup {"disturbed"}]
                     ELSE req[t]]

\* POST /api/users: the rows of the user and of its protocols come first.
\* (A service named twice breaks the unique index, and no row is written.)
BeginCreate(r) == \E S \in SUBSET Services :
    /\ ~user.exists
    /\ user' = [exists |-> TRUE, isActive |-> TRUE, isBlocked |-> FALSE]
    /\ protocol' = [s \in Services |-> IF s \in S
                       THEN [state |-> "active", config |-> NoKey]
                       ELSE NoProtocol]
    /\ Begin(r, Plan([Idle EXCEPT !.op = "create"], "provision", S))
    /\ UNCHANGED <<client, again>>

\* PUT /api/users/[id]: the services to add and to remove are those by
\* which the wanted ones differ from the active ones read here.  A service
\* to add is added as often as the request names it.
BeginUpdate(r) == \E S \in SUBSET Services :
    /\ user.exists
    /\ \E twice \in SUBSET (S \ Active) :
          again' = [again EXCEPT ![r] = {[service |-> s, step |-> "todo",
                                         key |-> NoKey] : s \in twice}]
    /\ Begin(r, [Plan([Idle EXCEPT !.op = "update"], "write", Active \ S)
                    EXCEPT !.adds = S \ Active])
    /\ UNCHANGED <<user, protocol, client>>

\* DELETE /api/users/[id].
BeginDelete(r) ==
    /\ user.exists
    /\ Begin(r, Plan([Idle EXCEPT !.op = "delete"], "revoke", Active))
    /\ UNCHANGED <<user, protocol, client, again>>

\* POST .../block and .../unblock refuse a user who already is.
BeginSwitch(r) ==
    /\ user.exists
    /\ Begin(r, Plan([Idle EXCEPT
                         !.op = IF user.isBlocked THEN "unblock" ELSE "block",
                         !.block = ~user.isBlocked], "switch", Active))
    /\ UNCHANGED <<user, protocol, client, again>>

\* POST .../sync retries what is pending.  The user will be reactivated if
\* every protocol was pending and all of them are provisioned now.
BeginSync(r) ==
    /\ user.exists
    /\ Begin(r, Plan([Idle EXCEPT
                         !.op = "sync",
                         !.revive = /\ ~user.isActive
                                    /\ Pending # {}
                                    /\ \A s \in Services \ Pending :
                                          protocol[s].state = "none"],
                     "provision", Pending))
    /\ UNCHANGED <<user, protocol, client, again>>

\* POST /api/sync (syncAllUsers) goes straight to syncUser, for a user who
\* is active.
BeginSyncAll(r) ==
    /\ user.exists /\ user.isActive
    /\ Begin(r, [Idle EXCEPT !.op = "syncAll", !.phase = "resync"])
    /\ UNCHANGED <<user, protocol, client, again>>

-----------------------------------------------------------------------------
(* One service of a request.                                               *)

\* PUT and DELETE change the services in parallel; the other routes one by
\* one, in the unspecified order of the query.
Turn(r, s) ==
    \/ req[r].phase \in {"remove", "add", "revoke"}
    \/ \A t \in Services \ {s} : req[r].step[t] \in {"none", "todo", "done"}

At(r, s, phases, step) ==
    req[r].phase \in phases /\ req[r].step[s] = step /\ Turn(r, s)

Step(r, s, step, key) ==
    Set(r, [req[r] EXCEPT !.step[s] = step, !.key[s] = key])
Fails(r, s, step) ==
    Set(r, [req[r] EXCEPT !.step[s] = step, !.key[s] = NoKey,
                          !.marks = @ \cup {"failed"}])

\* A key that is generated is in use nowhere.
Fresh(s) == {k \in Keys : /\ client[s][k] = "absent"
                          /\ protocol[s].config # k
                          /\ \A r \in Requests : /\ req[r].key[s] # k
                                               /\ \A a \in again[r] : a.key # k}

\* createAwgUser, createThreeXuiUser: the client is added and its config
\* returned, or the call fails; the client may exist nevertheless.
CreateClient(r, s) ==
    /\ At(r, s, {"provision", "add"}, "todo")
    /\ \/ \E k \in Fresh(s) :
             /\ client' = [client EXCEPT ![s][k] = "on"]
             /\ \/ Step(r, s, "created", k)
                \/ Fails(r, s, IF req[r].phase = "add" THEN "created"
                               ELSE "done")
       \/ /\ Fails(r, s, IF req[r].phase = "add" THEN "created" ELSE "done")
          /\ UNCHANGED client
    /\ UNCHANGED <<user, protocol, again>>

RecordConfigOnly(r, s) ==
    /\ At(r, s, {"provision"}, "created")
    /\ \/ req[r].stale /\ End(r) /\ UNCHANGED protocol
       \/ /\ ~req[r].stale
          /\ protocol' = [protocol EXCEPT ![s].config = req[r].key[s]]
          /\ Step(r, s, "done", req[r].key[s])
    /\ UNCHANGED <<user, client, again>>

\* POST and sync record the config by the id of the protocol row, which
\* throws if the row is gone; sync also activates it.
Record(r, s) ==
    /\ At(r, s, {"provision"}, "created")
    /\ \/ req[r].stale /\ End(r) /\ UNCHANGED protocol
       \/ /\ ~req[r].stale
          /\ protocol' = [protocol EXCEPT
                ![s].config = req[r].key[s],
                ![s].state = IF req[r].op = "sync" THEN "active" ELSE @]
          /\ Step(r, s, "done", req[r].key[s])
    /\ UNCHANGED <<user, client, again>>

\* PUT looks for the protocol row, whether or not the client was created.
FindProtocol(r, s) ==
    /\ At(r, s, {"add"}, "created")
    /\ Step(r, s, IF ~req[r].stale /\ protocol[s].state # "none"
                  THEN "update" ELSE "insert", req[r].key[s])
    /\ UNCHANGED <<user, protocol, client, again>>

\* Then it updates that row, unless it is gone, or inserts one, unless the
\* user is gone or the row is there by now; allSettled takes the rejection.
SaveAdded(r, s) ==
    /\ \/ At(r, s, {"add"}, "update") \/ At(r, s, {"add"}, "insert")
    /\ LET saves == /\ ~req[r].stale
                    /\ \/ req[r].step[s] = "update"
                       \/ protocol[s].state = "none"
       IN \/ /\ saves
             /\ protocol' = [protocol EXCEPT ![s] =
                   [state |-> "active", config |-> req[r].key[s]]]
             /\ Step(r, s, "done", NoKey)
          \/ /\ ~saves
             /\ Fails(r, s, "done")
             /\ UNCHANGED protocol
    /\ UNCHANGED <<user, client, again>>

AfterCall(r) == IF req[r].phase = "remove" THEN "called" ELSE "done"

\* findProtocolConfig: the config of the active protocol of this username;
\* without a key in it the call fails.
Lookup(r, s) ==
    /\ At(r, s, {"switch", "remove", "revoke"}, "todo")
    /\ \/ /\ s \in Active /\ protocol[s].config # NoKey
          /\ Step(r, s, "held", protocol[s].config)
       \/ /\ ~(s \in Active /\ protocol[s].config # NoKey)
          /\ Fails(r, s, AfterCall(r))
    /\ UNCHANGED <<user, protocol, client, again>>

Goal(r, s) == IF req[r].phase # "switch" THEN "absent"
              ELSE IF req[r].block THEN Blocked(s) ELSE "on"

\* The call that removes, disables or enables the client: a service that
\* disables clients in place knows only the ones it has.  A failed call may
\* have taken effect.
Call(r, s) ==
    /\ At(r, s, {"switch", "remove", "revoke"}, "held")
    /\ LET k == req[r].key[s]
           done == [client EXCEPT ![s][k] = Goal(r, s)]
           known == s \notin InPlace \/ client[s][k] # "absent"
       IN \/ /\ known
             /\ client' = done
             /\ Step(r, s, AfterCall(r), NoKey)
          \/ /\ client' \in {client} \cup (IF known THEN {done} ELSE {})
             /\ Fails(r, s, AfterCall(r))
    /\ UNCHANGED <<user, protocol, again>>

\* PUT deactivates a removed protocol whether or not the call succeeded.
Deactivate(r, s) ==
    /\ At(r, s, {"remove"}, "called")
    /\ protocol' = [protocol EXCEPT ![s].state =
                       IF @ = "active" /\ ~req[r].stale THEN "inactive" ELSE @]
    /\ Step(r, s, "done", NoKey)
    /\ UNCHANGED <<user, client, again>>

-----------------------------------------------------------------------------
(* The further addition of a service that a PUT names more than once; it   *)
(* runs in parallel to the first.  (One stands for any number.)            *)

Due(r, a, steps) == /\ req[r].phase = "add"
                    /\ a \in again[r] /\ a.step \in steps
Goes(r, a, step, key) ==
    again' = [again EXCEPT ![r] = (@ \ {a}) \cup
                 {[a EXCEPT !.step = step, !.key = key]}]
Mark(r, M) == Set(r, [req[r] EXCEPT !.marks = @ \cup M])

CreateAgain(r, a) ==
    /\ Due(r, a, {"todo"})
    /\ \/ \E k \in Fresh(a.service) :
             /\ client' = [client EXCEPT ![a.service][k] = "on"]
             /\ \/ Goes(r, a, "created", k) /\ Mark(r, {"repeated"})
                \/ /\ Goes(r, a, "created", NoKey)
                   /\ Mark(r, {"repeated", "failed"})
       \/ /\ Goes(r, a, "created", NoKey)
          /\ Mark(r, {"repeated", "failed"})
          /\ UNCHANGED client
    /\ UNCHANGED <<user, protocol>>

FindAgain(r, a) ==
    /\ Due(r, a, {"created"})
    /\ Goes(r, a, IF ~req[r].stale /\ protocol[a.service].state # "none"
                  THEN "update" ELSE "insert", a.key)
    /\ Mark(r, {"repeated"})
    /\ UNCHANGED <<user, protocol, client>>

SaveAgain(r, a) ==
    /\ Due(r, a, {"update", "insert"})
    /\ LET saves == /\ ~req[r].stale
                    /\ \/ a.step = "update"
                       \/ protocol[a.service].state = "none"
       IN /\ protocol' = IF saves
                         THEN [protocol EXCEPT ![a.service] =
                                  [state |-> "active", config |-> a.key]]
                         ELSE protocol
          /\ Mark(r, IF saves THEN {"repeated"} ELSE {"repeated", "failed"})
    /\ again' = [again EXCEPT ![r] = @ \ {a}]
    /\ UNCHANGED <<user, client>>

-----------------------------------------------------------------------------
(* The request as a whole.                                                 *)

Tasks(r)  == {s \in Services : req[r].step[s] # "none"}
Failed(r) == {s \in Tasks(r) : req[r].key[s] = NoKey}

\* PUT writes the row between reading it and changing the services.
WriteRow(r) ==
    /\ req[r].phase = "write"
    /\ \/ /\ req[r].stale /\ End(r)
          /\ again' = [again EXCEPT ![r] = {}]
          /\ UNCHANGED user
       \/ /\ ~req[r].stale
          /\ \E active \in BOOLEAN : user' = [user EXCEPT !.isActive = active]
          /\ Enter(r, "remove")
          /\ UNCHANGED again
    /\ UNCHANGED <<protocol, client>>

\* Where a request goes when it is through with its services.
Follow(r) ==
    CASE req[r].phase = "provision" /\ req[r].op = "create" ->
            Enter(r, IF Failed(r) = {} THEN "answer" ELSE "compensate")
      [] req[r].phase = "provision" /\ req[r].op = "sync" ->
            Enter(r, IF req[r].revive /\ Failed(r) = {} THEN "reactivate"
                     ELSE "resync")
      [] req[r].phase = "remove" -> Set(r, Plan(req[r], "add", req[r].adds))
      [] req[r].phase = "add" -> Enter(r, "answer")
      [] req[r].phase = "revoke" -> Enter(r, "erase")
      [] req[r].phase = "switch" ->
            Enter(r, IF req[r].op \in {"block", "unblock"} THEN "flag"
                     ELSE "answer")

ServicesDone(r) ==
    /\ req[r].phase \in {"provision", "remove", "add", "revoke", "switch"}
    /\ \A s \in Tasks(r) : req[r].step[s] = "done"
    /\ req[r].phase = "add" => again[r] = {}
    /\ Follow(r)
    /\ UNCHANGED <<user, protocol, client, again>>

CompensateIfNone(r) ==
    /\ req[r].phase = "compensate"
    /\ protocol' = [s \in Services |->
          IF s \in Failed(r) /\ ~req[r].stale /\ Failed(r) = Tasks(r)
          THEN [protocol[s] EXCEPT !.state = "inactive"] ELSE protocol[s]]
    /\ Enter(r, IF Failed(r) = Tasks(r) THEN "deactivate" ELSE "answer")
    /\ UNCHANGED <<user, client, again>>

\* POST marks the protocols it could not provision, and the user if there
\* is no other.
Compensate(r) ==
    /\ req[r].phase = "compensate"
    /\ protocol' = [s \in Services |->
          IF s \in Failed(r) /\ ~req[r].stale
          THEN [protocol[s] EXCEPT !.state = "inactive"] ELSE protocol[s]]
    /\ Enter(r, IF Failed(r) = Tasks(r) THEN "deactivate" ELSE "answer")
    /\ UNCHANGED <<user, client, again>>

\* A write to the row of the user by its id, which throws if it is gone.
WriteUser(r, row, next) ==
    /\ \/ req[r].stale /\ End(r) /\ UNCHANGED user
       \/ ~req[r].stale /\ user' = row /\ Enter(r, next)
    /\ UNCHANGED <<protocol, client, again>>

DeactivateUser(r) ==
    /\ req[r].phase = "deactivate"
    /\ WriteUser(r, [user EXCEPT !.isActive = FALSE], "answer")

Reactivate(r) ==
    /\ req[r].phase = "reactivate"
    /\ WriteUser(r, [user EXCEPT !.isActive = TRUE], "resync")

Flag(r) ==
    /\ req[r].phase = "flag"
    /\ WriteUser(r, [user EXCEPT !.isBlocked = req[r].block], "answer")

FindUserUnblocking(r) ==
    /\ req[r].phase = "resync"
    /\ \/ req[r].stale /\ Enter(r, "answer")
       \/ ~req[r].stale /\ Set(r, Plan(req[r], "switch", Active))
    /\ UNCHANGED <<user, protocol, client, again>>

\* syncUser: block or unblock every active protocol, as the row says.
FindUser(r) ==
    /\ req[r].phase = "resync"
    /\ \/ req[r].stale /\ Enter(r, "answer")
       \/ /\ ~req[r].stale
          /\ Set(r, [Plan(req[r], "switch", Active)
                        EXCEPT !.block = user.isBlocked])
    /\ UNCHANGED <<user, protocol, client, again>>

EraseUserOnly(r) ==
    /\ req[r].phase = "erase"
    /\ user' = NoUser
    /\ Enter(r, "answer")
    /\ UNCHANGED <<protocol, client, again>>

\* DELETE removes the row and, by cascade, its protocols: every other
\* request under way then works on a row that is gone.
Erase(r) ==
    /\ req[r].phase = "erase"
    /\ \/ req[r].stale /\ End(r) /\ UNCHANGED <<user, protocol>>
       \/ /\ ~req[r].stale
          /\ user' = NoUser
          /\ protocol' = [s \in Services |-> NoProtocol]
          /\ req' = [t \in Requests |->
                        IF t = r THEN [req[r] EXCEPT !.phase = "answer"]
                        ELSE [req[t] EXCEPT !.stale = req[t].op # "idle"]]
    /\ UNCHANGED <<client, again>>

\* The audit log and the response.
Answer(r) ==
    /\ req[r].phase = "answer"
    /\ End(r)
    /\ UNCHANGED <<user, protocol, client, again>>

\* The process stops, or a query of the request throws.
Abort(r) ==
    /\ req[r].op # "idle"
    /\ End(r)
    /\ again' = [again EXCEPT ![r] = {}]
    /\ UNCHANGED <<user, protocol, client>>

\* The AWG interface is set up anew, without the peers that were set on it.
InterfaceRestart ==
    /\ client' = [s \in Services |-> IF s \in InPlace THEN client[s]
                                     ELSE [k \in Keys |-> "absent"]]
    /\ req' = [r \in Requests |->
                  IF req[r].op = "idle" THEN Idle
                  ELSE [req[r] EXCEPT !.marks = @ \cup {"disturbed"}]]
    /\ UNCHANGED <<user, protocol, again>>

Next == InterfaceRestart \/ \E r \in Requests :
    \/ BeginCreate(r) \/ BeginUpdate(r) \/ BeginDelete(r) \/ BeginSwitch(r)
    \/ BeginSync(r) \/ BeginSyncAll(r)
    \/ \E s \in Services :
          \/ CreateClient(r, s) \/ Record(r, s) \/ FindProtocol(r, s)
          \/ SaveAdded(r, s) \/ Lookup(r, s) \/ Call(r, s) \/ Deactivate(r, s)
    \/ \E a \in again[r] :
          CreateAgain(r, a) \/ FindAgain(r, a) \/ SaveAgain(r, a)
    \/ WriteRow(r) \/ ServicesDone(r) \/ Compensate(r) \/ DeactivateUser(r)
    \/ Reactivate(r) \/ FindUser(r) \/ Flag(r) \/ Erase(r)
    \/ Answer(r) \/ Abort(r)

Spec == Init /\ [][Next]_vars

-----------------------------------------------------------------------------
(* Properties.                                                             *)

\* The request answers, and nothing overlapped it: no other request, and no
\* restart of the interface.
Answers(r, ops) ==
    /\ req[r].op \in ops
    /\ req[r].phase = "answer"
    /\ "disturbed" \notin req[r].marks

\* A request that found the two places in agreement, was not overlapped, met
\* no failing call and named no service to add twice leaves them in
\* agreement: no service keeps a client the database does not know of, none
\* is missing, and a block reaches all of them.  (A service named twice gets
\* two clients, and the row knows of one.  Adding a service to a blocked user
\* is left out too: PUT never looks at isBlocked, the new client has access.)
CleanRunsAgree == \A r \in Requests :
    /\ Answers(r, Ops)
    /\ req[r].marks = {"agreed"}
    /\ ~(req[r].op = "update" /\ req[r].adds # {} /\ user.isBlocked)
    => Agreement

\* A sync that was not overlapped and met no failing call leaves every
\* active protocol as the row of the user asks, and the sync of one user
\* leaves nothing pending, whatever failures and overlaps before it had left.
SyncRestores == \A r \in Requests :
    Answers(r, {"sync", "syncAll"}) /\ "failed" \notin req[r].marks
    => /\ \A s \in Active : /\ protocol[s].config # NoKey
                            /\ client[s][protocol[s].config] = Wanted(s)
       /\ req[r].op = "sync" => Pending = {}

\* Whatever the VPN services do, a user whose creation was not overlapped
\* is answered with rows that tell the truth: a protocol is active exactly
\* if its service reported a client, which then is there and has access; the
\* others are pending, so that a sync retries them; and the user is active
\* unless every service failed.  (A service that reported a failure may have
\* a client nevertheless, of which the rows know nothing.)
CreateTellsTruth == \A r \in Requests :
    Answers(r, {"create"})
    => /\ Active = Tasks(r) \ Failed(r)
       /\ \A s \in Active : /\ protocol[s].config # NoKey
                            /\ client[s][protocol[s].config] = "on"
       /\ Failed(r) \subseteq Pending
       /\ user.isActive = (Active # {} \/ Tasks(r) = {})

\* The same of an update: a service it added is not active without having
\* been provisioned.
UpdateTellsTruth == \A r \in Requests :
    Answers(r, {"update"})
    => \A s \in req[r].adds : s \in Active => protocol[s].config # NoKey
=============================================================================
