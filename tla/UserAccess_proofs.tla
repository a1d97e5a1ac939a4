--------------------------- MODULE UserAccess_proofs ---------------------------
(***************************************************************************)
(* Proofs about UserAccess, for any number of overlapping requests, any    *)
(* services and any keys.                                                  *)
(***************************************************************************)
EXTENDS UserAccess, TLAPS

-----------------------------------------------------------------------------
(* Types and phases *)

\* The phases each operation goes through.
PhasesOf(op) ==
    CASE op = "create"  -> {"provision", "compensate", "deactivate", "answer"}
      [] op = "sync"    -> {"provision", "reactivate", "resync", "switch",
                            "answer"}
      [] op = "syncAll" -> {"resync", "switch", "answer"}
      [] op = "block"   -> {"switch", "flag", "answer"}
      [] op = "unblock" -> {"switch", "flag", "answer"}
      [] op = "update"  -> {"write", "remove", "add", "answer"}
      [] op = "delete"  -> {"revoke", "erase", "answer"}
      [] op = "idle"    -> {"idle"}

\* The steps a service of a request may be at in each phase.
StepsOf(phase) ==
    CASE phase = "provision" -> {"none", "todo", "created", "done"}
      [] phase = "switch"    -> {"none", "todo", "held", "done"}
      [] phase = "revoke"    -> {"none", "todo", "held", "done"}
      [] phase = "remove"    -> {"none", "todo", "held", "called", "done"}
      [] phase = "add"       -> {"none", "todo", "created", "update",
                                 "insert", "done"}
      [] phase = "write"     -> {"none", "todo"}
      [] OTHER               -> {"none", "done"}

\* A request is in a phase of its operation and its services at a step of
\* that phase; one that is about to call a service, or has been given a
\* client by it, has the key; and it has a user to work on, or knows that
\* the user is gone, or is through.
RequestInv(r) ==
    /\ req[r].phase \in PhasesOf(req[r].op)
    /\ \A s \in Services : req[r].step[s] \in StepsOf(req[r].phase)
    /\ \A s \in Services :
          \/ req[r].step[s] = "held"
          \/ req[r].phase = "provision" /\ req[r].step[s] = "created"
          => req[r].key[s] \in Keys
    /\ req[r].op = "idle" => req[r] = Idle
    /\ req[r].op # "idle" /\ ~req[r].stale /\ req[r].phase # "answer" =>
          user.exists

TypeInv == TypeOK /\ \A r \in Requests : RequestInv(r)

\* The rows of the protocols.
Rows == [state : {"none", "inactive", "active"}, config : Keys \cup {NoKey}]

\* A row stays one when its fields are set.
LEMMA SetRow ==
  ASSUME NEW f \in [Services -> Rows], NEW s \in Services,
         NEW state \in {"none", "inactive", "active"}
  PROVE  /\ [f EXCEPT ![s].state = state] \in [Services -> Rows]
         /\ \A config \in Keys \cup {NoKey} :
               [f EXCEPT ![s].config = config, ![s].state = state]
                  \in [Services -> Rows]
  <1>1. [f EXCEPT ![s].state = state] \in [Services -> Rows]
    BY DEF Rows
  <1>2. ASSUME NEW config \in Keys \cup {NoKey}
        PROVE  [f EXCEPT ![s].config = config, ![s].state = state]
                  \in [Services -> Rows]
    <2>1. PICK g \in [Services -> Rows] : g = [f EXCEPT ![s].config = config]
      BY DEF Rows
    <2>2. [f EXCEPT ![s].config = config, ![s].state = state]
             = [g EXCEPT ![s].state = state]
      BY <2>1
    <2>3. QED BY <2>2 DEF Rows
  <1>3. QED BY <1>1, <1>2

\* The first state is well typed.
LEMMA InitTypeInv == Init => TypeInv
  BY DEF Init, TypeInv, TypeOK, RequestInv, PhasesOf, StepsOf, NoUser,
         NoProtocol, Idle, Requested, Ops, Phases, Steps, Status, Additions

\* A request in progress is a record of its type, whatever its new value.
LEMMA SetType ==
  ASSUME TypeInv, NEW r \in Requests, NEW q \in Requested, Set(r, q),
         q.phase \in PhasesOf(q.op),
         \A s \in Services : q.step[s] \in StepsOf(q.phase),
         \A s \in Services :
            \/ q.step[s] = "held"
            \/ q.phase = "provision" /\ q.step[s] = "created"
            => q.key[s] \in Keys,
         q.op = "idle" => q = Idle,
         q.op # "idle" /\ ~q.stale /\ q.phase # "answer" => user'.exists,
         user.exists => user'.exists
  PROVE  /\ req' \in [Requests -> Requested]
         /\ \A t \in Requests : RequestInv(t)'
  BY DEF TypeInv, TypeOK, RequestInv, Set

\* Ending a request.
LEMMA EndType ==
  ASSUME TypeInv, NEW r \in Requests, End(r),
         user.exists => user'.exists
  PROVE  /\ req' \in [Requests -> Requested]
         /\ \A t \in Requests : RequestInv(t)'
  <1>1. Idle \in Requested
    BY DEF Idle, Requested, Ops, Phases, Steps
  <1>2. QED
    BY <1>1, SetType DEF End, Idle, PhasesOf, StepsOf

\* Going to a phase in which no service is worked on.
LEMMA EnterType ==
  ASSUME TypeInv, NEW r \in Requests, req[r].op # "idle",
         NEW phase \in PhasesOf(req[r].op), Enter(r, phase),
         phase \in Phases,
         \A s \in Services : req[r].step[s] \in StepsOf(phase),
         phase # "provision",
         user.exists => user'.exists,
         req[r].phase # "answer"
  PROVE  /\ req' \in [Requests -> Requested]
         /\ \A t \in Requests : RequestInv(t)'
  <1> DEFINE q == [req[r] EXCEPT !.phase = phase]
  <1>1. req[r] \in Requested /\ RequestInv(r)
    BY DEF TypeInv, TypeOK
  <1>2. q \in Requested /\ q.phase = phase /\ q.op = req[r].op
        /\ q.step = req[r].step /\ q.key = req[r].key /\ q.stale = req[r].stale
    BY <1>1 DEF Requested
  <1>3. Set(r, q)
    BY DEF Enter
  <1> HIDE DEF q
  <1>4. \A s \in Services : q.step[s] = "held" => q.key[s] \in Keys
    BY <1>1, <1>2 DEF RequestInv
  <1>5. q.op # "idle" /\ ~q.stale => user'.exists
    BY <1>1, <1>2 DEF RequestInv
  <1>6. QED
    BY <1>2, <1>3, <1>4, <1>5, SetType

\* A step of one service.
LEMMA StepType ==
  ASSUME TypeInv, NEW r \in Requests, req[r].op # "idle",
         NEW s \in Services, NEW step \in Steps,
         NEW key \in Keys \cup {NoKey}, NEW marks \in SUBSET Marks,
         Set(r, [req[r] EXCEPT !.step[s] = step, !.key[s] = key,
                               !.marks = marks]),
         step \in StepsOf(req[r].phase),
         step = "held" => key \in Keys,
         req[r].phase = "provision" /\ step = "created" => key \in Keys,
         UNCHANGED user
  PROVE  /\ req' \in [Requests -> Requested]
         /\ \A t \in Requests : RequestInv(t)'
  <1> DEFINE q == [req[r] EXCEPT !.step[s] = step, !.key[s] = key,
                                 !.marks = marks]
  <1>1. req[r] \in Requested /\ RequestInv(r)
    BY DEF TypeInv, TypeOK
  <1>2. /\ q \in Requested /\ q.phase = req[r].phase /\ q.op = req[r].op
        /\ q.step = [req[r].step EXCEPT ![s] = step]
        /\ q.key = [req[r].key EXCEPT ![s] = key]
        /\ q.stale = req[r].stale
    BY <1>1 DEF Requested
  <1>3. Set(r, q)
    OBVIOUS
  <1> HIDE DEF q
  <1>4. /\ req[r].step \in [Services -> Steps]
        /\ req[r].key \in [Services -> Keys \cup {NoKey}]
    BY <1>1 DEF Requested
  <1>5. q.phase \in PhasesOf(q.op)
    BY <1>1, <1>2 DEF RequestInv
  <1>6. \A t \in Services : q.step[t] \in StepsOf(q.phase)
    BY <1>1, <1>2, <1>4 DEF RequestInv
  <1>7. \A t \in Services :
           \/ q.step[t] = "held"
           \/ q.phase = "provision" /\ q.step[t] = "created"
           => q.key[t] \in Keys
    BY <1>1, <1>2, <1>4 DEF RequestInv
  <1>8. q.op # "idle"
        /\ (~q.stale /\ q.phase # "answer" => user'.exists)
    BY <1>1, <1>2 DEF RequestInv
  <1>9. QED
    BY <1>2, <1>3, <1>5, <1>6, <1>7, <1>8, SetType

\* The plan of a request for some services is one of its type.
LEMMA PlanType ==
  ASSUME NEW q \in Requested, NEW p \in Phases, NEW S \in SUBSET Services
  PROVE  LET n == Plan(q, p, S)
         IN  /\ n \in Requested
             /\ n.phase = p /\ n.op = q.op /\ n.stale = q.stale
             /\ n.step = [s \in Services |-> IF s \in S THEN "todo"
                                                       ELSE "none"]
             /\ n.key = [s \in Services |-> NoKey]
             /\ n.adds = q.adds /\ n.block = q.block /\ n.marks = q.marks
  BY DEF Plan, Requested, Steps

\* Beginning a request.
LEMMA BeginType ==
  ASSUME TypeInv, NEW r \in Requests, NEW q \in Requested, Begin(r, q),
         q.phase \in PhasesOf(q.op), q.op # "idle",
         \A s \in Services :
            q.step[s] \in {"none", "todo"} \cap StepsOf(q.phase),
         user'.exists,
         user.exists => user'.exists
  PROVE  /\ req' \in [Requests -> Requested]
         /\ \A t \in Requests : RequestInv(t)'
  <1> DEFINE now == (IF {t \in Requests : req[t].op # "idle"} # {}
                     THEN {"disturbed"} ELSE {})
                    \cup (IF Agreement THEN {"agreed"} ELSE {})
             n == [q EXCEPT !.marks = now]
  <1>1. now \in SUBSET Marks
    BY DEF Marks
  <1> HIDE DEF now
  <1>2. /\ n \in Requested /\ n.phase = q.phase /\ n.op = q.op
        /\ n.step = q.step /\ n.key = q.key /\ n.stale = q.stale
    BY <1>1 DEF Requested
  <1>3. req'[r] = n
    BY DEF Begin, now
  <1> HIDE DEF n
  <1>4. ASSUME NEW t \in Requests \ {r}
        PROVE  /\ req'[t] \in Requested
               /\ req[t].op = "idle" => req'[t] = req[t]
               /\ req'[t].phase = req[t].phase /\ req'[t].op = req[t].op
               /\ req'[t].step = req[t].step /\ req'[t].key = req[t].key
               /\ req'[t].stale = req[t].stale
    <2>1. req[t] \in Requested
      BY DEF TypeInv, TypeOK
    <2>2. req'[t] = IF req[t].op # "idle"
                    THEN [req[t] EXCEPT !.marks = @ \cup {"disturbed"}]
                    ELSE req[t]
      BY DEF Begin
    <2>3. QED BY <2>1, <2>2 DEF Requested, Marks
  <1>5. req' \in [Requests -> Requested]
    <2>1. \A t \in Requests : req'[t] \in Requested
      BY <1>2, <1>3, <1>4
    <2>2. \E f : req' = [t \in Requests |-> f[t]]
      <3>1. req' = [t \in Requests |-> req'[t]]
        BY DEF Begin
      <3>2. QED BY <3>1
    <2>3. QED BY <2>1, <2>2
  <1>6. RequestInv(r)'
    BY <1>2, <1>3 DEF RequestInv
  <1>7. ASSUME NEW t \in Requests \ {r} PROVE RequestInv(t)'
    BY <1>4 DEF RequestInv, TypeInv
  <1>8. QED BY <1>5, <1>6, <1>7

\* A step of one service that does not fail.
LEMMA StepOnlyType ==
  ASSUME TypeInv, NEW r \in Requests, req[r].op # "idle",
         NEW s \in Services, NEW step \in Steps,
         NEW key \in Keys \cup {NoKey}, Step(r, s, step, key),
         step \in StepsOf(req[r].phase),
         step = "held" => key \in Keys,
         req[r].phase = "provision" /\ step = "created" => key \in Keys,
         UNCHANGED user
  PROVE  /\ req' \in [Requests -> Requested]
         /\ \A t \in Requests : RequestInv(t)'
  <1>1. req[r] \in Requested
    BY DEF TypeInv, TypeOK
  <1>2. req[r].marks \in SUBSET Marks
    BY <1>1 DEF Requested
  <1>3. [req[r] EXCEPT !.step[s] = step, !.key[s] = key] =
        [req[r] EXCEPT !.step[s] = step, !.key[s] = key,
                       !.marks = req[r].marks]
    BY <1>1 DEF Requested
  <1>4. QED
    BY <1>2, <1>3, StepType DEF Step

\* A step of one service that fails; only PUT goes on without a key then.
LEMMA FailsType ==
  ASSUME TypeInv, NEW r \in Requests, req[r].op # "idle",
         NEW s \in Services, NEW step \in Steps, Fails(r, s, step),
         step \in StepsOf(req[r].phase), step # "held",
         req[r].phase = "provision" => step # "created",
         UNCHANGED user
  PROVE  /\ req' \in [Requests -> Requested]
         /\ \A t \in Requests : RequestInv(t)'
  <1>1. req[r].marks \cup {"failed"} \in SUBSET Marks
    BY DEF TypeInv, TypeOK, Requested, Marks
  <1>2. QED
    BY <1>1, StepType DEF Fails

\* A request begins.
Begins(r) ==
    \/ BeginCreate(r) \/ BeginUpdate(r) \/ BeginDelete(r) \/ BeginSwitch(r)
    \/ BeginSync(r) \/ BeginSyncAll(r)

\* A request as it opens: in the first phase of its operation, with some
\* services to work on.
Opens(q, op, phase, S) ==
    /\ q \in Requested /\ q.op = op /\ q.phase = phase /\ q.stale = FALSE
    /\ q.step = [s \in Services |-> IF s \in S THEN "todo" ELSE "none"]

\* A plan made for a record of a new request.
LEMMA PlanOpens ==
  ASSUME NEW i \in Requested, i.stale = FALSE, NEW p \in Phases,
         NEW S \in SUBSET Services
  PROVE  /\ Opens(Plan(i, p, S), i.op, p, S)
         /\ Plan(i, p, S).adds = i.adds /\ Plan(i, p, S).block = i.block
         /\ Plan(i, p, S).revive = i.revive
  BY DEF Plan, Requested, Steps, Opens

\* The record of a request that is not under way.
LEMMA IdleType == Idle \in Requested
  BY DEF Idle, Requested, Ops, Phases, Steps

\* A creation opens with the services asked for.
LEMMA CreateOpens ==
  ASSUME TypeInv, NEW r \in Requests, BeginCreate(r)
  PROVE  \E S \in SUBSET Services, q \in Requested :
            /\ Opens(q, "create", "provision", S) /\ Begin(r, q)
            /\ ~user.exists
            /\ user' = [exists |-> TRUE, isActive |-> TRUE,
                        isBlocked |-> FALSE]
            /\ protocol' = [s \in Services |-> IF s \in S
                               THEN [state |-> "active", config |-> NoKey]
                               ELSE NoProtocol]
            /\ UNCHANGED client
  <1> DEFINE i == [Idle EXCEPT !.op = "create"]
  <1>1. i \in Requested /\ i.op = "create" /\ i.stale = FALSE
    BY IdleType DEF Idle, Requested, Ops
  <1>2. PICK S \in SUBSET Services :
            /\ protocol' = [s \in Services |-> IF s \in S
                               THEN [state |-> "active", config |-> NoKey]
                               ELSE NoProtocol]
            /\ Begin(r, Plan(i, "provision", S))
    BY DEF BeginCreate
  <1> HIDE DEF i
  <1>3. Opens(Plan(i, "provision", S), "create", "provision", S)
    BY <1>1, PlanOpens DEF Phases
  <1>4. Plan(i, "provision", S) \in Requested
    BY <1>3 DEF Opens
  <1>5. QED BY <1>2, <1>3, <1>4 DEF BeginCreate

\* An update opens with the active services that are not asked for, and
\* keeps those to add for later.
LEMMA UpdateOpens ==
  ASSUME TypeInv, NEW r \in Requests, BeginUpdate(r)
  PROVE  /\ user.exists /\ UNCHANGED <<user, protocol, client>>
         /\ \E S \in SUBSET Services, q \in Requested :
              /\ Opens(q, "update", "write", Active \ S) /\ Begin(r, q)
              /\ q.adds = S \ Active
  <1> DEFINE i == [Idle EXCEPT !.op = "update"]
  <1>1. i \in Requested /\ i.op = "update" /\ i.stale = FALSE
    BY IdleType DEF Idle, Requested, Ops
  <1>2. PICK S \in SUBSET Services :
           Begin(r, [Plan(i, "write", Active \ S) EXCEPT !.adds = S \ Active])
    BY DEF BeginUpdate
  <1> HIDE DEF i
  <1> DEFINE D == Active \ S
             w == Plan(i, "write", D)
             q == [w EXCEPT !.adds = S \ Active]
  <1>3. D \in SUBSET Services
    BY DEF Active
  <1>4. Begin(r, q)
    BY <1>2
  <1> HIDE DEF D
  <1>5. Opens(w, "update", "write", D)
    BY <1>1, <1>3, PlanOpens DEF Phases
  <1> HIDE DEF w
  <1>6. q \in Requested /\ q.adds = S \ Active
        /\ Opens(q, "update", "write", D)
    BY <1>5 DEF Opens, Requested
  <1> HIDE DEF q
  <1>7. QED BY <1>4, <1>6 DEF BeginUpdate, D

\* A deletion opens with the active services.
LEMMA DeleteOpens ==
  ASSUME TypeInv, NEW r \in Requests, BeginDelete(r)
  PROVE  /\ user.exists /\ UNCHANGED <<user, protocol, client>>
         /\ \E q \in Requested :
              Opens(q, "delete", "revoke", Active) /\ Begin(r, q)
  <1> DEFINE i == [Idle EXCEPT !.op = "delete"]
             q == Plan(i, "revoke", Active)
  <1>1. i \in Requested /\ i.op = "delete" /\ i.stale = FALSE
    BY IdleType DEF Idle, Requested, Ops
  <1>2. Begin(r, q)
    BY DEF BeginDelete
  <1> HIDE DEF i
  <1>3. Opens(q, "delete", "revoke", Active)
    <2>1. Active \in SUBSET Services
      BY DEF Active
    <2>2. QED BY <1>1, <2>1, PlanOpens DEF Phases
  <1> HIDE DEF q
  <1>4. q \in Requested
    BY <1>3 DEF Opens
  <1>5. QED BY <1>2, <1>3, <1>4 DEF BeginDelete

\* So does a block or an unblock, with what the switch is to do.
LEMMA SwitchOpens ==
  ASSUME TypeInv, NEW r \in Requests, BeginSwitch(r)
  PROVE  /\ user.exists /\ UNCHANGED <<user, protocol, client>>
         /\ \E q \in Requested :
              /\ Opens(q, IF user.isBlocked THEN "unblock" ELSE "block",
                       "switch", Active)
              /\ Begin(r, q)
              /\ q.block = ~user.isBlocked
  <1> DEFINE op == IF user.isBlocked THEN "unblock" ELSE "block"
             i  == [Idle EXCEPT !.op = op, !.block = ~user.isBlocked]
             q  == Plan(i, "switch", Active)
  <1>1. i \in Requested /\ i.op = op /\ i.stale = FALSE
        /\ i.block = ~user.isBlocked
    BY IdleType DEF Idle, Requested, Ops, TypeInv, TypeOK
  <1>2. Begin(r, q)
    BY DEF BeginSwitch
  <1> HIDE DEF i, op
  <1>3. Opens(q, op, "switch", Active) /\ q.block = i.block
    <2>1. Active \in SUBSET Services
      BY DEF Active
    <2>2. Opens(q, i.op, "switch", Active)
      BY <1>1, <2>1, PlanOpens DEF Phases
    <2>3. q.block = i.block
      BY <1>1, <2>1, PlanOpens DEF Phases
    <2>4. QED BY <1>1, <2>2, <2>3
  <1> HIDE DEF q
  <1>4. q \in Requested
    BY <1>3 DEF Opens
  <1>5. QED BY <1>1, <1>2, <1>3, <1>4 DEF BeginSwitch, op

\* The sync of one user opens with what is pending.
LEMMA SyncOpens ==
  ASSUME TypeInv, NEW r \in Requests, BeginSync(r)
  PROVE  /\ user.exists /\ UNCHANGED <<user, protocol, client>>
         /\ \E q \in Requested :
              Opens(q, "sync", "provision", Pending) /\ Begin(r, q)
  <1> DEFINE i == [Idle EXCEPT
                      !.op = "sync",
                      !.revive = /\ ~user.isActive
                                 /\ Pending # {}
                                 /\ \A s \in Services \ Pending :
                                       protocol[s].state = "none"]
             q == Plan(i, "provision", Pending)
  <1>1. i \in Requested /\ i.op = "sync" /\ i.stale = FALSE
    BY IdleType DEF Idle, Requested, Ops
  <1>2. Begin(r, q)
    BY DEF BeginSync
  <1> HIDE DEF i
  <1>3. Opens(q, "sync", "provision", Pending)
    <2>1. Pending \in SUBSET Services
      BY DEF Pending
    <2>2. QED BY <1>1, <2>1, PlanOpens DEF Phases
  <1> HIDE DEF q
  <1>4. q \in Requested
    BY <1>3 DEF Opens
  <1>5. QED BY <1>2, <1>3, <1>4 DEF BeginSync

\* The sync of all users opens by looking at the user again.
LEMMA SyncAllOpens ==
  ASSUME TypeInv, NEW r \in Requests, BeginSyncAll(r)
  PROVE  /\ user.exists /\ UNCHANGED <<user, protocol, client>>
         /\ \E q \in Requested :
              Opens(q, "syncAll", "resync", {}) /\ Begin(r, q)
  <1> DEFINE q == [Idle EXCEPT !.op = "syncAll", !.phase = "resync"]
  <1>1. q \in Requested /\ Opens(q, "syncAll", "resync", {})
    <2>1. /\ q \in Requested /\ q.op = "syncAll" /\ q.phase = "resync"
          /\ q.stale = FALSE /\ q.step = [s \in Services |-> "none"]
      BY IdleType DEF Idle, Requested, Ops, Phases
    <2> HIDE DEF q
    <2>2. QED BY <2>1 DEF Opens
  <1>2. Begin(r, q)
    BY DEF BeginSyncAll
  <1> HIDE DEF q
  <1>3. QED BY <1>1, <1>2 DEF BeginSyncAll

\* A step of a further addition of a service.
StepsAgain(r, a) == CreateAgain(r, a) \/ FindAgain(r, a) \/ SaveAgain(r, a)

\* Every step keeps the type of the further additions.
LEMMA NextAgainType ==
  ASSUME TypeInv, [Next]_vars
  PROVE  again' \in [Requests -> SUBSET Additions]
  <1>a. again \in [Requests -> SUBSET Additions]
    BY DEF TypeInv, TypeOK
  <1>1. ASSUME NEW r \in Requests, NEW A \in SUBSET Additions,
               again' = [again EXCEPT ![r] = A]
        PROVE  again' \in [Requests -> SUBSET Additions]
    BY <1>a, <1>1
  <1>2. ASSUME NEW r \in Requests, BeginUpdate(r)
        PROVE  again' \in [Requests -> SUBSET Additions]
    <2>1. PICK twice \in SUBSET Services :
             again' = [again EXCEPT ![r] = {[service |-> s, step |-> "todo",
                                            key |-> NoKey] : s \in twice}]
      BY <1>2 DEF BeginUpdate
    <2>2. {[service |-> s, step |-> "todo", key |-> NoKey] : s \in twice}
             \in SUBSET Additions
      BY DEF Additions
    <2>3. QED BY <1>1, <2>1, <2>2
  <1>3. ASSUME NEW r \in Requests, WriteRow(r) \/ Abort(r)
        PROVE  again' \in [Requests -> SUBSET Additions]
    BY <1>a, <1>1, <1>3 DEF WriteRow, Abort
  <1>4. ASSUME NEW r \in Requests, NEW a \in again[r], StepsAgain(r, a)
        PROVE  again' \in [Requests -> SUBSET Additions]
    <2>1. a \in Additions /\ again[r] \in SUBSET Additions
      BY <1>a
    <2>2. ASSUME NEW step \in {"todo", "created", "update", "insert"},
                 NEW key \in Keys \cup {NoKey}, Goes(r, a, step, key)
          PROVE  again' \in [Requests -> SUBSET Additions]
      <3>1. [a EXCEPT !.step = step, !.key = key] \in Additions
        BY <2>1 DEF Additions
      <3>2. again' = [again EXCEPT ![r] = (again[r] \ {a}) \cup
                        {[a EXCEPT !.step = step, !.key = key]}]
        BY <2>2 DEF Goes
      <3>3. (again[r] \ {a}) \cup {[a EXCEPT !.step = step, !.key = key]}
               \in SUBSET Additions
        BY <2>1, <3>1
      <3> DEFINE rest == (again[r] \ {a}) \cup
                          {[a EXCEPT !.step = step, !.key = key]}
      <3>4. again' = [again EXCEPT ![r] = rest] /\ rest \in SUBSET Additions
        BY <3>2, <3>3
      <3> HIDE DEF rest
      <3>5. QED BY <1>1, <3>4
    <2>3. CASE CreateAgain(r, a)
      <3>1. \E key \in Keys \cup {NoKey} : Goes(r, a, "created", key)
        BY <2>3 DEF CreateAgain, Fresh
      <3>2. QED BY <2>2, <3>1
    <2>4. CASE FindAgain(r, a)
      <3>1. a.key \in Keys \cup {NoKey}
        BY <2>1 DEF Additions
      <3>2. \E step \in {"update", "insert"} : Goes(r, a, step, a.key)
        BY <2>4 DEF FindAgain
      <3>3. QED BY <2>2, <3>1, <3>2
    <2>5. CASE SaveAgain(r, a)
      BY <1>1, <2>1, <2>5 DEF SaveAgain
    <2>6. QED BY <1>4, <2>3, <2>4, <2>5 DEF StepsAgain
  <1>5. UNCHANGED again
        \/ (\E r \in Requests : \/ BeginUpdate(r) \/ WriteRow(r) \/ Abort(r)
                               \/ \E a \in again[r] : StepsAgain(r, a))
    <2>1. CASE UNCHANGED vars \/ InterfaceRestart
      BY <2>1 DEF vars, InterfaceRestart
    <2>2. ASSUME NEW r \in Requests,
                 \/ BeginCreate(r) \/ BeginDelete(r) \/ BeginSwitch(r)
                 \/ BeginSync(r) \/ BeginSyncAll(r)
          PROVE  UNCHANGED again
      BY <2>2 DEF BeginCreate, BeginDelete, BeginSwitch, BeginSync,
         BeginSyncAll
    <2>3. ASSUME NEW r \in Requests, NEW s \in Services,
                 \/ CreateClient(r, s) \/ Record(r, s) \/ FindProtocol(r, s)
                 \/ SaveAdded(r, s) \/ Lookup(r, s) \/ Call(r, s)
                 \/ Deactivate(r, s)
          PROVE  UNCHANGED again
      BY <2>3 DEF CreateClient, Record, FindProtocol, SaveAdded, Lookup,
         Call, Deactivate
    <2>4. ASSUME NEW r \in Requests,
                 \/ ServicesDone(r) \/ Compensate(r) \/ DeactivateUser(r)
                 \/ Reactivate(r) \/ FindUser(r) \/ Flag(r) \/ Erase(r)
                 \/ Answer(r)
          PROVE  UNCHANGED again
      BY <2>4 DEF ServicesDone, Compensate, DeactivateUser, Reactivate,
         FindUser, Flag, Erase, Answer, WriteUser
    <2>5. QED BY <2>1, <2>2, <2>3, <2>4 DEF Next, StepsAgain
  <1>6. QED BY <1>a, <1>2, <1>3, <1>4, <1>5

\* A step of a further addition marks the request.
LEMMA AgainMarks ==
  ASSUME NEW r \in Requests, NEW a, StepsAgain(r, a)
  PROVE  /\ req[r].phase = "add" /\ a \in again[r]
         /\ \E M \in SUBSET Marks : "repeated" \in M /\ Mark(r, M)
         /\ UNCHANGED user
  BY DEF StepsAgain, CreateAgain, FindAgain, SaveAgain, Due, Marks

\* Every step keeps the types and the phases.
LEMMA NextTypeInv == TypeInv /\ [Next]_vars => TypeInv'
  <1> SUFFICES ASSUME TypeInv, [Next]_vars PROVE TypeInv'
    OBVIOUS
  <1>a. TypeOK /\ \A r \in Requests : req[r] \in Requested /\ RequestInv(r)
    BY DEF TypeInv, TypeOK
  <1>c. again' \in [Requests -> SUBSET Additions]
    BY NextAgainType
  <1> USE <1>a, <1>c
  <1>b. Idle \in Requested
    BY DEF Idle, Requested, Ops, Phases, Steps
  <1>1. ASSUME NEW r \in Requests, Begins(r) PROVE TypeInv'
    <2>1. CASE BeginCreate(r)
      <3>1. PICK S \in SUBSET Services, q \in Requested :
               /\ Opens(q, "create", "provision", S) /\ Begin(r, q)
               /\ user' = [exists |-> TRUE, isActive |-> TRUE,
                           isBlocked |-> FALSE]
               /\ protocol' = [s \in Services |-> IF s \in S
                                  THEN [state |-> "active", config |-> NoKey]
                                  ELSE NoProtocol]
               /\ UNCHANGED client
        BY <2>1, CreateOpens
      <3>2. /\ req' \in [Requests -> Requested]
            /\ \A t \in Requests : RequestInv(t)'
        BY <3>1, BeginType DEF PhasesOf, StepsOf, Opens
      <3>3. QED
        BY <3>1, <3>2 DEF TypeInv, TypeOK, NoProtocol
    <2>2. CASE ~BeginCreate(r)
      <3>1. /\ user.exists /\ UNCHANGED <<user, protocol, client>>
            /\ \E q \in Requested :
                 /\ Begin(r, q)
                 /\ q.phase \in PhasesOf(q.op) /\ q.op # "idle"
                 /\ \A s \in Services :
                      q.step[s] \in {"none", "todo"} \cap StepsOf(q.phase)
        <4>1. CASE BeginUpdate(r)
          <5>1. PICK S \in SUBSET Services, q \in Requested :
                   Opens(q, "update", "write", Active \ S) /\ Begin(r, q)
            BY <4>1, UpdateOpens
          <5>2. \A s \in Services : q.step[s] \in {"none", "todo"}
            BY <5>1 DEF Opens
          <5>3. q.op = "update" /\ q.phase = "write"
            BY <5>1 DEF Opens
          <5>4. QED
            BY <4>1, <5>1, <5>2, <5>3, UpdateOpens DEF PhasesOf, StepsOf
        <4>2. CASE BeginDelete(r)
          BY <4>2, DeleteOpens DEF Opens, PhasesOf, StepsOf
        <4>3. CASE BeginSwitch(r)
          <5>1. UNCHANGED <<user, protocol, client>> /\ user.exists
            BY <4>3, SwitchOpens
          <5>2. PICK q \in Requested :
                   /\ Opens(q, IF user.isBlocked THEN "unblock" ELSE "block",
                            "switch", Active)
                   /\ Begin(r, q)
            BY <4>3, SwitchOpens
          <5>3. q.op \in {"block", "unblock"} /\ q.phase = "switch"
            BY <5>2 DEF Opens
          <5>4. \A s \in Services : q.step[s] \in {"none", "todo"}
            BY <5>2 DEF Opens
          <5>5. QED BY <5>1, <5>2, <5>3, <5>4 DEF PhasesOf, StepsOf
        <4>4. CASE BeginSync(r)
          BY <4>4, SyncOpens DEF Opens, PhasesOf, StepsOf
        <4>5. CASE BeginSyncAll(r)
          BY <4>5, SyncAllOpens DEF Opens, PhasesOf, StepsOf
        <4>6. QED BY <1>1, <2>2, <4>1, <4>2, <4>3, <4>4, <4>5 DEF Begins
      <3>2. /\ req' \in [Requests -> Requested]
            /\ \A t \in Requests : RequestInv(t)'
        BY <3>1, BeginType
      <3>3. QED BY <3>1, <3>2 DEF TypeInv, TypeOK
    <2>3. QED BY <2>1, <2>2
  <1>7. ASSUME NEW r \in Requests, NEW s \in Services, CreateClient(r, s)
        PROVE  TypeInv'
    <2> DEFINE step == IF req[r].phase = "add" THEN "created" ELSE "done"
    <2>1. /\ req[r].phase \in {"provision", "add"} /\ req[r].op # "idle"
          /\ req[r].step[s] = "todo" /\ UNCHANGED <<user, protocol>>
      BY <1>7 DEF CreateClient, At, RequestInv, Idle
    <2>2. CASE \E k \in Keys :
                  /\ client' = [client EXCEPT ![s][k] = "on"]
                  /\ Step(r, s, "created", k) \/ Fails(r, s, step)
      <3>1. PICK k \in Keys :
                  /\ client' = [client EXCEPT ![s][k] = "on"]
                  /\ Step(r, s, "created", k) \/ Fails(r, s, step)
        BY <2>2
      <3>2. /\ req' \in [Requests -> Requested]
            /\ \A t \in Requests : RequestInv(t)'
        <4>1. CASE Step(r, s, "created", k)
          BY <2>1, <4>1, StepOnlyType DEF StepsOf, Steps
        <4>2. CASE Fails(r, s, step)
          BY <2>1, <4>2, FailsType DEF StepsOf, Steps
        <4>3. QED BY <3>1, <4>1, <4>2
      <3>3. client' \in [Services -> [Keys -> Status]]
            /\ \A t \in Services \ InPlace, l \in Keys :
                  client'[t][l] # "off"
        BY <3>1 DEF TypeOK, Status
      <3>4. QED BY <2>1, <3>2, <3>3 DEF TypeInv, TypeOK
    <2>3. CASE Fails(r, s, step) /\ UNCHANGED client
      <3>1. /\ req' \in [Requests -> Requested]
            /\ \A t \in Requests : RequestInv(t)'
        BY <2>1, <2>3, FailsType DEF StepsOf, Steps
      <3>2. QED BY <2>1, <2>3, <3>1 DEF TypeInv, TypeOK
    <2>4. QED
      BY <1>7, <2>2, <2>3 DEF CreateClient, Fresh
  <1>8. ASSUME NEW r \in Requests, NEW s \in Services, Record(r, s)
        PROVE  TypeInv'
    <2>1. /\ req[r].phase = "provision" /\ req[r].op # "idle"
          /\ req[r].step[s] = "created" /\ req[r].key[s] \in Keys
          /\ UNCHANGED <<user, client>>
      BY <1>8 DEF Record, At, RequestInv, Idle
    <2>2. CASE End(r) /\ UNCHANGED protocol
      BY <2>1, <2>2, EndType DEF TypeInv, TypeOK
    <2>3. CASE /\ ~req[r].stale
               /\ protocol' = [protocol EXCEPT
                     ![s].config = req[r].key[s],
                     ![s].state = IF req[r].op = "sync" THEN "active" ELSE @]
               /\ Step(r, s, "done", req[r].key[s])
      <3>1. /\ req' \in [Requests -> Requested]
            /\ \A t \in Requests : RequestInv(t)'
        BY <2>1, <2>3, StepOnlyType DEF StepsOf, Steps
      <3>2. user.exists
        BY <2>1, <2>3 DEF RequestInv
      <3>3. protocol' \in [Services -> [state : {"none", "inactive", "active"},
                                        config : Keys \cup {NoKey}]]
        <4>1. PICK state \in {"none", "inactive", "active"},
                   config \in Keys \cup {NoKey} :
                /\ state = IF req[r].op = "sync" THEN "active"
                           ELSE protocol[s].state
                /\ config = req[r].key[s]
          BY <2>1 DEF TypeOK, Requested
        <4>2. PICK f \in [Services -> Rows] : f = protocol
          BY DEF TypeOK, Rows
        <4>3. protocol' = [f EXCEPT ![s].config = config, ![s].state = state]
          BY <2>3, <4>1, <4>2
        <4>4. QED BY <4>3, SetRow DEF Rows
      <3>4. QED BY <2>1, <3>1, <3>2, <3>3 DEF TypeInv, TypeOK
    <2>4. QED
      BY <1>8, <2>2, <2>3 DEF Record
  <1>9. ASSUME NEW r \in Requests, NEW s \in Services, FindProtocol(r, s)
        PROVE  TypeInv'
    <2>1. /\ req[r].phase = "add" /\ req[r].op # "idle"
          /\ req[r].key[s] \in Keys \cup {NoKey}
          /\ UNCHANGED <<user, protocol, client>>
      BY <1>9 DEF FindProtocol, At, RequestInv, Idle, Requested
    <2>2. \E step \in {"update", "insert"} : Step(r, s, step, req[r].key[s])
      BY <1>9 DEF FindProtocol
    <2>3. /\ req' \in [Requests -> Requested]
          /\ \A t \in Requests : RequestInv(t)'
      BY <2>1, <2>2, StepOnlyType DEF StepsOf, Steps
    <2>4. QED BY <2>1, <2>3 DEF TypeInv, TypeOK
  <1>10. ASSUME NEW r \in Requests, NEW s \in Services, SaveAdded(r, s)
         PROVE  TypeInv'
    <2>1. /\ req[r].phase = "add" /\ req[r].op # "idle"
          /\ req[r].key[s] \in Keys \cup {NoKey}
          /\ UNCHANGED <<user, client>>
      BY <1>10 DEF SaveAdded, At, RequestInv, Idle, Requested
    <2>2. CASE /\ ~req[r].stale
               /\ protocol' = [protocol EXCEPT ![s] =
                     [state |-> "active", config |-> req[r].key[s]]]
               /\ Step(r, s, "done", NoKey)
      <3>1. /\ req' \in [Requests -> Requested]
            /\ \A t \in Requests : RequestInv(t)'
        BY <2>1, <2>2, StepOnlyType DEF StepsOf, Steps
      <3>2. user.exists
        BY <2>1, <2>2 DEF RequestInv
      <3>3. protocol' \in [Services -> [state : {"none", "inactive", "active"},
                                        config : Keys \cup {NoKey}]]
        BY <2>1, <2>2 DEF TypeOK
      <3>4. QED BY <2>1, <3>1, <3>2, <3>3 DEF TypeInv, TypeOK
    <2>3. CASE Fails(r, s, "done") /\ UNCHANGED protocol
      <3>1. /\ req' \in [Requests -> Requested]
            /\ \A t \in Requests : RequestInv(t)'
        BY <2>1, <2>3, FailsType DEF StepsOf, Steps
      <3>2. QED BY <2>1, <2>3, <3>1 DEF TypeInv, TypeOK
    <2>4. QED
      BY <1>10, <2>2, <2>3 DEF SaveAdded
  <1>11. ASSUME NEW r \in Requests, NEW s \in Services, Lookup(r, s)
         PROVE  TypeInv'
    <2>1. /\ req[r].phase \in {"switch", "remove", "revoke"}
          /\ req[r].op # "idle" /\ UNCHANGED <<user, protocol, client>>
      BY <1>11 DEF Lookup, At, RequestInv, Idle
    <2>2. AfterCall(r) \in StepsOf(req[r].phase) \cap {"called", "done"}
      BY <2>1 DEF AfterCall, StepsOf
    <2>3. /\ req' \in [Requests -> Requested]
          /\ \A t \in Requests : RequestInv(t)'
      <3>1. CASE /\ protocol[s].config # NoKey
                 /\ Step(r, s, "held", protocol[s].config)
        <4>1. protocol[s].config \in Keys
          BY <3>1 DEF TypeOK
        <4>2. QED
          BY <2>1, <3>1, <4>1, StepOnlyType DEF StepsOf, Steps
      <3>2. CASE Fails(r, s, AfterCall(r))
        BY <2>1, <2>2, <3>2, FailsType DEF Steps
      <3>3. QED BY <1>11, <3>1, <3>2 DEF Lookup
    <2>4. QED BY <2>1, <2>3 DEF TypeInv, TypeOK
  <1>12. ASSUME NEW r \in Requests, NEW s \in Services, Call(r, s)
         PROVE  TypeInv'
    <2>1. /\ req[r].phase \in {"switch", "remove", "revoke"}
          /\ req[r].op # "idle" /\ UNCHANGED <<user, protocol>>
          /\ req[r].step[s] = "held"
      BY <1>12 DEF Call, At, RequestInv, Idle
    <2>2. AfterCall(r) \in StepsOf(req[r].phase) \cap {"called", "done"}
      BY <2>1 DEF AfterCall, StepsOf
    <2>3. /\ req' \in [Requests -> Requested]
          /\ \A t \in Requests : RequestInv(t)'
      <3>1. CASE Step(r, s, AfterCall(r), NoKey)
        BY <2>1, <2>2, <3>1, StepOnlyType DEF Steps
      <3>2. CASE Fails(r, s, AfterCall(r))
        BY <2>1, <2>2, <3>2, FailsType DEF Steps
      <3>3. QED BY <1>12, <3>1, <3>2 DEF Call
    <2>4. req[r].key[s] \in Keys
      BY <2>1 DEF RequestInv
    <2>5. Goal(r, s) \in Status
          /\ (s \notin InPlace => Goal(r, s) # "off")
      BY DEF Goal, Blocked, Status
    <2>6. client' = client
          \/ client' = [client EXCEPT ![s][req[r].key[s]] = Goal(r, s)]
      BY <1>12 DEF Call
    <2>7. client' \in [Services -> [Keys -> Status]]
          /\ \A t \in Services \ InPlace, l \in Keys :
                client'[t][l] # "off"
      <3>1. CASE client' = client
        BY <3>1 DEF TypeOK
      <3>2. CASE client' = [client EXCEPT ![s][req[r].key[s]] = Goal(r, s)]
        <4>1. /\ client \in [Services -> [Keys -> Status]]
              /\ \A t \in Services \ InPlace, l \in Keys :
                    client[t][l] # "off"
          BY DEF TypeOK
        <4>2. \A t \in Services, l \in Keys :
                 client'[t][l] = IF t = s /\ l = req[r].key[s]
                                 THEN Goal(r, s) ELSE client[t][l]
          BY <3>2, <4>1
        <4>3. client' \in [Services -> [Keys -> Status]]
          BY <3>2, <4>1, <2>5
        <4>4. QED BY <4>1, <4>2, <4>3, <2>5
      <3>3. QED BY <2>6, <3>1, <3>2
    <2>8. QED BY <2>1, <2>3, <2>7 DEF TypeInv, TypeOK
  <1>13. ASSUME NEW r \in Requests, NEW s \in Services, Deactivate(r, s)
         PROVE  TypeInv'
    <2>1. /\ req[r].phase = "remove" /\ req[r].op # "idle"
          /\ UNCHANGED <<user, client>>
          /\ Step(r, s, "done", NoKey)
      BY <1>13 DEF Deactivate, At, RequestInv, Idle
    <2>2. /\ req' \in [Requests -> Requested]
          /\ \A t \in Requests : RequestInv(t)'
      BY <2>1, StepOnlyType DEF StepsOf, Steps
    <2>3. protocol' = protocol \/
          /\ protocol[s].state = "active"
          /\ protocol' = [protocol EXCEPT ![s].state = "inactive"]
      BY <1>13 DEF Deactivate, TypeOK
    <2>4. protocol[s].state = "active" => user.exists
      BY DEF TypeOK, NoProtocol
    <2>5. protocol' \in [Services -> [state : {"none", "inactive", "active"},
                                      config : Keys \cup {NoKey}]]
      <3>1. CASE protocol' = protocol
        BY <3>1 DEF TypeOK
      <3>2. CASE protocol' = [protocol EXCEPT ![s].state = "inactive"]
        <4>1. PICK f \in [Services -> Rows] : f = protocol
          BY DEF TypeOK, Rows
        <4>2. PICK state \in {"none", "inactive", "active"} : state = "inactive"
          OBVIOUS
        <4>3. protocol' = [f EXCEPT ![s].state = state]
          BY <3>2, <4>1, <4>2
        <4>4. QED BY <4>3, SetRow DEF Rows
      <3>3. QED BY <2>3, <3>1, <3>2
    <2>6. QED BY <2>1, <2>2, <2>3, <2>4, <2>5 DEF TypeInv, TypeOK
  <1>14. ASSUME NEW r \in Requests, WriteRow(r) PROVE TypeInv'
    <2>1. /\ req[r].phase = "write" /\ req[r].op # "idle"
          /\ UNCHANGED <<protocol, client>>
      BY <1>14 DEF WriteRow, RequestInv, Idle
    <2>2. CASE End(r) /\ UNCHANGED user
      BY <2>1, <2>2, EndType DEF TypeInv, TypeOK
    <2>3. CASE /\ ~req[r].stale
               /\ \E active \in BOOLEAN :
                     user' = [user EXCEPT !.isActive = active]
               /\ Enter(r, "remove")
      <3>1. user.exists
        BY <2>1, <2>3 DEF RequestInv
      <3>2. user' \in [exists : BOOLEAN, isActive : BOOLEAN,
                       isBlocked : BOOLEAN]
            /\ user'.exists
        BY <2>3, <3>1 DEF TypeOK
      <3>3. "remove" \in PhasesOf(req[r].op)
        BY <2>1 DEF PhasesOf, RequestInv, Requested, Ops
      <3>4. \A s \in Services : req[r].step[s] \in StepsOf("remove")
        BY <2>1 DEF RequestInv, StepsOf
      <3>5. /\ req' \in [Requests -> Requested]
            /\ \A t \in Requests : RequestInv(t)'
        BY <2>1, <2>3, <3>2, <3>3, <3>4, EnterType DEF Phases
      <3>6. QED BY <2>1, <3>2, <3>5 DEF TypeInv, TypeOK
    <2>4. QED BY <1>14, <2>2, <2>3 DEF WriteRow
  <1>15. ASSUME NEW r \in Requests, ServicesDone(r) PROVE TypeInv'
    <2>1. /\ req[r].phase \in {"provision", "remove", "add", "revoke",
                               "switch"}
          /\ \A s \in Services : req[r].step[s] \in {"none", "done"}
          /\ Follow(r) /\ req[r].op # "idle"
          /\ UNCHANGED <<user, protocol, client>>
      BY <1>15 DEF ServicesDone, Tasks, RequestInv, Idle
    <2>2. ASSUME NEW phase \in Phases \cap PhasesOf(req[r].op),
                 Enter(r, phase), phase # "provision", phase # "write"
          PROVE  /\ req' \in [Requests -> Requested]
                 /\ \A t \in Requests : RequestInv(t)'
      <3>1. \A s \in Services : req[r].step[s] \in StepsOf(phase)
        BY <2>1, <2>2 DEF StepsOf
      <3>2. QED BY <2>1, <2>2, <3>1, EnterType
    <2>3. ASSUME Set(r, Plan(req[r], "add", req[r].adds)),
                 req[r].phase = "remove"
          PROVE  /\ req' \in [Requests -> Requested]
                 /\ \A t \in Requests : RequestInv(t)'
      <3> DEFINE q == Plan(req[r], "add", req[r].adds)
      <3>1. req[r].adds \in SUBSET Services
        BY DEF Requested
      <3>2. /\ q \in Requested /\ q.phase = "add" /\ q.op = req[r].op
            /\ q.stale = req[r].stale
            /\ q.step = [s \in Services |-> IF s \in req[r].adds THEN "todo"
                                                              ELSE "none"]
        <4>1. "add" \in Phases /\ req[r] \in Requested
          BY DEF Phases
        <4>2. QED BY <3>1, <4>1, PlanType
      <3>3. q.phase \in PhasesOf(q.op)
        BY <2>3, <3>2 DEF PhasesOf, RequestInv, Requested, Ops
      <3>4. Set(r, q)
        BY <2>3
      <3>5. q.op # "idle" /\ (~q.stale => user'.exists)
            /\ (user.exists => user'.exists)
        BY <2>1, <2>3, <3>2 DEF RequestInv
      <3> HIDE DEF q
      <3>6. QED BY <3>2, <3>3, <3>4, <3>5, SetType DEF StepsOf
    <2>4. /\ req' \in [Requests -> Requested]
          /\ \A t \in Requests : RequestInv(t)'
      <3>1. CASE req[r].phase = "provision"
        <4>1. \E phase \in {"answer", "compensate", "reactivate", "resync"} :
                phase \in PhasesOf(req[r].op) /\ Enter(r, phase)
          BY <2>1, <3>1 DEF Follow, PhasesOf, RequestInv, Requested, Ops
        <4>2. QED BY <4>1, <2>2 DEF Phases
      <3>2. CASE req[r].phase = "remove"
        BY <2>1, <2>3, <3>2 DEF Follow
      <3>3. CASE req[r].phase \in {"add", "revoke", "switch"}
        <4>1. \E phase \in {"answer", "erase", "flag"} :
                phase \in PhasesOf(req[r].op) /\ Enter(r, phase)
          BY <2>1, <3>3 DEF Follow, PhasesOf, RequestInv, Requested, Ops
        <4>2. QED BY <4>1, <2>2 DEF Phases
      <3>4. QED BY <2>1, <3>1, <3>2, <3>3
    <2>5. QED BY <2>1, <2>4 DEF TypeInv, TypeOK
  <1>16. ASSUME NEW r \in Requests, Compensate(r) PROVE TypeInv'
    <2>1. /\ req[r].phase = "compensate" /\ req[r].op = "create"
          /\ UNCHANGED <<user, client>>
      BY <1>16 DEF Compensate, RequestInv, PhasesOf, Requested, Ops
    <2>2. \E phase \in {"deactivate", "answer"} : Enter(r, phase)
      BY <1>16 DEF Compensate
    <2>3. \A s \in Services : req[r].step[s] \in {"none", "done"}
      BY <2>1 DEF RequestInv, StepsOf
    <2>4. /\ req' \in [Requests -> Requested]
          /\ \A t \in Requests : RequestInv(t)'
      BY <2>1, <2>2, <2>3, EnterType DEF PhasesOf, StepsOf, Phases
    <2>5. protocol' \in [Services -> [state : {"none", "inactive", "active"},
                                      config : Keys \cup {NoKey}]]
      BY <1>16 DEF Compensate, TypeOK
    <2>6. ~user.exists => protocol' = protocol
      <3>1. ~user.exists => req[r].stale
        BY <2>1 DEF RequestInv
      <3>2. req[r].stale => protocol' = [s \in Services |-> protocol[s]]
        BY <1>16 DEF Compensate
      <3>3. QED BY <3>1, <3>2 DEF TypeOK
    <2>7. QED BY <2>1, <2>4, <2>5, <2>6 DEF TypeInv, TypeOK
  <1>17. ASSUME NEW r \in Requests, NEW row, NEW phase \in Phases,
                WriteUser(r, row, phase), req[r].op # "idle",
                phase \in PhasesOf(req[r].op), phase \in {"answer", "resync"},
                req[r].phase \in {"deactivate", "reactivate", "flag"},
                row \in [exists : BOOLEAN, isActive : BOOLEAN,
                         isBlocked : BOOLEAN],
                row.exists = user.exists
         PROVE  TypeInv'
    <2>1. UNCHANGED <<protocol, client>>
      BY <1>17 DEF WriteUser
    <2>2. CASE End(r) /\ UNCHANGED user
      BY <2>1, <2>2, EndType DEF TypeInv, TypeOK
    <2>3. CASE ~req[r].stale /\ user' = row /\ Enter(r, phase)
      <3>1. user.exists
        BY <1>17, <2>3 DEF RequestInv
      <3>2. \A s \in Services : req[r].step[s] \in {"none", "done"}
        BY <1>17 DEF RequestInv, StepsOf
      <3>3. \A s \in Services : req[r].step[s] \in StepsOf(phase)
        BY <1>17, <3>2 DEF StepsOf
      <3>4. /\ req' \in [Requests -> Requested]
            /\ \A t \in Requests : RequestInv(t)'
        BY <1>17, <2>3, <3>1, <3>3, EnterType
      <3>5. QED BY <1>17, <2>1, <2>3, <3>1, <3>4 DEF TypeInv, TypeOK
    <2>4. QED BY <1>17, <2>2, <2>3 DEF WriteUser
  <1>18. ASSUME NEW r \in Requests,
                DeactivateUser(r) \/ Reactivate(r) \/ Flag(r)
         PROVE  TypeInv'
    <2>1. CASE DeactivateUser(r)
      <3>1. req[r].op = "create"
        BY <2>1 DEF DeactivateUser, RequestInv, PhasesOf, Requested, Ops
      <3>2. QED
        BY <2>1, <3>1, <1>17 DEF DeactivateUser, PhasesOf, TypeOK, Phases
    <2>2. CASE Reactivate(r)
      <3>1. req[r].op = "sync"
        BY <2>2 DEF Reactivate, RequestInv, PhasesOf, Requested, Ops
      <3>2. QED
        BY <2>2, <3>1, <1>17 DEF Reactivate, PhasesOf, TypeOK, Phases
    <2>3. CASE Flag(r)
      <3>1. req[r].op \in {"block", "unblock"} /\ req[r].block \in BOOLEAN
        BY <2>3 DEF Flag, RequestInv, PhasesOf, Requested, Ops
      <3>2. QED
        BY <2>3, <3>1, <1>17 DEF Flag, PhasesOf, TypeOK, Phases
    <2>4. QED BY <1>18, <2>1, <2>2, <2>3
  <1>19. ASSUME NEW r \in Requests, FindUser(r) PROVE TypeInv'
    <2>1. /\ req[r].phase = "resync" /\ req[r].op \in {"sync", "syncAll"}
          /\ UNCHANGED <<user, protocol, client>>
      BY <1>19 DEF FindUser, RequestInv, PhasesOf, Requested, Ops
    <2>2. ASSUME Enter(r, "answer")
          PROVE  /\ req' \in [Requests -> Requested]
                 /\ \A t \in Requests : RequestInv(t)'
      <3>1. \A s \in Services : req[r].step[s] \in StepsOf("answer")
        BY <2>1 DEF RequestInv, StepsOf
      <3>2. QED
        BY <2>1, <2>2, <3>1, EnterType DEF PhasesOf, Phases
    <2>3. ASSUME ~req[r].stale,
                 Set(r, [Plan(req[r], "switch", Active)
                           EXCEPT !.block = user.isBlocked])
          PROVE  /\ req' \in [Requests -> Requested]
                 /\ \A t \in Requests : RequestInv(t)'
      <3> DEFINE p == Plan(req[r], "switch", Active)
                 q == [p EXCEPT !.block = user.isBlocked]
      <3>1. Active \in SUBSET Services
        BY DEF Active
      <3>2. /\ p \in Requested /\ p.phase = "switch" /\ p.op = req[r].op
            /\ p.stale = req[r].stale
            /\ p.step = [s \in Services |-> IF s \in Active THEN "todo"
                                                         ELSE "none"]
        <4>1. "switch" \in Phases /\ req[r] \in Requested
          BY DEF Phases
        <4>2. QED BY <3>1, <4>1, PlanType
      <3>3. Set(r, q)
        BY <2>3
      <3> HIDE DEF p
      <3>4. /\ q \in Requested /\ q.phase = "switch" /\ q.op = req[r].op
            /\ q.stale = req[r].stale
            /\ \A s \in Services : q.step[s] \in {"none", "todo"}
        BY <3>2 DEF Requested, TypeOK
      <3>5. user'.exists
        BY <2>1, <2>3 DEF RequestInv
      <3> HIDE DEF q
      <3>6. QED BY <2>1, <3>3, <3>4, <3>5, SetType DEF StepsOf, PhasesOf
    <2>4. /\ req' \in [Requests -> Requested]
          /\ \A t \in Requests : RequestInv(t)'
      BY <1>19, <2>2, <2>3 DEF FindUser
    <2>5. QED BY <2>1, <2>4 DEF TypeInv, TypeOK
  <1>20. ASSUME NEW r \in Requests, Erase(r) PROVE TypeInv'
    <2>1. /\ req[r].phase = "erase" /\ req[r].op = "delete"
          /\ UNCHANGED client
      BY <1>20 DEF Erase, RequestInv, PhasesOf, Requested, Ops
    <2>2. CASE End(r) /\ UNCHANGED <<user, protocol>>
      BY <2>1, <2>2, EndType DEF TypeInv, TypeOK
    <2>3. CASE /\ user' = NoUser
               /\ protocol' = [s \in Services |-> NoProtocol]
               /\ req' = [t \in Requests |->
                     IF t = r THEN [req[r] EXCEPT !.phase = "answer"]
                     ELSE [req[t] EXCEPT !.stale = req[t].op # "idle"]]
      <3>1. req'[r] \in Requested /\ RequestInv(r)'
        <4>1. \A s \in Services : req[r].step[s] \in {"none", "done"}
          BY <2>1 DEF RequestInv, StepsOf
        <4> DEFINE q == [req[r] EXCEPT !.phase = "answer"]
        <4>0. req'[r] = q
          BY <2>3
        <4>a. /\ q \in Requested /\ q.phase = "answer"
              /\ q.op = "delete" /\ q.step = req[r].step
          BY <2>1 DEF Requested, Phases
        <4> HIDE DEF q
        <4>2. /\ req'[r] \in Requested /\ req'[r].phase = "answer"
              /\ req'[r].op = "delete" /\ req'[r].step = req[r].step
          BY <4>0, <4>a
        <4>3. \A s \in Services : req'[r].step[s] \in {"none", "done"}
          BY <4>1, <4>2
        <4>4. QED BY <4>2, <4>3 DEF RequestInv, PhasesOf, StepsOf
      <3>2. ASSUME NEW t \in Requests \ {r}
            PROVE  req'[t] \in Requested /\ RequestInv(t)'
        <4>1. req'[t] = [req[t] EXCEPT !.stale = req[t].op # "idle"]
          BY <2>3
        <4>2. /\ req'[t] \in Requested /\ req'[t].phase = req[t].phase
              /\ req'[t].op = req[t].op /\ req'[t].step = req[t].step
              /\ req'[t].key = req[t].key
              /\ req'[t].stale = (req[t].op # "idle")
          BY <4>1 DEF Requested
        <4>3. req[t].op = "idle" => req'[t] = Idle
          <5>1. ASSUME req[t].op = "idle" PROVE req'[t] = Idle
            <6>1. req[t] = Idle
              BY <5>1 DEF RequestInv
            <6>2. (req[t].op # "idle") = FALSE
              BY <5>1
            <6>3. req'[t] = [Idle EXCEPT !.stale = FALSE]
              BY <4>1, <6>1, <6>2
            <6>4. QED BY <6>3 DEF Idle
          <5>2. QED BY <5>1
        <4>4. QED BY <4>2, <4>3 DEF RequestInv
      <3>3. req' \in [Requests -> Requested]
        BY <2>3, <3>1, <3>2
      <3>4. QED
        BY <2>1, <2>3, <3>1, <3>2, <3>3 DEF TypeInv, TypeOK, NoUser,
           NoProtocol
    <2>4. QED BY <1>20, <2>2, <2>3 DEF Erase
  <1>21. ASSUME NEW r \in Requests, Answer(r) \/ Abort(r) PROVE TypeInv'
    BY <1>21, EndType DEF Answer, Abort, TypeInv, TypeOK
  <1>25. ASSUME NEW r \in Requests, NEW a \in again[r], StepsAgain(r, a)
         PROVE  TypeInv'
    <2>1. /\ req[r].phase = "add" /\ req[r].op # "idle"
          /\ a \in Additions /\ UNCHANGED user
      BY <1>25, AgainMarks DEF RequestInv, Idle, TypeOK
    <2>2. /\ req' \in [Requests -> Requested]
          /\ \A t \in Requests : RequestInv(t)'
      <3>1. PICK M \in SUBSET Marks : Mark(r, M)
        BY <1>25, AgainMarks
      <3> DEFINE q == [req[r] EXCEPT !.marks = @ \cup M]
      <3>2. /\ q \in Requested /\ q.phase = req[r].phase
            /\ q.op = req[r].op /\ q.step = req[r].step
            /\ q.key = req[r].key /\ q.stale = req[r].stale
        BY DEF Requested
      <3>3. Set(r, q)
        BY <3>1 DEF Mark
      <3> HIDE DEF q
      <3>4. q.op # "idle" /\ (~q.stale => user'.exists)
        BY <2>1, <3>2 DEF RequestInv
      <3>5. QED BY <2>1, <3>2, <3>3, <3>4, SetType DEF RequestInv
    <2>3. CASE CreateAgain(r, a)
      <3>1. a.service \in Services /\ UNCHANGED protocol
        BY <2>1, <2>3 DEF CreateAgain, Additions
      <3>2. client' = client
            \/ \E k \in Keys : client' = [client EXCEPT ![a.service][k] = "on"]
        BY <2>3 DEF CreateAgain, Fresh
      <3>3. client' \in [Services -> [Keys -> Status]]
            /\ \A t \in Services \ InPlace, l \in Keys :
                  client'[t][l] # "off"
        <4>1. PICK s \in Services : s = a.service
          BY <3>1
        <4>2. client' = client
              \/ \E k \in Keys : client' = [client EXCEPT ![s][k] = "on"]
          BY <3>2, <4>1
        <4>3. CASE client' = client
          BY <4>3 DEF TypeOK
        <4>4. ASSUME NEW k \in Keys, client' = [client EXCEPT ![s][k] = "on"]
              PROVE  /\ client' \in [Services -> [Keys -> Status]]
                     /\ \A t \in Services \ InPlace, l \in Keys :
                           client'[t][l] # "off"
          BY <4>4 DEF TypeOK, Status
        <4>5. QED BY <4>2, <4>3, <4>4
      <3>4. QED BY <2>1, <2>2, <3>1, <3>3 DEF TypeInv, TypeOK
    <2>4. CASE FindAgain(r, a)
      BY <2>1, <2>2, <2>4 DEF FindAgain, TypeInv, TypeOK
    <2>5. CASE SaveAgain(r, a)
      <3>1. UNCHANGED client
        BY <2>5 DEF SaveAgain
      <3>2. CASE UNCHANGED protocol
        BY <2>1, <2>2, <3>1, <3>2 DEF TypeInv, TypeOK
      <3>3. CASE /\ ~req[r].stale
                 /\ protocol' = [protocol EXCEPT ![a.service] =
                       [state |-> "active", config |-> a.key]]
        <4>1. user.exists
          BY <2>1, <3>3 DEF RequestInv
        <4>2. a.service \in Services /\ a.key \in Keys \cup {NoKey}
          BY <2>1 DEF Additions
        <4>3. protocol' \in [Services ->
                 [state : {"none", "inactive", "active"},
                  config : Keys \cup {NoKey}]]
          BY <3>3, <4>2 DEF TypeOK
        <4>4. QED BY <2>1, <2>2, <3>1, <4>1, <4>3 DEF TypeInv, TypeOK
      <3>4. QED BY <2>5, <3>2, <3>3 DEF SaveAgain
    <2>6. QED BY <1>25, <2>3, <2>4, <2>5 DEF StepsAgain
  <1>22. CASE InterfaceRestart
    <2>1. UNCHANGED <<user, protocol>>
      BY <1>22 DEF InterfaceRestart
    <2>2. ASSUME NEW t \in Requests
          PROVE  req'[t] \in Requested /\ RequestInv(t)'
      <3>1. CASE req[t].op = "idle"
        BY <1>b, <1>22, <3>1, <2>1 DEF InterfaceRestart, RequestInv
      <3>2. CASE req[t].op # "idle"
        <4>1. req'[t] = [req[t] EXCEPT !.marks = @ \cup {"disturbed"}]
          BY <1>22, <3>2 DEF InterfaceRestart
        <4>2. /\ req'[t] \in Requested /\ req'[t].phase = req[t].phase
              /\ req'[t].op = req[t].op /\ req'[t].step = req[t].step
              /\ req'[t].key = req[t].key /\ req'[t].stale = req[t].stale
          BY <4>1 DEF Requested, Marks
        <4>3. QED BY <2>1, <3>2, <4>2 DEF RequestInv
      <3>3. QED BY <3>1, <3>2
    <2>3. req' \in [Requests -> Requested]
      BY <1>22, <2>2 DEF InterfaceRestart
    <2>4. client' \in [Services -> [Keys -> Status]]
          /\ \A t \in Services \ InPlace, l \in Keys :
                client'[t][l] # "off"
      BY <1>22 DEF InterfaceRestart, TypeOK, Status
    <2>5. QED BY <2>1, <2>2, <2>3, <2>4 DEF TypeInv, TypeOK
  <1>23. CASE UNCHANGED vars
    BY <1>23 DEF vars, TypeInv, TypeOK, RequestInv
  <1>24. QED
    BY <1>1, <1>7, <1>8, <1>9, <1>10, <1>11,
       <1>12, <1>13, <1>14, <1>15, <1>16, <1>18, <1>19, <1>20, <1>21, <1>22,
       <1>23, <1>25
    DEF Next, Begins, StepsAgain

\* Whatever requests overlap, wherever they fail or are abandoned, and with
\* any restarts of the interface, the rows, the clients and the requests
\* are what their types say, and no protocol row outlives its user.
THEOREM TypeCorrect == Spec => []TypeOK
  <1>1. TypeInv => TypeOK
    BY DEF TypeInv
  <1>2. QED
    BY <1>1, InitTypeInv, NextTypeInv, PTL DEF Spec

-----------------------------------------------------------------------------
(* A request that nothing overlaps *)

\* Under way, and so far neither another request nor a restart of the
\* interface fell into it.
Undisturbed(r) == req[r].op # "idle" /\ "disturbed" \notin req[r].marks

\* Such a request is the only one, and the user it works on is there.
Alone(r) == Undisturbed(r) =>
    /\ ~req[r].stale
    /\ \A t \in Requests \ {r} : req[t].op = "idle"

AloneInv == TypeInv /\ \A r \in Requests : Alone(r)

\* What a request does once it has begun.
Works(r) ==
    \/ \E s \in Services :
          \/ CreateClient(r, s) \/ Record(r, s) \/ FindProtocol(r, s)
          \/ SaveAdded(r, s) \/ Lookup(r, s) \/ Call(r, s) \/ Deactivate(r, s)
    \/ \E a \in again[r] : StepsAgain(r, a)
    \/ WriteRow(r) \/ ServicesDone(r) \/ Compensate(r) \/ DeactivateUser(r)
    \/ Reactivate(r) \/ FindUser(r) \/ Flag(r) \/ Erase(r)
    \/ Answer(r) \/ Abort(r)

-----------------------------------------------------------------------------
(* A creation *)

\* The row of a service of a creation: it is made active and without a
\* config, gets the config of the client that was created, and is set to
\* inactive if there is none.
CreateService(r, s) ==
    LET step == req[r].step[s]
        key  == req[r].key[s]
        row  == protocol[s]
    IN  /\ step = "none" => row = NoProtocol
        /\ step \in {"todo", "created"} =>
              row.state = "active" /\ row.config = NoKey
        /\ step = "created" \/ (step = "done" /\ key # NoKey) =>
              key \in Keys /\ client[s][key] = "on"
        /\ step = "done" => row.config = key
        /\ step = "done" /\ key # NoKey => row.state = "active"
        /\ step = "done" /\ key = NoKey =>
              row.state = IF req[r].phase \in {"provision", "compensate"}
                          THEN "active" ELSE "inactive"

\* The user is active until every service is known to have failed.
CreateParts(r) ==
    /\ \A s \in Services : CreateService(r, s)
    /\ req[r].phase \in {"provision", "compensate", "deactivate"} =>
          user.isActive
    /\ req[r].phase = "compensate" => Failed(r) # {}
    /\ req[r].phase = "deactivate" => Failed(r) = Tasks(r) /\ Tasks(r) # {}
    /\ req[r].phase = "answer" =>
          user.isActive = (Failed(r) # Tasks(r) \/ Tasks(r) = {})

CreateInv(r) == Undisturbed(r) /\ req[r].op = "create" => CreateParts(r)

-----------------------------------------------------------------------------
(* A sync *)

\* The client of a protocol is in the state the row of the user asks for.
InForce(s) == /\ protocol[s].config # NoKey
              /\ client[s][protocol[s].config] = Wanted(s)

\* What is still pending is still to be provisioned; then nothing is, and
\* every active protocol is about to be switched or has been.
SyncParts(r) ==
    /\ req[r].phase = "provision" =>
          \A s \in Pending : req[r].step[s] \in {"todo", "created"}
    /\ req[r].phase # "provision" /\ req[r].op = "sync" => Pending = {}
    /\ req[r].phase = "switch" =>
          /\ req[r].block = user.isBlocked
          /\ \A s \in Active :
                /\ req[r].step[s] # "none"
                /\ req[r].step[s] = "held" =>
                      req[r].key[s] = protocol[s].config
                /\ req[r].step[s] = "done" => InForce(s)
    /\ req[r].phase = "answer" => \A s \in Active : InForce(s)

SyncInv(r) ==
    /\ Undisturbed(r) /\ "failed" \notin req[r].marks
    /\ req[r].op \in {"sync", "syncAll"}
    => SyncParts(r)

-----------------------------------------------------------------------------
(* Agreement *)

\* A service without any client, and one whose only client has a key.
Bare(s)           == \A k \in Keys : client[s][k] = "absent"
OnlyAt(s, k, st)  == \A l \in Keys : client[s][l] = IF l = k THEN st
                                                  ELSE "absent"

\* Agreement, of one service; and all of it but whether access is blocked.
Good(s)  == IF s \in Active
            THEN /\ protocol[s].config # NoKey
                 /\ OnlyAt(s, protocol[s].config, Wanted(s))
            ELSE Bare(s)
Known(s) == IF s \in Active
            THEN /\ protocol[s].config # NoKey
                 /\ OnlyAt(s, protocol[s].config,
                           client[s][protocol[s].config])
            ELSE Bare(s)

Provisioning(r, s) ==
    LET step == req[r].step[s]
        key  == req[r].key[s]
    IN  /\ step = "none" => Good(s)
        /\ step = "todo" => Bare(s)
        /\ step = "created" => OnlyAt(s, key, "on")
        /\ step = "done" => /\ s \in Active /\ key # NoKey
                            /\ key = protocol[s].config
                            /\ OnlyAt(s, key, "on")
        /\ req[r].op = "create" /\ step # "none" => s \in Active

Switching(r, s) ==
    /\ Known(s)
    /\ s \in Active <=> req[r].step[s] # "none"
    /\ req[r].step[s] = "held" => req[r].key[s] = protocol[s].config
    /\ req[r].step[s] = "done" =>
          client[s][protocol[s].config] = Goal(r, s)
    /\ req[r].op \notin {"block", "unblock"} => req[r].block = user.isBlocked

Flagging(r, s) ==
    /\ Known(s)
    /\ s \in Active => client[s][protocol[s].config] =
                          IF req[r].block THEN Blocked(s) ELSE "on"

Removing(r, s) ==
    LET step == req[r].step[s]
    IN  /\ step \in {"none", "todo", "held"} => Good(s)
        /\ step \in {"todo", "held"} => s \in Active
        /\ step = "held" => req[r].key[s] = protocol[s].config
        /\ step \in {"called", "done"} => Bare(s)
        /\ step = "done" => req[r].phase = "revoke" \/ s \notin Active
        /\ s \in req[r].adds => s \notin Active
        /\ req[r].phase = "revoke" /\ step = "none" => s \notin Active

Adding(r, s) ==
    LET step == req[r].step[s]
        key  == req[r].key[s]
    IN  /\ step = "none" => Good(s)
        /\ step # "none" => s \in req[r].adds
        /\ step = "todo" => Bare(s)
        /\ step \in {"created", "update", "insert"} =>
              key \in Keys /\ OnlyAt(s, key, "on")
        /\ step = "done" => /\ s \in Active /\ protocol[s].config # NoKey
                            /\ OnlyAt(s, protocol[s].config, "on")

\* A service was added to a user who is blocked.
AddsBlocked(r) ==
    req[r].op = "update" /\ req[r].adds # {} /\ user.isBlocked

AgreeParts(r, s) ==
    /\ req[r].phase \notin {"compensate", "deactivate"}
    /\ req[r].op = "create" => ~user.isBlocked
    /\ req[r].phase = "provision" => Provisioning(r, s)
    /\ req[r].phase \in {"reactivate", "resync"} => Known(s)
    /\ req[r].phase = "switch" => Switching(r, s)
    /\ req[r].phase = "flag" => Flagging(r, s)
    /\ req[r].phase = "write" => req[r].step[s] \in {"none", "todo"}
    /\ req[r].phase \in {"write", "remove", "revoke"} => Removing(r, s)
    /\ req[r].phase = "add" => Adding(r, s)
    /\ req[r].phase = "erase" => Bare(s)
    /\ req[r].phase = "answer" => AddsBlocked(r) \/ Good(s)

AgreeInv(r) ==
    Undisturbed(r) /\ req[r].marks = {"agreed"} =>
    \A s \in Services : AgreeParts(r, s)

UserInv == /\ AloneInv
           /\ \A r \in Requests : CreateInv(r) /\ SyncInv(r) /\ AgreeInv(r)

-----------------------------------------------------------------------------
(* What a step does to the record of its request *)

\* The parts of a request that stay as they began, but for the mark of a
\* failure or of a service added twice.
Keeps(r) == /\ req'[r].op = req[r].op /\ req'[r].stale = req[r].stale
            /\ req'[r].adds = req[r].adds /\ req'[r].revive = req[r].revive
            /\ \/ req'[r].marks = req[r].marks
               \/ req'[r].marks = req[r].marks \cup {"failed"}
               \/ \E M : "repeated" \in M /\ req'[r].marks = req[r].marks \cup M

\* One service goes to a step.
Moves(r, s, step, key) ==
    /\ Keeps(r)
    /\ req'[r].phase = req[r].phase /\ req'[r].block = req[r].block
    /\ \A t \in Services :
          /\ req'[r].step[t] = IF t = s THEN step ELSE req[r].step[t]
          /\ req'[r].key[t] = IF t = s THEN key ELSE req[r].key[t]

\* A step of a service that succeeds.
LEMMA StepFields ==
  ASSUME TypeInv, NEW r \in Requests, NEW s \in Services, NEW step, NEW key,
         Step(r, s, step, key)
  PROVE  /\ Moves(r, s, step, key) /\ req'[r].marks = req[r].marks
         /\ \A t \in Requests \ {r} : req'[t] = req[t]
  <1>1. req \in [Requests -> Requested] /\ req[r] \in Requested
    BY DEF TypeInv, TypeOK
  <1> DEFINE q == [req[r] EXCEPT !.step[s] = step, !.key[s] = key]
  <1>2. req' = [req EXCEPT ![r] = q]
    BY DEF Step, Set
  <1>3. /\ req[r].step \in [Services -> Steps]
        /\ req[r].key \in [Services -> Keys \cup {NoKey}]
    BY <1>1 DEF Requested
  <1>4. /\ q.op = req[r].op /\ q.stale = req[r].stale
        /\ q.adds = req[r].adds /\ q.revive = req[r].revive
        /\ q.marks = req[r].marks /\ q.phase = req[r].phase
        /\ q.block = req[r].block
        /\ q.step = [req[r].step EXCEPT ![s] = step]
        /\ q.key = [req[r].key EXCEPT ![s] = key]
    BY <1>1 DEF Requested
  <1> HIDE DEF q
  <1>5. QED
    BY <1>1, <1>2, <1>3, <1>4 DEF Moves, Keeps

\* A step of a service that fails leaves its mark.
LEMMA FailsFields ==
  ASSUME TypeInv, NEW r \in Requests, NEW s \in Services, NEW step,
         Fails(r, s, step)
  PROVE  /\ Moves(r, s, step, NoKey)
         /\ "failed" \in req'[r].marks /\ req'[r].marks # {"agreed"}
         /\ \A t \in Requests \ {r} : req'[t] = req[t]
  <1>1. req \in [Requests -> Requested] /\ req[r] \in Requested
    BY DEF TypeInv, TypeOK
  <1> DEFINE q == [req[r] EXCEPT !.step[s] = step, !.key[s] = NoKey,
                                 !.marks = @ \cup {"failed"}]
  <1>2. req' = [req EXCEPT ![r] = q]
    BY DEF Fails, Set
  <1>3. /\ req[r].step \in [Services -> Steps]
        /\ req[r].key \in [Services -> Keys \cup {NoKey}]
    BY <1>1 DEF Requested
  <1>4. /\ q.op = req[r].op /\ q.stale = req[r].stale
        /\ q.adds = req[r].adds /\ q.revive = req[r].revive
        /\ q.marks = req[r].marks \cup {"failed"} /\ q.phase = req[r].phase
        /\ q.block = req[r].block
        /\ q.step = [req[r].step EXCEPT ![s] = step]
        /\ q.key = [req[r].key EXCEPT ![s] = NoKey]
    BY <1>1 DEF Requested
  <1> HIDE DEF q
  <1>5. QED
    BY <1>1, <1>2, <1>3, <1>4 DEF Moves, Keeps

\* Going to another phase.
LEMMA EnterFields ==
  ASSUME TypeInv, NEW r \in Requests, NEW phase, Enter(r, phase)
  PROVE  /\ Keeps(r) /\ req'[r].marks = req[r].marks
         /\ req'[r].phase = phase /\ req'[r].block = req[r].block
         /\ req'[r].step = req[r].step /\ req'[r].key = req[r].key
         /\ \A t \in Requests \ {r} : req'[t] = req[t]
  <1>1. req \in [Requests -> Requested] /\ req[r] \in Requested
    BY DEF TypeInv, TypeOK
  <1> DEFINE q == [req[r] EXCEPT !.phase = phase]
  <1>2. req' = [req EXCEPT ![r] = q]
    BY DEF Enter, Set
  <1>3. /\ q.op = req[r].op /\ q.stale = req[r].stale
        /\ q.adds = req[r].adds /\ q.revive = req[r].revive
        /\ q.marks = req[r].marks /\ q.phase = phase
        /\ q.block = req[r].block /\ q.step = req[r].step
        /\ q.key = req[r].key
    BY <1>1 DEF Requested
  <1> HIDE DEF q
  <1>4. QED
    BY <1>1, <1>2, <1>3 DEF Keeps

\* A request goes to a phase that works on some services, with or without a
\* change of what a switch is to do.
Plans(r, p, S, block) ==
    \/ Set(r, Plan(req[r], p, S)) /\ block = req[r].block
    \/ Set(r, [Plan(req[r], p, S) EXCEPT !.block = block])

\* The other fields are kept, and these services are to do.
LEMMA PlanFields ==
  ASSUME TypeInv, NEW r \in Requests, NEW p \in Phases,
         NEW S \in SUBSET Services, NEW block, Plans(r, p, S, block)
  PROVE  /\ Keeps(r) /\ req'[r].marks = req[r].marks
         /\ req'[r].phase = p /\ req'[r].block = block
         /\ \A s \in Services :
               req'[r].step[s] = IF s \in S THEN "todo" ELSE "none"
         /\ \A t \in Requests \ {r} : req'[t] = req[t]
  <1>1. req \in [Requests -> Requested] /\ req[r] \in Requested
    BY DEF TypeInv, TypeOK
  <1> DEFINE w == Plan(req[r], p, S)
             q == [w EXCEPT !.block = block]
  <1>2. /\ w.phase = p /\ w.op = req[r].op /\ w.stale = req[r].stale
        /\ w.step = [s \in Services |-> IF s \in S THEN "todo" ELSE "none"]
        /\ w.adds = req[r].adds /\ w.block = req[r].block
        /\ w.marks = req[r].marks /\ w.revive = req[r].revive
    <2>1. req[r] \in Requested
      BY <1>1
    <2>2. QED BY <2>1 DEF Plan, Requested
  <1>3. \/ req' = [req EXCEPT ![r] = w] /\ block = req[r].block
        \/ req' = [req EXCEPT ![r] = q]
    BY DEF Plans, Set
  <1> HIDE DEF w
  <1>4. /\ q.op = w.op /\ q.stale = w.stale
        /\ q.adds = w.adds /\ q.revive = w.revive
        /\ q.marks = w.marks /\ q.phase = w.phase
        /\ q.block = block /\ q.step = w.step
    <2>1. w \in Requested
      BY <1>1, PlanType DEF w
    <2>2. QED BY <2>1 DEF Requested
  <1> HIDE DEF q
  <1>5. QED
    BY <1>1, <1>2, <1>3, <1>4 DEF Keeps

\* Beginning a request.
LEMMA BeginFields ==
  ASSUME TypeInv, NEW r \in Requests, NEW q \in Requested, Begin(r, q)
  PROVE  LET others == {t \in Requests : req[t].op # "idle"}
         IN  /\ req[r].op = "idle"
             /\ req'[r].op = q.op /\ req'[r].stale = q.stale
             /\ req'[r].adds = q.adds /\ req'[r].revive = q.revive
             /\ req'[r].phase = q.phase /\ req'[r].block = q.block
             /\ req'[r].step = q.step /\ req'[r].key = q.key
             /\ "failed" \notin req'[r].marks
             /\ "disturbed" \in req'[r].marks <=> others # {}
             /\ "agreed" \in req'[r].marks <=> Agreement
             /\ \A t \in Requests \ {r} :
                   /\ req'[t].op = req[t].op
                   /\ t \notin others => req'[t] = req[t]
                   /\ t \in others => "disturbed" \in req'[t].marks
  <1> DEFINE others == {t \in Requests : req[t].op # "idle"}
             now == (IF others # {} THEN {"disturbed"} ELSE {})
                    \cup (IF Agreement THEN {"agreed"} ELSE {})
             n == [q EXCEPT !.marks = now]
  <1>1. /\ "failed" \notin now
        /\ "disturbed" \in now <=> others # {}
        /\ "agreed" \in now <=> Agreement
    OBVIOUS
  <1>2. /\ req[r].op = "idle"
        /\ req' = [t \in Requests |->
                     IF t = r THEN n
                     ELSE IF t \in others
                     THEN [req[t] EXCEPT !.marks = @ \cup {"disturbed"}]
                     ELSE req[t]]
    BY DEF Begin
  <1> HIDE DEF now
  <1>3. /\ n.op = q.op /\ n.stale = q.stale
        /\ n.adds = q.adds /\ n.revive = q.revive
        /\ n.marks = now /\ n.phase = q.phase
        /\ n.block = q.block /\ n.step = q.step /\ n.key = q.key
    BY DEF Requested
  <1> HIDE DEF n
  <1>4. ASSUME NEW t \in Requests \ {r}
        PROVE  /\ req'[t].op = req[t].op
               /\ t \notin others => req'[t] = req[t]
               /\ t \in others => "disturbed" \in req'[t].marks
    BY <1>2 DEF TypeInv, TypeOK, Requested
  <1> HIDE DEF others
  <1>5. req'[r] = n
    BY <1>2
  <1>6. QED
    BY <1>1, <1>2, <1>3, <1>4, <1>5 DEF others

\* Ending a request.
LEMMA EndFields ==
  ASSUME TypeInv, NEW r \in Requests, End(r)
  PROVE  /\ req'[r].op = "idle"
         /\ \A t \in Requests \ {r} : req'[t] = req[t]
  BY DEF TypeInv, TypeOK, End, Set, Idle

\* A step of a further addition only marks the update it belongs to.
LEMMA AgainFields ==
  ASSUME TypeInv, NEW r \in Requests, NEW a, StepsAgain(r, a)
  PROVE  /\ req[r].phase = "add" /\ req[r].op # "idle"
         /\ Keeps(r) /\ "repeated" \in req'[r].marks
         /\ \A t \in Requests \ {r} : req'[t] = req[t]
  <1>1. PICK M \in SUBSET Marks : "repeated" \in M /\ Mark(r, M)
    BY AgainMarks
  <1>2. /\ req \in [Requests -> Requested] /\ req[r] \in Requested
        /\ RequestInv(r)
    BY DEF TypeInv, TypeOK
  <1> DEFINE q == [req[r] EXCEPT !.marks = @ \cup M]
  <1>3. /\ q.op = req[r].op /\ q.stale = req[r].stale
        /\ q.adds = req[r].adds /\ q.revive = req[r].revive
        /\ q.marks = req[r].marks \cup M
    BY <1>2 DEF Requested
  <1>4. req' = [req EXCEPT ![r] = q]
    BY <1>1 DEF Mark, Set
  <1> HIDE DEF q
  <1>5. req[r].phase = "add" /\ req[r].op # "idle"
    BY <1>2, AgainMarks DEF RequestInv, Idle
  <1>6. QED BY <1>1, <1>2, <1>3, <1>4, <1>5 DEF Keeps

\* A request that works is under way; it ends or keeps what it began with,
\* and leaves the operation and the marks of the others alone.
LEMMA WorksEffect ==
  ASSUME TypeInv, NEW r \in Requests, Works(r)
  PROVE  /\ req[r].op # "idle"
         /\ req'[r].op = "idle" \/ Keeps(r)
         /\ \A t \in Requests \ {r} : /\ req'[t].op = req[t].op
                                      /\ req'[t].marks = req[t].marks
  <1>a. req[r] \in Requested /\ (req[r].op = "idle" => req[r] = Idle)
    BY DEF TypeInv, TypeOK, RequestInv
  <1>1. ASSUME NEW s \in Services,
               \E phases \in SUBSET (Phases \ {"idle"}) : \E step :
                  At(r, s, phases, step),
               \/ \E step, key : Step(r, s, step, key)
               \/ \E step : Fails(r, s, step)
               \/ End(r)
        PROVE  /\ req[r].op # "idle"
               /\ req'[r].op = "idle" \/ Keeps(r)
               /\ \A t \in Requests \ {r} : req'[t] = req[t]
    <2>1. req[r].op # "idle"
      BY <1>a, <1>1 DEF At, Idle
    <2>2. QED
      BY <1>1, <2>1, StepFields, FailsFields, EndFields DEF Moves
  <1>2. CASE \E s \in Services :
                \/ CreateClient(r, s) \/ Record(r, s) \/ FindProtocol(r, s)
                \/ SaveAdded(r, s) \/ Lookup(r, s) \/ Call(r, s)
                \/ Deactivate(r, s)
    <2>1. PICK s \in Services :
                \/ CreateClient(r, s) \/ Record(r, s) \/ FindProtocol(r, s)
                \/ SaveAdded(r, s) \/ Lookup(r, s) \/ Call(r, s)
                \/ Deactivate(r, s)
      BY <1>2
    <2>2. \/ \E step, key : Step(r, s, step, key)
          \/ \E step : Fails(r, s, step)
          \/ End(r)
      BY <2>1 DEF CreateClient, Record, FindProtocol, SaveAdded, Lookup, Call,
         Deactivate
    <2>3. \E phases \in SUBSET (Phases \ {"idle"}) : \E step :
             At(r, s, phases, step)
      <3>1. CASE CreateClient(r, s)
        BY <3>1 DEF CreateClient, Phases
      <3>2. CASE Record(r, s)
        BY <3>2 DEF Record, Phases
      <3>3. CASE FindProtocol(r, s)
        BY <3>3 DEF FindProtocol, Phases
      <3>4. CASE SaveAdded(r, s)
        BY <3>4 DEF SaveAdded, Phases
      <3>5. CASE Lookup(r, s)
        BY <3>5 DEF Lookup, Phases
      <3>6. CASE Call(r, s)
        BY <3>6 DEF Call, Phases
      <3>7. CASE Deactivate(r, s)
        BY <3>7 DEF Deactivate, Phases
      <3>8. QED
        BY <2>1, <3>1, <3>2, <3>3, <3>4, <3>5, <3>6, <3>7
    <2>4. QED BY <1>1, <2>2, <2>3
  <1>3. CASE WriteRow(r) \/ Compensate(r) \/ DeactivateUser(r)
             \/ Reactivate(r) \/ Flag(r) \/ Answer(r) \/ Abort(r)
    <2>1. (\E phase : Enter(r, phase)) \/ End(r)
      BY <1>3 DEF WriteRow, Compensate, DeactivateUser, Reactivate, Flag,
         Answer, Abort, WriteUser
    <2>2. req[r].op # "idle"
      BY <1>a, <1>3 DEF WriteRow, Compensate, DeactivateUser, Reactivate, Flag,
         Answer, Abort, Idle
    <2>3. QED BY <2>1, <2>2, EnterFields, EndFields
  <1>4. CASE ServicesDone(r)
    <2>1. req[r].op # "idle"
      BY <1>a, <1>4 DEF ServicesDone, Idle
    <2>2. (\E phase : Enter(r, phase))
          \/ Set(r, Plan(req[r], "add", req[r].adds))
      <3>1. req[r].phase = "provision" => req[r].op \in {"create", "sync"}
        BY <1>a DEF TypeInv, RequestInv, PhasesOf, Requested, Ops
      <3>2. QED
        BY <1>4, <3>1 DEF ServicesDone, Follow
    <2>3. CASE \E phase : Enter(r, phase)
      BY <2>1, <2>3, EnterFields
    <2>4. CASE Set(r, Plan(req[r], "add", req[r].adds))
      <3>1. Plans(r, "add", req[r].adds, req[r].block)
        BY <2>4 DEF Plans
      <3>2. "add" \in Phases /\ req[r].adds \in SUBSET Services
        BY <1>a DEF Phases, Requested
      <3>3. Keeps(r) /\ \A t \in Requests \ {r} : req'[t] = req[t]
        BY <3>1, <3>2, PlanFields
      <3>4. QED BY <2>1, <3>3
    <2>5. QED BY <2>2, <2>3, <2>4
  <1>5. CASE FindUser(r)
    <2>1. req[r].op # "idle"
      BY <1>a, <1>5 DEF FindUser, Idle
    <2>2. CASE Enter(r, "answer")
      BY <2>1, <2>2, EnterFields
    <2>3. CASE Set(r, [Plan(req[r], "switch", Active)
                         EXCEPT !.block = user.isBlocked])
      <3>1. Plans(r, "switch", Active, user.isBlocked)
        BY <2>3 DEF Plans
      <3>2. "switch" \in Phases /\ Active \in SUBSET Services
        BY DEF Phases, Active
      <3>3. Keeps(r) /\ \A t \in Requests \ {r} : req'[t] = req[t]
        BY <3>1, <3>2, PlanFields
      <3>4. QED BY <2>1, <3>3
    <2>4. QED BY <1>5, <2>2, <2>3 DEF FindUser
  <1>6. CASE Erase(r)
    <2>1. req[r].op # "idle"
      BY <1>a, <1>6 DEF Erase, Idle
    <2>2. CASE End(r)
      BY <2>1, <2>2, EndFields
    <2>3. CASE req' = [t \in Requests |->
                        IF t = r THEN [req[r] EXCEPT !.phase = "answer"]
                        ELSE [req[t] EXCEPT !.stale = req[t].op # "idle"]]
      <3>1. Keeps(r)
        BY <1>a, <2>3 DEF Keeps, Requested
      <3>2. ASSUME NEW t \in Requests \ {r}
            PROVE  req'[t].op = req[t].op /\ req'[t].marks = req[t].marks
        BY <2>3 DEF TypeInv, TypeOK, Requested
      <3>3. QED BY <2>1, <3>1, <3>2
    <2>4. QED BY <1>6, <2>2, <2>3 DEF Erase
  <1>8. CASE \E a \in again[r] : StepsAgain(r, a)
    BY <1>8, AgainFields
  <1>7. QED
    BY <1>2, <1>3, <1>4, <1>5, <1>6, <1>8 DEF Works

\* What is undisturbed after a step was the one to take it.
LEMMA StepIsOwn ==
  ASSUME AloneInv, [Next]_vars, NEW r \in Requests, Undisturbed(r)'
  PROVE  \/ UNCHANGED vars
         \/ Begins(r) /\ Alone(r)'
         \/ /\ Works(r) /\ Alone(r)' /\ Undisturbed(r) /\ ~req[r].stale
            /\ Keeps(r)
  <1>a. TypeInv /\ \A t \in Requests : Alone(t)
    BY DEF AloneInv
  <1>1. CASE InterfaceRestart
    <2>1. \/ req'[r] = Idle
          \/ req'[r] = [req[r] EXCEPT !.marks = @ \cup {"disturbed"}]
      BY <1>1 DEF InterfaceRestart
    <2>2. req[r] \in Requested
      BY <1>a DEF TypeInv, TypeOK
    <2>3. QED
      BY <2>1, <2>2 DEF Undisturbed, Idle, Requested
  <1>2. ASSUME NEW t \in Requests, Begins(t)
        PROVE  Begins(r) /\ Alone(r)'
    <2>1. PICK q \in Requested : Begin(t, q) /\ q.stale = FALSE
      <3>1. CASE BeginCreate(t)
        BY <1>a, <3>1, CreateOpens DEF Opens
      <3>2. CASE BeginUpdate(t)
        BY <1>a, <3>2, UpdateOpens DEF Opens
      <3>3. CASE BeginDelete(t)
        BY <1>a, <3>3, DeleteOpens DEF Opens
      <3>4. CASE BeginSwitch(t)
        BY <1>a, <3>4, SwitchOpens DEF Opens
      <3>5. CASE BeginSync(t)
        BY <1>a, <3>5, SyncOpens DEF Opens
      <3>6. CASE BeginSyncAll(t)
        BY <1>a, <3>6, SyncAllOpens DEF Opens
      <3>7. QED
        BY <1>2, <3>1, <3>2, <3>3, <3>4, <3>5, <3>6 DEF Begins
    <2>2. t = r
      BY <1>a, <2>1, BeginFields DEF Undisturbed
    <2>3. \A u \in Requests \ {r} : req[u].op = "idle" /\ req'[u].op = "idle"
      BY <1>a, <2>1, <2>2, BeginFields DEF Undisturbed
    <2>4. req'[r].stale = FALSE
      BY <1>a, <2>1, <2>2, BeginFields
    <2>5. QED BY <1>2, <2>2, <2>3, <2>4 DEF Alone
  <1>3. ASSUME NEW t \in Requests, Works(t)
        PROVE  /\ Works(r) /\ Alone(r)' /\ Undisturbed(r) /\ ~req[r].stale
               /\ Keeps(r)
    <2>1. t = r
      <3>1. SUFFICES ASSUME t # r PROVE FALSE
        OBVIOUS
      <3>2. Undisturbed(r)
        BY <1>a, <1>3, <3>1, WorksEffect DEF Undisturbed
      <3>3. req[t].op = "idle"
        BY <1>a, <3>1, <3>2 DEF Alone
      <3>4. QED BY <1>a, <1>3, <3>3, WorksEffect
    <2>2. Keeps(r)
      BY <1>a, <1>3, <2>1, WorksEffect DEF Undisturbed
    <2>3. Undisturbed(r)
      BY <2>2 DEF Undisturbed, Keeps
    <2>4. ~req[r].stale /\ \A u \in Requests \ {r} : req[u].op = "idle"
      BY <1>a, <2>3 DEF Alone
    <2>5. \A u \in Requests \ {r} : req'[u].op = "idle"
      BY <1>a, <1>3, <2>1, <2>4, WorksEffect
    <2>6. QED
      BY <1>3, <2>1, <2>2, <2>3, <2>4, <2>5 DEF Alone, Keeps
  <1>4. QED
    BY <1>1, <1>2, <1>3 DEF Next, Begins, Works, StepsAgain

\* The operation a request begins with.
LEMMA BegunAs ==
  ASSUME TypeInv, NEW r \in Requests
  PROVE  /\ BeginCreate(r) => req'[r].op = "create"
         /\ BeginUpdate(r) => req'[r].op = "update"
         /\ BeginDelete(r) => req'[r].op = "delete"
         /\ BeginSwitch(r) => req'[r].op \in {"block", "unblock"}
         /\ BeginSync(r) => req'[r].op = "sync"
         /\ BeginSyncAll(r) => req'[r].op = "syncAll"
  <1>1. ASSUME BeginCreate(r) PROVE req'[r].op = "create"
    <2>1. PICK q \in Requested : Begin(r, q) /\ q.op = "create"
      BY <1>1, CreateOpens DEF Opens
    <2>2. QED BY <2>1, BeginFields
  <1>2. ASSUME BeginUpdate(r) PROVE req'[r].op = "update"
    <2>1. PICK q \in Requested : Begin(r, q) /\ q.op = "update"
      BY <1>2, UpdateOpens DEF Opens
    <2>2. QED BY <2>1, BeginFields
  <1>3. ASSUME BeginDelete(r) PROVE req'[r].op = "delete"
    <2>1. PICK q \in Requested : Begin(r, q) /\ q.op = "delete"
      BY <1>3, DeleteOpens DEF Opens
    <2>2. QED BY <2>1, BeginFields
  <1>4. ASSUME BeginSwitch(r) PROVE req'[r].op \in {"block", "unblock"}
    <2>1. PICK q \in Requested : Begin(r, q) /\ q.op \in {"block", "unblock"}
      BY <1>4, SwitchOpens DEF Opens
    <2>2. QED BY <2>1, BeginFields
  <1>5. ASSUME BeginSync(r) PROVE req'[r].op = "sync"
    <2>1. PICK q \in Requested : Begin(r, q) /\ q.op = "sync"
      BY <1>5, SyncOpens DEF Opens
    <2>2. QED BY <2>1, BeginFields
  <1>6. ASSUME BeginSyncAll(r) PROVE req'[r].op = "syncAll"
    <2>1. PICK q \in Requested : Begin(r, q) /\ q.op = "syncAll"
      BY <1>6, SyncAllOpens DEF Opens
    <2>2. QED BY <2>1, BeginFields
  <1>7. QED BY <1>1, <1>2, <1>3, <1>4, <1>5, <1>6

\* Every step of an undisturbed creation keeps its rows true.
LEMMA CreateStep ==
  ASSUME AloneInv, [Next]_vars, NEW r \in Requests, CreateInv(r)
  PROVE  CreateInv(r)'
  <1> SUFFICES ASSUME Undisturbed(r)', req'[r].op = "create"
               PROVE  CreateParts(r)'
    BY DEF CreateInv
  <1>a. TypeInv /\ TypeInv'
    BY NextTypeInv DEF AloneInv
  <1>b. /\ req[r] \in Requested /\ RequestInv(r)
        /\ req'[r] \in Requested /\ RequestInv(r)'
    BY <1>a DEF TypeInv, TypeOK
  <1>c. CreateParts(r) = /\ \A s \in Services : CreateService(r, s)
                         /\ req[r].phase \in {"provision", "compensate",
                                              "deactivate"} => user.isActive
                         /\ req[r].phase = "compensate" => Failed(r) # {}
                         /\ req[r].phase = "deactivate" =>
                               Failed(r) = Tasks(r) /\ Tasks(r) # {}
                         /\ req[r].phase = "answer" =>
                               user.isActive = (Failed(r) # Tasks(r)
                                                \/ Tasks(r) = {})
    BY DEF CreateParts
  <1>1. CASE UNCHANGED vars
    <2>1. Undisturbed(r) /\ req[r].op = "create"
      BY <1>1 DEF vars, Undisturbed
    <2>2. CreateParts(r)
      BY <2>1 DEF CreateInv
    <2>3. QED
      BY <1>1, <2>2 DEF vars, CreateParts, CreateService, Failed, Tasks
  <1>2. CASE Begins(r)
    <2>1. BeginCreate(r)
      BY <1>a, <1>2, BegunAs DEF Begins
    <2>2. PICK S \in SUBSET Services, q \in Requested :
             /\ Opens(q, "create", "provision", S) /\ Begin(r, q)
             /\ user' = [exists |-> TRUE, isActive |-> TRUE,
                         isBlocked |-> FALSE]
             /\ protocol' = [s \in Services |-> IF s \in S
                                THEN [state |-> "active", config |-> NoKey]
                                ELSE NoProtocol]
      BY <1>a, <2>1, CreateOpens
    <2>3. req'[r].step = q.step /\ req'[r].phase = "provision"
      BY <1>a, <2>2, BeginFields DEF Opens
    <2>4. \A s \in Services :
             req'[r].step[s] = IF s \in S THEN "todo" ELSE "none"
      BY <2>2, <2>3 DEF Opens
    <2>5. ASSUME NEW s \in Services PROVE CreateService(r, s)'
      BY <2>2, <2>4 DEF CreateService
    <2>6. QED BY <2>2, <2>3, <2>5 DEF CreateParts
  <1>3. CASE Works(r) /\ Undisturbed(r) /\ ~req[r].stale /\ Keeps(r)
    <2>a. /\ req[r].op = "create" /\ CreateParts(r)
          /\ \A s \in Services : CreateService(r, s)
          /\ req[r].phase \in {"provision", "compensate", "deactivate",
                               "answer"}
      BY <1>3, <1>b, <1>c DEF Keeps, CreateInv, RequestInv, PhasesOf
    <2>1. ASSUME NEW s \in Services, CreateClient(r, s)
          PROVE  CreateParts(r)'
      <3>1. /\ req[r].phase = "provision" /\ req[r].step[s] = "todo"
            /\ UNCHANGED <<user, protocol>>
        BY <2>1, <2>a DEF CreateClient, At
      <3>2. \A t \in Services \ {s} : client'[t] = client[t]
        <4>1. \/ client' = client
              \/ \E k \in Keys : client' = [client EXCEPT ![s][k] = "on"]
          BY <2>1 DEF CreateClient, Fresh
        <4>2. QED BY <1>a, <4>1 DEF TypeInv, TypeOK
      <3>3. \/ Fails(r, s, "done")
            \/ \E k \in Keys : Step(r, s, "created", k) /\ client'[s][k] = "on"
        BY <2>1, <3>1, <1>a DEF CreateClient, Fresh, TypeInv, TypeOK
      <3>4. \/ Moves(r, s, "done", NoKey)
            \/ \E k \in Keys : /\ Moves(r, s, "created", k)
                               /\ client'[s][k] = "on"
        BY <1>a, <3>3, StepFields, FailsFields
      <3>5. ASSUME NEW t \in Services PROVE CreateService(r, t)'
        <4>1. CASE t = s
          BY <2>a, <3>1, <3>4, <4>1, NoKeyAssumption
          DEF Moves, CreateService
        <4>2. CASE t # s
          BY <2>a, <3>1, <3>2, <3>4, <4>2 DEF Moves, CreateService
        <4>3. QED BY <4>1, <4>2
      <3>6. req'[r].phase = "provision" /\ user.isActive
        BY <2>a, <3>1, <3>4 DEF Moves, CreateParts
      <3>7. QED BY <3>1, <3>5, <3>6 DEF CreateParts
    <2>2. ASSUME NEW s \in Services, Record(r, s) PROVE CreateParts(r)'
      <3>1. /\ req[r].phase = "provision" /\ req[r].step[s] = "created"
            /\ UNCHANGED <<user, client>>
            /\ protocol' = [protocol EXCEPT ![s].config = req[r].key[s],
                                            ![s].state = @]
            /\ Step(r, s, "done", req[r].key[s])
        BY <1>3, <2>2, <2>a DEF Record, At
      <3>2. Moves(r, s, "done", req[r].key[s])
        BY <1>a, <3>1, StepFields
      <3>3. /\ protocol'[s].config = req[r].key[s]
            /\ protocol'[s].state = protocol[s].state
            /\ \A t \in Services \ {s} : protocol'[t] = protocol[t]
        BY <1>a, <3>1 DEF TypeInv, TypeOK
      <3>4. ASSUME NEW t \in Services PROVE CreateService(r, t)'
        <4>1. CASE t = s
          BY <2>a, <3>1, <3>2, <3>3, <4>1, NoKeyAssumption
          DEF Moves, CreateService
        <4>2. CASE t # s
          <5>1. /\ req'[r].step[t] = req[r].step[t]
                /\ req'[r].key[t] = req[r].key[t]
                /\ req'[r].phase = req[r].phase
                /\ protocol'[t] = protocol[t] /\ client' = client
            BY <3>1, <3>2, <3>3, <4>2 DEF Moves
          <5>2. QED BY <2>a, <5>1 DEF CreateService
        <4>3. QED BY <4>1, <4>2
      <3>5. req'[r].phase = "provision" /\ user.isActive
        BY <2>a, <3>1, <3>2 DEF Moves, CreateParts
      <3>6. QED BY <3>1, <3>4, <3>5 DEF CreateParts
    <2>3. CASE ServicesDone(r) /\ req[r].phase = "provision"
      <3>1. /\ Enter(r, IF Failed(r) = {} THEN "answer" ELSE "compensate")
            /\ UNCHANGED <<user, protocol, client>>
            /\ \A s \in Tasks(r) : req[r].step[s] = "done"
        BY <2>3, <2>a DEF ServicesDone, Follow
      <3>2. /\ req'[r].phase = IF Failed(r) = {} THEN "answer"
                              ELSE "compensate"
            /\ req'[r].step = req[r].step /\ req'[r].key = req[r].key
        BY <1>a, <3>1, EnterFields
      <3>3. Failed(r)' = Failed(r) /\ Tasks(r)' = Tasks(r)
        BY <3>2 DEF Failed, Tasks
      <3>4. ASSUME NEW t \in Services PROVE CreateService(r, t)'
        BY <2>3, <2>a, <3>1, <3>2 DEF CreateService, Failed, Tasks
      <3>5. user'.isActive = TRUE
        BY <2>3, <2>a, <3>1, <1>a DEF CreateParts, TypeInv, TypeOK
      <3>6. QED BY <3>2, <3>3, <3>4, <3>5 DEF CreateParts
    <2>4. CASE Compensate(r)
      <3>1. /\ req[r].phase = "compensate"
            /\ Enter(r, IF Failed(r) = Tasks(r) THEN "deactivate"
                        ELSE "answer")
            /\ UNCHANGED <<user, client>>
            /\ protocol' = [s \in Services |-> IF s \in Failed(r)
                               THEN [protocol[s] EXCEPT !.state = "inactive"]
                               ELSE protocol[s]]
        BY <1>3, <2>4 DEF Compensate
      <3>2. /\ req'[r].phase = IF Failed(r) = Tasks(r) THEN "deactivate"
                              ELSE "answer"
            /\ req'[r].step = req[r].step /\ req'[r].key = req[r].key
        BY <1>a, <3>1, EnterFields
      <3>3. Failed(r)' = Failed(r) /\ Tasks(r)' = Tasks(r) /\ Failed(r) # {}
        BY <2>a, <3>1, <3>2 DEF Failed, Tasks, CreateParts
      <3>4. ASSUME NEW t \in Services PROVE CreateService(r, t)'
        <4>1. req[r].step[t] \in {"none", "done"}
          BY <1>b, <3>1 DEF RequestInv, StepsOf
        <4>2. CreateService(r, t)
          BY <2>a
        <4>3. CASE t \in Failed(r)
          <5>1. /\ protocol'[t].state = "inactive"
                /\ protocol'[t].config = protocol[t].config
            BY <1>a, <3>1, <4>3 DEF TypeInv, TypeOK
          <5>2. QED
            BY <3>1, <3>2, <4>1, <4>2, <4>3, <5>1
            DEF CreateService, Failed, Tasks
        <4>4. CASE t \notin Failed(r)
          <5>1. protocol'[t] = protocol[t]
            BY <3>1, <4>4
          <5>2. QED
            BY <3>1, <3>2, <4>1, <4>2, <4>4, <5>1
            DEF CreateService, Failed, Tasks
        <4>5. QED BY <4>3, <4>4
      <3>5. user'.isActive = TRUE
        BY <2>a, <3>1, <1>a DEF CreateParts, TypeInv, TypeOK
      <3>6. QED BY <3>2, <3>3, <3>4, <3>5 DEF CreateParts
    <2>5. CASE DeactivateUser(r)
      <3>1. /\ req[r].phase = "deactivate" /\ Enter(r, "answer")
            /\ user' = [user EXCEPT !.isActive = FALSE]
            /\ UNCHANGED <<protocol, client>>
        BY <1>3, <2>5 DEF DeactivateUser, WriteUser
      <3>2. /\ req'[r].phase = "answer"
            /\ req'[r].step = req[r].step /\ req'[r].key = req[r].key
        BY <1>a, <3>1, EnterFields
      <3>3. Failed(r)' = Failed(r) /\ Tasks(r)' = Tasks(r)
            /\ Failed(r) = Tasks(r) /\ Tasks(r) # {}
        BY <2>a, <3>1, <3>2 DEF Failed, Tasks, CreateParts
      <3>4. ASSUME NEW t \in Services PROVE CreateService(r, t)'
        <4>1. CreateService(r, t) /\ req[r].step[t] \in {"none", "done"}
          BY <2>a, <1>b, <3>1 DEF RequestInv, StepsOf
        <4>2. QED BY <3>1, <3>2, <4>1 DEF CreateService
      <3>5. user'.isActive = FALSE
        BY <3>1, <1>a DEF TypeInv, TypeOK
      <3>6. QED BY <3>2, <3>3, <3>4, <3>5 DEF CreateParts
    <2>6. CASE Answer(r) \/ Abort(r)
      BY <1>a, <2>6, EndFields DEF Answer, Abort
    <2>7. QED
      <3>1. ASSUME NEW s \in Services
            PROVE  /\ ~FindProtocol(r, s) /\ ~SaveAdded(r, s)
                   /\ ~Lookup(r, s) /\ ~Call(r, s) /\ ~Deactivate(r, s)
        BY <2>a DEF FindProtocol, SaveAdded, Lookup, Call, Deactivate, At
      <3>2. /\ ~WriteRow(r) /\ ~Reactivate(r) /\ ~FindUser(r) /\ ~Flag(r)
            /\ ~Erase(r)
        BY <2>a DEF WriteRow, Reactivate, FindUser, Flag, Erase
      <3>3. ServicesDone(r) => req[r].phase = "provision"
        BY <2>a DEF ServicesDone
      <3>4. ~\E a \in again[r] : StepsAgain(r, a)
        BY <1>a, <2>a, AgainFields
      <3>5. QED
        BY <1>3, <2>1, <2>2, <2>3, <2>4, <2>5, <2>6, <3>1, <3>2, <3>3, <3>4
        DEF Works
  <1>4. QED BY <1>1, <1>2, <1>3, StepIsOwn

\* Every step of an undisturbed sync without failures keeps what is known of
\* the protocols that are pending and of those that are switched.
LEMMA SyncStep ==
  ASSUME AloneInv, [Next]_vars, NEW r \in Requests, SyncInv(r)
  PROVE  SyncInv(r)'
  <1> SUFFICES ASSUME Undisturbed(r)', "failed" \notin req'[r].marks,
                      req'[r].op \in {"sync", "syncAll"}
               PROVE  SyncParts(r)'
    BY DEF SyncInv
  <1>a. TypeInv /\ TypeInv'
    BY NextTypeInv DEF AloneInv
  <1>b. /\ req[r] \in Requested /\ RequestInv(r)
        /\ req'[r] \in Requested /\ RequestInv(r)'
    BY <1>a DEF TypeInv, TypeOK
  <1>1. CASE UNCHANGED vars
    <2>1. Undisturbed(r) /\ SyncParts(r)
      BY <1>1 DEF vars, Undisturbed, SyncInv
    <2>2. QED
      BY <1>1, <2>1 DEF vars, SyncParts, Pending, Active, InForce, Wanted,
         Blocked
  <1>2. CASE Begins(r)
    <2>1. BeginSync(r) \/ BeginSyncAll(r)
      BY <1>a, <1>2, BegunAs DEF Begins
    <2>2. CASE BeginSync(r)
      <3>1. PICK q \in Requested :
               Opens(q, "sync", "provision", Pending) /\ Begin(r, q)
        BY <1>a, <2>2, SyncOpens
      <3>2. req'[r].step = q.step /\ req'[r].phase = "provision"
        BY <1>a, <3>1, BeginFields DEF Opens
      <3>3. Pending' = Pending
        BY <1>a, <2>2, SyncOpens DEF Pending
      <3>4. \A s \in Pending : req'[r].step[s] = "todo"
        BY <3>1, <3>2 DEF Opens, Pending
      <3>5. QED BY <3>2, <3>3, <3>4 DEF SyncParts
    <2>3. CASE BeginSyncAll(r)
      <3>1. PICK q \in Requested :
               Opens(q, "syncAll", "resync", {}) /\ Begin(r, q)
        BY <1>a, <2>3, SyncAllOpens
      <3>2. req'[r].phase = "resync" /\ req'[r].op = "syncAll"
        BY <1>a, <3>1, BeginFields DEF Opens
      <3>3. QED BY <3>2 DEF SyncParts
    <2>4. QED BY <2>1, <2>2, <2>3
  <1>3. CASE Works(r) /\ Undisturbed(r) /\ ~req[r].stale /\ Keeps(r)
    <2>a. /\ req[r].op \in {"sync", "syncAll"} /\ req'[r].op = req[r].op
          /\ SyncParts(r)
          /\ req[r].phase \in {"provision", "reactivate", "resync", "switch",
                               "answer"}
          /\ req[r].op = "syncAll" => req[r].phase # "provision"
      BY <1>3, <1>b DEF Keeps, SyncInv, RequestInv, PhasesOf
    <2>b. ASSUME NEW s \in Services, NEW step PROVE ~Fails(r, s, step)
      BY <1>a, FailsFields
    <2>1. ASSUME NEW s \in Services, CreateClient(r, s)
          PROVE  SyncParts(r)'
      <3>1. /\ req[r].phase = "provision" /\ UNCHANGED <<user, protocol>>
            /\ \E k : Step(r, s, "created", k)
        BY <2>1, <2>a, <2>b DEF CreateClient, At
      <3>2. \E k : Moves(r, s, "created", k)
        BY <1>a, <3>1, StepFields
      <3>3. Pending' = Pending /\ Pending \subseteq Services
        BY <3>1 DEF Pending
      <3>4. \A t \in Pending : req'[r].step[t] \in {"todo", "created"}
        BY <2>a, <3>1, <3>2, <3>3 DEF Moves, SyncParts
      <3>5. req'[r].phase = "provision"
        BY <3>1, <3>2 DEF Moves
      <3>6. QED BY <3>3, <3>4, <3>5 DEF SyncParts
    <2>2. ASSUME NEW s \in Services, Record(r, s) PROVE SyncParts(r)'
      <3>1. /\ req[r].phase = "provision" /\ req[r].op = "sync"
            /\ protocol' = [protocol EXCEPT ![s].config = req[r].key[s],
                                            ![s].state = "active"]
            /\ Step(r, s, "done", req[r].key[s])
        BY <1>3, <2>2, <2>a DEF Record, At
      <3>2. Moves(r, s, "done", req[r].key[s])
        BY <1>a, <3>1, StepFields
      <3>3. /\ protocol'[s].state = "active"
            /\ \A t \in Services \ {s} : protocol'[t] = protocol[t]
        BY <1>a, <3>1 DEF TypeInv, TypeOK
      <3>4. Pending' \subseteq Pending \ {s} /\ Pending \subseteq Services
        BY <3>3 DEF Pending
      <3>5. \A t \in Pending' : req'[r].step[t] \in {"todo", "created"}
        BY <2>a, <3>1, <3>2, <3>4 DEF Moves, SyncParts
      <3>6. req'[r].phase = "provision"
        BY <3>1, <3>2 DEF Moves
      <3>7. QED BY <3>5, <3>6 DEF SyncParts
    <2>3. CASE ServicesDone(r)
      <3>1. /\ UNCHANGED <<user, protocol, client>>
            /\ \A s \in Services : req[r].step[s] \in {"none", "done"}
            /\ req[r].phase \in {"provision", "switch"}
        BY <2>3, <2>a DEF ServicesDone, Tasks
      <3>2. Pending' = Pending /\ Active' = Active
            /\ Pending \subseteq Services /\ Active \subseteq Services
        BY <3>1 DEF Pending, Active
      <3>3. CASE req[r].phase = "provision"
        <4>1. \E phase \in {"reactivate", "resync"} : Enter(r, phase)
          BY <2>3, <2>a, <3>3 DEF ServicesDone, Follow
        <4>2. req'[r].phase \in {"reactivate", "resync"}
          BY <1>a, <4>1, EnterFields
        <4>3. Pending = {}
          BY <2>a, <3>1, <3>2, <3>3 DEF SyncParts
        <4>4. QED BY <3>2, <4>2, <4>3 DEF SyncParts
      <3>4. CASE req[r].phase = "switch"
        <4>1. Enter(r, "answer")
          BY <2>3, <2>a, <3>4 DEF ServicesDone, Follow
        <4>2. req'[r].phase = "answer"
          BY <1>a, <4>1, EnterFields
        <4>3. \A s \in Active : InForce(s) /\ InForce(s)'
          BY <2>a, <3>1, <3>2, <3>4
          DEF SyncParts, InForce, Wanted, Blocked
        <4>4. QED BY <2>a, <3>2, <3>4, <4>2, <4>3 DEF SyncParts
      <3>5. QED BY <3>1, <3>3, <3>4
    <2>4. CASE Reactivate(r)
      <3>1. /\ req[r].phase = "reactivate" /\ Enter(r, "resync")
            /\ UNCHANGED protocol
        BY <1>3, <2>4 DEF Reactivate, WriteUser
      <3>2. req'[r].phase = "resync"
        BY <1>a, <3>1, EnterFields
      <3>3. Pending' = Pending
        BY <3>1 DEF Pending
      <3>4. QED BY <2>a, <3>1, <3>2, <3>3 DEF SyncParts
    <2>5. CASE FindUser(r)
      <3>1. /\ req[r].phase = "resync" /\ UNCHANGED <<user, protocol, client>>
            /\ Plans(r, "switch", Active, user.isBlocked)
        BY <1>3, <2>5 DEF FindUser, Plans
      <3>2. Pending' = Pending /\ Active' = Active /\ Active \subseteq Services
        BY <3>1 DEF Pending, Active
      <3>3. /\ req'[r].phase = "switch" /\ req'[r].block = user'.isBlocked
            /\ \A s \in Services :
                  req'[r].step[s] = IF s \in Active THEN "todo" ELSE "none"
        BY <1>a, <3>1, <3>2, PlanFields DEF Phases
      <3>4. QED BY <2>a, <3>1, <3>2, <3>3 DEF SyncParts
    <2>6. ASSUME NEW s \in Services, Lookup(r, s) PROVE SyncParts(r)'
      <3>1. /\ req[r].phase = "switch" /\ UNCHANGED <<user, protocol, client>>
            /\ Step(r, s, "held", protocol[s].config)
        BY <2>6, <2>a, <2>b DEF Lookup, At
      <3>2. Moves(r, s, "held", protocol[s].config)
        BY <1>a, <3>1, StepFields
      <3>3. /\ req'[r].phase = "switch" /\ req'[r].block = req[r].block
        BY <3>1, <3>2 DEF Moves
      <3>4. Pending' = Pending /\ Active' = Active /\ Active \subseteq Services
        BY <3>1 DEF Pending, Active
      <3>5. ASSUME NEW t \in Active
            PROVE  /\ req'[r].step[t] # "none"
                   /\ req'[r].step[t] = "held" =>
                         req'[r].key[t] = protocol'[t].config
                   /\ req'[r].step[t] = "done" => InForce(t)'
        BY <2>a, <3>1, <3>2, <3>4
        DEF Moves, SyncParts, InForce, Wanted, Blocked
      <3>6. QED BY <2>a, <3>1, <3>3, <3>4, <3>5 DEF SyncParts
    <2>7. ASSUME NEW s \in Services, Call(r, s) PROVE SyncParts(r)'
      <3>1. /\ req[r].phase = "switch" /\ UNCHANGED <<user, protocol>>
            /\ req[r].step[s] = "held" /\ Step(r, s, "done", NoKey)
            /\ client' = [client EXCEPT ![s][req[r].key[s]] = Goal(r, s)]
        BY <2>7, <2>a, <2>b DEF Call, At, AfterCall
      <3>2. Moves(r, s, "done", NoKey)
        BY <1>a, <3>1, StepFields
      <3>3. /\ req'[r].phase = "switch" /\ req'[r].block = req[r].block
        BY <3>1, <3>2 DEF Moves
      <3>4. Pending' = Pending /\ Active' = Active /\ Active \subseteq Services
        BY <3>1 DEF Pending, Active
      <3>5. /\ req[r].key[s] \in Keys
            /\ client'[s][req[r].key[s]] = Goal(r, s)
            /\ \A t \in Services \ {s} : client'[t] = client[t]
        BY <1>a, <1>b, <3>1 DEF TypeInv, TypeOK, RequestInv
      <3>6. Goal(r, s) = Wanted(s)
        BY <2>a, <3>1 DEF SyncParts, Goal, Wanted
      <3>7. ASSUME NEW t \in Active
            PROVE  /\ req'[r].step[t] # "none"
                   /\ req'[r].step[t] = "held" =>
                         req'[r].key[t] = protocol'[t].config
                   /\ req'[r].step[t] = "done" => InForce(t)'
        <4>1. CASE t = s
          <5>1. protocol[s].config = req[r].key[s]
            BY <2>a, <3>1, <4>1 DEF SyncParts
          <5>2. InForce(s)'
            BY <3>1, <3>5, <3>6, <5>1, NoKeyAssumption
            DEF InForce, Wanted, Blocked
          <5>3. QED BY <3>2, <3>4, <4>1, <5>2 DEF Moves
        <4>2. CASE t # s
          BY <2>a, <3>1, <3>2, <3>4, <3>5, <4>2
          DEF Moves, SyncParts, InForce, Wanted, Blocked
        <4>3. QED BY <4>1, <4>2
      <3>8. QED BY <2>a, <3>1, <3>3, <3>4, <3>7 DEF SyncParts
    <2>8. CASE Answer(r) \/ Abort(r)
      BY <1>a, <2>8, EndFields DEF Answer, Abort
    <2>9. QED
      <3>1. ASSUME NEW s \in Services
            PROVE  ~FindProtocol(r, s) /\ ~SaveAdded(r, s) /\ ~Deactivate(r, s)
        BY <2>a DEF FindProtocol, SaveAdded, Deactivate, At
      <3>2. /\ ~WriteRow(r) /\ ~Compensate(r) /\ ~DeactivateUser(r)
            /\ ~Flag(r) /\ ~Erase(r)
        BY <2>a DEF WriteRow, Compensate, DeactivateUser, Flag, Erase
      <3>3. ~\E a \in again[r] : StepsAgain(r, a)
        BY <1>a, <2>a, AgainFields
      <3>4. QED
        BY <1>3, <2>1, <2>2, <2>3, <2>4, <2>5, <2>6, <2>7, <2>8, <3>1, <3>2,
           <3>3
        DEF Works
  <1>4. QED BY <1>1, <1>2, <1>3, StepIsOwn

\* The two places agree exactly if they do for each service.
LEMMA AgreementOfAll ==
  ASSUME TypeInv
  PROVE  Agreement <=> \A s \in Services : Good(s)
  <1>a. /\ Active \subseteq Services
        /\ \A s \in Services : protocol[s].config \in Keys \cup {NoKey}
    BY DEF TypeInv, TypeOK, Active
  <1>1. ASSUME Agreement, NEW s \in Services PROVE Good(s)
    BY <1>a, <1>1 DEF Agreement, Good, OnlyAt, Bare
  <1>2. ASSUME \A s \in Services : Good(s) PROVE Agreement
    <2>1. ASSUME NEW s \in Active
          PROVE  /\ protocol[s].config # NoKey
                 /\ client[s][protocol[s].config] = Wanted(s)
      BY <1>a, <1>2 DEF Good, OnlyAt
    <2>2. ASSUME NEW s \in Services, NEW k \in Keys, client[s][k] # "absent"
          PROVE  s \in Active /\ protocol[s].config = k
      BY <1>2, <2>2 DEF Good, OnlyAt, Bare
    <2>3. QED BY <2>1, <2>2 DEF Agreement
  <1>3. QED BY <1>1, <1>2

\* A service whose row and clients do not change.
LEMMA Untouched ==
  ASSUME NEW s \in Services, protocol'[s] = protocol[s],
         client'[s] = client[s]
  PROVE  /\ s \in Active' <=> s \in Active
         /\ Bare(s)' <=> Bare(s)
         /\ Known(s)' <=> Known(s)
         /\ \A k, st : OnlyAt(s, k, st)' <=> OnlyAt(s, k, st)
         /\ user'.isBlocked = user.isBlocked =>
               /\ Wanted(s)' = Wanted(s)
               /\ Good(s)' <=> Good(s)
  <1>1. s \in Active' <=> s \in Active
    BY DEF Active
  <1>2. (Bare(s)' <=> Bare(s))
        /\ \A k, st : OnlyAt(s, k, st)' <=> OnlyAt(s, k, st)
    BY DEF Bare, OnlyAt
  <1>3. Known(s)' <=> Known(s)
    BY <1>1, <1>2 DEF Known
  <1>4. user'.isBlocked = user.isBlocked => Wanted(s)' = Wanted(s)
    BY DEF Wanted, Blocked
  <1>5. user'.isBlocked = user.isBlocked => (Good(s)' <=> Good(s))
    BY <1>1, <1>2, <1>4 DEF Good
  <1>6. QED BY <1>1, <1>2, <1>3, <1>4, <1>5

\* What is known of a service survives a step of another one.
LEMMA Elsewhere ==
  ASSUME NEW r \in Requests, NEW t \in Services, NEW s \in Services \ {t},
         NEW step, NEW key, Moves(r, t, step, key), AgreeParts(r, s),
         protocol'[s] = protocol[s], client'[s] = client[s], UNCHANGED user
  PROVE  AgreeParts(r, s)'
  <1>1. /\ req'[r].op = req[r].op /\ req'[r].adds = req[r].adds
        /\ req'[r].phase = req[r].phase /\ req'[r].block = req[r].block
        /\ req'[r].step[s] = req[r].step[s] /\ req'[r].key[s] = req[r].key[s]
    BY DEF Moves, Keeps
  <1>2. /\ s \in Active' <=> s \in Active
        /\ Bare(s)' <=> Bare(s)
        /\ Known(s)' <=> Known(s)
        /\ \A k, st : OnlyAt(s, k, st)' <=> OnlyAt(s, k, st)
        /\ Good(s)' <=> Good(s)
    BY Untouched
  <1>3. Goal(r, s)' = Goal(r, s) /\ Blocked(s)' = Blocked(s)
    BY <1>1 DEF Goal, Blocked
  <1>4. Provisioning(r, s) => Provisioning(r, s)'
    BY <1>1, <1>2 DEF Provisioning
  <1>5. Switching(r, s) => Switching(r, s)'
    BY <1>1, <1>2, <1>3 DEF Switching
  <1>6. Flagging(r, s) => Flagging(r, s)'
    BY <1>1, <1>2, <1>3 DEF Flagging
  <1>7. Removing(r, s) => Removing(r, s)'
    BY <1>1, <1>2 DEF Removing
  <1>8. Adding(r, s) => Adding(r, s)'
    BY <1>1, <1>2 DEF Adding
  <1>9. AddsBlocked(r) => AddsBlocked(r)'
    BY <1>1 DEF AddsBlocked
  <1>10. QED
    BY <1>1, <1>2, <1>4, <1>5, <1>6, <1>7, <1>8, <1>9 DEF AgreeParts

\* A request that begins while the two places agree.
LEMMA AgreeBegins ==
  ASSUME TypeInv, TypeInv', NEW r \in Requests, Begins(r),
         req'[r].marks = {"agreed"}, NEW s \in Services
  PROVE  AgreeParts(r, s)'
  <1>1. ASSUME NEW q \in Requested, Begin(r, q)
        PROVE  /\ \A u \in Services : Good(u)
               /\ req'[r].op = q.op /\ req'[r].adds = q.adds
               /\ req'[r].phase = q.phase /\ req'[r].block = q.block
               /\ req'[r].step = q.step /\ req'[r].key = q.key
    BY <1>1, BeginFields, AgreementOfAll
  <1>2. ASSUME UNCHANGED <<user, protocol, client>>
        PROVE  /\ Active' = Active /\ Pending' = Pending
               /\ Bare(s)' <=> Bare(s)
               /\ Known(s)' <=> Known(s)
               /\ Good(s)' <=> Good(s)
    BY <1>2, Untouched DEF Active, Pending
  <1>3. Good(s) => Known(s)
    BY DEF Good, Known, OnlyAt, Active, TypeInv, TypeOK
  <1>4. CASE BeginCreate(r)
    <2>1. PICK S \in SUBSET Services, q \in Requested :
             /\ Opens(q, "create", "provision", S) /\ Begin(r, q)
             /\ ~user.exists
             /\ user' = [exists |-> TRUE, isActive |-> TRUE,
                         isBlocked |-> FALSE]
             /\ protocol' = [u \in Services |-> IF u \in S
                                THEN [state |-> "active", config |-> NoKey]
                                ELSE NoProtocol]
             /\ UNCHANGED client
      BY <1>4, CreateOpens
    <2>2. /\ req'[r].phase = "provision" /\ req'[r].op = "create"
          /\ req'[r].step[s] = IF s \in S THEN "todo" ELSE "none"
      BY <1>1, <2>1 DEF Opens
    <2>3. s \notin Active
      BY <2>1 DEF Active, TypeInv, TypeOK, NoProtocol
    <2>4. Bare(s)'
      BY <1>1, <2>1, <2>3 DEF Good, Bare
    <2>5. s \in Active' <=> s \in S
      BY <2>1 DEF Active, NoProtocol
    <2>6. Provisioning(r, s)'
      BY <2>2, <2>4, <2>5 DEF Provisioning, Good
    <2>7. QED
      BY <2>1, <2>2, <2>6 DEF AgreeParts
  <1>5. CASE BeginUpdate(r)
    <2>1. PICK S \in SUBSET Services, q \in Requested :
             /\ Opens(q, "update", "write", Active \ S) /\ Begin(r, q)
             /\ q.adds = S \ Active
      BY <1>5, UpdateOpens
    <2>2. /\ req'[r].phase = "write" /\ req'[r].op = "update"
          /\ req'[r].step[s] = IF s \in Active \ S THEN "todo" ELSE "none"
          /\ req'[r].adds = S \ Active
      BY <1>1, <2>1 DEF Opens
    <2>3. Good(s)' /\ Active' = Active
      BY <1>1, <1>2, <1>5, <2>1, UpdateOpens
    <2>4. Removing(r, s)'
      BY <2>2, <2>3 DEF Removing
    <2>5. QED
      BY <2>2, <2>4 DEF AgreeParts
  <1>6. CASE BeginDelete(r)
    <2>1. PICK q \in Requested :
             Opens(q, "delete", "revoke", Active) /\ Begin(r, q)
      BY <1>6, DeleteOpens
    <2>2. /\ req'[r].phase = "revoke" /\ req'[r].op = "delete"
          /\ req'[r].step[s] = IF s \in Active THEN "todo" ELSE "none"
      BY <1>1, <2>1 DEF Opens
    <2>3. Good(s)' /\ Active' = Active
      BY <1>1, <1>2, <1>6, <2>1, DeleteOpens
    <2>4. req'[r].adds = {}
      <3>1. Begin(r, Plan([Idle EXCEPT !.op = "delete"], "revoke", Active))
        BY <1>6 DEF BeginDelete
      <3>2. req'[r] = [Plan([Idle EXCEPT !.op = "delete"], "revoke", Active)
                         EXCEPT !.marks = req'[r].marks]
        BY <3>1 DEF Begin, Plan, Idle
      <3>3. QED BY <3>2 DEF Plan, Idle
    <2>5. Removing(r, s)'
      BY <2>2, <2>3, <2>4 DEF Removing
    <2>6. QED
      BY <2>2, <2>5 DEF AgreeParts
  <1>7. CASE BeginSwitch(r)
    <2>1. PICK q \in Requested :
             /\ Opens(q, IF user.isBlocked THEN "unblock" ELSE "block",
                      "switch", Active)
             /\ Begin(r, q)
      BY <1>7, SwitchOpens
    <2>2. /\ req'[r].phase = "switch" /\ req'[r].op \in {"block", "unblock"}
          /\ req'[r].step[s] = IF s \in Active THEN "todo" ELSE "none"
      BY <1>1, <2>1 DEF Opens
    <2>3. Known(s)' /\ Active' = Active
      BY <1>1, <1>2, <1>3, <1>7, <2>1, SwitchOpens
    <2>4. Switching(r, s)'
      BY <2>2, <2>3 DEF Switching
    <2>5. QED
      BY <2>2, <2>4 DEF AgreeParts
  <1>8. CASE BeginSync(r)
    <2>1. PICK q \in Requested :
             Opens(q, "sync", "provision", Pending) /\ Begin(r, q)
      BY <1>8, SyncOpens
    <2>2. /\ req'[r].phase = "provision" /\ req'[r].op = "sync"
          /\ req'[r].step[s] = IF s \in Pending THEN "todo" ELSE "none"
      BY <1>1, <2>1 DEF Opens
    <2>3. Good(s) /\ (Good(s)' <=> Good(s)) /\ (Bare(s)' <=> Bare(s))
      BY <1>1, <1>2, <1>8, <2>1, SyncOpens
    <2>4. s \in Pending => Bare(s)
      BY <2>3 DEF Pending, Active, Good
    <2>5. Provisioning(r, s)'
      BY <2>2, <2>3, <2>4 DEF Provisioning
    <2>6. QED
      BY <2>2, <2>5 DEF AgreeParts
  <1>9. CASE BeginSyncAll(r)
    <2>1. PICK q \in Requested :
             Opens(q, "syncAll", "resync", {}) /\ Begin(r, q)
      BY <1>9, SyncAllOpens
    <2>2. req'[r].phase = "resync" /\ req'[r].op = "syncAll"
      BY <1>1, <2>1 DEF Opens
    <2>3. Known(s)'
      BY <1>1, <1>2, <1>3, <1>9, <2>1, SyncAllOpens
    <2>4. QED
      BY <2>2, <2>3 DEF AgreeParts
  <1>10. QED
    BY <1>4, <1>5, <1>6, <1>7, <1>8, <1>9 DEF Begins

\* A request works on a service.
ServiceStep(r, t) ==
    \/ CreateClient(r, t) \/ Record(r, t) \/ FindProtocol(r, t)
    \/ SaveAdded(r, t) \/ Lookup(r, t) \/ Call(r, t) \/ Deactivate(r, t)

\* A request in agreement that works on a service without failing keeps what
\* is known of that service and of every other.
LEMMA AgreeService ==
  ASSUME TypeInv, TypeInv', NEW r \in Requests, ~req[r].stale,
         NEW t \in Services, ServiceStep(r, t),
         req'[r].op # "idle", req'[r].marks = {"agreed"},
         \A s \in Services : AgreeParts(r, s),
         NEW s \in Services
  PROVE  AgreeParts(r, s)'
  <1>a. /\ req[r] \in Requested /\ RequestInv(r)
        /\ req[r].key[t] \in Keys \cup {NoKey}
        /\ protocol[t].config \in Keys \cup {NoKey}
        /\ client \in [Services -> [Keys -> Status]]
    BY DEF TypeInv, TypeOK, Requested
  <1>b. \A step : ~Fails(r, t, step)
    BY FailsFields
  <1>c. ~End(r)
    BY EndFields
  <1>d. AgreeParts(r, t) /\ AgreeParts(r, s)
    OBVIOUS
  <1>1. CASE CreateClient(r, t)
    <2>1. PICK k \in Keys :
             /\ Step(r, t, "created", k)
             /\ client' = [client EXCEPT ![t][k] = "on"]
      BY <1>1, <1>b DEF CreateClient, Fresh
    <2>2. /\ req[r].phase \in {"provision", "add"} /\ req[r].step[t] = "todo"
          /\ UNCHANGED <<user, protocol>>
      BY <1>1 DEF CreateClient, At
    <2>3. Moves(r, t, "created", k)
      BY <2>1, StepFields
    <2>4. ASSUME s # t PROVE AgreeParts(r, s)'
      <3>1. client'[s] = client[s]
        BY <1>a, <2>1, <2>4
      <3>2. QED BY <1>d, <2>2, <2>3, <2>4, <3>1, Elsewhere
    <2>5. AgreeParts(r, t)'
      <3>1. Bare(t) => OnlyAt(t, k, "on")'
        BY <1>a, <2>1 DEF Bare, OnlyAt
      <3>2. /\ req'[r].phase = req[r].phase /\ req'[r].step[t] = "created"
            /\ req'[r].key[t] = k /\ req'[r].adds = req[r].adds
            /\ req'[r].op = req[r].op
        BY <2>3 DEF Moves, Keeps
      <3>3. t \in Active' <=> t \in Active
        BY <2>2 DEF Active
      <3>4. CASE req[r].phase = "provision"
        <4>1. Provisioning(r, t) /\ (req[r].op = "create" => ~user.isBlocked)
          BY <1>d, <3>4 DEF AgreeParts
        <4>2. Provisioning(r, t)'
          BY <2>2, <3>1, <3>2, <3>3, <4>1 DEF Provisioning
        <4>3. QED BY <2>2, <3>2, <3>4, <4>1, <4>2 DEF AgreeParts
      <3>5. CASE req[r].phase = "add"
        <4>1. Adding(r, t) /\ req[r].op = "update"
          BY <1>a, <1>d, <3>5 DEF AgreeParts, RequestInv, PhasesOf, Requested,
             Ops
        <4>2. Adding(r, t)'
          BY <2>2, <3>1, <3>2, <4>1 DEF Adding
        <4>3. QED BY <3>2, <3>5, <4>1, <4>2 DEF AgreeParts
      <3>6. QED BY <2>2, <3>4, <3>5
    <2>6. QED BY <2>4, <2>5
  <1>2. CASE Record(r, t)
    <2>1. /\ req[r].phase = "provision" /\ req[r].step[t] = "created"
          /\ UNCHANGED <<user, client>>
          /\ protocol' = [protocol EXCEPT
                ![t].config = req[r].key[t],
                ![t].state = IF req[r].op = "sync" THEN "active" ELSE @]
          /\ Step(r, t, "done", req[r].key[t])
      BY <1>2, <1>c DEF Record, At
    <2>2. Moves(r, t, "done", req[r].key[t])
      BY <2>1, StepFields
    <2>3. /\ protocol'[t].config = req[r].key[t]
          /\ protocol'[t].state = IF req[r].op = "sync" THEN "active"
                                  ELSE protocol[t].state
          /\ \A u \in Services \ {t} : protocol'[u] = protocol[u]
      BY <2>1 DEF TypeInv, TypeOK
    <2>4. ASSUME s # t PROVE AgreeParts(r, s)'
      BY <1>d, <2>1, <2>2, <2>3, <2>4, Elsewhere
    <2>5. AgreeParts(r, t)'
      <3>1. /\ req'[r].phase = "provision" /\ req'[r].step[t] = "done"
            /\ req'[r].key[t] = req[r].key[t] /\ req'[r].op = req[r].op
        BY <2>1, <2>2 DEF Moves, Keeps
      <3>2. Provisioning(r, t) /\ (req[r].op = "create" => ~user.isBlocked)
        BY <1>d, <2>1 DEF AgreeParts
      <3>3. req[r].op \in {"create", "sync"} /\ req[r].key[t] \in Keys
        BY <1>a, <2>1 DEF RequestInv, PhasesOf, Requested, Ops
      <3>4. t \in Active'
        BY <2>1, <2>3, <3>2, <3>3 DEF Active, Provisioning
      <3>5. OnlyAt(t, req[r].key[t], "on")'
        BY <2>1, <3>1, <3>2 DEF OnlyAt, Provisioning
      <3>6. Provisioning(r, t)'
        BY <2>3, <3>1, <3>3, <3>4, <3>5, NoKeyAssumption
        DEF Provisioning, OnlyAt
      <3>7. QED BY <2>1, <3>1, <3>2, <3>6 DEF AgreeParts
    <2>6. QED BY <2>4, <2>5
  <1>3. CASE FindProtocol(r, t)
    <2>1. /\ req[r].phase = "add" /\ req[r].step[t] = "created"
          /\ UNCHANGED <<user, protocol, client>>
          /\ \E step \in {"update", "insert"} :
                Step(r, t, step, req[r].key[t])
      BY <1>3 DEF FindProtocol, At
    <2>2. PICK step \in {"update", "insert"} :
             Moves(r, t, step, req[r].key[t])
      BY <2>1, StepFields
    <2>3. ASSUME s # t PROVE AgreeParts(r, s)'
      BY <1>d, <2>1, <2>2, <2>3, Elsewhere
    <2>4. AgreeParts(r, t)'
      <3>1. /\ req'[r].phase = "add" /\ req'[r].step[t] = step
            /\ req'[r].key[t] = req[r].key[t] /\ req'[r].op = req[r].op
            /\ req'[r].adds = req[r].adds
        BY <2>1, <2>2 DEF Moves, Keeps
      <3>2. Adding(r, t) /\ req[r].op = "update"
        BY <1>a, <1>d, <2>1 DEF AgreeParts, RequestInv, PhasesOf, Requested,
           Ops
      <3>3. Adding(r, t)'
        BY <2>1, <3>1, <3>2 DEF Adding, OnlyAt
      <3>4. QED BY <3>1, <3>2, <3>3 DEF AgreeParts
    <2>5. QED BY <2>3, <2>4
  <1>4. CASE SaveAdded(r, t)
    <2>1. /\ req[r].phase = "add" /\ req[r].step[t] \in {"update", "insert"}
          /\ UNCHANGED <<user, client>>
          /\ protocol' = [protocol EXCEPT ![t] =
                [state |-> "active", config |-> req[r].key[t]]]
          /\ Step(r, t, "done", NoKey)
      BY <1>4, <1>b DEF SaveAdded, At
    <2>2. Moves(r, t, "done", NoKey)
      BY <2>1, StepFields
    <2>3. /\ protocol'[t].config = req[r].key[t]
          /\ protocol'[t].state = "active"
          /\ \A u \in Services \ {t} : protocol'[u] = protocol[u]
      BY <2>1 DEF TypeInv, TypeOK
    <2>4. ASSUME s # t PROVE AgreeParts(r, s)'
      BY <1>d, <2>1, <2>2, <2>3, <2>4, Elsewhere
    <2>5. AgreeParts(r, t)'
      <3>1. /\ req'[r].phase = "add" /\ req'[r].step[t] = "done"
            /\ req'[r].op = req[r].op /\ req'[r].adds = req[r].adds
        BY <2>1, <2>2 DEF Moves, Keeps
      <3>2. Adding(r, t) /\ req[r].op = "update"
        BY <1>a, <1>d, <2>1 DEF AgreeParts, RequestInv, PhasesOf, Requested,
           Ops
      <3>3. /\ t \in Active' /\ t \in req[r].adds /\ req[r].key[t] \in Keys
            /\ OnlyAt(t, req[r].key[t], "on")
        BY <2>1, <2>3, <3>2 DEF Adding, Active
      <3>4. Adding(r, t)'
        BY <2>1, <2>3, <3>1, <3>3, NoKeyAssumption DEF Adding, OnlyAt
      <3>5. QED BY <3>1, <3>2, <3>4 DEF AgreeParts
    <2>6. QED BY <2>4, <2>5
  <1>5. CASE Lookup(r, t)
    <2>1. /\ req[r].phase \in {"switch", "remove", "revoke"}
          /\ req[r].step[t] = "todo" /\ t \in Active
          /\ UNCHANGED <<user, protocol, client>>
          /\ Step(r, t, "held", protocol[t].config)
      BY <1>5, <1>b DEF Lookup, At
    <2>2. Moves(r, t, "held", protocol[t].config)
      BY <2>1, StepFields
    <2>3. ASSUME s # t PROVE AgreeParts(r, s)'
      BY <1>d, <2>1, <2>2, <2>3, Elsewhere
    <2>4. AgreeParts(r, t)'
      <3>1. /\ req'[r].phase = req[r].phase /\ req'[r].step[t] = "held"
            /\ req'[r].key[t] = protocol[t].config
            /\ req'[r].op = req[r].op /\ req'[r].adds = req[r].adds
            /\ req'[r].block = req[r].block
        BY <2>1, <2>2 DEF Moves, Keeps
      <3>2. /\ t \in Active' <=> t \in Active
            /\ Known(t)' <=> Known(t)
            /\ Good(t)' <=> Good(t)
        BY <2>1, Untouched
      <3>3. req[r].op # "create"
        BY <1>a, <2>1 DEF RequestInv, PhasesOf
      <3>4. CASE req[r].phase = "switch"
        <4>1. Switching(r, t)
          BY <1>d, <3>4 DEF AgreeParts
        <4>2. Switching(r, t)'
          BY <2>1, <3>1, <3>2, <4>1 DEF Switching
        <4>3. QED BY <3>1, <3>3, <3>4, <4>2 DEF AgreeParts
      <3>5. CASE req[r].phase \in {"remove", "revoke"}
        <4>1. Removing(r, t)
          BY <1>d, <3>5 DEF AgreeParts
        <4>2. Removing(r, t)'
          BY <2>1, <3>1, <3>2, <4>1 DEF Removing
        <4>3. QED BY <3>1, <3>3, <3>5, <4>2 DEF AgreeParts
      <3>6. QED BY <2>1, <3>4, <3>5
    <2>5. QED BY <2>3, <2>4
  <1>6. CASE Call(r, t)
    <2>1. /\ req[r].phase \in {"switch", "remove", "revoke"}
          /\ req[r].step[t] = "held"
          /\ UNCHANGED <<user, protocol>>
          /\ Step(r, t, AfterCall(r), NoKey)
          /\ client' = [client EXCEPT ![t][req[r].key[t]] = Goal(r, t)]
      BY <1>6, <1>b DEF Call, At
    <2>2. Moves(r, t, AfterCall(r), NoKey)
      BY <2>1, StepFields
    <2>3. ASSUME s # t PROVE AgreeParts(r, s)'
      <3>1. client'[s] = client[s]
        BY <1>a, <2>1, <2>3
      <3>2. QED BY <1>d, <2>1, <2>2, <2>3, <3>1, Elsewhere
    <2>4. AgreeParts(r, t)'
      <3>1. /\ req'[r].phase = req[r].phase /\ req'[r].step[t] = AfterCall(r)
            /\ req'[r].op = req[r].op /\ req'[r].adds = req[r].adds
            /\ req'[r].block = req[r].block
        BY <2>1, <2>2 DEF Moves, Keeps
      <3>2. t \in Active' <=> t \in Active
        BY <2>1 DEF Active
      <3>3. req[r].op # "create" /\ req[r].key[t] \in Keys
        BY <1>a, <2>1 DEF RequestInv, PhasesOf
      <3>4. \A l \in Keys : client'[t][l] = IF l = req[r].key[t] THEN Goal(r, t)
                                           ELSE client[t][l]
        BY <1>a, <2>1, <3>3
      <3>5. CASE req[r].phase = "switch"
        <4>1. /\ Switching(r, t) /\ t \in Active
              /\ req[r].key[t] = protocol[t].config
          BY <1>d, <2>1, <3>5 DEF AgreeParts, Switching
        <4>2. Known(t)'
          BY <2>1, <3>2, <3>3, <3>4, <4>1 DEF Known, OnlyAt, Switching
        <4>3. client'[t][protocol'[t].config] = Goal(r, t)'
          BY <2>1, <3>1, <3>3, <3>4, <4>1 DEF Goal, Blocked
        <4>4. req'[r].step[t] = "done"
          BY <3>1, <3>5 DEF AfterCall
        <4>5. Switching(r, t)'
          BY <2>1, <3>1, <3>2, <4>1, <4>2, <4>3, <4>4 DEF Switching
        <4>6. QED BY <3>1, <3>3, <3>5, <4>5 DEF AgreeParts
      <3>6. CASE req[r].phase \in {"remove", "revoke"}
        <4>1. /\ Removing(r, t) /\ t \in Active /\ Good(t)
              /\ req[r].key[t] = protocol[t].config
          BY <1>d, <2>1, <3>6 DEF AgreeParts, Removing
        <4>2. Goal(r, t) = "absent"
          BY <3>6 DEF Goal
        <4>3. Bare(t)'
          BY <3>4, <4>1, <4>2 DEF Bare, Good, OnlyAt
        <4>4. req'[r].step[t] = IF req[r].phase = "remove" THEN "called"
                                ELSE "done"
          BY <3>1 DEF AfterCall
        <4>5. Removing(r, t)'
          BY <2>1, <3>1, <3>2, <3>6, <4>1, <4>3, <4>4 DEF Removing
        <4>6. QED BY <3>1, <3>3, <3>6, <4>5 DEF AgreeParts
      <3>7. QED BY <2>1, <3>5, <3>6
    <2>5. QED BY <2>3, <2>4
  <1>7. CASE Deactivate(r, t)
    <2>1. /\ req[r].phase = "remove" /\ req[r].step[t] = "called"
          /\ UNCHANGED <<user, client>>
          /\ protocol' = [protocol EXCEPT ![t].state =
                             IF @ = "active" THEN "inactive" ELSE @]
          /\ Step(r, t, "done", NoKey)
      BY <1>7 DEF Deactivate, At
    <2>2. Moves(r, t, "done", NoKey)
      BY <2>1, StepFields
    <2>3. /\ protocol'[t].state # "active"
          /\ \A u \in Services \ {t} : protocol'[u] = protocol[u]
      BY <2>1 DEF TypeInv, TypeOK
    <2>4. ASSUME s # t PROVE AgreeParts(r, s)'
      BY <1>d, <2>1, <2>2, <2>3, <2>4, Elsewhere
    <2>5. AgreeParts(r, t)'
      <3>1. /\ req'[r].phase = "remove" /\ req'[r].step[t] = "done"
            /\ req'[r].op = req[r].op /\ req'[r].adds = req[r].adds
        BY <2>1, <2>2 DEF Moves, Keeps
      <3>2. req[r].op # "create"
        BY <1>a, <2>1 DEF RequestInv, PhasesOf
      <3>3. Removing(r, t)
        BY <1>d, <2>1 DEF AgreeParts
      <3>4. t \notin Active' /\ Bare(t)'
        BY <2>1, <2>3, <3>3 DEF Active, Bare, Removing
      <3>5. Removing(r, t)'
        BY <3>1, <3>4 DEF Removing
      <3>6. QED BY <3>1, <3>2, <3>5 DEF AgreeParts
    <2>6. QED BY <2>4, <2>5
  <1>8. QED
    BY <1>1, <1>2, <1>3, <1>4, <1>5, <1>6, <1>7 DEF ServiceStep

\* A request in agreement is through with its services.
LEMMA AgreeServicesDone ==
  ASSUME TypeInv, TypeInv', NEW r \in Requests, ServicesDone(r),
         req'[r].op # "idle", req'[r].marks = {"agreed"},
         \A s \in Services : AgreeParts(r, s),
         NEW s \in Services
  PROVE  AgreeParts(r, s)'
  <1>a. /\ req[r] \in Requested /\ RequestInv(r)
        /\ UNCHANGED <<user, protocol, client>>
        /\ req[r].phase \in {"provision", "remove", "add", "revoke", "switch"}
        /\ \A u \in Services : req[r].step[u] \in {"none", "done"}
        /\ AgreeParts(r, s)
    BY DEF TypeInv, TypeOK, ServicesDone, Tasks
  <1>b. /\ s \in Active' <=> s \in Active
        /\ Bare(s)' <=> Bare(s)
        /\ Known(s)' <=> Known(s)
        /\ Good(s)' <=> Good(s)
    BY <1>a, Untouched
  <1>c. req[r].op \in CASE req[r].phase = "provision" -> {"create", "sync"}
                        [] req[r].phase = "switch"    ->
                             {"sync", "syncAll", "block", "unblock"}
                        [] req[r].phase = "revoke"    -> {"delete"}
                        [] OTHER                      -> {"update"}
    BY <1>a DEF RequestInv, PhasesOf, Requested, Ops
  <1>1. CASE req[r].phase = "provision"
    <2>1. Provisioning(r, s) /\ (req[r].op = "create" => ~user.isBlocked)
      BY <1>a, <1>1 DEF AgreeParts
    <2>2. CASE req[r].op = "create"
      <3>1. Failed(r) = {}
        BY <1>a, <1>1 DEF Failed, Tasks, AgreeParts, Provisioning
      <3>2. Enter(r, "answer")
        BY <1>1, <2>2, <3>1 DEF ServicesDone, Follow
      <3>3. req'[r].phase = "answer" /\ req'[r].op = "create"
        BY <2>2, <3>2, EnterFields DEF Keeps
      <3>4. Good(s)
        BY <1>a, <2>1, <2>2, NoKeyAssumption
        DEF Provisioning, Good, Wanted, OnlyAt
      <3>5. QED BY <1>a, <1>b, <2>1, <2>2, <3>3, <3>4 DEF AgreeParts
    <2>3. CASE req[r].op = "sync"
      <3>1. \E phase \in {"reactivate", "resync"} : Enter(r, phase)
        BY <1>1, <2>3 DEF ServicesDone, Follow
      <3>2. /\ req'[r].phase \in {"reactivate", "resync"}
            /\ req'[r].op = "sync"
        BY <2>3, <3>1, EnterFields DEF Keeps
      <3>3. Known(s)
        <4>1. CASE req[r].step[s] = "none"
          <5>1. Good(s)
            BY <2>1, <4>1 DEF Provisioning
          <5>2. QED
            BY <5>1 DEF Good, Known, OnlyAt, TypeInv, TypeOK, Active
        <4>2. CASE req[r].step[s] = "done"
          <5>1. /\ s \in Active /\ protocol[s].config # NoKey
                /\ OnlyAt(s, protocol[s].config, "on")
            BY <2>1, <4>2 DEF Provisioning
          <5>2. QED
            BY <5>1 DEF Known, OnlyAt, TypeInv, TypeOK
        <4>3. QED BY <1>a, <4>1, <4>2
      <3>4. QED BY <1>b, <3>2, <3>3 DEF AgreeParts
    <2>4. QED BY <1>1, <1>c, <2>2, <2>3
  <1>2. CASE req[r].phase = "remove"
    <2>1. Removing(r, s) /\ req[r].op = "update"
      BY <1>a, <1>c, <1>2 DEF AgreeParts
    <2>2. Plans(r, "add", req[r].adds, req[r].block)
      BY <1>2 DEF ServicesDone, Follow, Plans
    <2>3. /\ req'[r].phase = "add" /\ req'[r].op = "update"
          /\ req'[r].adds = req[r].adds
          /\ req'[r].step[s] = IF s \in req[r].adds THEN "todo" ELSE "none"
      <3>1. "add" \in Phases /\ req[r].adds \in SUBSET Services
        BY <1>a DEF Phases, Requested
      <3>2. /\ Keeps(r) /\ req'[r].phase = "add"
            /\ req'[r].step[s] = IF s \in req[r].adds THEN "todo" ELSE "none"
        <4>1. PICK p \in Phases, adds \in SUBSET Services :
                p = "add" /\ adds = req[r].adds
          BY <3>1
        <4>2. PICK block : block = req[r].block
          OBVIOUS
        <4>3. Plans(r, p, adds, block)
          BY <2>2, <4>1, <4>2
        <4>4. /\ Keeps(r) /\ req'[r].phase = p
              /\ \A t \in Services :
                    req'[r].step[t] = IF t \in adds THEN "todo" ELSE "none"
          BY <4>3, TypeInv, PlanFields
        <4>5. QED BY <4>1, <4>4
      <3>3. QED BY <2>1, <3>2 DEF Keeps
    <2>4. Good(s) /\ (s \in req[r].adds => s \notin Active /\ Bare(s))
      BY <1>a, <1>2, <2>1 DEF Removing, Good
    <2>5. Adding(r, s)'
      BY <1>b, <2>3, <2>4 DEF Adding
    <2>6. QED BY <2>3, <2>5 DEF AgreeParts
  <1>3. CASE req[r].phase = "add"
    <2>1. Adding(r, s) /\ req[r].op = "update"
      BY <1>a, <1>c, <1>3 DEF AgreeParts
    <2>2. Enter(r, "answer")
      BY <1>3 DEF ServicesDone, Follow
    <2>3. /\ req'[r].phase = "answer" /\ req'[r].op = "update"
          /\ req'[r].adds = req[r].adds
      BY <2>1, <2>2, EnterFields DEF Keeps
    <2>4. AddsBlocked(r)' \/ Good(s)
      <3>1. CASE req[r].step[s] = "none"
        BY <2>1, <3>1 DEF Adding
      <3>2. CASE req[r].step[s] = "done" /\ user.isBlocked
        BY <1>a, <2>1, <2>3, <3>2 DEF Adding, AddsBlocked
      <3>3. CASE req[r].step[s] = "done" /\ ~user.isBlocked
        BY <2>1, <3>3 DEF Adding, Good, Wanted
      <3>4. QED BY <1>a, <3>1, <3>2, <3>3
    <2>5. QED BY <1>b, <2>3, <2>4 DEF AgreeParts
  <1>4. CASE req[r].phase = "revoke"
    <2>1. Removing(r, s) /\ req[r].op = "delete"
      BY <1>a, <1>c, <1>4 DEF AgreeParts
    <2>2. Enter(r, "erase")
      BY <1>4 DEF ServicesDone, Follow
    <2>3. req'[r].phase = "erase" /\ req'[r].op = "delete"
      BY <2>1, <2>2, EnterFields DEF Keeps
    <2>4. Bare(s)
      BY <1>a, <1>4, <2>1 DEF Removing, Good
    <2>5. QED BY <1>b, <2>3, <2>4 DEF AgreeParts
  <1>5. CASE req[r].phase = "switch"
    <2>1. Switching(r, s)
      BY <1>a, <1>5 DEF AgreeParts
    <2>2. s \in Active => client[s][protocol[s].config] =
                             IF req[r].block THEN Blocked(s) ELSE "on"
      BY <1>a, <1>5, <2>1 DEF Switching, Goal
    <2>3. CASE req[r].op \in {"block", "unblock"}
      <3>1. Enter(r, "flag")
        BY <1>5, <2>3 DEF ServicesDone, Follow
      <3>2. /\ req'[r].phase = "flag" /\ req'[r].op = req[r].op
            /\ req'[r].block = req[r].block
        BY <3>1, EnterFields DEF Keeps
      <3>3. Flagging(r, s)'
        BY <1>a, <1>b, <2>1, <2>2, <3>2 DEF Flagging, Switching, Blocked
      <3>4. QED BY <2>3, <3>2, <3>3 DEF AgreeParts
    <2>4. CASE req[r].op \in {"sync", "syncAll"}
      <3>1. Enter(r, "answer")
        BY <1>5, <2>4 DEF ServicesDone, Follow
      <3>2. req'[r].phase = "answer" /\ req'[r].op = req[r].op
        BY <3>1, EnterFields DEF Keeps
      <3>3. req[r].block = user.isBlocked
        BY <2>1, <2>4 DEF Switching
      <3>4. Good(s)
        BY <2>1, <2>2, <3>3 DEF Good, Known, Switching, Wanted, OnlyAt
      <3>5. QED BY <1>b, <2>4, <3>2, <3>4 DEF AgreeParts
    <2>5. QED BY <1>5, <1>c, <2>3, <2>4
  <1>6. QED BY <1>a, <1>1, <1>2, <1>3, <1>4, <1>5

\* A request writes or reads the row of the user.
RowStep(r) ==
    \/ WriteRow(r) \/ Compensate(r) \/ DeactivateUser(r) \/ Reactivate(r)
    \/ FindUser(r) \/ Flag(r) \/ Erase(r)

\* Writing or reading the row of the user in agreement.
LEMMA AgreeRow ==
  ASSUME TypeInv, TypeInv', NEW r \in Requests, ~req[r].stale,
         RowStep(r), req'[r].op # "idle", req'[r].marks = {"agreed"},
         \A s \in Services : AgreeParts(r, s),
         NEW s \in Services
  PROVE  AgreeParts(r, s)'
  <1>a. /\ req[r] \in Requested /\ RequestInv(r) /\ AgreeParts(r, s)
        /\ req[r].op # "idle"
    BY WorksEffect DEF TypeInv, TypeOK, Works, RowStep
  <1>1. CASE WriteRow(r)
    <2>1. /\ req[r].phase = "write" /\ Enter(r, "remove")
          /\ UNCHANGED <<protocol, client>>
          /\ \E active \in BOOLEAN : user' = [user EXCEPT !.isActive = active]
      BY <1>1, EndFields DEF WriteRow
    <2>2. /\ req'[r].phase = "remove" /\ req'[r].op = req[r].op
          /\ req'[r].adds = req[r].adds /\ req'[r].step = req[r].step
          /\ req'[r].key = req[r].key
      BY <2>1, EnterFields DEF Keeps
    <2>3. user'.isBlocked = user.isBlocked
      BY <2>1 DEF TypeInv, TypeOK
    <2>4. /\ s \in Active' <=> s \in Active
          /\ Bare(s)' <=> Bare(s)
          /\ Good(s)' <=> Good(s)
      BY <2>1, <2>3, Untouched
    <2>5. /\ Removing(r, s) /\ req[r].step[s] \in {"none", "todo"}
          /\ req[r].op # "create"
      BY <1>a, <2>1 DEF AgreeParts, RequestInv, PhasesOf
    <2>6. Removing(r, s)'
      BY <2>1, <2>2, <2>4, <2>5 DEF Removing
    <2>7. QED BY <2>2, <2>5, <2>6 DEF AgreeParts
  <1>2. ~Compensate(r) /\ ~DeactivateUser(r)
    BY <1>a DEF AgreeParts, Compensate, DeactivateUser
  <1>3. CASE Reactivate(r)
    <2>1. /\ req[r].phase = "reactivate" /\ Enter(r, "resync")
          /\ UNCHANGED <<protocol, client>>
      BY <1>3, EndFields DEF Reactivate, WriteUser
    <2>2. req'[r].phase = "resync" /\ req'[r].op = req[r].op
      BY <2>1, EnterFields DEF Keeps
    <2>3. Known(s)'
      BY <1>a, <2>1, Untouched DEF AgreeParts
    <2>4. req[r].op # "create"
      BY <1>a, <2>1 DEF RequestInv, PhasesOf
    <2>5. QED BY <2>2, <2>3, <2>4 DEF AgreeParts
  <1>4. CASE FindUser(r)
    <2>1. /\ req[r].phase = "resync" /\ UNCHANGED <<user, protocol, client>>
          /\ Plans(r, "switch", Active, user.isBlocked)
      BY <1>4 DEF FindUser, Plans
    <2>2. "switch" \in Phases /\ Active \in SUBSET Services
      BY DEF Phases, Active
    <2>3. /\ Keeps(r) /\ req'[r].phase = "switch"
          /\ req'[r].block = user'.isBlocked
          /\ req'[r].step[s] = IF s \in Active THEN "todo" ELSE "none"
      BY <2>1, <2>2, PlanFields
    <2>4. Known(s)' /\ (s \in Active' <=> s \in Active)
      BY <1>a, <2>1, Untouched DEF AgreeParts
    <2>5. Switching(r, s)'
      BY <2>3, <2>4 DEF Switching
    <2>6. req'[r].op # "create"
      BY <1>a, <2>1, <2>3 DEF RequestInv, PhasesOf, Keeps
    <2>7. QED BY <2>3, <2>5, <2>6 DEF AgreeParts
  <1>5. CASE Flag(r)
    <2>1. /\ req[r].phase = "flag" /\ Enter(r, "answer")
          /\ user' = [user EXCEPT !.isBlocked = req[r].block]
          /\ UNCHANGED <<protocol, client>>
      BY <1>5, EndFields DEF Flag, WriteUser
    <2>2. req'[r].phase = "answer" /\ req'[r].op = req[r].op
      BY <2>1, EnterFields DEF Keeps
    <2>3. user'.isBlocked = req[r].block
      BY <2>1 DEF TypeInv, TypeOK
    <2>4. /\ s \in Active' <=> s \in Active
          /\ Known(s)'
          /\ s \in Active => client[s][protocol[s].config] =
                               IF req[r].block THEN Blocked(s) ELSE "on"
      BY <1>a, <2>1, Untouched DEF AgreeParts, Flagging
    <2>5. Good(s)'
      BY <2>1, <2>3, <2>4 DEF Good, Known, Wanted, Blocked, OnlyAt
    <2>6. req[r].op # "create"
      BY <1>a, <2>1 DEF RequestInv, PhasesOf
    <2>7. QED BY <2>2, <2>5, <2>6 DEF AgreeParts
  <1>6. CASE Erase(r)
    <2>1. /\ req[r].phase = "erase" /\ UNCHANGED client
          /\ protocol' = [u \in Services |-> NoProtocol]
          /\ req' = [u \in Requests |->
                        IF u = r THEN [req[r] EXCEPT !.phase = "answer"]
                        ELSE [req[u] EXCEPT !.stale = req[u].op # "idle"]]
      BY <1>6, EndFields DEF Erase
    <2>2. req'[r].phase = "answer" /\ req'[r].op = req[r].op
      BY <1>a, <2>1 DEF Requested
    <2>3. Bare(s)' /\ s \notin Active'
      BY <1>a, <2>1 DEF AgreeParts, Bare, Active, NoProtocol
    <2>4. req[r].op # "create"
      BY <1>a, <2>1 DEF RequestInv, PhasesOf
    <2>5. QED BY <2>2, <2>3, <2>4 DEF AgreeParts, Good
  <1>7. QED BY <1>1, <1>2, <1>3, <1>4, <1>5, <1>6 DEF RowStep

\* Every step of an undisturbed request that found agreement and met no
\* failure keeps what is known of each service.
LEMMA AgreeStep ==
  ASSUME AloneInv, [Next]_vars, NEW r \in Requests, AgreeInv(r)
  PROVE  AgreeInv(r)'
  <1> SUFFICES ASSUME Undisturbed(r)', req'[r].marks = {"agreed"},
                      NEW s \in Services
               PROVE  AgreeParts(r, s)'
    BY DEF AgreeInv
  <1>a. TypeInv /\ TypeInv' /\ req'[r].op # "idle"
    BY NextTypeInv DEF AloneInv, Undisturbed
  <1>1. CASE UNCHANGED vars
    <2>1. AgreeParts(r, s)
      BY <1>1 DEF vars, Undisturbed, AgreeInv
    <2>2. /\ s \in Active' <=> s \in Active
          /\ Bare(s)' <=> Bare(s)
          /\ Known(s)' <=> Known(s)
          /\ \A k, st : OnlyAt(s, k, st)' <=> OnlyAt(s, k, st)
          /\ Good(s)' <=> Good(s)
      BY <1>1, Untouched DEF vars
    <2>3. /\ Provisioning(r, s) => Provisioning(r, s)'
          /\ Switching(r, s) => Switching(r, s)'
          /\ Flagging(r, s) => Flagging(r, s)'
          /\ Removing(r, s) => Removing(r, s)'
          /\ Adding(r, s) => Adding(r, s)'
          /\ AddsBlocked(r) => AddsBlocked(r)'
      BY <1>1, <2>2 DEF vars, Provisioning, Switching, Flagging, Removing,
         Adding, AddsBlocked, Goal, Blocked
    <2>4. QED BY <1>1, <2>1, <2>2, <2>3 DEF vars, AgreeParts
  <1>2. CASE Begins(r)
    BY <1>a, <1>2, AgreeBegins
  <1>3. CASE Works(r) /\ Undisturbed(r) /\ ~req[r].stale /\ Keeps(r)
    <2>1. req[r].marks = {"agreed"}
      <3>1. \/ req'[r].marks = req[r].marks
            \/ "failed" \in req'[r].marks
            \/ "repeated" \in req'[r].marks
        BY <1>3 DEF Keeps
      <3>2. QED BY <3>1
    <2>2. \A u \in Services : AgreeParts(r, u)
      BY <1>3, <2>1 DEF AgreeInv
    <2>3. ASSUME NEW u \in Services, ServiceStep(r, u) PROVE AgreeParts(r, s)'
      BY <1>a, <1>3, <2>2, <2>3, AgreeService
    <2>4. CASE ServicesDone(r)
      BY <1>a, <2>2, <2>4, AgreeServicesDone
    <2>5. CASE RowStep(r)
      BY <1>a, <1>3, <2>2, <2>5, AgreeRow
    <2>6. CASE Answer(r) \/ Abort(r)
      BY <1>a, <2>6, EndFields DEF Answer, Abort
    <2>7. ~\E a \in again[r] : StepsAgain(r, a)
      BY <1>a, AgainFields
    <2>8. QED
      BY <1>3, <2>3, <2>4, <2>5, <2>6, <2>7 DEF Works, ServiceStep, RowStep
  <1>4. QED BY <1>1, <1>2, <1>3, StepIsOwn

-----------------------------------------------------------------------------
(* The theorems *)

\* The invariant of users and their access holds at the start and is kept.
LEMMA UserInvHolds == Spec => []UserInv
  <1>1. Init => UserInv
    BY InitTypeInv DEF Init, UserInv, AloneInv, Alone, CreateInv, SyncInv,
       AgreeInv, Undisturbed, Idle
  <1>2. UserInv /\ [Next]_vars => UserInv'
    <2> SUFFICES ASSUME UserInv, [Next]_vars PROVE UserInv'
      OBVIOUS
    <2>1. AloneInv /\ TypeInv
      BY DEF UserInv, AloneInv
    <2>2. ASSUME NEW r \in Requests PROVE Alone(r)'
      <3>1. CASE Undisturbed(r)'
        <4>1. CASE UNCHANGED vars
          BY <2>1, <4>1 DEF vars, AloneInv, Alone, Undisturbed
        <4>2. QED BY <2>1, <3>1, <4>1, StepIsOwn
      <3>2. CASE ~Undisturbed(r)'
        BY <3>2 DEF Alone
      <3>3. QED BY <3>1, <3>2
    <2>3. TypeInv'
      BY <2>1, NextTypeInv
    <2>4. ASSUME NEW r \in Requests
          PROVE  CreateInv(r)' /\ SyncInv(r)' /\ AgreeInv(r)'
      BY <2>1, CreateStep, SyncStep, AgreeStep DEF UserInv
    <2>5. QED BY <2>2, <2>3, <2>4 DEF UserInv, AloneInv
  <1>3. QED BY <1>1, <1>2, PTL DEF Spec

\* Whatever fails, the answer to an undisturbed POST of a user finds rows
\* that tell the truth.
THEOREM Created == Spec => []CreateTellsTruth
  <1>1. UserInv => CreateTellsTruth
    <2> SUFFICES ASSUME UserInv, NEW r \in Requests, Answers(r, {"create"})
                 PROVE  /\ Active = Tasks(r) \ Failed(r)
                        /\ \A s \in Active :
                              /\ protocol[s].config # NoKey
                              /\ client[s][protocol[s].config] = "on"
                        /\ Failed(r) \subseteq Pending
                        /\ user.isActive = (Active # {} \/ Tasks(r) = {})
      BY DEF CreateTellsTruth
    <2>1. /\ CreateParts(r) /\ req[r].phase = "answer" /\ RequestInv(r)
          /\ protocol \in [Services -> [state : {"none", "inactive", "active"},
                                        config : Keys \cup {NoKey}]]
      BY DEF UserInv, AloneInv, TypeInv, TypeOK, CreateInv, Answers,
         Undisturbed
    <2>2. \A s \in Services : /\ req[r].step[s] \in {"none", "done"}
                              /\ CreateService(r, s)
      BY <2>1 DEF RequestInv, StepsOf, CreateParts
    <2>3. ASSUME NEW s \in Active
          PROVE  /\ protocol[s].config # NoKey
                 /\ client[s][protocol[s].config] = "on"
                 /\ s \in Tasks(r) \ Failed(r)
      BY <2>1, <2>2 DEF CreateService, Active, NoProtocol, Tasks, Failed
    <2>4. ASSUME NEW s \in Tasks(r)
          PROVE  /\ s \in Failed(r) => s \in Pending
                 /\ s \notin Failed(r) => s \in Active
      <3>1. /\ s \in Services /\ req[r].step[s] = "done"
            /\ CreateService(r, s)
        BY <2>2 DEF Tasks
      <3>2. CASE s \in Failed(r)
        <4>1. protocol[s].state = "inactive" /\ protocol[s].config = NoKey
          BY <2>1, <3>1, <3>2 DEF CreateService, Failed
        <4>2. protocol[s] = [state |-> "inactive", config |-> NoKey]
          BY <2>1, <3>1, <4>1
        <4>3. QED BY <3>1, <3>2, <4>2 DEF Pending
      <3>3. CASE s \notin Failed(r)
        BY <3>1, <3>3 DEF CreateService, Failed, Active
      <3>4. QED BY <3>2, <3>3
    <2>5. user.isActive = (Failed(r) # Tasks(r) \/ Tasks(r) = {})
      BY <2>1 DEF CreateParts
    <2>6. Failed(r) # Tasks(r) <=> Active # {}
      BY <2>3, <2>4 DEF Failed
    <2>7. (Failed(r) # Tasks(r) \/ Tasks(r) = {})
          = (Active # {} \/ Tasks(r) = {})
      BY <2>6
    <2>8. Active = Tasks(r) \ Failed(r) /\ Failed(r) \subseteq Tasks(r)
      BY <2>3, <2>4 DEF Failed
    <2>9. QED
      BY <2>3, <2>4, <2>5, <2>7, <2>8
  <1>2. QED BY <1>1, UserInvHolds, PTL

\* A sync that nothing overlapped and no call failed leaves every active
\* protocol as the row of the user asks and, for one user, nothing pending.
THEOREM Synced == Spec => []SyncRestores
  <1>1. UserInv => SyncRestores
    BY DEF UserInv, SyncRestores, Answers, SyncInv, SyncParts, Undisturbed,
       InForce
  <1>2. QED BY <1>1, UserInvHolds, PTL

\* A request that found the rows and the clients in agreement, that nothing
\* overlapped and no call failed, leaves them in agreement.
THEOREM Agreed == Spec => []CleanRunsAgree
  <1>1. UserInv => CleanRunsAgree
    <2> SUFFICES ASSUME UserInv, NEW r \in Requests, Answers(r, Ops),
                        req[r].marks = {"agreed"},
                        ~(req[r].op = "update" /\ req[r].adds # {}
                          /\ user.isBlocked)
                 PROVE  Agreement
      BY DEF CleanRunsAgree
    <2>1. TypeInv /\ AgreeInv(r) /\ RequestInv(r)
      BY DEF UserInv, AloneInv, TypeInv
    <2>2. req[r].op # "idle"
      BY <2>1 DEF Answers, RequestInv, Idle
    <2>3. \A s \in Services : Good(s)
      BY <2>1, <2>2 DEF AgreeInv, AgreeParts, Answers, Undisturbed,
         AddsBlocked
    <2>4. QED BY <2>1, <2>3, AgreementOfAll
  <1>2. QED BY <1>1, UserInvHolds, PTL
=============================================================================
