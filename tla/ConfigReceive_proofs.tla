------------------------- MODULE ConfigReceive_proofs -------------------------
(***************************************************************************)
(* Proofs about ConfigReceive and ConfigReceiveHistory, for any number of  *)
(* concurrent pushes and rollbacks and any set of payloads.                *)
(***************************************************************************)
EXTENDS ConfigReceiveHistory, TLAPS

-----------------------------------------------------------------------------
(* Types *)

\* The first state is well typed.
LEMMA InitTypeOK == Init => TypeOK
  BY NoConfigAssumption DEF Init, TypeOK, Ages, Replies, NoReply

\* An answer leaves the locals of a handler well typed.
LEMMA AnswerType ==
  ASSUME TypeOK, NEW h \in Handlers, NEW v \in Nat,
         NEW s \in {"applied", "ignored", "stale", "rejected", "error"},
         Answer(h, s, v)
  PROVE  /\ pc' \in [Handlers -> {"idle", "read", "decide", "commit"}]
         /\ payload' \in [Handlers -> Payloads \cup {NoConfig}]
         /\ \A g \in Handlers : pc'[g] # "idle" => payload'[g] \in Payloads
         /\ seen' \in [Handlers -> Payloads \cup {NoConfig}]
         /\ reply' \in [Handlers -> Replies]
  BY DEF TypeOK, Answer, Replies

\* A payload is a record with a version.
LEMMA PayloadVersion ==
  ASSUME NEW p \in Payloads
  PROVE  p.version \in Nat /\ p.version > 0 /\ p # NoConfig
  BY PayloadsAssumption, NoConfigAssumption DEF Configs

\* Every step of the routes, and every step of the environment, keeps the types.
LEMMA NextTypeOK == TypeOK /\ [Next]_vars => TypeOK'
  <1> SUFFICES ASSUME TypeOK, [Next]_vars PROVE TypeOK'
    OBVIOUS
  <1> USE DEF rowVars, pushVars, adminVars
  <1>1. ASSUME NEW h \in Handlers, NEW p \in Payloads, Arrive(h, p)
        PROVE  TypeOK'
    BY <1>1 DEF Arrive, TypeOK, NoReply, Replies
  <1>2. ASSUME NEW h \in Handlers, Reject(h) PROVE TypeOK'
    BY <1>2, AnswerType DEF Reject, TypeOK
  <1>3. ASSUME NEW h \in Handlers, Read(h) PROVE TypeOK'
    BY <1>3 DEF Read, TypeOK
  <1>4. ASSUME NEW h \in Handlers, Decide(h) PROVE TypeOK'
    <2>1. payload[h] \in Payloads /\ payload[h].version \in Nat
      BY <1>4, PayloadVersion DEF Decide, TypeOK
    <2>2. CASE Answer(h, "applied", payload[h].version)
      BY <1>4, <2>1, <2>2, AnswerType DEF Decide, TypeOK
    <2>3. CASE Answer(h, "stale", 0)
      BY <1>4, <2>3, AnswerType DEF Decide, TypeOK
    <2>4. CASE Superseded(h) /\ Answer(h, "ignored", seen[h].version)
      <3>1. seen[h].version \in Nat
        BY <2>4, PayloadVersion DEF Superseded, TypeOK
      <3>2. QED BY <1>4, <2>4, <3>1, AnswerType DEF Decide, TypeOK
    <2>5. CASE /\ pc' = [pc EXCEPT ![h] = "commit"]
               /\ UNCHANGED <<payload, seen, reply>>
      BY <1>4, <2>1, <2>5 DEF Decide, TypeOK
    <2>6. QED BY <1>4, <2>2, <2>3, <2>4, <2>5 DEF Decide
  <1>5. ASSUME NEW h \in Handlers, Commit(h) PROVE TypeOK'
    <2>1. payload[h] \in Payloads /\ payload[h].version \in Nat
      BY <1>5, PayloadVersion DEF Commit, TypeOK
    <2>2. payload[h] # NoConfig
      BY <2>1, PayloadVersion
    <2>3. QED BY <1>5, <2>1, <2>2, AnswerType DEF Commit, StoreConfig, TypeOK
  <1>6. ASSUME NEW h \in Handlers, Fail(h) PROVE TypeOK'
    BY <1>6, AnswerType DEF Fail, TypeOK
  <1>7. ASSUME NEW a \in Admins, RollbackRead(a) PROVE TypeOK'
    BY <1>7 DEF RollbackRead, TypeOK
  <1>8. ASSUME NEW a \in Admins, RollbackSwap(a) PROVE TypeOK'
    BY <1>8 DEF RollbackSwap, TypeOK
  <1>8a. ASSUME NEW a \in Admins, RollbackFail(a) PROVE TypeOK'
    BY <1>8a DEF RollbackFail, TypeOK
  <1>9. ASSUME NEW p \in Payloads, GrowOld(p) PROVE TypeOK'
    BY <1>9 DEF GrowOld, TypeOK, Ages
  <1>10. CASE Restart
    BY <1>10 DEF Restart, TypeOK, NoReply, Replies
  <1>11. CASE UNCHANGED vars
    BY <1>11 DEF vars, TypeOK
  <1>12. QED
    BY <1>1, <1>2, <1>3, <1>4, <1>5, <1>6, <1>7, <1>8, <1>8a, <1>9, <1>10,
       <1>11 DEF Next, Handle, Rollback

\* Type correctness of the receive route and of the rollback: the row always
\* holds a payload that was sent, a handler in progress always has one, and
\* no row ever has a previous configuration without a current one.
THEOREM TypeCorrect == Spec => []TypeOK
  <1>1. QED BY InitTypeOK, NextTypeOK, PTL DEF Spec

-----------------------------------------------------------------------------
(* Requests *)

\* What ties a handler's locals to the row: the row it decided on and the row
\* of the moment were both in force during its run; a decision to commit is
\* the decision that nothing as new was there; an answer is borne out by what
\* was in force; an expired payload stays expired.
HandlerInv(h) ==
    /\ pc[h] # "idle" => current \in held[h]
    /\ pc[h] \in {"decide", "commit"} => seen[h] \in held[h]
    /\ pc[h] = "commit" /\ seen[h] # NoConfig =>
          payload[h].version > seen[h].version
    /\ reply[h].status = "applied" =>
          \E c \in held[h] : c # NoConfig /\ c.version = reply[h].version
    /\ pc[h] # "idle" /\ h \in late => age[payload[h]] = "expired"
    /\ pc[h] = "commit" => h \notin late
    /\ pc[h] # "idle" => reply[h] = NoReply

\* And what ties the row to its past: whatever a rollback may bring back had
\* been in force.
RowInv ==
    /\ previous # NoConfig => previous \in retired
    /\ \A a \in Admins : adminPc[a] = "swap" => restored[a] \in retired
    /\ current = NoConfig => retired = {}
    /\ NoConfig \notin retired

\* The inductive invariant.
IInv == HTypeOK /\ RowInv /\ \A h \in Handlers : HandlerInv(h)

\* It holds at first ...
LEMMA HInitIInv == HInit => IInv
  <1> SUFFICES ASSUME HInit PROVE IInv
    OBVIOUS
  <1>1. TypeOK
    BY InitTypeOK DEF HInit
  <1>2. HTypeOK
    BY <1>1 DEF HInit, HTypeOK
  <1>3. RowInv
    BY DEF HInit, Init, RowInv
  <1>4. ASSUME NEW h \in Handlers PROVE HandlerInv(h)
    BY <1>4 DEF HInit, Init, HandlerInv, NoReply
  <1>5. QED BY <1>2, <1>3, <1>4 DEF IInv

\* The history variables keep their types.
LEMMA HNextTypeOK == HTypeOK /\ [HNext]_hvars => HTypeOK'
  <1> SUFFICES ASSUME HTypeOK, [HNext]_hvars PROVE HTypeOK'
    OBVIOUS
  <1>1. TypeOK'
    BY NextTypeOK DEF HTypeOK, HNext, hvars
  <1>2. CASE Remember
    BY <1>1, <1>2, NoConfigAssumption DEF HTypeOK, TypeOK, Remember
  <1>3. CASE UNCHANGED hvars
    BY <1>1, <1>3 DEF HTypeOK, hvars
  <1>4. QED BY <1>2, <1>3 DEF HNext

\* What Remember does to the history of one handler.
LEMMA HeldStep ==
  ASSUME HTypeOK, Remember, NEW h \in Handlers
  PROVE  /\ pc[h] # "idle" =>
               /\ held'[h] = held[h] \cup {current'}
               /\ h \in late' <=> h \in late
         /\ pc[h] = "idle" /\ pc'[h] = "read" =>
               /\ held'[h] = {current}
               /\ h \in late' <=> age[payload'[h]] = "expired"
         /\ pc[h] = "idle" /\ pc'[h] # "read" =>
               held'[h] = held[h] /\ (h \in late' <=> h \in late)
  BY DEF HTypeOK, Remember, Arriving

\* A step of somebody else keeps a handler's invariant.
LEMMA OthersKeepHandlerInv ==
  ASSUME IInv, Remember, NEW h \in Handlers,
         pc'[h] = pc[h], payload'[h] = payload[h], seen'[h] = seen[h],
         reply'[h] = reply[h],
         \A p \in Payloads : age[p] = "expired" => age'[p] = "expired"
  PROVE  HandlerInv(h)'
  <1>1. HTypeOK /\ TypeOK /\ HandlerInv(h)
    BY DEF IInv, HTypeOK
  <1>2. CASE pc[h] = "idle"
    BY <1>1, <1>2, HeldStep DEF HandlerInv
  <1>3. CASE pc[h] # "idle"
    <2>1. held'[h] = held[h] \cup {current'} /\ (h \in late' <=> h \in late)
      BY <1>1, <1>3, HeldStep
    <2>2. payload[h] \in Payloads
      BY <1>1, <1>3 DEF TypeOK
    <2>3. QED BY <1>1, <1>3, <2>1, <2>2 DEF HandlerInv
  <1>4. QED BY <1>2, <1>3

\* A step of one handler leaves the others' locals alone, and ages nothing.
Frame(h) ==
    /\ \A g \in Handlers \ {h} :
          /\ pc'[g] = pc[g] /\ payload'[g] = payload[g]
          /\ seen'[g] = seen[g] /\ reply'[g] = reply[g]
    /\ age' = age

\* (the frame of a handler's step, action by action)
LEMMA HandlerFrame ==
  ASSUME TypeOK, NEW h \in Handlers,
         \/ \E p \in Payloads : Arrive(h, p)
         \/ Reject(h) \/ Handle(h) \/ Fail(h)
  PROVE  Frame(h)
  BY DEF TypeOK, Arrive, Reject, Handle, Read, Decide, Commit, Fail, Answer,
         Frame, pushVars, rowVars

\* A handler's own step keeps its invariant.
LEMMA OwnStepKeepsHandlerInv ==
  ASSUME IInv, Remember, NEW h \in Handlers,
         \/ \E p \in Payloads : Arrive(h, p)
         \/ Reject(h) \/ Handle(h) \/ Fail(h)
  PROVE  HandlerInv(h)'
  <1>1. HTypeOK /\ TypeOK /\ HandlerInv(h)
    BY DEF IInv, HTypeOK
  <1> USE DEF rowVars, pushVars, adminVars
  <1>2. ASSUME NEW p \in Payloads, Arrive(h, p) PROVE HandlerInv(h)'
    <2>1. /\ pc[h] = "idle" /\ pc'[h] = "read" /\ current' = current
          /\ payload'[h] = p /\ reply'[h] = NoReply /\ age' = age
      BY <1>1, <1>2 DEF Arrive, TypeOK
    <2>2. held'[h] = {current} /\ (h \in late' <=> age[p] = "expired")
      BY <1>1, <2>1, HeldStep
    <2>3. QED BY <2>1, <2>2 DEF HandlerInv, NoReply
  <1>3. CASE Reject(h)
    <2>1. pc[h] = "idle" /\ pc'[h] = "idle" /\ reply'[h].status = "rejected"
      BY <1>1, <1>3 DEF Reject, Answer, TypeOK
    <2>2. QED BY <2>1 DEF HandlerInv
  <1>4. CASE Fail(h)
    <2>1. pc[h] # "idle" /\ pc'[h] = "idle" /\ reply'[h].status = "error"
      BY <1>1, <1>4 DEF Fail, Answer, TypeOK
    <2>2. QED BY <2>1 DEF HandlerInv
  <1>5. CASE Read(h)
    <2>1. /\ pc[h] = "read" /\ pc'[h] = "decide" /\ seen'[h] = current
          /\ current' = current /\ payload'[h] = payload[h]
          /\ reply'[h] = reply[h] /\ age' = age
      BY <1>1, <1>5 DEF Read, TypeOK
    <2>2. held'[h] = held[h] \cup {current} /\ (h \in late' <=> h \in late)
      BY <1>1, <2>1, HeldStep
    <2>3. QED BY <1>1, <2>1, <2>2 DEF HandlerInv
  <1>6. CASE Decide(h)
    <2>1. pc[h] = "decide" /\ current' = current /\ age' = age
      BY <1>6 DEF Decide
    <2>2. held'[h] = held[h] \cup {current} /\ (h \in late' <=> h \in late)
      BY <1>1, <2>1, HeldStep
    <2>3. CASE SameVersion(h) /\ Answer(h, "applied", payload[h].version)
      <3>1. /\ pc'[h] = "idle" /\ reply'[h].version = payload[h].version
            /\ seen[h] # NoConfig /\ seen[h].version = payload[h].version
        BY <1>1, <2>3 DEF SameVersion, Answer, TypeOK
      <3>2. seen[h] \in held'[h]
        BY <1>1, <2>1, <2>2 DEF HandlerInv
      <3>3. QED BY <3>1, <3>2 DEF HandlerInv
    <2>4. CASE Answer(h, "stale", 0) \/ Answer(h, "ignored", seen[h].version)
      <3>1. pc'[h] = "idle" /\ reply'[h].status # "applied"
        BY <1>1, <2>4 DEF Answer, TypeOK
      <3>2. QED BY <3>1 DEF HandlerInv
    <2>5. CASE /\ Fresh(payload[h]) /\ ~Superseded(h)
               /\ pc' = [pc EXCEPT ![h] = "commit"]
               /\ UNCHANGED <<payload, seen, reply>>
      <3>1. seen[h] # NoConfig => payload[h].version > seen[h].version
        <4>1. payload[h].version \in Nat
          BY <1>1, <2>1, PayloadVersion DEF TypeOK
        <4>2. seen[h] # NoConfig => seen[h].version \in Nat
          BY <1>1, PayloadVersion DEF TypeOK
        <4>3. QED BY <2>5, <4>1, <4>2 DEF Superseded
      <3>2. h \notin late
        BY <1>1, <2>1, <2>5 DEF HandlerInv, Fresh
      <3>3. pc'[h] = "commit"
        BY <1>1, <2>5 DEF TypeOK
      <3>4. QED BY <1>1, <2>1, <2>2, <2>5, <3>1, <3>2, <3>3 DEF HandlerInv
    <2>6. QED BY <1>6, <2>3, <2>4, <2>5 DEF Decide
  <1>7. CASE Commit(h)
    <2>1. /\ pc[h] = "commit" /\ pc'[h] = "idle" /\ current' = payload[h]
          /\ reply'[h].version = payload[h].version
      BY <1>1, <1>7 DEF Commit, StoreConfig, Answer, TypeOK
    <2>2. current' \in held'[h]
      BY <1>1, <2>1, HeldStep
    <2>3. payload[h] # NoConfig
      BY <1>1, <2>1, PayloadVersion DEF TypeOK
    <2>4. QED BY <2>1, <2>2, <2>3 DEF HandlerInv
  <1>8. QED BY <1>2, <1>3, <1>4, <1>5, <1>6, <1>7 DEF Handle

\* Rows are only replaced by payloads, or by what had been in force.
LEMMA NextKeepsRowInv ==
  ASSUME IInv, Next, Remember
  PROVE  RowInv'
  <1>1. HTypeOK /\ TypeOK /\ RowInv
    BY DEF IInv, HTypeOK
  <1> USE DEF rowVars, pushVars, adminVars
  <1>2. retired \subseteq retired' /\ NoConfig \notin retired'
    BY <1>1 DEF Remember, RowInv
  <1>3. ASSUME NEW h \in Handlers, Commit(h) PROVE RowInv'
    <2>1. current' = payload[h] /\ previous' = current /\ adminVars' = adminVars
      BY <1>3 DEF Commit, StoreConfig
    <2>2. payload[h] # NoConfig
      BY <1>1, <1>3, PayloadVersion DEF Commit, TypeOK
    <2>3. previous' # NoConfig => previous' \in retired'
      <3>1. CASE rowVars' = rowVars
        BY <1>1, <1>2, <2>1, <3>1 DEF RowInv
      <3>2. CASE rowVars' # rowVars
        BY <2>1, <3>2 DEF Remember
      <3>3. QED BY <3>1, <3>2
    <2>4. QED BY <1>1, <1>2, <2>1, <2>2, <2>3 DEF RowInv
  <1>4. ASSUME NEW a \in Admins, RollbackSwap(a) PROVE RowInv'
    <2>1. /\ current' = restored[a] /\ previous' = NoConfig
          /\ restored[a] \in Payloads
      BY <1>1, <1>4 DEF RollbackSwap, TypeOK
    <2>2. current' # NoConfig
      BY <2>1, PayloadVersion
    <2>3. \A b \in Admins : adminPc'[b] = "swap" =>
             adminPc[b] = "swap" /\ restored'[b] = restored[b]
      BY <1>1, <1>4 DEF RollbackSwap, TypeOK
    <2>4. QED BY <1>1, <1>2, <2>1, <2>2, <2>3 DEF RowInv
  <1>5. ASSUME NEW a \in Admins, RollbackRead(a) PROVE RowInv'
    <2>1. rowVars' = rowVars /\ previous # NoConfig
      BY <1>5 DEF RollbackRead
    <2>2. \A b \in Admins : adminPc'[b] = "swap" =>
             \/ restored'[b] = previous
             \/ adminPc[b] = "swap" /\ restored'[b] = restored[b]
      BY <1>1, <1>5 DEF RollbackRead, TypeOK
    <2>3. retired' = retired
      BY <2>1 DEF Remember
    <2>4. QED BY <1>1, <2>1, <2>2, <2>3 DEF RowInv
  <1>5a. ASSUME NEW a \in Admins, RollbackFail(a) PROVE RowInv'
    <2>1. rowVars' = rowVars
      BY <1>5a DEF RollbackFail
    <2>2. \A b \in Admins : adminPc'[b] = "swap" =>
             adminPc[b] = "swap" /\ restored'[b] = restored[b]
      BY <1>1, <1>5a DEF RollbackFail, TypeOK
    <2>3. retired' = retired
      BY <2>1 DEF Remember
    <2>4. QED BY <1>1, <2>1, <2>2, <2>3 DEF RowInv
  <1>6. ASSUME rowVars' = rowVars, adminVars' = adminVars PROVE RowInv'
    BY <1>1, <1>6 DEF RowInv, Remember
  <1>7. CASE Restart
    <2>1. rowVars' = rowVars /\ \A a \in Admins : adminPc'[a] = "idle"
      BY <1>7 DEF Restart
    <2>2. QED BY <1>1, <2>1 DEF RowInv, Remember
  <1>8. ASSUME NEW h \in Handlers,
               \/ \E p \in Payloads : Arrive(h, p)
               \/ Reject(h) \/ Read(h) \/ Decide(h) \/ Fail(h)
        PROVE  rowVars' = rowVars /\ adminVars' = adminVars
    BY <1>8 DEF Arrive, Reject, Read, Decide, Fail
  <1>9. ASSUME NEW p \in Payloads, GrowOld(p)
        PROVE  rowVars' = rowVars /\ adminVars' = adminVars
    BY <1>9 DEF GrowOld
  <1>10. QED
    BY <1>3, <1>4, <1>5, <1>5a, <1>6, <1>7, <1>8, <1>9
       DEF Next, Handle, Rollback

\* ... every step keeps it ...
LEMMA HNextIInv == IInv /\ [HNext]_hvars => IInv'
  <1> SUFFICES ASSUME IInv, [HNext]_hvars PROVE IInv'
    OBVIOUS
  <1>1. HTypeOK' /\ HTypeOK /\ TypeOK
    BY HNextTypeOK DEF IInv, HTypeOK
  <1>2. CASE UNCHANGED hvars
    BY <1>1, <1>2 DEF IInv, RowInv, HandlerInv, hvars, vars, rowVars, pushVars,
                     adminVars
  <1>3. CASE HNext
    <2>1. Next /\ Remember
      BY <1>3 DEF HNext
    <2>2. RowInv'
      BY <2>1, NextKeepsRowInv
    <2>3. ASSUME NEW h \in Handlers PROVE HandlerInv(h)'
      <3>1. CASE \/ \E p \in Payloads : Arrive(h, p)
                 \/ Reject(h) \/ Handle(h) \/ Fail(h)
        BY <2>1, <3>1, OwnStepKeepsHandlerInv
      <3>2. CASE \E g \in Handlers \ {h} :
                    \/ \E p \in Payloads : Arrive(g, p)
                    \/ Reject(g) \/ Handle(g) \/ Fail(g)
        <4>1. PICK g \in Handlers \ {h} : Frame(g)
          BY <1>1, <3>2, HandlerFrame
        <4>2. QED BY <2>1, <4>1, OthersKeepHandlerInv DEF Frame
      <3>3. CASE \E a \in Admins : Rollback(a)
        BY <2>1, <3>3, OthersKeepHandlerInv
           DEF Rollback, RollbackRead, RollbackSwap, RollbackFail, pushVars
      <3>4. CASE \E p \in Payloads : GrowOld(p)
        <4>1. \A p \in Payloads : age[p] = "expired" => age'[p] = "expired"
          BY <1>1, <3>4 DEF GrowOld, TypeOK
        <4>2. QED
          BY <2>1, <3>4, <4>1, OthersKeepHandlerInv DEF GrowOld, pushVars
      <3>5. CASE Restart
        BY <3>5 DEF Restart, HandlerInv, NoReply
      <3>6. QED BY <2>1, <3>1, <3>2, <3>3, <3>4, <3>5 DEF Next
    <2>4. QED BY <1>1, <2>2, <2>3 DEF IInv
  <1>4. QED BY <1>2, <1>3

\* ... so it always holds.
LEMMA Invariance == HSpec => []IInv
  BY HInitIInv, HNextIInv, PTL DEF HSpec

-----------------------------------------------------------------------------
(* The properties *)

\* Type correctness with the history.
THEOREM HTypeCorrect == HSpec => []HTypeOK
  <1>1. IInv => HTypeOK
    BY DEF IInv
  <1>2. QED BY Invariance, <1>1, PTL

\* A version is only reported as applied if it was in force during the
\* request, however many requests and rollbacks run at the same time.
THEOREM AppliedHolds == HSpec => []AppliedWasInForce
  <1>1. IInv => AppliedWasInForce
    BY DEF IInv, HandlerInv, AppliedWasInForce
  <1>2. QED BY Invariance, <1>1, PTL

\* The replay defense holds for a request that arrives after its payload
\* expired, whatever else runs.
THEOREM ReplayDefense == HSpec => []ExpiredNeverCommits
  <1>1. IInv => ExpiredNeverCommits
    BY DEF IInv, HandlerInv, ExpiredNeverCommits
  <1>2. QED BY Invariance, <1>1, PTL

\* An undisturbed push only ever moves the version up.
THEOREM UndisturbedPushMovesUp == HSpec => DowngradeNeedsOverlap
  <1>1. ASSUME IInv, HNext, NEW h \in Handlers PROVE UndisturbedUp(h)
    <2> SUFFICES ASSUME pc[h] = "commit", reply'[h].status = "applied",
                        held[h] \subseteq {current}, current # NoConfig
                 PROVE  current'.version > current.version
      BY DEF UndisturbedUp
    <2>1. TypeOK /\ HandlerInv(h) /\ Next
      BY <1>1 DEF IInv, HTypeOK, HNext
    <2>2. reply[h].status # "applied"
      BY <2>1 DEF HandlerInv, NoReply
    <2>3. reply'[h] # reply[h]
      BY <2>2
    <2>4. Commit(h)
      <3>1. ~Restart
        BY DEF Restart, NoReply
      <3>2. \A p \in Payloads : ~GrowOld(p)
        BY <2>3 DEF GrowOld, pushVars
      <3>3. \A a \in Admins : ~Rollback(a)
        BY <2>3 DEF Rollback, RollbackRead, RollbackSwap, RollbackFail, pushVars
      <3>4. \A g \in Handlers \ {h} :
               ~(\/ \E p \in Payloads : Arrive(g, p)
                 \/ Reject(g) \/ Handle(g) \/ Fail(g))
        BY <2>1, <2>3, HandlerFrame DEF Frame
      <3>5. /\ \A p \in Payloads : ~Arrive(h, p)
            /\ ~Reject(h) /\ ~Read(h) /\ ~Decide(h)
        BY DEF Arrive, Reject, Read, Decide
      <3>6. ~Fail(h)
        BY <2>1 DEF Fail, Answer, TypeOK
      <3>7. QED BY <2>1, <3>1, <3>2, <3>3, <3>4, <3>5, <3>6 DEF Next, Handle
    <2>5. seen[h] = current
      BY <2>1 DEF HandlerInv
    <2>6. QED BY <2>1, <2>4, <2>5 DEF HandlerInv, Commit, StoreConfig
  <1>2. IInv /\ [HNext]_hvars => [\A h \in Handlers : UndisturbedUp(h)]_hvars
    BY <1>1
  <1>3. QED
    BY Invariance, <1>2, PTL DEF HSpec, DowngradeNeedsOverlap

-----------------------------------------------------------------------------
(* Refinement *)

\* The first state, and every step, of the receive and rollback routes are a
\* first state and a step (or a stutter) of the register CachedConfig.
THEOREM Implements == HSpec => ImplementsCachedConfig
  <1>1. HInit => Cache!Init
    BY DEF HInit, Init, Cache!Init
  <1>2. IInv /\ [HNext]_hvars => [Cache!Next]_Cache!vars
    <2> SUFFICES ASSUME IInv, [HNext]_hvars
                 PROVE  Cache!Next \/ UNCHANGED Cache!vars
      OBVIOUS
    <2>1. TypeOK /\ RowInv
      BY DEF IInv, HTypeOK
    <2>2. CASE UNCHANGED hvars
      BY <2>2 DEF hvars, vars, rowVars, Cache!vars
    <2>3. CASE HNext /\ rowVars' = rowVars
      BY <2>3 DEF HNext, Remember, rowVars, Cache!vars
    <2>4. CASE HNext /\ rowVars' # rowVars
      <3>1. retired' = retired \cup ({current} \ {NoConfig})
        BY <2>4 DEF HNext, Remember
      <3>2. ASSUME NEW h \in Handlers, Commit(h) PROVE Cache!Next
        <4>1. payload[h] \in Payloads
          BY <2>1, <3>2 DEF Commit, TypeOK
        <4>2. Cache!Store(payload[h])
          BY <3>1, <3>2 DEF Commit, StoreConfig, Cache!Store
        <4>3. QED BY <4>1, <4>2 DEF Cache!Next
      <3>3. ASSUME NEW a \in Admins, RollbackSwap(a) PROVE Cache!Next
        <4>1. restored[a] \in Payloads /\ restored[a] \in retired
          BY <2>1, <3>3 DEF RollbackSwap, TypeOK, RowInv
        <4>2. current # NoConfig
          BY <2>1, <4>1 DEF RowInv
        <4>3. Cache!Restore(restored[a])
          BY <3>1, <3>3, <4>1, <4>2 DEF RollbackSwap, Cache!Restore
        <4>4. QED BY <4>1, <4>3 DEF Cache!Next
      <3>4. \/ \E h \in Handlers : Commit(h)
            \/ \E a \in Admins : RollbackSwap(a)
        BY <2>4 DEF HNext, Next, Handle, Rollback, Arrive, Reject, Read, Decide,
                    Fail, RollbackRead, RollbackFail, GrowOld, Restart
      <3>5. QED BY <3>2, <3>3, <3>4
    <2>5. QED BY <2>2, <2>3, <2>4
  <1>3. QED
    BY Invariance, <1>1, <1>2, PTL DEF HSpec, Cache!Spec, ImplementsCachedConfig
=============================================================================
