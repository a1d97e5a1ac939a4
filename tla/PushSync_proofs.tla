--------------------------- MODULE PushSync_proofs ---------------------------
(***************************************************************************)
(* Proofs about PushSync, for any number of overlapping pushes, any number *)
(* of attempts and any delay or loss of their requests and answers: the    *)
(* composition behaves as each of its two parts allows, and what success   *)
(* tells the sender about the receiver.                                    *)
(***************************************************************************)
EXTENDS PushSync, SequenceTheorems, TLAPS

-----------------------------------------------------------------------------
(* The inductive invariant *)

\* The configurations on their way, and that of a row that is not there.
Known == {sent[q] : q \in Pushes} \cup {NoConfig}

\* A configuration with the version of push p was in force since p began.
Carried(p) ==
    \E c \in inForce[p] : c # NoConfig /\ c.version = sent[p].version

\* What the sender keeps of a push.
SenderInv(p) ==
    /\ state[p] \in {"new", "degraded", "waiting", "sleeping", "success",
                     "failed"}
    /\ sent[p] \in Sender!Payloads \cup {NoConfig}
    /\ state[p] = "new" <=> sent[p] = NoConfig
    /\ attempt[p] \in 0..MaxAttempts
    /\ attempt[p] = 0 <=> state[p] \in {"new", "degraded"}
    /\ state[p] = "sleeping" => attempt[p] < MaxAttempts

\* The request of an attempt that was not made is nowhere.
Unused(h) == h \notin net /\ pc[h] = "idle" /\ reply[h] = Receiver!NoReply

\* What a request is about: the payload of its push; while that push goes on,
\* what its handler read was in force since the push began, and an answer
\* "applied" is borne out by what was.
RequestInv(h) ==
    /\ h[2] > attempt[h[1]] => Unused(h)
    /\ pc[h] # "idle" => payload[h] = sent[h[1]]
    /\ seen[h] \in Known
    /\ state[h[1]] \in Sender!Running =>
          /\ pc[h] \in {"decide", "commit"} => seen[h] \in inForce[h[1]]
          /\ reply[h].status = "applied" => Carried(h[1])

\* What the history of a push holds.
PushInv(p) ==
    /\ inForce[p] \subseteq Known
    /\ state[p] \in Sender!Running => current \in inForce[p]
    /\ state[p] = "success" => Carried(p)

\* The inductive invariant.
SyncInv ==
    /\ TypeOK
    /\ current \in Known
    /\ \A p \in Pushes : SenderInv(p) /\ PushInv(p)
    /\ \A h \in Requests : RequestInv(h)

-----------------------------------------------------------------------------
(* Each part takes the steps of its own module *)

\* Nothing in the composition does to the sender what PanelPush does not.
LEMMA SenderStep == [Next]_vars => [Sender!Next]_senderVars
  <1> SUFFICES ASSUME [Next]_vars PROVE [Sender!Next]_senderVars
    OBVIOUS
  <1>1. ASSUME NEW p \in Pushes, Begin(p) PROVE Sender!Next
    BY <1>1 DEF Begin, Sender!Next
  <1>2. ASSUME NEW p \in Pushes, Refuse(p) PROVE Sender!Next
    BY <1>2 DEF Refuse, Sender!Next
  <1>3. ASSUME NEW p \in Pushes, Retry(p) PROVE Sender!Next
    BY <1>3 DEF Retry, Sender!Next
  <1>4. ASSUME NEW p \in Pushes, Answered(p) \/ TimedOut(p)
        PROVE  Sender!Next
    <2>1. \/ Sender!Succeed(p)
          \/ \E transient \in BOOLEAN : Sender!AttemptFails(p, transient)
      BY <1>4 DEF Answered, TimedOut
    <2>2. QED BY <2>1 DEF Sender!Next
  <1>5. ASSUME NEW h \in Requests, Deliver(h) \/ Handle(h)
        PROVE  UNCHANGED senderVars
    BY <1>5 DEF Deliver, Handle
  <1>6. CASE Time
    BY <1>6 DEF Time, Sender!Next
  <1>7. CASE ReceiverRestart
    BY <1>7 DEF ReceiverRestart
  <1>8. CASE UNCHANGED vars
    BY <1>8 DEF vars
  <1>9. QED
    BY <1>1, <1>2, <1>3, <1>4, <1>5, <1>6, <1>7, <1>8 DEF Next

\* Nor to the receiver what ConfigReceive does not: what is delivered is a
\* payload, since a request exists only for a push that has one.
LEMMA ReceiverStep == SyncInv /\ [Next]_vars => [Receiver!Next]_receiverVars
  <1> SUFFICES ASSUME SyncInv, [Next]_vars
               PROVE  [Receiver!Next]_receiverVars
    OBVIOUS
  <1>1. ASSUME NEW p \in Pushes,
               Begin(p) \/ Refuse(p) \/ Retry(p) \/ Answered(p) \/ TimedOut(p)
        PROVE  UNCHANGED receiverVars
    BY <1>1 DEF Begin, Refuse, Retry, Answered, TimedOut
  <1>2. ASSUME NEW h \in Requests, Deliver(h) PROVE Receiver!Next
    <2>1. h \in net /\ RequestInv(h) /\ h[1] \in Pushes /\ h[2] \in Nat \ {0}
      BY <1>2 DEF SyncInv, Deliver, Requests
    <2>2. attempt[h[1]] # 0
      BY <2>1 DEF RequestInv, Unused
    <2>3. sent[h[1]] \in Sender!Payloads
      BY <2>1, <2>2 DEF SyncInv, SenderInv
    <2>4. Receiver!Arrive(h, sent[h[1]]) \/ Receiver!Reject(h)
      BY <1>2 DEF Deliver
    <2>5. QED BY <2>3, <2>4 DEF Receiver!Next
  <1>3. ASSUME NEW h \in Requests, Handle(h) PROVE Receiver!Next
    BY <1>3 DEF Handle, Receiver!Next
  <1>4. CASE Time
    <2>1. ASSUME NEW p \in {sent[q] : q \in Pushes} \ {NoConfig},
                 Receiver!GrowOld(p)
          PROVE  Receiver!Next
      <3>1. p \in Sender!Payloads
        BY DEF SyncInv, SenderInv
      <3>2. QED BY <2>1, <3>1 DEF Receiver!Next
    <2>2. QED BY <1>4, <2>1 DEF Time
  <1>5. CASE ReceiverRestart
    BY <1>5 DEF ReceiverRestart, Receiver!Next
  <1>6. CASE UNCHANGED vars
    BY <1>6 DEF vars
  <1>7. QED
    BY <1>1, <1>2, <1>3, <1>4, <1>5, <1>6 DEF Next

-----------------------------------------------------------------------------
(* Types *)

\* A step of the sender keeps its types.
LEMMA SenderTypes ==
  ASSUME Sender!TypeOK, [Sender!Next]_senderVars,
         \A p \in Pushes : state[p] = "sleeping" => attempt[p] < MaxAttempts
  PROVE  Sender!TypeOK'
  <1>a. /\ failures \in Seq(0 .. Window - 1) /\ Len(failures) \in Nat
        /\ \A i \in 1 .. Len(failures) : failures[i] \in 0 .. Window - 1
        /\ 0 \in 0 .. Window - 1 /\ 0 \in 0..MaxAttempts
        /\ 1 \in 0..MaxAttempts
    BY SyncAssumption DEF Sender!TypeOK
  <1> USE DEF Sender!Running, Sender!Ended
  <1>1. ASSUME NEW p \in Pushes, NEW keyed \in Sender!Batches,
               Sender!Refuse(p, keyed) \/ Sender!Begin(p, keyed)
        PROVE  Sender!TypeOK'
    <2>1. Sender!Payload(p, keyed) \in Sender!Payloads
      BY DEF Sender!Payload, Sender!Payloads, Sender!Versions
    <2>2. CASE Sender!Refuse(p, keyed)
      BY <1>a, <2>1, <2>2 DEF Sender!Refuse, Sender!TypeOK
    <2>3. CASE Sender!Begin(p, keyed)
      BY <1>a, <2>1, <2>3 DEF Sender!Begin, Sender!TypeOK
    <2>4. QED BY <1>1, <2>2, <2>3
  <1>2. ASSUME NEW p \in Pushes, Sender!Succeed(p) PROVE Sender!TypeOK'
    BY <1>2 DEF Sender!Succeed, Sender!TypeOK
  <1>3. ASSUME NEW p \in Pushes, NEW transient \in BOOLEAN,
               Sender!AttemptFails(p, transient)
        PROVE  Sender!TypeOK'
    <2>1. Append(failures, 0) \in Seq(0 .. Window - 1)
      BY <1>a
    <2>2. failures' = failures \/ failures' = Append(failures, 0)
      BY <1>3 DEF Sender!AttemptFails, Sender!RecordFailure
    <2>3. QED BY <1>3, <2>1, <2>2 DEF Sender!AttemptFails, Sender!TypeOK
  <1>4. ASSUME NEW p \in Pushes, Sender!Retry(p) PROVE Sender!TypeOK'
    <2>1. attempt[p] \in 0..MaxAttempts /\ attempt[p] < MaxAttempts
      BY <1>4 DEF Sender!Retry, Sender!TypeOK
    <2>2. attempt[p] + 1 \in 0..MaxAttempts
      BY <2>1, SyncAssumption
    <2>3. QED BY <1>4, <2>2 DEF Sender!Retry, Sender!TypeOK
  <1>5. CASE Sender!Tick
    <2>1. PICK n \in 0 .. Len(failures) :
             /\ \A i \in n + 1 .. Len(failures) : failures[i] < Window - 1
             /\ failures' =
                   [i \in 1 .. Len(failures) - n |-> failures[n + i] + 1]
      BY <1>5 DEF Sender!Tick
    <2>2. ASSUME NEW i \in 1 .. Len(failures) - n
          PROVE  failures[n + i] + 1 \in 0 .. Window - 1
      <3>1. n + i \in 1 .. Len(failures) /\ n + i \in n + 1 .. Len(failures)
        BY <1>a
      <3>2. failures[n + i] \in 0 .. Window - 1
            /\ failures[n + i] < Window - 1
        BY <1>a, <2>1, <3>1
      <3>3. QED BY <3>2, SyncAssumption
    <2>3. Len(failures) - n \in Nat
      BY <1>a
    <2>4. failures' \in [1 .. Len(failures) - n -> 0 .. Window - 1]
      BY <2>1, <2>2
    <2>5. failures' \in Seq(0 .. Window - 1)
      BY <2>3, <2>4, SeqDef
    <2>6. QED BY <1>5, <2>5 DEF Sender!Tick, Sender!TypeOK
  <1>6. CASE Sender!Restart
    BY <1>a, <1>6 DEF Sender!Restart, Sender!TypeOK
  <1>7. CASE UNCHANGED senderVars
    BY <1>7 DEF senderVars, Sender!TypeOK
  <1>8. QED
    BY <1>1, <1>2, <1>3, <1>4, <1>5, <1>6, <1>7 DEF Sender!Next

\* A payload is a record with a version.
LEMMA PayloadVersion ==
  ASSUME NEW p \in Sender!Payloads
  PROVE  p.version \in Nat /\ p # NoConfig
  BY SyncAssumption DEF Receiver!Configs

\* The function spaces of the receiver's locals, in an answer.
LEMMA AnswerTypes ==
  ASSUME Receiver!TypeOK, NEW h \in Requests, NEW v \in Nat,
         NEW s \in {"applied", "ignored", "stale", "rejected", "error"},
         Receiver!Answer(h, s, v)
  PROVE  /\ pc' \in [Requests -> {"idle", "read", "decide", "commit"}]
         /\ payload' \in [Requests -> Sender!Payloads \cup {NoConfig}]
         /\ \A g \in Requests :
               pc'[g] # "idle" => payload'[g] \in Sender!Payloads
         /\ seen' \in [Requests -> Sender!Payloads \cup {NoConfig}]
         /\ reply' \in [Requests -> Receiver!Replies]
  BY DEF Receiver!TypeOK, Receiver!Answer, Receiver!Replies

\* A step of the receiver keeps its types.
LEMMA ReceiverTypes ==
  Receiver!TypeOK /\ [Receiver!Next]_receiverVars => Receiver!TypeOK'
  <1> SUFFICES ASSUME Receiver!TypeOK, [Receiver!Next]_receiverVars
               PROVE  Receiver!TypeOK'
    OBVIOUS
  <1> USE DEF Receiver!rowVars, Receiver!pushVars, Receiver!adminVars
  <1>1. ASSUME NEW h \in Requests, NEW p \in Sender!Payloads,
               Receiver!Arrive(h, p)
        PROVE  Receiver!TypeOK'
    BY <1>1 DEF Receiver!Arrive, Receiver!TypeOK, Receiver!NoReply,
                Receiver!Replies
  <1>2. ASSUME NEW h \in Requests, Receiver!Reject(h) PROVE Receiver!TypeOK'
    BY <1>2, AnswerTypes DEF Receiver!Reject, Receiver!TypeOK
  <1>3. ASSUME NEW h \in Requests, Receiver!Read(h) PROVE Receiver!TypeOK'
    BY <1>3 DEF Receiver!Read, Receiver!TypeOK
  <1>4. ASSUME NEW h \in Requests, Receiver!Decide(h) PROVE Receiver!TypeOK'
    <2>1. payload[h] \in Sender!Payloads /\ payload[h].version \in Nat
      BY <1>4, PayloadVersion DEF Receiver!Decide, Receiver!TypeOK
    <2>2. CASE \E v \in Nat :
                 \E s \in {"applied", "ignored", "stale"} :
                    Receiver!Answer(h, s, v)
      BY <1>4, <2>2, AnswerTypes DEF Receiver!Decide, Receiver!TypeOK
    <2>3. CASE /\ pc' = [pc EXCEPT ![h] = "commit"]
               /\ UNCHANGED <<payload, seen, reply>>
      BY <1>4, <2>1, <2>3 DEF Receiver!Decide, Receiver!TypeOK
    <2>4. Receiver!Superseded(h) => seen[h].version \in Nat
      BY PayloadVersion DEF Receiver!Superseded, Receiver!TypeOK
    <2>5. QED BY <1>4, <2>1, <2>2, <2>3, <2>4 DEF Receiver!Decide
  <1>5. ASSUME NEW h \in Requests, Receiver!Commit(h) PROVE Receiver!TypeOK'
    <2>1. /\ payload[h] \in Sender!Payloads /\ payload[h].version \in Nat
          /\ payload[h] # NoConfig
      BY <1>5, PayloadVersion DEF Receiver!Commit, Receiver!TypeOK
    <2>2. QED BY <1>5, <2>1, AnswerTypes
              DEF Receiver!Commit, Receiver!StoreConfig, Receiver!TypeOK
  <1>6. ASSUME NEW h \in Requests, Receiver!Fail(h) PROVE Receiver!TypeOK'
    BY <1>6, AnswerTypes DEF Receiver!Fail, Receiver!TypeOK
  <1>7. ASSUME NEW p \in Sender!Payloads, Receiver!GrowOld(p)
        PROVE  Receiver!TypeOK'
    BY <1>7 DEF Receiver!GrowOld, Receiver!TypeOK, Receiver!Ages
  <1>8. CASE Receiver!Restart
    BY <1>8 DEF Receiver!Restart, Receiver!TypeOK, Receiver!NoReply,
                Receiver!Replies
  <1>9. CASE UNCHANGED receiverVars
    BY <1>9 DEF receiverVars, Receiver!TypeOK
  <1>10. QED
    BY <1>1, <1>2, <1>3, <1>4, <1>5, <1>6, <1>7, <1>8, <1>9
    DEF Receiver!Next, Receiver!Handle

\* And a step of the composition keeps those of the network and the history.
LEMMA NextTypes == SyncInv /\ [Next]_vars => TypeOK'
  <1> SUFFICES ASSUME SyncInv, [Next]_vars PROVE TypeOK'
    OBVIOUS
  <1>a. TypeOK /\ Sender!TypeOK /\ Receiver!TypeOK
    BY DEF SyncInv, TypeOK
  <1>1. Sender!TypeOK'
    <2>1. \A p \in Pushes : state[p] = "sleeping" => attempt[p] < MaxAttempts
      BY DEF SyncInv, SenderInv
    <2>2. QED BY <1>a, <2>1, SenderStep, SenderTypes
  <1>2. Receiver!TypeOK'
    BY <1>a, ReceiverStep, ReceiverTypes
  <1>3. current' \in Sender!Payloads \cup {NoConfig}
        /\ current \in Sender!Payloads \cup {NoConfig}
    BY <1>a, <1>2 DEF Receiver!TypeOK
  <1>4. net' \subseteq Requests
    <2>1. ASSUME NEW p \in Pushes, Begin(p) PROVE net' \subseteq Requests
      BY <1>a, <2>1, SyncAssumption DEF Begin, Requests, TypeOK
    <2>2. ASSUME NEW p \in Pushes, Retry(p) PROVE net' \subseteq Requests
      <3>1. /\ attempt[p] \in 0..MaxAttempts /\ attempt[p] < MaxAttempts
            /\ attempt'[p] = attempt[p] + 1
        BY <1>a, <2>2
        DEF SyncInv, SenderInv, Retry, Sender!Retry, Sender!TypeOK
      <3>2. attempt'[p] \in 1..MaxAttempts
        BY <3>1, SyncAssumption
      <3>3. QED BY <1>a, <2>2, <3>2 DEF Retry, Requests, TypeOK
    <2>3. ASSUME NEW h \in Requests, Deliver(h) PROVE net' \subseteq Requests
      BY <1>a, <2>3 DEF Deliver, TypeOK
    <2>4. QED BY <1>a, <2>1, <2>2, <2>3
              DEF Next, Refuse, Answered, TimedOut, Handle, Time,
                  ReceiverRestart, vars, TypeOK
  <1>5. inForce' \in [Pushes -> SUBSET (Sender!Payloads \cup {NoConfig})]
    <2>1. ASSUME NEW p \in Pushes, Begin(p)
          PROVE  inForce' \in
                    [Pushes -> SUBSET (Sender!Payloads \cup {NoConfig})]
      BY <1>a, <1>3, <2>1 DEF Begin, TypeOK
    <2>2. ASSUME NEW h \in Requests, Handle(h)
          PROVE  inForce' \in
                    [Pushes -> SUBSET (Sender!Payloads \cup {NoConfig})]
      BY <1>a, <1>3, <2>2 DEF Handle, Witness, TypeOK
    <2>3. QED BY <1>a, <2>1, <2>2
              DEF Next, Refuse, Retry, Deliver, Answered, TimedOut, Time,
                  ReceiverRestart, vars, TypeOK
  <1>6. QED BY <1>1, <1>2, <1>4, <1>5 DEF TypeOK

-----------------------------------------------------------------------------
(* What a step leaves alone *)

\* The configurations on their way are never changed, only added to.
SentKept == \A p \in Pushes : sent[p] = NoConfig \/ sent'[p] = sent[p]

\* So none is forgotten.
LEMMA KnownGrows ==
  ASSUME SentKept
  PROVE  \A c \in Known : c \in Known'
  BY DEF SentKept, Known

\* A push that a step leaves alone: it does not start, nor succeed, and its
\* history grows by no more than the row.
PushSame(p) ==
    /\ sent'[p] = sent[p]
    /\ inForce[p] \subseteq inForce'[p]
    /\ inForce'[p] \subseteq inForce[p] \cup {current'}
    /\ state'[p] \in Sender!Running =>
          state[p] \in Sender!Running /\ current' \in inForce'[p]
    /\ state'[p] = "success" => state[p] = "success"

\* Such a step keeps what the history holds.
LEMMA PushKept ==
  ASSUME NEW p \in Pushes, PushInv(p), PushSame(p),
         \A c \in Known : c \in Known', current' \in Known'
  PROVE  PushInv(p)'
  BY DEF PushInv, PushSame, Carried

\* A request that a step leaves alone: its handler does nothing, it is not
\* sent, its push does not start.
RequestSame(h) ==
    /\ pc'[h] = pc[h] /\ payload'[h] = payload[h]
    /\ seen'[h] = seen[h] /\ reply'[h] = reply[h]
    /\ sent'[h[1]] = sent[h[1]]
    /\ inForce[h[1]] \subseteq inForce'[h[1]]
    /\ h[2] > attempt'[h[1]] => h[2] > attempt[h[1]]
    /\ h \in net' => h \in net \/ ~ (h[2] > attempt'[h[1]])
    /\ state'[h[1]] \in Sender!Running => state[h[1]] \in Sender!Running

\* Such a step keeps what the request is about.
LEMMA RequestKept ==
  ASSUME NEW h \in Requests, RequestInv(h), RequestSame(h),
         \A c \in Known : c \in Known'
  PROVE  RequestInv(h)'
  <1>1. h[2] > attempt'[h[1]] => Unused(h)'
    BY DEF RequestInv, RequestSame, Unused
  <1>2. Carried(h[1]) => Carried(h[1])'
    BY DEF RequestSame, Carried
  <1>3. QED BY <1>1, <1>2 DEF RequestInv, RequestSame

\* The functions of the state, for the updates of the actions.
LEMMA Domains ==
  ASSUME TypeOK
  PROVE  /\ DOMAIN state = Pushes /\ DOMAIN sent = Pushes
         /\ DOMAIN attempt = Pushes /\ DOMAIN inForce = Pushes
         /\ DOMAIN pc = Requests /\ DOMAIN payload = Requests
         /\ DOMAIN seen = Requests /\ DOMAIN reply = Requests
  BY DEF TypeOK, Sender!TypeOK, Receiver!TypeOK

-----------------------------------------------------------------------------
(* The steps of the sender *)

\* What one call of the sender does to the push p, given its new state.
Others(p) ==
    \A q \in Pushes \ {p} :
        state'[q] = state[q] /\ sent'[q] = sent[q] /\ attempt'[q] = attempt[q]

\* A push starts, or is refused: it had no request and has at most the first.
LEMMA StartStep ==
  ASSUME SyncInv, NEW p \in Pushes, Begin(p) \/ Refuse(p)
  PROVE  SyncInv'
  <1>a. TypeOK /\ current \in Known /\ SenderInv(p) /\ PushInv(p)
        /\ TypeOK'
    <2>1. Next
      BY DEF Next
    <2>2. QED BY <2>1, NextTypes DEF SyncInv
  <1>b. state[p] = "new" /\ sent[p] = NoConfig /\ attempt[p] = 0
    BY <1>a DEF Begin, Refuse, SenderInv
  <1>1. UNCHANGED receiverVars
    BY DEF Begin, Refuse
  <1>2. PICK keyed \in Sender!Batches :
           /\ sent'[p] = Sender!Payload(p, keyed)
           /\ \/ /\ Begin(p) /\ state'[p] = "waiting" /\ attempt'[p] = 1
                 /\ inForce'[p] = {current} /\ net' = net \cup {<<p, 1>>}
              \/ /\ Refuse(p) /\ state'[p] = "degraded" /\ attempt'[p] = 0
                 /\ inForce' = inForce /\ net' = net
    BY <1>a, Domains DEF Begin, Refuse, Sender!Begin, Sender!Refuse
  <1>3. Others(p) /\ \A q \in Pushes \ {p} : inForce'[q] = inForce[q]
    BY <1>a, Domains DEF Begin, Refuse, Sender!Begin, Sender!Refuse, Others
  <1>4. sent'[p] \in Sender!Payloads /\ sent'[p] # NoConfig
    <2>1. Sender!Payload(p, keyed) \in Sender!Payloads
      BY DEF Sender!Payload, Sender!Payloads, Sender!Versions
    <2>2. QED BY <1>2, <2>1, PayloadVersion
  <1>5. \A c \in Known : c \in Known'
    <2>1. SentKept
      BY <1>b, <1>3 DEF SentKept, Others
    <2>2. QED BY <2>1, KnownGrows
  <1>6. current' = current /\ current' \in Known'
    BY <1>a, <1>1, <1>5 DEF receiverVars
  <1>7. ASSUME NEW q \in Pushes PROVE SenderInv(q)' /\ PushInv(q)'
    <2>1. SenderInv(q) /\ PushInv(q)
      BY DEF SyncInv
    <2>2. CASE q = p
      <3>1. SenderInv(q)'
        BY <1>2, <1>4, <2>2, SyncAssumption DEF SenderInv
      <3>2. PushInv(q)'
        BY <1>a, <1>2, <1>5, <1>6, <2>2 DEF PushInv, Sender!Running
      <3>3. QED BY <3>1, <3>2
    <2>3. CASE q # p
      <3>1. SenderInv(q)'
        BY <1>3, <2>1, <2>3 DEF Others, SenderInv
      <3>2. PushSame(q)
        BY <1>3, <1>6, <2>1, <2>3 DEF Others, PushSame, PushInv
      <3>3. QED BY <1>5, <1>6, <2>1, <3>1, <3>2, PushKept
    <2>4. QED BY <2>2, <2>3
  <1>8. ASSUME NEW h \in Requests PROVE RequestInv(h)'
    <2>1. RequestInv(h) /\ h[1] \in Pushes /\ h[2] \in Nat \ {0}
          /\ h = <<h[1], h[2]>>
      BY DEF SyncInv, Requests
    <2>2. /\ pc'[h] = pc[h] /\ payload'[h] = payload[h]
          /\ seen'[h] = seen[h] /\ reply'[h] = reply[h]
      BY <1>1 DEF receiverVars
    <2>3. CASE h[1] = p
      <3>1. Unused(h)
        BY <1>b, <2>1, <2>3 DEF RequestInv
      <3>2. h[2] > attempt'[p] => h \notin net'
        BY <1>2, <2>1, <2>3, <3>1 DEF Unused
      <3>3. seen'[h] \in Known'
        BY <1>5, <2>1, <2>2 DEF RequestInv
      <3>4. pc'[h] = "idle" /\ reply'[h].status = "none"
            /\ reply'[h] = Receiver!NoReply
        BY <2>2, <3>1 DEF Unused, Receiver!NoReply
      <3>5. QED BY <2>3, <3>2, <3>3, <3>4 DEF RequestInv, Unused
    <2>4. CASE h[1] # p
      <3>1. h \in net' => h \in net
        BY <1>2, <2>1, <2>4
      <3>2. RequestSame(h)
        BY <1>3, <2>1, <2>2, <2>4, <3>1 DEF RequestSame, Others
      <3>3. QED BY <1>5, <2>1, <3>2, RequestKept
    <2>5. QED BY <2>3, <2>4
  <1>9. QED BY <1>a, <1>6, <1>7, <1>8 DEF SyncInv

\* The next attempt of a push, an answer to the latest one, or its timeout:
\* success takes an answer "applied".
LEMMA GoOnStep ==
  ASSUME SyncInv, NEW p \in Pushes, Retry(p) \/ Answered(p) \/ TimedOut(p)
  PROVE  SyncInv'
  <1>a. TypeOK /\ current \in Known /\ SenderInv(p) /\ PushInv(p)
        /\ TypeOK'
    <2>1. Next
      BY DEF Next
    <2>2. QED BY <2>1, NextTypes DEF SyncInv
  <1>1. UNCHANGED <<receiverVars, inForce>> /\ current' = current
    BY DEF Retry, Answered, TimedOut, receiverVars
  <1>2. state[p] \in Sender!Running /\ sent' = sent /\ Others(p)
    BY <1>a, Domains
    DEF Retry, Answered, TimedOut, Sender!Retry, Sender!Succeed,
        Sender!AttemptFails, Others, Sender!Running
  <1>3. \/ /\ state'[p] = "waiting" /\ state[p] = "sleeping"
           /\ attempt'[p] = attempt[p] + 1
           /\ net' = net \cup {<<p, attempt'[p]>>}
        \/ /\ state'[p] = "success" /\ state[p] = "waiting"
           /\ LatestReply(p) = "applied"
           /\ attempt'[p] = attempt[p] /\ net' = net
        \/ /\ state[p] = "waiting" /\ attempt'[p] = attempt[p] /\ net' = net
           /\ \/ state'[p] = "sleeping" /\ attempt[p] < MaxAttempts
              \/ state'[p] = "failed"
    BY <1>a, Domains
    DEF Retry, Answered, TimedOut, Sender!Retry, Sender!Succeed,
        Sender!AttemptFails
  <1>4. state'[p] = "success" => Carried(p)
    <2>1. SUFFICES ASSUME state'[p] = "success" PROVE Carried(p)
      OBVIOUS
    <2>2. state[p] = "waiting" /\ LatestReply(p) = "applied"
      BY <1>3, <2>1
    <2>3. attempt[p] \in 1..MaxAttempts
      BY <1>a, <2>2, SyncAssumption DEF SenderInv
    <2>4. <<p, attempt[p]>> \in Requests
      BY <2>3 DEF Requests
    <2>5. RequestInv(<<p, attempt[p]>>)
      BY <2>4 DEF SyncInv
    <2>6. QED BY <2>2, <2>5 DEF RequestInv, LatestReply, Sender!Running
  <1>5. \A c \in Known : c \in Known'
    BY <1>2 DEF Known
  <1>6. ASSUME NEW q \in Pushes PROVE SenderInv(q)' /\ PushInv(q)'
    <2>1. SenderInv(q) /\ PushInv(q)
      BY DEF SyncInv
    <2>2. CASE q = p
      <3>1. attempt[p] \in 0..MaxAttempts
        BY <1>a DEF SenderInv
      <3>2. SenderInv(q)'
        BY <1>a, <1>2, <1>3, <2>2, <3>1, SyncAssumption DEF SenderInv
      <3>3. inForce'[q] = inForce[q] /\ sent'[q] = sent[q]
        BY <1>1, <1>2
      <3>4. PushInv(q)'
        <4>1. inForce'[q] \subseteq Known'
          BY <1>5, <2>1, <3>3 DEF PushInv
        <4>2. current' \in inForce'[q]
          BY <1>1, <1>2, <2>1, <2>2, <3>3 DEF PushInv
        <4>3. state'[q] = "success" => Carried(q)'
          BY <1>4, <2>2, <3>3 DEF Carried
        <4>4. QED BY <4>1, <4>2, <4>3 DEF PushInv
      <3>5. QED BY <3>2, <3>4
    <2>3. CASE q # p
      <3>1. SenderInv(q)'
        BY <1>2, <2>1, <2>3 DEF Others, SenderInv
      <3>2. PushSame(q)
        BY <1>1, <1>2, <2>1, <2>3 DEF Others, PushSame, PushInv
      <3>3. QED BY <1>a, <1>1, <1>5, <2>1, <3>1, <3>2, PushKept
    <2>4. QED BY <2>2, <2>3
  <1>7. ASSUME NEW h \in Requests PROVE RequestInv(h)'
    <2>1. RequestInv(h) /\ h[1] \in Pushes /\ h[2] \in Nat \ {0}
          /\ h = <<h[1], h[2]>> /\ attempt[p] \in Nat
      BY <1>a, SyncAssumption DEF SyncInv, Requests, SenderInv
    <2>2. /\ pc'[h] = pc[h] /\ payload'[h] = payload[h]
          /\ seen'[h] = seen[h] /\ reply'[h] = reply[h]
          /\ inForce'[h[1]] = inForce[h[1]] /\ sent'[h[1]] = sent[h[1]]
      BY <1>1, <1>2 DEF receiverVars
    <2>3. h[2] > attempt'[h[1]] => h[2] > attempt[h[1]]
      BY <1>2, <1>3, <2>1 DEF Others
    <2>4. h \in net' => h \in net \/ ~ (h[2] > attempt'[h[1]])
      BY <1>3, <2>1
    <2>5. state'[h[1]] \in Sender!Running => state[h[1]] \in Sender!Running
      BY <1>2, <2>1 DEF Others
    <2>6. RequestSame(h)
      BY <2>2, <2>3, <2>4, <2>5 DEF RequestSame
    <2>7. QED BY <1>5, <2>1, <2>6, RequestKept
  <1>8. QED BY <1>a, <1>1, <1>5, <1>6, <1>7 DEF SyncInv

-----------------------------------------------------------------------------
(* The steps of the receiver *)

\* What a step of the handler of one request leaves of the others.
OtherHandlers(h) ==
    \A g \in Requests \ {h} :
        /\ pc'[g] = pc[g] /\ payload'[g] = payload[g]
        /\ seen'[g] = seen[g] /\ reply'[g] = reply[g]

\* The history grows by the row of every push that goes on.
HistoryGrows ==
    \A q \in Pushes :
        inForce'[q] = IF state[q] \in Sender!Running
                      THEN inForce[q] \cup {current'} ELSE inForce[q]

\* A step of one handler keeps the invariant if it keeps that of its own
\* request and puts a known configuration in force.
LEMMA HandlerStep ==
  ASSUME SyncInv, TypeOK', UNCHANGED senderVars, NEW h \in Requests,
         OtherHandlers(h), HistoryGrows, net' \subseteq net,
         current' \in Known', RequestInv(h)'
  PROVE  SyncInv'
  <1>1. /\ state' = state /\ sent' = sent /\ attempt' = attempt
        /\ \A c \in Known : c \in Known'
    BY DEF senderVars, Known
  <1>2. ASSUME NEW q \in Pushes PROVE SenderInv(q)' /\ PushInv(q)'
    <2>1. SenderInv(q) /\ PushInv(q)
      BY DEF SyncInv
    <2>2. SenderInv(q)'
      BY <1>1, <2>1 DEF SenderInv
    <2>3. PushSame(q)
      BY <1>1 DEF PushSame, HistoryGrows
    <2>4. QED BY <1>1, <2>1, <2>2, <2>3, PushKept
  <1>3. ASSUME NEW g \in Requests PROVE RequestInv(g)'
    <2>1. CASE g = h
      BY <2>1
    <2>2. CASE g # h
      <3>1. RequestInv(g) /\ g[1] \in Pushes
        BY DEF SyncInv, Requests
      <3>2. RequestSame(g)
        BY <1>1, <2>2, <3>1 DEF RequestSame, OtherHandlers, HistoryGrows
      <3>3. QED BY <1>1, <3>1, <3>2, RequestKept
    <2>3. QED BY <2>1, <2>2
  <1>4. QED BY <1>2, <1>3 DEF SyncInv

\* What an answer leaves in the locals of its handler, and of the others.
LEMMA AnswerStep ==
  ASSUME TypeOK, NEW h \in Requests, NEW s, NEW v, Receiver!Answer(h, s, v)
  PROVE  /\ OtherHandlers(h)
         /\ pc'[h] = "idle" /\ payload'[h] = NoConfig
         /\ seen'[h] = NoConfig /\ reply'[h].status = s
  BY Domains DEF Receiver!Answer, OtherHandlers

\* The handler of a request that was made.
LEMMA HandlerOfPush ==
  ASSUME SyncInv, NEW h \in Requests, h \in net \/ pc[h] # "idle"
  PROVE  /\ RequestInv(h) /\ h[1] \in Pushes
         /\ ~ (h[2] > attempt[h[1]])
         /\ sent[h[1]] # NoConfig
         /\ sent[h[1]] \in Known
  <1>1. RequestInv(h) /\ h[1] \in Pushes /\ h[2] \in Nat \ {0}
    BY DEF SyncInv, Requests
  <1>2. ~ (h[2] > attempt[h[1]])
    BY <1>1 DEF RequestInv, Unused
  <1>3. SenderInv(h[1])
    BY <1>1 DEF SyncInv
  <1>4. attempt[h[1]] # 0
    BY <1>1, <1>2
  <1>5. QED BY <1>1, <1>2, <1>3, <1>4 DEF SenderInv, Known

\* A step of one handler that leaves the row alone.
LEMMA DeliveredStep ==
  ASSUME SyncInv, TypeOK', UNCHANGED <<senderVars, inForce>>,
         NEW h \in Requests, OtherHandlers(h), net' \subseteq net,
         current' = current, RequestInv(h)'
  PROVE  SyncInv'
  <1>1. HistoryGrows
    <2>1. \A q \in Pushes :
             state[q] \in Sender!Running => current \in inForce[q]
      BY DEF SyncInv, PushInv
    <2>2. QED BY <2>1 DEF HistoryGrows
  <1>2. current' \in Known'
    BY DEF SyncInv, senderVars, Known
  <1>3. QED BY <1>1, <1>2, HandlerStep

\* A request arrives, and is admitted with the payload of its push, or not.
LEMMA DeliverStep ==
  ASSUME SyncInv, NEW h \in Requests, Deliver(h)
  PROVE  SyncInv'
  <1>a. TypeOK /\ TypeOK'
    <2>1. Next
      BY DEF Next
    <2>2. QED BY <2>1, NextTypes DEF SyncInv
  <1>b. /\ h \in net /\ net' = net \ {h}
        /\ UNCHANGED <<senderVars, inForce>>
        /\ sent' = sent /\ attempt' = attempt /\ state' = state
    BY DEF Deliver, senderVars
  <1>c. RequestInv(h) /\ ~ (h[2] > attempt[h[1]])
    BY <1>b, HandlerOfPush
  <1>d. \A c \in Known : c \in Known'
    BY <1>b DEF Known
  <1>e. NoConfig \in Known'
    BY DEF Known
  <1>f. ~ (h[2] > attempt'[h[1]])
    BY <1>b, <1>c
  <1>1. CASE Receiver!Arrive(h, sent[h[1]])
    <2>1. /\ OtherHandlers(h) /\ current' = current
          /\ pc'[h] = "read" /\ payload'[h] = sent[h[1]]
          /\ seen'[h] = seen[h] /\ reply'[h].status = "none"
      BY <1>a, <1>1, Domains
      DEF Receiver!Arrive, Receiver!rowVars, Receiver!NoReply, OtherHandlers
    <2>2. RequestInv(h)'
      BY <1>b, <1>c, <1>d, <1>f, <2>1 DEF RequestInv
    <2>3. QED BY <1>a, <1>b, <1>d, <2>1, <2>2, DeliveredStep
  <1>2. CASE Receiver!Reject(h)
    <2>1. Receiver!Answer(h, "rejected", 0) /\ current' = current
      BY <1>2 DEF Receiver!Reject, Receiver!rowVars
    <2>2. /\ OtherHandlers(h) /\ pc'[h] = "idle"
          /\ seen'[h] = NoConfig /\ reply'[h].status = "rejected"
      BY <1>a, <2>1, AnswerStep
    <2>3. RequestInv(h)'
      BY <1>e, <1>f, <2>2 DEF RequestInv
    <2>4. QED BY <1>a, <1>b, <1>d, <2>1, <2>2, <2>3, DeliveredStep
  <1>3. QED BY <1>1, <1>2 DEF Deliver

\* The handler reads, decides, commits or fails: what it decides on was in
\* force since its push began, and so is what it commits.
LEMMA HandleStep ==
  ASSUME SyncInv, NEW h \in Requests, Handle(h)
  PROVE  SyncInv'
  <1>a. TypeOK /\ TypeOK'
    <2>1. Next
      BY DEF Next
    <2>2. QED BY <2>1, NextTypes DEF SyncInv
  <1>b. /\ UNCHANGED <<senderVars, net>> /\ net' = net
        /\ sent' = sent /\ attempt' = attempt /\ state' = state
    BY DEF Handle, senderVars
  <1>c. HistoryGrows
    BY <1>a DEF Handle, Witness, HistoryGrows
  <1>d. pc[h] # "idle"
    BY DEF Handle, Receiver!Handle, Receiver!Read, Receiver!Decide,
           Receiver!Commit, Receiver!Fail
  <1>e. /\ RequestInv(h) /\ h[1] \in Pushes /\ ~ (h[2] > attempt[h[1]])
        /\ payload[h] = sent[h[1]] /\ sent[h[1]] # NoConfig
        /\ sent[h[1]] \in Known
    BY <1>d, HandlerOfPush DEF RequestInv
  <1>f. /\ ~ (h[2] > attempt'[h[1]])
        /\ \A c \in Known : c \in Known'
        /\ NoConfig \in Known' /\ current \in Known
        /\ Carried(h[1]) => Carried(h[1])'
    BY <1>b, <1>c, <1>e DEF Known, SyncInv, Carried, HistoryGrows
  <1>g. state[h[1]] \in Sender!Running =>
           /\ current \in inForce[h[1]]
           /\ inForce'[h[1]] = inForce[h[1]] \cup {current'}
    BY <1>c, <1>e DEF HistoryGrows, SyncInv, PushInv
  \* An answer is right if "applied" is borne out by the history.
  <1>h. ASSUME NEW s, NEW v, Receiver!Answer(h, s, v), current' \in Known',
               s = "applied" /\ state[h[1]] \in Sender!Running
                  => Carried(h[1])'
        PROVE  SyncInv'
    <2>1. /\ OtherHandlers(h) /\ pc'[h] = "idle"
          /\ seen'[h] = NoConfig /\ reply'[h].status = s
      BY <1>a, <1>h, AnswerStep
    <2>2. RequestInv(h)'
      BY <1>b, <1>f, <1>h, <2>1 DEF RequestInv
    <2>3. QED BY <1>a, <1>b, <1>c, <1>h, <2>1, <2>2, HandlerStep
  <1>1. CASE Receiver!Read(h)
    <2>1. /\ OtherHandlers(h) /\ current' = current
          /\ pc'[h] = "decide" /\ payload'[h] = payload[h]
          /\ seen'[h] = current /\ reply'[h] = reply[h]
      BY <1>a, <1>1, Domains
      DEF Receiver!Read, Receiver!rowVars, OtherHandlers
    <2>2. RequestInv(h)'
      BY <1>b, <1>e, <1>f, <1>g, <2>1 DEF RequestInv
    <2>3. QED BY <1>a, <1>b, <1>c, <1>f, <2>1, <2>2, HandlerStep
  <1>2. CASE Receiver!Decide(h)
    <2>1. current' = current /\ current' \in Known' /\ pc[h] = "decide"
      BY <1>2, <1>f DEF Receiver!Decide, Receiver!rowVars
    <2>2. CASE /\ Receiver!SameVersion(h)
               /\ Receiver!Answer(h, "applied", payload[h].version)
      <3>1. ASSUME state[h[1]] \in Sender!Running PROVE Carried(h[1])'
        <4>1. seen[h] \in inForce[h[1]]
          BY <1>e, <2>1, <3>1 DEF RequestInv
        <4>2. seen[h] # NoConfig /\ seen[h].version = sent[h[1]].version
          BY <1>e, <2>2 DEF Receiver!SameVersion
        <4>3. QED BY <1>f, <4>1, <4>2 DEF Carried
      <3>2. QED BY <1>h, <2>1, <2>2, <3>1
    <2>3. CASE Receiver!Answer(h, "stale", 0)
      BY <1>h, <2>1, <2>3
    <2>4. CASE Receiver!Answer(h, "ignored", seen[h].version)
      BY <1>h, <2>1, <2>4
    <2>5. CASE /\ pc' = [pc EXCEPT ![h] = "commit"]
               /\ UNCHANGED <<payload, seen, reply>>
      <3>1. /\ OtherHandlers(h) /\ pc'[h] = "commit"
            /\ payload'[h] = payload[h] /\ seen'[h] = seen[h]
            /\ reply'[h] = reply[h]
        BY <1>a, <2>5, Domains DEF OtherHandlers
      <3>2. RequestInv(h)'
        BY <1>b, <1>e, <1>f, <1>g, <2>1, <3>1 DEF RequestInv
      <3>3. QED BY <1>a, <1>b, <1>c, <2>1, <3>1, <3>2, HandlerStep
    <2>6. QED BY <1>2, <2>2, <2>3, <2>4, <2>5 DEF Receiver!Decide
  <1>3. CASE Receiver!Commit(h)
    <2>1. /\ current' = payload[h]
          /\ Receiver!Answer(h, "applied", payload[h].version)
      BY <1>3 DEF Receiver!Commit, Receiver!StoreConfig
    <2>2. current' \in Known'
      BY <1>e, <1>f, <2>1
    <2>3. ASSUME state[h[1]] \in Sender!Running PROVE Carried(h[1])'
      BY <1>b, <1>e, <1>g, <2>1, <2>3 DEF Carried
    <2>4. QED BY <1>h, <2>1, <2>2, <2>3
  <1>4. CASE Receiver!Fail(h)
    <2>1. current' \in Known' /\ Receiver!Answer(h, "error", 0)
      BY <1>4, <1>f DEF Receiver!Fail, Receiver!rowVars
    <2>2. QED BY <1>h, <2>1
  <1>5. QED
    BY <1>1, <1>2, <1>3, <1>4 DEF Handle, Receiver!Handle

\* Time touches neither the requests nor the row; nor does a restart of the
\* receiver, which forgets its handlers and their answers.
LEMMA EnvironmentStep ==
  ASSUME SyncInv, Time \/ ReceiverRestart \/ UNCHANGED vars
  PROVE  SyncInv'
  <1>1. TypeOK'
    BY NextTypes DEF Next
  <1>2. /\ state' = state /\ sent' = sent /\ attempt' = attempt
        /\ net' = net /\ inForce' = inForce /\ current' = current
    BY DEF Time, ReceiverRestart, vars, senderVars, receiverVars,
           Sender!Tick, Receiver!GrowOld, Receiver!Restart, Receiver!rowVars
  <1>3. Known' = Known
    BY <1>2 DEF Known
  <1>4. ASSUME NEW h \in Requests
        PROVE  \/ /\ pc'[h] = pc[h] /\ payload'[h] = payload[h]
                  /\ seen'[h] = seen[h] /\ reply'[h] = reply[h]
               \/ /\ pc'[h] = "idle" /\ payload'[h] = NoConfig
                  /\ seen'[h] = NoConfig /\ reply'[h] = Receiver!NoReply
    BY DEF Time, ReceiverRestart, vars, senderVars, receiverVars,
           Receiver!GrowOld, Receiver!pushVars, Receiver!Restart
  <1>5. ASSUME NEW h \in Requests PROVE RequestInv(h)'
    <2>1. RequestInv(h)
      BY DEF SyncInv
    <2>2. Carried(h[1])' <=> Carried(h[1])
      BY <1>2 DEF Carried
    <2>3. NoConfig \in Known /\ Receiver!NoReply.status = "none"
      BY DEF Known, Receiver!NoReply
    <2>4. CASE /\ pc'[h] = pc[h] /\ payload'[h] = payload[h]
               /\ seen'[h] = seen[h] /\ reply'[h] = reply[h]
      BY <1>2, <1>3, <2>1, <2>2, <2>4 DEF RequestInv, Unused
    <2>5. CASE /\ pc'[h] = "idle" /\ payload'[h] = NoConfig
               /\ seen'[h] = NoConfig /\ reply'[h] = Receiver!NoReply
      BY <1>2, <1>3, <2>1, <2>3, <2>5 DEF RequestInv, Unused
    <2>6. QED BY <1>4, <2>4, <2>5
  <1>6. ASSUME NEW p \in Pushes PROVE SenderInv(p)' /\ PushInv(p)'
    <2>1. SenderInv(p) /\ PushInv(p)
      BY DEF SyncInv
    <2>2. QED BY <1>2, <1>3, <2>1 DEF SenderInv, PushInv, Carried
  <1>7. QED BY <1>1, <1>2, <1>3, <1>5, <1>6 DEF SyncInv

-----------------------------------------------------------------------------
(* The theorems *)

\* The invariant holds at first: nothing was sent.
LEMMA InitSyncInv == Init => SyncInv
  <1> SUFFICES ASSUME Init PROVE SyncInv
    OBVIOUS
  <1>1. Sender!TypeOK
    BY SyncAssumption DEF Init, Sender!Init, Sender!TypeOK, Sender!Running
  <1>2. Receiver!TypeOK
    BY SyncAssumption
    DEF Init, Receiver!Init, Receiver!TypeOK, Receiver!Ages,
        Receiver!Replies, Receiver!NoReply
  <1>3. TypeOK
    BY <1>1, <1>2 DEF Init, TypeOK
  <1>4. current \in Known
    BY DEF Init, Receiver!Init, Known
  <1>5. ASSUME NEW p \in Pushes PROVE SenderInv(p) /\ PushInv(p)
    BY SyncAssumption
    DEF Init, Sender!Init, SenderInv, PushInv, Sender!Running
  <1>6. ASSUME NEW h \in Requests PROVE RequestInv(h)
    BY DEF Init, Sender!Init, Receiver!Init, RequestInv, Unused, Requests,
           Known, Sender!Running
  <1>7. QED BY <1>3, <1>4, <1>5, <1>6 DEF SyncInv

\* And every step keeps it.
LEMMA NextSyncInv == SyncInv /\ [Next]_vars => SyncInv'
  BY StartStep, GoOnStep, DeliverStep, HandleStep, EnvironmentStep DEF Next

\* So it always holds.
LEMMA SyncInvHolds == Spec => []SyncInv
  BY InitSyncInv, NextSyncInv, PTL DEF Spec

\* Both instances of the program, the network and the history are always of
\* their types: a request is one attempt of one push.
THEOREM TypeCorrect == Spec => []TypeOK
  <1>1. SyncInv => TypeOK
    BY DEF SyncInv
  <1>2. QED BY <1>1, SyncInvHolds, PTL

\* Connected to the receiver, the sender still does what PanelPush allows:
\* what is proved of PanelPush holds of it.
THEOREM SenderRefined == Spec => Sender!Spec
  <1>1. Init => Sender!Init
    BY DEF Init
  <1>2. [Next]_vars => [Sender!Next]_Sender!vars
    BY SenderStep DEF senderVars, Sender!vars
  <1>3. QED BY <1>1, <1>2, PTL DEF Spec, Sender!Spec

\* And the receiver what ConfigReceive allows, with the requests of the
\* sender as the payloads in circulation.
THEOREM ReceiverRefined == Spec => Receiver!Spec
  <1>1. Init => Receiver!Init
    BY DEF Init
  <1>2. SyncInv /\ [Next]_vars => [Receiver!Next]_Receiver!vars
    BY ReceiverStep
    DEF receiverVars, Receiver!vars, Receiver!rowVars, Receiver!pushVars,
        Receiver!adminVars
  <1>3. QED BY <1>1, <1>2, SyncInvHolds, PTL DEF Spec, Receiver!Spec

\* Whatever is late, lost or answered twice: a push that reports success
\* carried a version that was in force on the receiver since it began.
THEOREM SuccessNamesVersion == Spec => []SuccessMeansVersionInForce
  <1>1. SyncInv => SuccessMeansVersionInForce
    BY DEF SyncInv, PushInv, Carried, SuccessMeansVersionInForce
  <1>2. QED BY <1>1, SyncInvHolds, PTL

\* And if no other push carried that version, it was its own configuration.
THEOREM SuccessNamesConfig == Spec => []SuccessMeansInForceUnlessVersionReused
  <1>1. SyncInv => SuccessMeansInForceUnlessVersionReused
    <2>1. SUFFICES ASSUME SyncInv, NEW p \in Pushes, state[p] = "success",
                          \A q \in Pushes \ {p} :
                             sent[q] # NoConfig =>
                                sent[q].version # sent[p].version
                   PROVE  sent[p] \in inForce[p]
      BY DEF SuccessMeansInForceUnlessVersionReused
    <2>2. PICK c \in inForce[p] :
             c # NoConfig /\ c.version = sent[p].version
      BY <2>1 DEF SyncInv, PushInv, Carried
    <2>3. PICK q \in Pushes : c = sent[q]
      BY <2>1, <2>2 DEF SyncInv, PushInv, Known
    <2>4. q = p
      BY <2>1, <2>2, <2>3
    <2>5. QED BY <2>2, <2>3, <2>4
  <1>2. QED BY <1>1, SyncInvHolds, PTL
=============================================================================
