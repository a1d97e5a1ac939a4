------------------------------- MODULE PushSync -------------------------------
(***************************************************************************)
(* PanelPush connected to ConfigReceive: two instances of the program, the *)
(* one that pushes and the one that receives, and the HTTP requests between*)
(* them.  A request may be delivered late, after its sender gave up and    *)
(* even after the next attempt, or never; so may its answer.               *)
(***************************************************************************)
EXTENDS Naturals, FiniteSets

CONSTANTS Pushes, Panels, Target, MaxAttempts, MaxFailures, Window, NoConfig

VARIABLES
    state, sent, attempt, lastTransient, failures,                 \* sender
    current, previous, age, pc, payload, seen, reply, adminPc, restored,
                                                                   \* receiver
    net,      \* the requests that have not reached the receiver
    inForce   \* history: the configurations in force since a push began

\* A request is one attempt of one push, and has a handler of its own.
Requests == Pushes \X (1..MaxAttempts)

Sender   == INSTANCE PanelPush
Receiver == INSTANCE ConfigReceive
                WITH Handlers <- Requests, Admins <- {}, Bodies <- Pushes,
                     Payloads <- Sender!Payloads

\* What the two instances assume of their constants (of the payloads,
\* LEMMA PayloadsAreConfigs in PanelPush_proofs says it is so).
ASSUME SyncAssumption ==
    /\ MaxAttempts \in Nat \ {0}
    /\ MaxFailures \in Nat \ {0}
    /\ Window \in Nat \ {0}
    /\ Sender!Payloads \subseteq Receiver!Configs
    /\ NoConfig \notin Receiver!Configs

senderVars   == <<state, sent, attempt, lastTransient, failures>>
receiverVars == <<current, previous, age, pc, payload, seen, reply, adminPc,
                  restored>>
vars         == <<senderVars, receiverVars, net, inForce>>

TypeOK ==
    /\ Sender!TypeOK
    /\ Receiver!TypeOK
    /\ net \subseteq Requests
    /\ inForce \in [Pushes -> SUBSET (Sender!Payloads \cup {NoConfig})]

Init ==
    /\ Sender!Init
    /\ Receiver!Init
    /\ age = [c \in Sender!Payloads |-> "fresh"]
    /\ net = {}
    /\ inForce = [p \in Pushes |-> {}]

\* The history variable of a step that changes the row.
Witness ==
    inForce' = [p \in Pushes |->
                   IF state[p] \in Sender!Running
                   THEN inForce[p] \cup {current'} ELSE inForce[p]]

-----------------------------------------------------------------------------

\* In this model a push call is made once.
Begin(p) ==
    /\ state[p] = "new"
    /\ \E keyed \in Sender!Batches : Sender!Begin(p, keyed)
    /\ net' = net \cup {<<p, 1>>}
    /\ inForce' = [inForce EXCEPT ![p] = {current}]
    /\ UNCHANGED receiverVars

Refuse(p) ==
    /\ state[p] = "new"
    /\ \E keyed \in Sender!Batches : Sender!Refuse(p, keyed)
    /\ UNCHANGED <<receiverVars, net, inForce>>

RetrySkipping(p) ==
    /\ Sender!Retry(p)
    /\ net' = net \cup {<<p, attempt'[p] + 1>>}
    /\ UNCHANGED <<receiverVars, inForce>>

Retry(p) ==
    /\ Sender!Retry(p)
    /\ net' = net \cup {<<p, attempt'[p]>>}
    /\ UNCHANGED <<receiverVars, inForce>>

\* A request reaches the route, and is admitted or turned away.
Deliver(h) ==
    /\ h \in net
    /\ net' = net \ {h}
    /\ Receiver!Arrive(h, sent[h[1]]) \/ Receiver!Reject(h)
    /\ UNCHANGED <<senderVars, inForce>>

Handle(h) ==
    /\ Receiver!Handle(h) \/ Receiver!Fail(h)
    /\ Witness
    /\ UNCHANGED <<senderVars, net>>

\* What the sender makes of the answer to its latest attempt.
LatestReply(p) == reply[<<p, attempt[p]>>].status

AnsweredOk(p) ==
    /\ state[p] = "waiting"
    /\ \/ LatestReply(p) \in {"applied", "ignored"} /\ Sender!Succeed(p)
       \/ LatestReply(p) \in {"stale", "rejected"}
          /\ Sender!AttemptFails(p, FALSE)
       \/ LatestReply(p) = "error" /\ Sender!AttemptFails(p, TRUE)
    /\ UNCHANGED <<receiverVars, net, inForce>>

Answered(p) ==
    /\ state[p] = "waiting"
    /\ \/ LatestReply(p) = "applied" /\ Sender!Succeed(p)
       \/ LatestReply(p) \in {"ignored", "stale", "rejected"}
          /\ Sender!AttemptFails(p, FALSE)
       \/ LatestReply(p) = "error" /\ Sender!AttemptFails(p, TRUE)
    /\ UNCHANGED <<receiverVars, net, inForce>>

TimedOut(p) ==
    /\ Sender!AttemptFails(p, TRUE)
    /\ UNCHANGED <<receiverVars, net, inForce>>

Time ==
    \/ /\ \E p \in {sent[q] : q \in Pushes} \ {NoConfig} : Receiver!GrowOld(p)
       /\ UNCHANGED <<senderVars, net, inForce>>
    \/ /\ Sender!Tick
       /\ UNCHANGED <<receiverVars, net, inForce>>

ReceiverRestart ==
    /\ Receiver!Restart
    /\ \E h \in Requests : pc[h] # "idle"
    /\ UNCHANGED <<senderVars, net, inForce>>

Next ==
    \/ \E p \in Pushes :
          \/ Begin(p) \/ Refuse(p) \/ Retry(p)
          \/ Answered(p) \/ TimedOut(p)
    \/ \E h \in Requests : Deliver(h) \/ Handle(h)
    \/ Time
    \/ ReceiverRestart

Spec == Init /\ [][Next]_vars

-----------------------------------------------------------------------------

\* End to end: a push that reports success was in force on the receiver at
\* some moment since it began, through timeouts, late requests and retries --
\* provided no other push carried the same version.
SuccessMeansInForceUnlessVersionReused ==
    \A p \in Pushes :
        /\ state[p] = "success"
        /\ \A q \in Pushes \ {p} :
              sent[q] # NoConfig => sent[q].version # sent[p].version
        => sent[p] \in inForce[p]

\* The version a successful push carried was in force since it began, even
\* when versions are reused.
SuccessMeansVersionInForce ==
    \A p \in Pushes :
        state[p] = "success" =>
            \E c \in inForce[p] : c # NoConfig /\ c.version = sent[p].version

\* Without the proviso, as the schema has it ("Monotonically increasing
\* config version from central"): success means that the configuration sent
\* was in force.
SuccessMeansInForce ==
    \A p \in Pushes : state[p] = "success" => sent[p] \in inForce[p]
=============================================================================
