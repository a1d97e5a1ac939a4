------------------------------- MODULE PanelPush -------------------------------
(***************************************************************************)
(* The sending side of configuration sync: the concurrent calls of         *)
(* pushConfigToPanel for one remote panel, with their retries and the      *)
(* circuit breaker they share, and the version that pushConfigToAllPanels  *)
(* gives each payload.  What the remote panel answers is left open; module *)
(* PushSync connects it to the receiving side.                             *)
(***************************************************************************)
EXTENDS Integers, Sequences, FiniteSets

CONSTANTS Pushes,       \* the push calls that may be under way together
          Panels,       \* the ids of the registered panels
          Target,       \* the panel these calls push to
          MaxAttempts,  \* RETRY_DELAYS.length
          MaxFailures,  \* MAX_CONSECUTIVE_FAILURES
          Window,       \* FAILURE_WINDOW_MS, in ticks
          NoConfig      \* no payload yet

ASSUME PanelsAssumption == Panels \subseteq Nat /\ Target \in Panels
                           /\ IsFiniteSet(Panels)
ASSUME PushesAssumption == IsFiniteSet(Pushes)
ASSUME LimitsAssumption == /\ MaxAttempts \in Nat \ {0}
                           /\ MaxFailures \in Nat \ {0}
                           /\ Window \in Nat \ {0}

VARIABLES
    state,          \* where each call is, or how it ended
    sent,           \* the payload of each call
    attempt,        \* the number of requests each call has made
    lastTransient,  \* isTransientFailure(lastStatus) of each call
    failures        \* panelFailures: the age of each recorded failure

vars == <<state, sent, attempt, lastTransient, failures>>

\* The panels of a batch that have a role and a key; the target is one.
Batches == {keyed \in SUBSET Panels : Target \in keyed}

\* The counter of pushConfigToAllPanels starts from 0 in every batch and
\* grows by one for each panel that has a role and a key, in id order.
BatchVersion(keyed) == Cardinality({q \in keyed : q <= Target})

Versions == {BatchVersion(keyed) : keyed \in Batches}
Payloads == [version : Versions, body : Pushes]
Running  == {"waiting", "sleeping"}
Ended    == {"success", "failed", "degraded"}

TypeOK ==
    /\ state \in [Pushes -> {"new"} \cup Running \cup Ended]
    /\ sent \in [Pushes -> Payloads \cup {NoConfig}]
    /\ attempt \in [Pushes -> 0..MaxAttempts]
    /\ lastTransient \in [Pushes -> BOOLEAN]
    /\ failures \in Seq(0 .. Window - 1)

Init ==
    /\ state = [p \in Pushes |-> "new"]
    /\ sent = [p \in Pushes |-> NoConfig]
    /\ attempt = [p \in Pushes |-> 0]
    /\ lastTransient = [p \in Pushes |-> TRUE]
    /\ failures = <<>>

-----------------------------------------------------------------------------

Payload(p, keyed) == [version |-> BatchVersion(keyed), body |-> p]

DegradedLate == Len(failures) > MaxFailures

\* isPanelDegraded, on the failures that are recent enough.
Degraded == Len(failures) >= MaxFailures

\* A batch reaches the target: its payload is given a version, and the
\* circuit breaker refuses it or the first request goes out.
Refuse(p, keyed) ==
    /\ state[p] \notin Running
    /\ Degraded
    /\ state' = [state EXCEPT ![p] = "degraded"]
    /\ sent' = [sent EXCEPT ![p] = Payload(p, keyed)]
    /\ attempt' = [attempt EXCEPT ![p] = 0]
    /\ UNCHANGED <<lastTransient, failures>>

Begin(p, keyed) ==
    /\ state[p] \notin Running
    /\ ~Degraded
    /\ state' = [state EXCEPT ![p] = "waiting"]
    /\ sent' = [sent EXCEPT ![p] = Payload(p, keyed)]
    /\ attempt' = [attempt EXCEPT ![p] = 1]
    /\ lastTransient' = [lastTransient EXCEPT ![p] = TRUE]
    /\ UNCHANGED failures

\* 200 with data.applied and a numeric version: the breaker is reset.
Succeed(p) ==
    /\ state[p] = "waiting"
    /\ state' = [state EXCEPT ![p] = "success"]
    /\ failures' = <<>>
    /\ UNCHANGED <<sent, attempt, lastTransient>>

RecordFailure(transient) ==
    failures' = IF transient THEN Append(failures, 0) ELSE failures

AttemptFailsOneMore(p, transient) ==
    /\ state[p] = "waiting"
    /\ lastTransient' = [lastTransient EXCEPT ![p] = transient]
    /\ \/ /\ attempt[p] <= MaxAttempts
          /\ state' = [state EXCEPT ![p] = "sleeping"]
          /\ UNCHANGED failures
       \/ /\ attempt[p] > MaxAttempts
          /\ state' = [state EXCEPT ![p] = "failed"]
          /\ RecordFailure(transient)
    /\ UNCHANGED <<sent, attempt>>

\* Any other answer, or none: sleep and try again, or give up and let the
\* breaker know if the last failure was transient.
AttemptFails(p, transient) ==
    /\ state[p] = "waiting"
    /\ lastTransient' = [lastTransient EXCEPT ![p] = transient]
    /\ \/ /\ attempt[p] < MaxAttempts
          /\ state' = [state EXCEPT ![p] = "sleeping"]
          /\ UNCHANGED failures
       \/ /\ attempt[p] = MaxAttempts
          /\ state' = [state EXCEPT ![p] = "failed"]
          /\ RecordFailure(transient)
    /\ UNCHANGED <<sent, attempt>>

RetryUncounted(p) ==
    /\ state[p] = "sleeping"
    /\ state' = [state EXCEPT ![p] = "waiting"]
    /\ UNCHANGED <<sent, attempt, lastTransient, failures>>

\* The backoff is over: the next attempt.
Retry(p) ==
    /\ state[p] = "sleeping"
    /\ state' = [state EXCEPT ![p] = "waiting"]
    /\ attempt' = [attempt EXCEPT ![p] = @ + 1]
    /\ UNCHANGED <<sent, lastTransient, failures>>

TickKeepingOld ==
    /\ failures # <<>>
    /\ failures' = [i \in DOMAIN failures |->
                       IF failures[i] < Window - 1 THEN failures[i] + 1
                       ELSE failures[i]]
    /\ UNCHANGED <<state, sent, attempt, lastTransient>>

\* Time passes: a failure that reaches the window no longer counts.  The
\* list is in the order of time (OldestFirst), so that what the filter drops
\* are the first n.
Tick ==
    /\ failures # <<>>
    /\ \E n \in 0 .. Len(failures) :
          /\ \A i \in 1..n : failures[i] = Window - 1
          /\ \A i \in n + 1 .. Len(failures) : failures[i] < Window - 1
          /\ failures' = [i \in 1 .. Len(failures) - n |-> failures[n+i] + 1]
    /\ UNCHANGED <<state, sent, attempt, lastTransient>>

\* The sending process stops: its calls and its breaker are gone.
Restart ==
    /\ state' = [p \in Pushes |-> "new"]
    /\ sent' = [p \in Pushes |-> NoConfig]
    /\ attempt' = [p \in Pushes |-> 0]
    /\ lastTransient' = [p \in Pushes |-> TRUE]
    /\ failures' = <<>>

Next ==
    \/ \E p \in Pushes :
          \/ \E keyed \in Batches : Refuse(p, keyed) \/ Begin(p, keyed)
          \/ Succeed(p)
          \/ \E transient \in BOOLEAN : AttemptFails(p, transient)
          \/ Retry(p)
    \/ Tick
    \/ Restart

Spec == Init /\ [][Next]_vars

\* A request is answered or times out after 8 s, a sleep ends, and time
\* passes.  No batch has to be sent.
Fairness ==
    /\ \A p \in Pushes :
          WF_vars(\/ Succeed(p)
                  \/ \E transient \in BOOLEAN : AttemptFails(p, transient)
                  \/ Retry(p))
    /\ WF_vars(Tick)

FairSpec == Spec /\ Fairness

-----------------------------------------------------------------------------

\* Calls that passed the breaker together may all fail, so the list outgrows
\* the threshold; but never by more than the calls that can be under way.
BreakerOvershootBounded ==
    LET underWay == Cardinality({p \in Pushes : state[p] \in Running})
    IN  Len(failures) + underWay <= (MaxFailures - 1) + Cardinality(Pushes)

\* A degraded panel never stays so, however often it is pushed to meanwhile:
\* refused pushes do not prolong the window.
DegradedEnds == Degraded ~> ~Degraded

\* Every push that starts ends.
PushEnds == \A p \in Pushes : state[p] \in Running ~> state[p] \notin Running
=============================================================================
