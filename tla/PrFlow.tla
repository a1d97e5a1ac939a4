------------------------------- MODULE PrFlow -------------------------------
(***************************************************************************)
(* The automation that brings one pull request from its first push to its  *)
(* merge: the orchestrator, woken in three groups that run side by side    *)
(* (by events of the pull request, by wakes that name its number, and by   *)
(* the end of a worker's run, which names only a title), the two workers   *)
(* it dispatches (code review and finalizer), the watchdog, and GitHub.    *)
(*                                                                         *)
(* The pull request is on a trusted branch of the repository: no           *)
(* Dependabot, no planning files, no external reviewer.  The two review    *)
(* signals are one, and so are the titles of the runs for different heads; *)
(* checks that cannot be read, closing without merging, and what follows   *)
(* the merge are left out.                                                 *)
(***************************************************************************)
EXTENDS Integers, FiniteSets

CONSTANTS Groups,              \* of orchestrator runs: "prt", "wake", "title"
          MaxHeads,            \* bound: the heads, counted from 1
          MaxReviewRetries,    \* MAX_CODE_REVIEW_RETRIES
          MaxFinalizerRetries, \* MAX_FINALIZER_RETRIES
          MaxFailed,           \* bound: up to which failed runs count
          Acts,                \* of people: push, draft, label, review
          MaxEvents            \* bound: acts, and failures of any kind

ASSUME PrFlowAssumption ==
    /\ {"wake", "title"} \subseteq Groups
    /\ Groups \subseteq {"prt", "wake", "title"}
    /\ MaxHeads \in Nat \ {0} /\ MaxFinalizerRetries \in Nat \ {0}
    /\ {MaxReviewRetries, MaxFailed, MaxEvents} \subseteq Nat
    /\ Acts \subseteq {"push", "draft", "label", "review"}
    /\ MaxFailed > MaxReviewRetries
    /\ Acts # {} => "prt" \in Groups  \* an act is an event

VARIABLES
    pr,        \* the pull request
    labels,    \* its labels
    retries,   \* its labels flow/finalizer-retry-N
    checks,    \* of each head, the required checks
    job,       \* the active run of each worker
    past,      \* the ended runs of each worker for each head
    due,       \* the queued wake of each group: the newest wins
    orch,      \* the orchestrator run of each group
    ready,     \* the status pr-flow/ready of the head
    reviewed,  \* history: the head has passed a review of its own
    overtaken, \* history: a push, a change or a wake came in between, or
               \* the labels of an old head could not be taken off
    events     \* history: how many acts and failures

prVars == <<pr, labels, retries, checks, job, past, due, orch, ready,
            reviewed, overtaken, events>>

Heads   == 1 .. MaxHeads
Workers == {"review", "finalizer"}
Signals == {"passed", "concerns"}
FlowLabels  == {"flow/draft", "flow/finalizer-dispatched"}
ResetLabels == Signals \cup {"maintainer-approved"}
Labels == FlowLabels \cup ResetLabels \cup {"needs-review"}

NoRun  == [at |-> "none", head |-> 1, ok |-> TRUE]
Unused == [latest |-> "none", failed |-> 0]
Summaries == [latest : {"none", "active", "success", "failure"},
              failed : 0 .. MaxFailed]
NoSummary == [w \in Workers |-> Unused]

\* What a run of the orchestrator knows: the event that woke it, the pull
\* request and the labels as it fetched them, what it found of the workers,
\* the state it decided on, and whether its dispatch failed.
IdleRun(p) == [at |-> "idle", event |-> "plain", pr |-> p, labels |-> {},
            retries |-> {}, state |-> "none", runs |-> NoSummary,
            error |-> FALSE]

Commands      == {"command-running", "command-dispatch"}
ReviewLane    == Commands \cup {"review-running", "review-failed",
                                "review-dispatch"}
FinalizerLane == {"manual-only", "finalizer-done", "finalizer-capped",
                  "finalizer-dispatch"}
States     == ReviewLane \cup FinalizerLane \cup
                  {"none", "draft", "checks-failed", "checks-pending",
                   "review-blocked"}
Dispatches == {"command-dispatch", "review-dispatch", "finalizer-dispatch"}

StateLabels(state) ==
    CASE state = "draft" -> {"flow/draft"}
      [] state \in {"finalizer-done", "finalizer-dispatch"} ->
            {"flow/finalizer-dispatched"}
      [] OTHER -> {}

PullRequests == [head : Heads, draft : BOOLEAN, autoMerge : BOOLEAN,
                 merged : BOOLEAN]

Orchestrators == [at : {"idle", "decide", "dispatch", "finish"},
                  event : {"plain", "reset", "review"},
                  pr : PullRequests, labels : SUBSET Labels,
                  retries : SUBSET (1 .. MaxFinalizerRetries),
                  state : States, runs : [Workers -> Summaries],
                  error : BOOLEAN]

PrTypeOK ==
    /\ pr \in PullRequests
    /\ labels \subseteq Labels
    /\ retries \subseteq 1 .. MaxFinalizerRetries
    /\ checks \in [Heads -> {"pending", "passed", "failed"}]
    /\ job \in [Workers -> [at : {"none", "queued", "working", "ending"},
                            head : Heads, ok : BOOLEAN]]
    /\ past \in [Workers -> [Heads -> Summaries]]
    /\ due \in [Groups -> {"none", "plain", "reset", "review"}]
    /\ orch \in [Groups -> Orchestrators]
    /\ ready \in {"none", "pending", "success", "failure", "error"}
    /\ reviewed \in BOOLEAN
    /\ overtaken \in BOOLEAN
    /\ events \in 0 .. MaxEvents

NewPr == [head |-> 1, draft |-> FALSE, autoMerge |-> FALSE, merged |-> FALSE]

PrInit ==
    /\ pr = NewPr
    /\ labels = {} /\ retries = {}
    /\ checks = [h \in Heads |-> "pending"]
    /\ job = [w \in Workers |-> NoRun]
    /\ past = [w \in Workers |-> [h \in Heads |-> Unused]]
    /\ due = [g \in Groups |-> IF g = "prt" THEN "reset" ELSE "none"]
    /\ orch = [g \in Groups |-> IdleRun(NewPr)]
    /\ ready = "none"
    /\ reviewed = FALSE
    /\ overtaken = FALSE
    /\ events = 0

history == <<reviewed, overtaken, events>>

\* One of the bounded events: an act, or a failure.
Event == events < MaxEvents /\ events' = events + 1

-----------------------------------------------------------------------------
(* The orchestrator.                                                       *)

Wake == due' = [due EXCEPT !["wake"] = "plain"]

\* The end of a worker's run wakes too: it is known by the run's title, not
\* by the number of the pull request.
WakeByTitle == due' = [due EXCEPT !["title"] = "plain"]

Active(w) == job[w].at # "none"
Resetting == \E g \in Groups \cap {"prt"} :
    due[g] = "reset" \/ (orch[g].at # "idle" /\ orch[g].event = "reset")

\* summarizeWorkerRuns, for the runs whose title names the head.
Summary(w, h) ==
    IF Active(w) /\ job[w].head = h
    THEN [past[w][h] EXCEPT !.latest = "active"] ELSE past[w][h]

\* A group runs one wake at a time and fetches the pull request first.
Start(g) ==
    /\ due[g] # "none" /\ orch[g].at = "idle"
    /\ due' = [due EXCEPT ![g] = "none"]
    /\ orch' = [orch EXCEPT ![g] =
          [IdleRun(pr) EXCEPT !.at = "decide", !.event = due[g],
                           !.labels = labels, !.retries = retries]]
    /\ overtaken' = (overtaken \/ (g # "prt" /\ Resetting))
    /\ UNCHANGED <<pr, labels, retries, checks, job, past, ready, reviewed,
                   events>>

\* The value of the first pair whose condition holds.
First(choices) ==
    choices[CHOOSE i \in DOMAIN choices :
                /\ choices[i][1]
                /\ \A j \in 1 .. i - 1 : ~choices[j][1]][2]

ResetsNever(o) == {}

\* getResetLabels: the labels that a new head takes from a ready request.
Resets(o) == IF o.event = "reset" /\ ~o.pr.draft THEN ResetLabels ELSE {}

\* getLabelsForDecision.
Seen(o) == IF Resets(o) = {} THEN o.labels
           ELSE o.labels \ (Resets(o) \cup FlowLabels)

Held(o) == "needs-review" \in Seen(o)
Unapproved(o) == Held(o) /\ "maintainer-approved" \notin Seen(o)
Dispatched(o) == "flow/finalizer-dispatched" \in Seen(o)

RetryCount(o) == Cardinality({n \in 1 .. MaxFinalizerRetries :
                                 \E m \in o.retries : n <= m})

\* makeDecision: its returns in their order; the first that applies is the
\* decision.
Returns(o) ==
    LET review == o.runs["review"]
        finalizer == o.runs["finalizer"]
        command == o.event = "review"
        unreviewed == "passed" \notin Seen(o)
    IN  << <<o.pr.draft, "draft">>,
           <<checks[o.pr.head] = "failed", "checks-failed">>,
           <<checks[o.pr.head] = "pending", "checks-pending">>,
           <<command /\ review.latest = "active", "command-running">>,
           <<command, "command-dispatch">>,
           <<"concerns" \in Seen(o), "review-blocked">>,
           <<unreviewed /\ review.latest = "active", "review-running">>,
           <<unreviewed /\ review.latest = "failure"
                        /\ review.failed > MaxReviewRetries,
             "review-failed">>,
           <<unreviewed, "review-dispatch">>,
           <<Unapproved(o), "manual-only">>,
           <<\/ finalizer.latest = "active"
             \/ /\ Dispatched(o)
                /\ o.pr.autoMerge \/ finalizer.latest = "success",
             "finalizer-done">>,
           <<Dispatched(o) /\ RetryCount(o) >= MaxFinalizerRetries,
             "finalizer-capped">>,
           <<TRUE, "finalizer-dispatch">> >>

State(o) == First(Returns(o))

\* The decision reads only the runs of the worker it comes to.
Reads(state, w) == \/ w = "finalizer" /\ state \in FinalizerLane
                   \/ w = "review" /\ state \in ReviewLane

\* What is found of the workers: a list that cannot be read is empty.
Found(o, read) ==
    IF read THEN [w \in Workers |-> Summary(w, o.pr.head)] ELSE NoSummary

Decide(g) ==
    /\ orch[g].at = "decide"
    /\ \E read \in BOOLEAN :
          LET o == [orch[g] EXCEPT !.runs = Found(orch[g], read)]
              state == State(o)
          IN  /\ IF read THEN UNCHANGED events ELSE Event
              /\ orch' = [orch EXCEPT ![g] = [o EXCEPT
                     !.state = state,
                     !.runs = [w \in Workers |->
                                  IF Reads(state, w) THEN @[w] ELSE Unused],
                     !.at = IF state \in Dispatches THEN "dispatch"
                            ELSE "finish"]]
    /\ UNCHANGED <<pr, labels, retries, checks, job, past, due, ready,
                   reviewed, overtaken>>

\* A worker runs once for a pull request: a new run cancels the active one.
Conclude(w, latest) ==
    [past EXCEPT ![w][job[w].head] =
        [latest |-> latest,
         failed |-> IF latest = "failure" /\ @.failed < MaxFailed
                    THEN @.failed + 1 ELSE @.failed]]

Queue(w, h) ==
    /\ job' = [job EXCEPT ![w] = [NoRun EXCEPT !.at = "queued", !.head = h]]
    /\ IF Active(w) THEN past' = Conclude(w, "failure") /\ WakeByTitle
       ELSE UNCHANGED <<past, due>>

\* The dispatch of a worker, which may fail, or be thought to have failed.
Dispatch(g) ==
    LET o == orch[g]
        w == IF o.state = "finalizer-dispatch" THEN "finalizer" ELSE "review"
    IN  /\ o.at = "dispatch"
        /\ \/ /\ Queue(w, o.pr.head)
              /\ orch' = [orch EXCEPT ![g].at = "finish"]
              /\ UNCHANGED events
           \/ /\ Event
              /\ orch' = [orch EXCEPT ![g].at = "finish", ![g].error = TRUE]
              /\ Queue(w, o.pr.head) \/ UNCHANGED <<job, past, due>>
        /\ UNCHANGED <<pr, labels, retries, checks, ready, reviewed,
                       overtaken>>

\* syncLabels: what the decision takes off, and what it puts on. (Of the
\* labels of the states, only those that something reads.)
Removed(o) ==
    Resets(o) \cup (FlowLabels \ StateLabels(o.state))
        \cup IF o.state \in Commands THEN Signals ELSE {}

\* The retry labels go when the decision reaches the finalizer, and a retry
\* that was dispatched adds its own.
RemovedRetries(o) == IF o.state \in FinalizerLane THEN o.retries ELSE {}

AddedRetries(o) ==
    IF o.state = "finalizer-dispatch" /\ Dispatched(o) /\ ~o.error
    THEN {RetryCount(o) + 1} ELSE {}

\* The runs of a worker as the visibility has them: read for the decision,
\* or else now, if they can be.
Known(o, w, read) ==
    IF Reads(o.state, w) THEN o.runs[w] ELSE Found(o, read)[w]

\* buildFlowVisibility: the aggregate status. What the policy says of a
\* held request counts only if the policy was asked.
Aggregate(o, read) ==
    LET finalizer == Known(o, "finalizer", read).latest
        review == Known(o, "review", read).latest
        asked == o.state \notin {"draft", "checks-failed", "checks-pending"}
        choices ==
          << <<o.error, "error">>,
             <<o.state \in {"checks-failed", "review-blocked",
                            "review-failed"}, "failure">>,
             <<o.state \in {"manual-only", "finalizer-capped"}, "success">>,
             <<asked /\ Held(o), "pending">>,
             <<finalizer = "failure", "failure">>,
             <<finalizer = "success" /\ o.pr.autoMerge, "success">>,
             <<"concerns" \in Seen(o), "failure">>,
             <<"passed" \notin Seen(o) /\ review = "failure", "failure">>,
             <<TRUE, "pending">> >>
    IN  First(choices)

\* Each label is taken off with a call of its own, those put on with one. Any
\* may fail: the labels of kept and keptRetries stay.
Relabel(o, kept, keptRetries, adds) ==
    /\ labels' = (labels \ ((Removed(o) \cap o.labels) \ kept))
                     \cup IF adds THEN StateLabels(o.state) \ o.labels ELSE {}
    /\ retries' = (retries \ (RemovedRetries(o) \ keptRetries))
                      \cup IF adds THEN AddedRetries(o) ELSE {}

\* A label of a review that the run is to take off.
Stale(o) == "passed" \in Resets(o) \cap o.labels

\* The end of a run: the labels, where a failure goes unnoticed, and the
\* status, which is that of the head that was fetched.
FinishRun(g) ==
    LET o == orch[g]
        Published(read) ==
            IF o.pr.head = pr.head THEN Aggregate(o, read) ELSE ready
    IN  /\ o.at = "finish"
        /\ \/ /\ Relabel(o, {}, {}, TRUE) /\ ready' = Published(TRUE)
              /\ UNCHANGED events
           \/ /\ Event
              /\ \E kept \in SUBSET (Removed(o) \cap o.labels) :
                    \E keptRetries \in SUBSET RemovedRetries(o) :
                       \E adds \in BOOLEAN :
                          Relabel(o, kept, keptRetries, adds)
              /\ ready' = Published(TRUE)
           \/ /\ Event /\ Relabel(o, {}, {}, TRUE)
              /\ ready' \in {ready, Published(FALSE)}
        /\ overtaken' = (overtaken \/ (Stale(o) /\ "passed" \in labels'))
        /\ orch' = [orch EXCEPT ![g] = IdleRun(NewPr)]
        /\ UNCHANGED <<pr, checks, job, past, due, reviewed>>

\* A call before the decision fails, and ends the run.
OrchestratorFails(g) ==
    /\ orch[g].at = "decide" /\ Event
    /\ orch' = [orch EXCEPT ![g] = IdleRun(NewPr)]
    /\ overtaken' = (overtaken \/ Stale(orch[g]))
    /\ UNCHANGED <<pr, labels, retries, checks, job, past, due, ready,
                   reviewed>>

-----------------------------------------------------------------------------
(* The workers. Both wake the orchestrator before they end, and GitHub     *)
(* does when they have ended.                                              *)

To(w, at, ok) == [job EXCEPT ![w].at = at, ![w].ok = ok]

\* code-review.yml: the head is compared when the run begins.
ResolveReview ==
    /\ job["review"].at = "queued"
    /\ IF job["review"].head = pr.head /\ ~pr.draft
       THEN job' = To("review", "working", TRUE) /\ UNCHANGED due
       ELSE job' = To("review", "ending", TRUE) /\ Wake
    /\ UNCHANGED <<pr, labels, retries, checks, past, orch, ready, history>>

\* The verdict is given to the pull request, whatever its head is now; or
\* the review fails.
Review ==
    /\ job["review"].at = "working"
    /\ \/ \E signal \in Signals :
             /\ labels' = (labels \ Signals) \cup {signal}
             /\ reviewed' = (\/ reviewed
                             \/ /\ signal = "passed"
                                /\ job["review"].head = pr.head)
             /\ job' = To("review", "ending", TRUE)
             /\ UNCHANGED events
       \/ /\ Event
          /\ job' = To("review", "ending", FALSE)
          /\ UNCHANGED <<labels, reviewed>>
    /\ Wake
    /\ UNCHANGED <<pr, retries, checks, past, orch, ready, overtaken>>

\* evaluateFinalizerDecision.
Approvable ==
    /\ ~pr.draft
    /\ "concerns" \notin labels
    /\ "needs-review" \in labels => "maintainer-approved" \in labels
    /\ "passed" \in labels
    /\ checks[pr.head] = "passed"

\* pr-finalizer.yml: any decision but to approve ends the run, and well.
ReadFinalizer ==
    /\ job["finalizer"].at = "queued"
    /\ job' = To("finalizer",
                 IF job["finalizer"].head = pr.head /\ Approvable
                 THEN "working" ELSE "ending", TRUE)
    /\ UNCHANGED <<pr, labels, retries, checks, past, due, orch, ready,
                   history>>

\* The approval, and "gh pr merge --auto", which names no head; if either
\* fails the run does, and the other may have been done.
ApplyFinalizer ==
    /\ job["finalizer"].at = "working"
    /\ \/ /\ pr' = [pr EXCEPT !.autoMerge = TRUE]
          /\ job' = To("finalizer", "ending", TRUE)
          /\ UNCHANGED events
       \/ /\ Event
          /\ job' = To("finalizer", "ending", FALSE)
          /\ pr' \in {pr, [pr EXCEPT !.autoMerge = TRUE]}
    /\ Wake
    /\ UNCHANGED <<labels, retries, checks, past, orch, ready, reviewed,
                   overtaken>>

EndRun(w) ==
    /\ job[w].at = "ending"
    /\ past' = Conclude(w, IF job[w].ok THEN "success" ELSE "failure")
    /\ job' = [job EXCEPT ![w] = NoRun]
    /\ WakeByTitle
    /\ UNCHANGED <<pr, labels, retries, checks, orch, ready, history>>

-----------------------------------------------------------------------------
(* GitHub, the watchdog, and people.                                       *)

Check ==
    /\ checks[pr.head] = "pending"
    /\ \/ checks' = [checks EXCEPT ![pr.head] = "passed"] /\ UNCHANGED events
       \/ checks' = [checks EXCEPT ![pr.head] = "failed"] /\ Event
    /\ Wake
    /\ UNCHANGED <<pr, labels, retries, job, past, orch, ready, reviewed,
                   overtaken>>

\* pr-flow/ready is a required status.
Merge ==
    /\ pr.autoMerge /\ ~pr.draft
    /\ checks[pr.head] = "passed" /\ ready = "success"
    /\ pr' = [pr EXCEPT !.merged = TRUE]
    /\ UNCHANGED <<labels, retries, checks, job, past, due, orch, ready,
                   history>>

Busy == \/ \E w \in Workers : Active(w)
        \/ \E g \in Groups : due[g] # "none" \/ orch[g].at # "idle"

\* watch-pr-flow.cjs: what it selects. A status that has not changed for 30
\* minutes has expired, and no run takes that long: it finds a request at
\* rest. (A missing status or a draft label it may find sooner, which the
\* model leaves out: the runs under way wake the orchestrator as well.)
Watch ==
    /\ ~Busy /\ ~pr.draft
    /\ \/ "flow/draft" \in labels
       \/ ready \in {"none", "pending"}
       \/ /\ ready = "failure"
          /\ "flow/finalizer-dispatched" \in labels
    /\ Wake
    /\ UNCHANGED <<pr, labels, retries, checks, job, past, orch, ready,
                   history>>

Act(kind) == kind \in Acts /\ Event

\* A state change of the request cancels the run of its group.
Changed(event) ==
    /\ due' = [g \in Groups |-> IF g = "prt" THEN event ELSE due[g]]
    /\ orch' = [g \in Groups |-> IF g = "prt" THEN IdleRun(NewPr) ELSE orch[g]]

Push ==
    /\ Act("push") /\ pr.head < MaxHeads
    /\ pr' = [pr EXCEPT !.head = @ + 1]
    /\ ready' = "none" /\ reviewed' = FALSE
    /\ Changed("reset")
    /\ overtaken' = \/ overtaken \/ pr.draft \/ pr.autoMerge
                    \/ \E g \in Groups \ {"prt"} : orch[g].at # "idle"
                    \/ \E w \in Workers : Active(w)
    /\ UNCHANGED <<labels, retries, checks, job, past>>

ToggleDraft ==
    /\ Act("draft")
    /\ pr' = [pr EXCEPT !.draft = ~@]
    /\ Changed("plain")
    /\ overtaken' = (overtaken \/ Resetting)
    /\ UNCHANGED <<labels, retries, checks, job, past, ready, reviewed>>

\* Somebody puts a label on or takes it off.  The run takes the place of a
\* queued one, but does nothing if the request is a draft or the label is
\* one that nothing reads.
Label ==
    /\ Act("label")
    /\ \/ /\ \E l \in {"needs-review", "maintainer-approved"} :
                labels' = IF l \in labels THEN labels \ {l} ELSE labels \cup {l}
          /\ due' = [g \in Groups |-> IF g # "prt" THEN due[g]
                                      ELSE IF pr.draft THEN "none" ELSE "plain"]
       \/ /\ UNCHANGED labels
          /\ due' = [g \in Groups |-> IF g # "prt" THEN due[g] ELSE "none"]
    /\ overtaken' = (overtaken \/ \E g \in Groups : due[g] = "reset")
    /\ UNCHANGED <<pr, retries, checks, job, past, orch, ready, reviewed>>

\* The comment "/review".
Command ==
    /\ Act("review")
    /\ due' = [due EXCEPT !["wake"] = "review"]
    /\ UNCHANGED <<pr, labels, retries, checks, job, past, orch, ready,
                   reviewed, overtaken>>

PrNext ==
    /\ ~pr.merged
    /\ \/ \E g \in Groups :
             \/ Start(g) \/ Decide(g) \/ Dispatch(g)
             \/ FinishRun(g) \/ OrchestratorFails(g)
       \/ ResolveReview \/ Review \/ ReadFinalizer \/ ApplyFinalizer
       \/ \E w \in Workers : EndRun(w)
       \/ Check \/ Merge \/ Watch
       \/ Push \/ ToggleDraft \/ Label \/ Command

PrSpec == PrInit /\ [][PrNext]_prVars

-----------------------------------------------------------------------------
(* Properties.                                                             *)

\* What is merged has been reviewed, and passed, at its own head, unless it
\* was overtaken: by a push during a wake's run or a worker's, or with
\* auto-merge enabled, or while it was a draft; or by a change or a wake that
\* came before the labels were reset after a push, or a failure to reset them.
MergesReviewedHead == pr.merged /\ ~overtaken => reviewed

\* "The bounded retry lane (flow/finalizer-retry-N, max 3)": for no head do
\* more finalizer runs fail than the first and that many retries.
FinalizerRetriesBounded ==
    \A h \in Heads : past["finalizer"][h].failed <= 1 + MaxFinalizerRetries
=============================================================================
