------------------------------ MODULE ApplyConfig ------------------------------
(***************************************************************************)
(* Applying a chain (POST /api/chains/apply): for each of its nodes, one   *)
(* after the other, a panel is looked up and told, service by service, to  *)
(* apply its part, and the panel (POST /api/sync/apply) writes it into a   *)
(* temporary file named after the time and has a command apply that file.  *)
(* The caller gives up on an answer after 15 seconds; the panel goes on    *)
(* with the request.                                                       *)
(***************************************************************************)
EXTENDS Integers, Sequences, Functions

CONSTANTS Runs,       \* calls of POST /api/chains/apply, each once
          NodeSeq,    \* the nodes of the chain, in order
          Services,   \* of each node, in order: "awg", "three_xui"
          Panels,     \* the registered panels
          Nothing

Nodes == Range(NodeSeq)

ASSUME ApplyAssumption ==
    /\ IsInjective(NodeSeq)
    /\ \A n \in Nodes : /\ IsInjective(Services[n])
                        /\ Range(Services[n]) \subseteq {"awg", "three_xui"}
    /\ Nothing \notin Panels

Parts == UNION {{n} \X Range(Services[n]) : n \in Nodes}
Posts == Runs \X Parts

ASSUME NothingAssumption == Nothing \notin Parts \cup Posts

\* What is in force is so on a panel, for a service.
Slots == Panels \X {"awg", "three_xui"}

\* The order of the parts: node by node, and of a node service by service.
Precedes(s, a, b) == \E i, j \in DOMAIN s : i < j /\ s[i] = a /\ s[j] = b

Before(p, q) ==
    \/ Precedes(NodeSeq, p[1], q[1])
    \/ p[1] = q[1] /\ Precedes(Services[p[1]], p[2], q[2])

VARIABLES
    run,      \* the calls: what is left to apply, what went wrong
    handler,  \* the requests, on the panels
    file,     \* the content of the temporary file of each request, by name
    received, \* the panels that have a cached configuration
    inForce   \* the request whose part is in force on a panel, by service

applyVars == <<run, handler, file, received, inForce>>

Ready == [at |-> "idle", todo |-> {}, now |-> Nothing, failed |-> FALSE,
          to |-> [n \in Nodes |-> Nothing],
          undone |-> {}, disturbed |-> FALSE, shared |-> {}]
NoHandler == [at |-> "none", name |-> Nothing, ok |-> FALSE]

ApplyTypeOK ==
    /\ run \in [Runs -> [at : {"idle", "send", "wait", "done"},
                         todo : SUBSET Parts, now : Parts \cup {Nothing},
                         failed : BOOLEAN,
                         to : [Nodes -> Panels \cup {Nothing}],
                         undone : SUBSET Parts, disturbed : BOOLEAN,
                         shared : SUBSET Parts]]
    /\ handler \in [Posts -> [at : {"none", "write", "apply", "unlink"},
                                 name : Posts \cup {Nothing},
                                 ok : BOOLEAN]]
    /\ file \in [Posts -> Posts \cup {Nothing}]
    /\ received \in [Panels -> BOOLEAN]
    /\ inForce \in [Slots -> Posts \cup {Nothing}]

ApplyInit ==
    /\ run = [r \in Runs |-> Ready]
    /\ handler = [q \in Posts |-> NoHandler]
    /\ file = [q \in Posts |-> Nothing]
    /\ received \in [Panels -> BOOLEAN]
    /\ inForce = [s \in Slots |-> Nothing]

-----------------------------------------------------------------------------
(* The caller.                                                             *)

Running(r) == run[r].at \in {"send", "wait"}
UnderWay(q) == handler[q].at # "none"

\* The panel a request goes to, and what it replaces there.
PanelOf(q) == run[q[1]].to[q[2][1]]
Slot(q)    == <<PanelOf(q), q[2][2]>>

\* History: whether a call has been alone with the panels from its begin on.
Alone(r) == \A s \in Runs \ {r} :
    ~Running(s) /\ \A p \in Parts : ~UnderWay(<<s, p>>)

Advance(r, todo, failed) ==
    [run[r] EXCEPT !.at = IF todo = {} THEN "done" ELSE "send",
                   !.todo = todo, !.now = Nothing, !.failed = failed]

\* The chain is generated and a panel found for each node, by its address
\* or by the number of its server, so perhaps the same for two of them; a
\* node without a panel or a key is an error and is left out.
BeginApply(r) ==
    /\ run[r].at = "idle"
    /\ \E to \in [Nodes -> Panels \cup {Nothing}] :
          LET parts == {p \in Parts : to[p[1]] # Nothing}
              failed == \E n \in Nodes : to[n] = Nothing
          IN  run' = [s \in Runs |->
                  IF s = r THEN [Advance(r, parts, failed) EXCEPT
                                    !.to = to, !.undone = Parts,
                                    !.disturbed = ~Alone(r)]
                  ELSE [run[s] EXCEPT !.disturbed = @ \/ Running(s)]]
    /\ UNCHANGED <<handler, file, received, inForce>>

\* pushToPanel posts the next part; what arrives is handled whether or not
\* the answer is awaited.
Post(r) ==
    /\ run[r].at = "send"
    /\ \E p \in run[r].todo :
          /\ \A q \in run[r].todo \ {p} : Before(p, q)
          /\ \/ /\ received[PanelOf(<<r, p>>)]
                /\ handler' = [handler EXCEPT ![<<r, p>>].at = "write"]
                /\ run' = [run EXCEPT ![r].at = "wait", ![r].now = p,
                                      ![r].todo = @ \ {p}]
             \/ /\ run' = [run EXCEPT ![r] = Advance(r, @.todo \ {p}, TRUE)]
                /\ UNCHANGED handler
    /\ UNCHANGED <<file, received, inForce>>

\* No answer: the time is over, or the connection lost.
TimesOut(r) ==
    /\ run[r].at = "wait"
    /\ run' = [run EXCEPT ![r] = Advance(r, @.todo, TRUE)]
    /\ UNCHANGED <<handler, file, received, inForce>>

AppliedIfOk(ok) == TRUE

\* The answer has status 200 in either case: it is data.applied that counts.
AppliedAnswer(ok) == ok

Awaits(q) == run[q[1]].at = "wait" /\ run[q[1]].now = q[2]

Answer(q, ok) ==
    IF Awaits(q)
    THEN [run EXCEPT ![q[1]] = Advance(q[1], @.todo,
                                       @.failed \/ ~AppliedAnswer(ok))]
    ELSE run

-----------------------------------------------------------------------------
(* The panel.                                                              *)

\* Requests whose temporary file a request may find its own name on: they
\* are for the same panel and service.
Namesakes(q) == {p \in Posts \ {q} :
                    handler[p].at = "apply" /\ Slot(p) = Slot(q)}

\* The name that Date.now() gives.
Names(q) == {q} \cup {handler[p].name : p \in Namesakes(q)}

\* The temporary file is written, under a name of its own or under that of
\* a request begun in the same millisecond.
WriteFile(q) ==
    /\ handler[q].at = "write"
    /\ \E name \in Names(q) :
          /\ handler' = [handler EXCEPT ![q].at = "apply", ![q].name = name]
          /\ file' = [file EXCEPT ![name] = q]
          /\ run' = [r \in Runs |-> [run[r] EXCEPT
                !.shared = @ \cup {p \in Parts : /\ name # q
                                                /\ <<r, p>> \in {name, q}}]]
    /\ UNCHANGED <<received, inForce>>

\* The command applies the file with that name, if there is one, or fails.
ApplyFile(q) ==
    /\ handler[q].at = "apply"
    /\ \/ /\ file[handler[q].name] # Nothing
          /\ inForce' = [inForce EXCEPT ![Slot(q)] = file[handler[q].name]]
          /\ handler' = [handler EXCEPT ![q].at = "unlink", ![q].ok = TRUE]
          /\ run' = [r \in Runs |-> [run[r] EXCEPT
                !.undone = {p \in @ : <<r, p>> # file[handler[q].name]}]]
       \/ /\ handler' = [handler EXCEPT ![q].at = "unlink"]
          /\ UNCHANGED <<inForce, run>>
    /\ UNCHANGED <<file, received>>

\* finally: the file is removed, whatever became of the command, or stays
\* when even that fails.
Unlinked(q) == {file, [file EXCEPT ![handler[q].name] = Nothing]}

Finish(q) ==
    /\ handler[q].at = "unlink"
    /\ file' \in Unlinked(q)
    /\ handler' = [handler EXCEPT ![q] = NoHandler]
    /\ run' = Answer(q, handler[q].ok)
    /\ UNCHANGED <<received, inForce>>

\* writeFile throws, and the file of that name is removed, if there is one and
\* that does not fail; or the command for three_xui is not installed.
WriteFails(q) ==
    /\ handler[q].at = "write"
    /\ file' \in {file} \cup {[file EXCEPT ![n] = Nothing] : n \in Names(q)}
    /\ handler' = [handler EXCEPT ![q] = NoHandler]
    /\ run' = Answer(q, FALSE)
    /\ UNCHANGED <<received, inForce>>

\* POST /api/sync/receive stores a first configuration.
Receive(x) ==
    /\ ~received[x]
    /\ received' = [received EXCEPT ![x] = TRUE]
    /\ UNCHANGED <<run, handler, file, inForce>>

ApplyNext ==
    \/ \E r \in Runs : BeginApply(r) \/ Post(r) \/ TimesOut(r)
    \/ \E q \in Posts :
          WriteFile(q) \/ WriteFails(q) \/ ApplyFile(q) \/ Finish(q)
    \/ \E x \in Panels : Receive(x)

ApplySpec == ApplyInit /\ [][ApplyNext]_applyVars

-----------------------------------------------------------------------------
(* Properties.                                                             *)

Succeeded(r) == run[r].at = "done" /\ ~run[r].failed

\* A call that reports success has had every part of its chain applied, but
\* perhaps those whose request had its temporary name in common with another:
\* one of the two may have applied the other's part, or both the same one.
SuccessMeansApplied ==
    \A r \in Runs : Succeeded(r) => run[r].undone \subseteq run[r].shared

\* No later part of the call has gone to the same panel for the same service.
LastForSlot(r, p) ==
    \A q \in Parts : Before(p, q) => Slot(<<r, q>>) # Slot(<<r, p>>)

\* A call that reports success and was alone with the panels leaves in force,
\* on every panel and for every service, the last of its parts that went
\* there: only an overlapping call, or a request of an earlier one that gave
\* up waiting, can replace it.  Where two nodes were matched to one panel the
\* part of the first is not in force.
AloneMeansInForce ==
    [][\A r \in Runs : Running(r) /\ Succeeded(r)' /\ ~run[r].disturbed =>
          \A p \in Parts : LastForSlot(r, p)
              => inForce'[Slot(<<r, p>>)] = <<r, p>>]_applyVars
=============================================================================
