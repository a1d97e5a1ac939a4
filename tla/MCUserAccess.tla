---------------------------- MODULE MCUserAccess ----------------------------
(***************************************************************************)
(* UserAccess on three kinds of instances, chosen by the initial state:    *)
(* one request at a time over both services; two overlapping requests over *)
(* the service that keeps disabled clients; and one request at a time over *)
(* that service, which may name it twice.                                  *)
(***************************************************************************)
EXTENDS UserAccess, FiniteSets, TLC

VARIABLE scope   \* the requests and the services of the instance

Scopes == {c \in [requests : SUBSET Requests, services : SUBSET Services,
                  repeats : BOOLEAN] :
              \/ /\ Cardinality(c.requests) = 1
                 /\ c.services = Services /\ ~c.repeats
              \/ c.requests = Requests /\ c.services = InPlace /\ ~c.repeats
              \/ /\ Cardinality(c.requests) = 1
                 /\ c.services = InPlace /\ c.repeats}

MCInit == Init /\ scope \in Scopes

MCNext ==
    /\ Next
    /\ \A r \in Requests \ scope.requests : req'[r] = Idle
    /\ \A s \in Services \ scope.services :
          protocol'[s] = NoProtocol /\ \A r \in Requests : s \notin req'[r].adds
    /\ scope.repeats \/ \A r \in Requests : again'[r] = {}
    /\ UNCHANGED scope

MCSpec == MCInit /\ [][MCNext]_<<vars, scope>>

\* No property asks what else is marked on a request that was disturbed.
View == <<user, protocol, client, again, scope,
          [r \in Requests |-> IF "disturbed" \in req[r].marks
                              THEN [req[r] EXCEPT !.marks = {"disturbed"}]
                              ELSE req[r]]>>

Symmetry == Permutations(Keys) \cup Permutations(Requests)
=============================================================================
