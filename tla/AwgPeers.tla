------------------------------ MODULE AwgPeers ------------------------------
(***************************************************************************)
(* The addresses of the AWG peers.  createAwgUser chooses an address from  *)
(* what the interface shows and what the database records, adds the peer,  *)
(* and its caller records the address later; block, unblock and delete     *)
(* look the record up and then change the interface.  Every step is an     *)
(* await, so requests for different users, or for the same, interleave.    *)
(* The interface itself is WireGuard's: an address given to one peer is    *)
(* taken from the peer that had it.                                        *)
(***************************************************************************)
EXTENDS Integers

CONSTANTS Requests,   \* the requests that may be under way together
          Peers,      \* key pairs that may be generated
          Hosts,      \* 2 .. 254: the host numbers of the subnet
          None,       \* no address, no peer
          Absent,     \* the interface does not have the peer
          Bare        \* it has the peer, but its address went to another

ASSUME HostsAssumption == Hosts \subseteq Nat
ASSUME NoneAssumption == /\ None \notin Hosts \cup Peers
                         /\ Absent \notin Hosts /\ Bare \notin Hosts
                         /\ Absent # Bare

VARIABLES
    record,   \* the address in the config of the active protocol
    live,     \* the interface: the address of each peer
    pc,       \* where each request is
    peer,     \* the peer it works on
    used,     \* the addresses a creation has found in use
    host,     \* the address a request has chosen or looked up
    raced,    \* history: the creations that overlapped that of each peer
    careful   \* history: no overlap and no failed query of the interface

vars == <<record, live, pc, peer, used, host, raced, careful>>

Creating == {"show", "query", "add", "record"}
Changing == {"block", "unblock", "delete", "blocking", "unblocking",
             "deleting", "forget"}

TypeOK ==
    /\ record \in [Peers -> Hosts \cup {None}]
    /\ live \in [Peers -> Hosts \cup {Absent, Bare}]
    /\ pc \in [Requests -> Creating \cup Changing \cup {"idle"}]
    /\ peer \in [Requests -> Peers \cup {None}]
    /\ used \in [Requests -> SUBSET Hosts]
    /\ host \in [Requests -> Hosts \cup {None}]
    /\ raced \in [Peers -> SUBSET Peers]
    /\ careful \in BOOLEAN
    /\ \A r \in Requests : pc[r] = "idle" <=> peer[r] = None

Init ==
    /\ record = [p \in Peers |-> None]
    /\ live = [p \in Peers |-> Absent]
    /\ pc = [r \in Requests |-> "idle"]
    /\ peer = [r \in Requests |-> None]
    /\ used = [r \in Requests |-> {}]
    /\ host = [r \in Requests |-> None]
    /\ raced = [p \in Peers |-> {}]
    /\ careful = TRUE

-----------------------------------------------------------------------------

Recorded == {record[p] : p \in Peers} \ {None}
Shown    == {live[p] : p \in Peers} \cap Hosts

\* The peers some request is creating.
Created == {peer[r] : r \in {q \in Requests : pc[q] \in Creating}}

Go(r, step) == pc' = [pc EXCEPT ![r] = step] /\ UNCHANGED peer

End(r) ==
    /\ pc' = [pc EXCEPT ![r] = "idle"]
    /\ peer' = [peer EXCEPT ![r] = None]

Begin(r, p, step) ==
    /\ pc[r] = "idle"
    /\ pc' = [pc EXCEPT ![r] = step]
    /\ peer' = [peer EXCEPT ![r] = p]
    /\ used' = [used EXCEPT ![r] = {}]
    /\ host' = [host EXCEPT ![r] = None]
    /\ careful' = (careful /\ \A q \in Requests : pc[q] = "idle")

\* The interface gives the address to p and takes it from any other peer.
Assign(p, h) ==
    live' = [q \in Peers |-> IF q = p THEN h
                             ELSE IF live[q] = h THEN Bare ELSE live[q]]

\* createAwgUser generates a key pair, which nothing else knows.
BeginCreate(r, p) ==
    /\ record[p] = None /\ live[p] = Absent
    /\ \A q \in Requests : peer[q] # p
    /\ Begin(r, p, "show")
    /\ raced' = [q \in Peers |->
                    IF q = p THEN Created
                    ELSE IF q \in Created THEN raced[q] \cup {p}
                    ELSE raced[q] \ {p}]
    /\ UNCHANGED <<record, live>>

ShowNothing(r) ==
    /\ pc[r] = "show"
    /\ Go(r, "query")
    /\ UNCHANGED <<record, live, used, host, raced, careful>>

\* awg show allowed-ips; a failure is only logged.
Show(r) ==
    /\ pc[r] = "show"
    /\ Go(r, "query")
    /\ \/ used' = [used EXCEPT ![r] = Shown] /\ UNCHANGED careful
       \/ careful' = FALSE /\ UNCHANGED used
    /\ UNCHANGED <<record, live, host, raced>>

Lowest(S) == CHOOSE h \in S : \A g \in S : h <= g

\* The lowest address that is not in use; without one the creation fails.
Allocate(r, taken) ==
    LET free == Hosts \ taken
    IN \/ free # {} /\ Go(r, "add")
                    /\ host' = [host EXCEPT ![r] = Lowest(free)]
       \/ free = {} /\ End(r) /\ UNCHANGED host

QueryNothing(r) ==
    /\ pc[r] = "query"
    /\ Allocate(r, used[r])
    /\ UNCHANGED <<record, live, used, raced, careful>>

\* The addresses of the active protocols are in use as well.
Query(r) ==
    /\ pc[r] = "query"
    /\ Allocate(r, used[r] \cup Recorded)
    /\ UNCHANGED <<record, live, used, raced, careful>>

\* addAwgPeer, which may fail, before or after it took effect.
Add(r) ==
    /\ pc[r] = "add"
    /\ \/ Assign(peer[r], host[r]) /\ (Go(r, "record") \/ End(r))
       \/ End(r) /\ UNCHANGED live
    /\ UNCHANGED <<record, used, host, raced, careful>>

\* The route that called createAwgUser stores the config.
Record(r) ==
    /\ pc[r] = "record"
    /\ record' = [record EXCEPT ![peer[r]] = host[r]]
    /\ End(r)
    /\ UNCHANGED <<live, used, host, raced, careful>>

BeginChange(r, p, step) ==
    /\ record[p] # None
    /\ Begin(r, p, step)
    /\ UNCHANGED <<record, live, raced>>

\* getAwgConfig: the config recorded now.  Without one the call fails.
LookUpAddress(r) ==
    /\ pc[r] \in {"block", "unblock", "delete"}
    /\ \/ /\ record[peer[r]] # None
          /\ Go(r, CASE pc[r] = "block" -> "blocking"
                     [] pc[r] = "unblock" -> "unblocking"
                     [] pc[r] = "delete" -> "deleting")
          /\ host' = [host EXCEPT ![r] = record[peer[r]]]
       \/ record[peer[r]] = None /\ End(r) /\ UNCHANGED host
    /\ UNCHANGED <<record, live, used, raced, careful>>

\* removeAwgPeer, or a failure before or after it took effect; a deletion
\* goes on in any case.
RemovePeer(r) ==
    /\ pc[r] \in {"blocking", "deleting"}
    /\ live' \in {live, [live EXCEPT ![peer[r]] = Absent]}
    /\ \/ pc[r] = "blocking" /\ End(r)
       \/ pc[r] = "deleting" /\ Go(r, "forget")
    /\ UNCHANGED <<record, used, host, raced, careful>>

\* The protocol is deactivated or its row deleted.
Forget(r) ==
    /\ pc[r] = "forget"
    /\ record' = [record EXCEPT ![peer[r]] = None]
    /\ End(r)
    /\ UNCHANGED <<live, used, host, raced, careful>>

\* unblockAwgUser adds the peer with the address it looked up.
Unblock(r) ==
    /\ pc[r] = "unblocking"
    /\ Assign(peer[r], host[r]) \/ UNCHANGED live
    /\ End(r)
    /\ UNCHANGED <<record, used, host, raced, careful>>

\* A request is cut off: the process stops, or a query throws.
Abort(r) ==
    /\ pc[r] # "idle"
    /\ End(r)
    /\ UNCHANGED <<record, live, used, host, raced, careful>>

\* The interface is set up anew, without the peers that were set on it;
\* the unblock calls of a sync bring the recorded ones back.
InterfaceRestart ==
    /\ live' = [p \in Peers |-> Absent]
    /\ UNCHANGED <<record, pc, peer, used, host, raced, careful>>

Next ==
    \/ \E r \in Requests :
          \/ \E p \in Peers :
                \/ BeginCreate(r, p)
                \/ \E step \in {"block", "unblock", "delete"} :
                      BeginChange(r, p, step)
          \/ Show(r) \/ Query(r) \/ Add(r) \/ Record(r)
          \/ LookUpAddress(r) \/ RemovePeer(r) \/ Forget(r) \/ Unblock(r)
          \/ Abort(r)
    \/ InterfaceRestart

Spec == Init /\ [][Next]_vars

-----------------------------------------------------------------------------
(* Properties.                                                             *)

\* Two users are recorded with the same address only if their creations
\* overlapped, whatever calls failed in between and however requests were
\* cut off.
AddressesDistinct == \A p, q \in Peers :
    p # q /\ record[p] # None /\ record[p] = record[q] => q \in raced[p]

\* As long as requests do not overlap and the interface can be queried, no
\* peer loses its address to another: not to a new one, not to one that is
\* unblocked, and not even a peer that the database has forgotten.
CarefulKeepsAddresses == careful => \A p \in Peers :
    /\ live[p] # Bare
    /\ \A q \in Peers \ {p} : live[p] \in Hosts => record[q] # live[p]
=============================================================================
