--------------------------- MODULE Services_proofs ---------------------------
(***************************************************************************)
(* Proofs about the services of one panel: the addresses of the VPN peers, *)
(* the GeoIP database, the cached address of a server, the limit on        *)
(* logins, the alerts, the trie of the prefixes, and the agent of a        *)
(* server, for any number of peers, databases, addresses, and of requests, *)
(* lookups, logins and checks under way together, any width of the         *)
(* addresses and number of prefixes, and any images and faults.            *)
(***************************************************************************)
EXTENDS AwgPeers, GeoIPManager, GeoIPIndex, Transport, LoginRateLimit,
        Alerts, AcpAgent, FiniteSetTheorems, SequenceTheorems,
        WellFoundedInduction, TLAPS

\* A set of naturals that is not empty has a least member.
LEMMA NatMinimum ==
  ASSUME NEW S \in SUBSET Nat, S # {}
  PROVE  \E m \in S : \A n \in S : m <= n
  <1>1. IsWellFoundedOn(OpToRel(<, Nat), Nat)
    BY NatLessThanWellFounded
  <1>2. PICK m \in S : \A n \in S : ~ (<<n, m>> \in OpToRel(<, Nat))
    BY <1>1, WFMin
  <1>3. \A n \in S : ~ (n < m)
    <2>1. SUFFICES ASSUME NEW n \in S, n < m PROVE FALSE
      OBVIOUS
    <2>2. <<n, m>> \in OpToRel(<, Nat)
      BY <2>1 DEF OpToRel
    <2>3. QED BY <1>2, <2>2
  <1>4. \A n \in S : m <= n
    BY <1>3
  <1>5. QED BY <1>4

-----------------------------------------------------------------------------
(* The addresses of the peers *)

\* What the allocation picks from the free host numbers is one of them.
LEMMA LowestIsFree ==
  ASSUME NEW free \in SUBSET Hosts, free # {}
  PROVE  Lowest(free) \in free
  <1>1. \E h \in free : \A g \in free : h <= g
    BY HostsAssumption, NatMinimum
  <1>2. QED BY <1>1 DEF Lowest

-----------------------------------------------------------------------------
(* The types of the addresses *)

\* A request that has chosen an address, or looked one up, has one: what it
\* gives to the interface is never "no address".
HasAddress == \A r \in Requests :
    pc[r] \in {"add", "record", "blocking", "unblocking", "deleting"}
        => host[r] \in Hosts

AddressTypeInv == TypeOK /\ HasAddress

\* The first state is well typed.
LEMMA InitAddressTypeInv == Init => AddressTypeInv
  BY DEF Init, AddressTypeInv, TypeOK, HasAddress, Creating, Changing

\* A request that ends stays well typed.
LEMMA EndType ==
  ASSUME TypeOK, NEW r \in Requests, End(r)
  PROVE  /\ pc' \in [Requests -> Creating \cup Changing \cup {"idle"}]
         /\ peer' \in [Requests -> Peers \cup {None}]
         /\ \A q \in Requests : pc'[q] = "idle" <=> peer'[q] = None
  BY DEF TypeOK, End

\* So does one that goes on.
LEMMA GoType ==
  ASSUME TypeOK, NEW r \in Requests, pc[r] # "idle",
         NEW step \in Creating \cup Changing, Go(r, step)
  PROVE  /\ pc' \in [Requests -> Creating \cup Changing \cup {"idle"}]
         /\ peer' \in [Requests -> Peers \cup {None}]
         /\ \A q \in Requests : pc'[q] = "idle" <=> peer'[q] = None
  BY DEF TypeOK, Go, Creating, Changing

\* A request that begins is well typed.
LEMMA BeginType ==
  ASSUME TypeOK, NEW r \in Requests, NEW p \in Peers,
         NEW step \in Creating \cup Changing, Begin(r, p, step)
  PROVE  /\ pc' \in [Requests -> Creating \cup Changing \cup {"idle"}]
         /\ peer' \in [Requests -> Peers \cup {None}]
         /\ \A q \in Requests : pc'[q] = "idle" <=> peer'[q] = None
         /\ used' \in [Requests -> SUBSET Hosts]
         /\ host' \in [Requests -> Hosts \cup {None}]
         /\ careful' \in BOOLEAN
  BY NoneAssumption DEF TypeOK, Begin, Creating, Changing

\* The peer of a request under way is one.
LEMMA PeerOfRequest ==
  ASSUME TypeOK, NEW r \in Requests, pc[r] # "idle"
  PROVE  peer[r] \in Peers
  BY DEF TypeOK

\* Every step keeps the types.
LEMMA NextAddressTypeInv == AddressTypeInv /\ [Next]_vars => AddressTypeInv'
  <1> SUFFICES ASSUME AddressTypeInv, [Next]_vars PROVE AddressTypeInv'
    OBVIOUS
  <1> USE DEF AddressTypeInv, HasAddress
  <1>1. ASSUME NEW r \in Requests, NEW p \in Peers, BeginCreate(r, p)
        PROVE  AddressTypeInv'
    <2>1. Created \subseteq Peers
      BY PeerOfRequest DEF Created, TypeOK, Creating
    <2>2. raced' \in [Peers -> SUBSET Peers]
      BY <1>1, <2>1 DEF BeginCreate, TypeOK
    <2>3. QED BY <1>1, <2>2, BeginType DEF BeginCreate, Begin, TypeOK, Creating
  <1>2. ASSUME NEW r \in Requests, NEW p \in Peers,
               NEW step \in {"block", "unblock", "delete"},
               BeginChange(r, p, step)
        PROVE  AddressTypeInv'
    <2>1. step \in Creating \cup Changing
      BY DEF Changing
    <2>2. QED BY <1>2, <2>1, BeginType DEF BeginChange, Begin, TypeOK
  <1>3. ASSUME NEW r \in Requests, Show(r) PROVE AddressTypeInv'
    <2>1. Shown \subseteq Hosts
      BY DEF Shown
    <2>2. QED BY <1>3, <2>1, GoType DEF Show, Go, TypeOK, Creating
  <1>4. ASSUME NEW r \in Requests, Query(r) PROVE AddressTypeInv'
    <2> DEFINE free == Hosts \ (used[r] \cup Recorded)
    <2>1. CASE free # {} /\ Go(r, "add")
               /\ host' = [host EXCEPT ![r] = Lowest(free)]
      <3>1. Lowest(free) \in Hosts
        BY <2>1, LowestIsFree
      <3>2. QED
        BY <1>4, <2>1, <3>1, GoType DEF Query, Go, TypeOK, Creating
    <2>2. CASE End(r) /\ UNCHANGED host
      BY <1>4, <2>2, EndType DEF Query, End, TypeOK
    <2>3. QED BY <1>4, <2>1, <2>2 DEF Query, Allocate
  <1>5. ASSUME NEW r \in Requests, Add(r) PROVE AddressTypeInv'
    <2>1. peer[r] \in Peers
      BY <1>5, PeerOfRequest DEF Add
    <2>2. live' \in [Peers -> Hosts \cup {Absent, Bare}]
      BY <1>5 DEF Add, Assign, TypeOK
    <2>3. QED BY <1>5, <2>2, GoType, EndType DEF Add, Go, End, TypeOK,
         Creating
  <1>6. ASSUME NEW r \in Requests, Record(r) PROVE AddressTypeInv'
    BY <1>6, EndType DEF Record, End, TypeOK
  <1>7. ASSUME NEW r \in Requests, LookUpAddress(r) PROVE AddressTypeInv'
    <2>1. peer[r] \in Peers
      BY <1>7, PeerOfRequest DEF LookUpAddress
    <2>2. CASE End(r) /\ UNCHANGED host
      BY <1>7, <2>2, EndType DEF LookUpAddress, End, TypeOK
    <2>3. CASE /\ \E step \in {"blocking", "unblocking", "deleting"} :
                     Go(r, step)
               /\ host' = [host EXCEPT ![r] = record[peer[r]]]
               /\ record[peer[r]] # None
      BY <1>7, <2>1, <2>3, GoType DEF LookUpAddress, Go, TypeOK, Changing
    <2>4. QED BY <1>7, <2>2, <2>3 DEF LookUpAddress
  <1>8. ASSUME NEW r \in Requests, RemovePeer(r) PROVE AddressTypeInv'
    <2>1. live' \in [Peers -> Hosts \cup {Absent, Bare}]
      BY <1>8 DEF RemovePeer, TypeOK
    <2>2. QED
      BY <1>8, <2>1, GoType, EndType
      DEF RemovePeer, Go, End, TypeOK, Changing
  <1>9. ASSUME NEW r \in Requests, Forget(r) PROVE AddressTypeInv'
    BY <1>9, EndType DEF Forget, End, TypeOK
  <1>10. ASSUME NEW r \in Requests, Unblock(r) PROVE AddressTypeInv'
    <2>1. peer[r] \in Peers
      BY <1>10, PeerOfRequest DEF Unblock
    <2>2. live' \in [Peers -> Hosts \cup {Absent, Bare}]
      BY <1>10 DEF Unblock, Assign, TypeOK
    <2>3. QED BY <1>10, <2>2, EndType DEF Unblock, End, TypeOK
  <1>11. ASSUME NEW r \in Requests, Abort(r) PROVE AddressTypeInv'
    BY <1>11, EndType DEF Abort, End, TypeOK
  <1>12. CASE InterfaceRestart
    BY <1>12 DEF InterfaceRestart, TypeOK
  <1>13. CASE UNCHANGED vars
    BY <1>13 DEF vars, TypeOK
  <1>14. QED
    BY <1>1, <1>2, <1>3, <1>4, <1>5, <1>6, <1>7, <1>8, <1>9, <1>10, <1>11,
       <1>12, <1>13 DEF Next

\* Type correctness of the addresses: what the interface and the database
\* hold are addresses of the subnet, and every request under way has a peer.
THEOREM AddressTypeCorrect == Spec => []TypeOK
  <1>1. AddressTypeInv => TypeOK
    BY DEF AddressTypeInv
  <1>2. QED BY <1>1, InitAddressTypeInv, NextAddressTypeInv, PTL DEF Spec

-----------------------------------------------------------------------------
(* Distinct addresses *)

\* The history of overlaps goes both ways.
RacedBothWays == \A p, q \in Peers : q \in raced[p] => p \in raced[q]

\* A peer that is being created has no address recorded, is worked on by no
\* other request, and overlaps every other creation under way.
CreationInv(r) == pc[r] \in Creating =>
    /\ record[peer[r]] = None
    /\ \A s \in Requests \ {r} :
          /\ peer[s] # peer[r]
          /\ pc[s] \in Creating => peer[s] \in raced[peer[r]]

\* The address a creation has chosen is recorded for no other peer, but for
\* one whose creation overlapped its own.
ChosenInv(r) == pc[r] \in {"add", "record"} =>
    \A q \in Peers \ {peer[r]} :
        record[q] = host[r] => q \in raced[peer[r]]

RacedInv ==
    /\ RacedBothWays
    /\ \A r \in Requests : CreationInv(r) /\ ChosenInv(r)
    /\ AddressesDistinct

DistinctInv == AddressTypeInv /\ RacedInv

\* The first state.
LEMMA InitDistinct == Init => DistinctInv
  BY InitAddressTypeInv
  DEF Init, DistinctInv, RacedInv, RacedBothWays, CreationInv, ChosenInv,
     AddressesDistinct, Creating

\* Ending a request, when the history and the records stay as they are.
LEMMA EndDistinct ==
  ASSUME DistinctInv, NEW r \in Requests, End(r),
         UNCHANGED <<record, host, raced>>
  PROVE  RacedInv'
  BY NoneAssumption
  DEF DistinctInv, RacedInv, AddressTypeInv, TypeOK, End, RacedBothWays,
      CreationInv, ChosenInv, AddressesDistinct, Creating

\* Going on with one, to a step of a creation only from an earlier one, and
\* without choosing an address.
LEMMA GoDistinct ==
  ASSUME DistinctInv, NEW r \in Requests, pc[r] # "idle",
         NEW step \in Creating \cup Changing, Go(r, step),
         step \in Creating => pc[r] \in Creating,
         step \in {"add", "record"} => pc[r] = "add",
         UNCHANGED <<record, raced>>,
         \A s \in Requests \ {r} : host'[s] = host[s],
         pc[r] = "add" => host'[r] = host[r]
  PROVE  RacedInv'
  BY NoneAssumption
  DEF DistinctInv, RacedInv, AddressTypeInv, TypeOK, Go, RacedBothWays,
      CreationInv, ChosenInv, AddressesDistinct, Creating, Changing

\* Every step keeps two users from having one address, unless their
\* creations overlapped.
LEMMA NextDistinct == DistinctInv /\ [Next]_vars => DistinctInv'
  <1> SUFFICES ASSUME DistinctInv, [Next]_vars PROVE DistinctInv'
    OBVIOUS
  <1>0. AddressTypeInv'
    BY NextAddressTypeInv DEF DistinctInv
  <1>a. TypeOK
    BY DEF DistinctInv, AddressTypeInv
  <1> USE <1>a
  <1>1. ASSUME NEW r \in Requests, NEW p \in Peers, BeginCreate(r, p)
        PROVE  RacedInv'
    <2>1. /\ pc[r] = "idle" /\ peer[r] = None /\ record[p] = None
          /\ \A q \in Requests : peer[q] # p
          /\ pc' = [pc EXCEPT ![r] = "show"]
          /\ peer' = [peer EXCEPT ![r] = p]
          /\ host' = [host EXCEPT ![r] = None]
          /\ UNCHANGED record
      BY <1>1 DEF BeginCreate, Begin, TypeOK
    <2>2. p \notin Created
      BY <2>1 DEF Created
    <2>3. Created = {peer[s] : s \in {q \in Requests \ {r} :
                                         pc[q] \in Creating}}
      BY <2>1 DEF Created, Creating
    <2>4. /\ raced'[p] = Created
          /\ \A q \in Created : q \in Peers =>
                raced'[q] = raced[q] \cup {p}
          /\ \A q \in Peers \ {p} :
                q \notin Created => raced'[q] = raced[q] \ {p}
      BY <1>1, <2>2 DEF BeginCreate, TypeOK
    <2>5. RacedBothWays'
      BY <2>4 DEF DistinctInv, RacedInv, RacedBothWays
    <2>6. ASSUME NEW s \in Requests PROVE CreationInv(s)'
      BY <2>1, <2>3, <2>4, NoneAssumption
      DEF DistinctInv, RacedInv, CreationInv, TypeOK, Creating
    <2>7. ASSUME NEW s \in Requests PROVE ChosenInv(s)'
      <3>1. SUFFICES ASSUME pc'[s] \in {"add", "record"},
                            NEW q \in Peers \ {peer'[s]},
                            record'[q] = host'[s]
                     PROVE  q \in raced'[peer'[s]]
        BY DEF ChosenInv
      <3>2. s # r /\ pc[s] \in {"add", "record"} /\ peer'[s] = peer[s]
            /\ host'[s] = host[s]
        BY <2>1, <3>1 DEF TypeOK
      <3>3. q # p /\ q \in raced[peer[s]]
        BY <2>1, <3>1, <3>2, NoneAssumption
        DEF DistinctInv, RacedInv, ChosenInv, AddressTypeInv, HasAddress
      <3>4. peer[s] \in Peers /\ peer[s] \in Created
        BY <3>2, PeerOfRequest DEF Created, Creating
      <3>5. QED BY <2>4, <3>2, <3>3, <3>4
    <2>8. AddressesDistinct'
      BY <2>1, <2>4 DEF DistinctInv, RacedInv, AddressesDistinct
    <2>9. QED BY <2>5, <2>6, <2>7, <2>8 DEF RacedInv
  <1>2. ASSUME NEW r \in Requests, NEW p \in Peers,
               NEW step \in {"block", "unblock", "delete"},
               BeginChange(r, p, step)
        PROVE  RacedInv'
    BY <1>2, NoneAssumption
    DEF BeginChange, Begin, DistinctInv, RacedInv, TypeOK, RacedBothWays,
        CreationInv,
        ChosenInv, AddressesDistinct, Creating
  <1>3. ASSUME NEW r \in Requests, Show(r) PROVE RacedInv'
    BY <1>3, GoDistinct DEF Show, TypeOK, Creating
  <1>4. ASSUME NEW r \in Requests, Query(r) PROVE RacedInv'
    <2> DEFINE free == Hosts \ (used[r] \cup Recorded)
    <2>1. CASE free # {} /\ Go(r, "add")
               /\ host' = [host EXCEPT ![r] = Lowest(free)]
      <3>1. \A q \in Peers : record[q] # Lowest(free)
        BY <2>1, LowestIsFree, NoneAssumption DEF Recorded
      <3>2. host'[r] = Lowest(free)
        BY <2>1 DEF TypeOK
      <3> HIDE DEF free
      <3>3. QED
        BY <1>4, <2>1, <3>1, <3>2
        DEF Query, Go, DistinctInv, RacedInv, TypeOK, RacedBothWays,
            CreationInv,
            ChosenInv, AddressesDistinct, Creating
    <2>2. CASE End(r) /\ UNCHANGED host
      BY <1>4, <2>2, EndDistinct DEF Query
    <2>3. QED BY <1>4, <2>1, <2>2 DEF Query, Allocate
  <1>5. ASSUME NEW r \in Requests, Add(r) PROVE RacedInv'
    BY <1>5, GoDistinct, EndDistinct DEF Add, Creating
  <1>6. ASSUME NEW r \in Requests, Record(r) PROVE RacedInv'
    <2>1. /\ pc[r] = "record" /\ peer[r] \in Peers
          /\ record' = [record EXCEPT ![peer[r]] = host[r]]
          /\ pc' = [pc EXCEPT ![r] = "idle"]
          /\ peer' = [peer EXCEPT ![r] = None]
          /\ UNCHANGED <<host, raced>>
      BY <1>6, PeerOfRequest DEF Record, End
    <2>2. \A s \in Requests \ {r} : peer[s] # peer[r]
      BY <2>1 DEF DistinctInv, RacedInv, CreationInv, Creating
    <2>3. \A q \in Peers \ {peer[r]} : record[q] = host[r] =>
             q \in raced[peer[r]] /\ peer[r] \in raced[q]
      BY <2>1 DEF DistinctInv, RacedInv, ChosenInv, RacedBothWays
    <2>4. \A s \in Requests : CreationInv(s)'
      BY <2>1, <2>2 DEF DistinctInv, RacedInv, CreationInv, TypeOK, Creating
    <2>5. ASSUME NEW s \in Requests PROVE ChosenInv(s)'
      <3>1. CASE s = r
        BY <2>1, <3>1 DEF ChosenInv, TypeOK
      <3>2. CASE s # r /\ pc[s] \in {"add", "record"}
        <4>1. peer[r] \in raced[peer[s]]
          BY <2>1, <3>2 DEF DistinctInv, RacedInv, CreationInv, Creating
        <4>2. QED
          BY <2>1, <3>2, <4>1 DEF DistinctInv, RacedInv, ChosenInv, TypeOK
      <3>3. QED BY <2>1, <3>1, <3>2 DEF ChosenInv, TypeOK
    <2>6. AddressesDistinct'
      BY <2>1, <2>3 DEF DistinctInv, RacedInv, AddressesDistinct, TypeOK
    <2>7. RacedBothWays'
      BY <2>1 DEF DistinctInv, RacedInv, RacedBothWays
    <2>8. QED BY <2>4, <2>5, <2>6, <2>7 DEF RacedInv
  <1>7. ASSUME NEW r \in Requests, LookUpAddress(r) PROVE RacedInv'
    <2>1. CASE End(r) /\ UNCHANGED host
      BY <1>7, <2>1, EndDistinct DEF LookUpAddress
    <2>2. CASE /\ \E step \in {"blocking", "unblocking", "deleting"} :
                     Go(r, step)
               /\ host' = [host EXCEPT ![r] = record[peer[r]]]
      BY <1>7, <2>2, GoDistinct DEF LookUpAddress, TypeOK, Creating, Changing
    <2>3. QED BY <1>7, <2>1, <2>2 DEF LookUpAddress
  <1>8. ASSUME NEW r \in Requests, RemovePeer(r) PROVE RacedInv'
    BY <1>8, GoDistinct, EndDistinct DEF RemovePeer, Creating, Changing
  <1>9. ASSUME NEW r \in Requests, Forget(r) PROVE RacedInv'
    BY <1>9, PeerOfRequest, NoneAssumption
    DEF Forget, End, DistinctInv, RacedInv, AddressTypeInv, HasAddress, TypeOK,
        RacedBothWays,
        CreationInv, ChosenInv, AddressesDistinct, Creating
  <1>10. ASSUME NEW r \in Requests, Unblock(r) PROVE RacedInv'
    BY <1>10, EndDistinct DEF Unblock
  <1>11. ASSUME NEW r \in Requests, Abort(r) PROVE RacedInv'
    BY <1>11, EndDistinct DEF Abort
  <1>12. ASSUME InterfaceRestart PROVE RacedInv'
    BY <1>12
    DEF InterfaceRestart, DistinctInv, RacedInv, RacedBothWays, CreationInv,
        ChosenInv, AddressesDistinct
  <1>13. ASSUME UNCHANGED vars PROVE RacedInv'
    BY <1>13
    DEF vars, DistinctInv, RacedInv, RacedBothWays, CreationInv,
        ChosenInv, AddressesDistinct
  <1>14. RacedInv'
    BY <1>1, <1>2, <1>3, <1>4, <1>5, <1>6, <1>7, <1>8, <1>9, <1>10, <1>11,
       <1>12, <1>13 DEF Next
  <1>15. QED BY <1>0, <1>14 DEF DistinctInv

\* Two users are recorded with the same address only if their creations
\* overlapped, whatever calls failed and however requests were cut off, for
\* any number of users and requests.
THEOREM Distinct == Spec => []AddressesDistinct
  <1>1. DistinctInv => AddressesDistinct
    BY DEF DistinctInv, RacedInv
  <1>2. QED BY <1>1, InitDistinct, NextDistinct, PTL DEF Spec

-----------------------------------------------------------------------------
(* Careful operation *)

\* One request at a time, and no creations that overlapped.
AloneInv ==
    /\ \A r, s \in Requests : r # s => pc[r] = "idle" \/ pc[s] = "idle"
    /\ \A p \in Peers : raced[p] = {}

\* What the interface shows: no address twice, and none that is recorded
\* for another peer.
ShownInv == \A p \in Peers :
    /\ live[p] # Bare
    /\ \A q \in Peers \ {p} : live[p] \in Hosts =>
          record[q] # live[p] /\ live[q] # live[p]

\* What the request under way found is still so: all the interface shows is
\* in use, the address it chose is no other peer's, and the one it looked up
\* is the one recorded.
FoundInv(r) ==
    /\ pc[r] = "query" => Shown \subseteq used[r]
    /\ pc[r] \in {"add", "record"} =>
          \A q \in Peers \ {peer[r]} :
              record[q] # host[r] /\ live[q] # host[r]
    /\ pc[r] \in {"blocking", "unblocking", "deleting"} =>
          record[peer[r]] = host[r]

CarefulInv ==
    careful => AloneInv /\ ShownInv /\ \A r \in Requests : FoundInv(r)

AddressInv == DistinctInv /\ CarefulInv

\* The first state.
LEMMA InitCareful == Init => CarefulInv
  BY NoneAssumption DEF Init, CarefulInv, AloneInv, ShownInv, FoundInv

\* While requests are careful, no two peers have one address recorded.
LEMMA CarefulRecords ==
  ASSUME DistinctInv, AloneInv, NEW p \in Peers, NEW q \in Peers \ {p},
         record[p] # None
  PROVE  record[q] # record[p]
  BY DEF DistinctInv, RacedInv, AddressesDistinct, AloneInv

\* A request that is cut off or over leaves nothing to be true of it.
LEMMA EndCareful ==
  ASSUME AddressInv, careful, NEW r \in Requests, pc[r] # "idle", End(r),
         UNCHANGED raced
  PROVE  AloneInv' /\ \A s \in Requests : pc'[s] = "idle"
  BY DEF AddressInv, DistinctInv, AddressTypeInv, TypeOK, CarefulInv,
         AloneInv, End

\* One that goes on is still alone.
LEMMA GoCareful ==
  ASSUME AddressInv, careful, NEW r \in Requests, pc[r] # "idle",
         NEW step, Go(r, step), UNCHANGED raced
  PROVE  /\ AloneInv'
         /\ \A s \in Requests \ {r} : pc'[s] = "idle"
         /\ pc'[r] = step /\ peer'[r] = peer[r]
  BY DEF AddressInv, DistinctInv, AddressTypeInv, TypeOK, CarefulInv,
         AloneInv, Go

\* An address that is no other peer's is taken from none.
LEMMA AssignFree ==
  ASSUME ShownInv, NEW p \in Peers, NEW h \in Hosts, Assign(p, h),
         \A q \in Peers \ {p} : live[q] # h /\ record[q] # h,
         UNCHANGED record
  PROVE  /\ ShownInv'
         /\ live'[p] = h /\ \A q \in Peers \ {p} : live'[q] = live[q]
  <1>1. live'[p] = h /\ \A q \in Peers \ {p} : live'[q] = live[q]
    BY DEF Assign
  <1>2. QED
    BY <1>1, HostsAssumption, NoneAssumption DEF ShownInv

\* What a careful step has to show.
CarefulParts == AloneInv /\ ShownInv /\ \A r \in Requests : FoundInv(r)

\* Every step of the requests and every restart of the interface keeps the
\* addresses apart while operation is careful.
LEMMA NextCareful == AddressInv /\ [Next]_vars => CarefulInv'
  <1> SUFFICES ASSUME AddressInv, [Next]_vars, careful' PROVE CarefulParts'
    BY DEF CarefulInv, CarefulParts
  <1>a. TypeOK /\ HasAddress /\ DistinctInv
    BY DEF AddressInv, DistinctInv, AddressTypeInv
  <1>b. careful => CarefulParts
    BY DEF AddressInv, CarefulInv, CarefulParts
  <1> USE <1>a, <1>b
  <1>1. ASSUME NEW r \in Requests, NEW p \in Peers, BeginCreate(r, p)
        PROVE  CarefulParts'
    <2>1. /\ careful /\ \A q \in Requests : pc[q] = "idle"
          /\ pc' = [pc EXCEPT ![r] = "show"]
          /\ UNCHANGED <<record, live>>
      BY <1>1 DEF BeginCreate, Begin
    <2>2. Created = {}
      BY <2>1 DEF Created, Creating
    <2>3. AloneInv'
      BY <1>1, <2>1, <2>2 DEF BeginCreate, AloneInv, CarefulParts, TypeOK
    <2>4. ShownInv'
      BY <2>1 DEF CarefulParts, ShownInv
    <2>5. \A s \in Requests : FoundInv(s)'
      BY <2>1 DEF FoundInv, TypeOK
    <2>6. QED BY <2>3, <2>4, <2>5 DEF CarefulParts
  <1>2. ASSUME NEW r \in Requests, NEW p \in Peers,
               NEW step \in {"block", "unblock", "delete"},
               BeginChange(r, p, step)
        PROVE  CarefulParts'
    <2>1. /\ careful /\ \A q \in Requests : pc[q] = "idle"
          /\ pc' = [pc EXCEPT ![r] = step]
          /\ UNCHANGED <<record, live, raced>>
      BY <1>2 DEF BeginChange, Begin
    <2>2. AloneInv'
      BY <2>1 DEF AloneInv, CarefulParts, TypeOK
    <2>3. ShownInv'
      BY <2>1 DEF CarefulParts, ShownInv
    <2>4. \A s \in Requests : FoundInv(s)'
      BY <2>1 DEF FoundInv, TypeOK
    <2>5. QED BY <2>2, <2>3, <2>4 DEF CarefulParts
  <1>3. ASSUME NEW r \in Requests, Show(r) PROVE CarefulParts'
    <2>1. careful /\ used' = [used EXCEPT ![r] = Shown] /\ Go(r, "query")
          /\ UNCHANGED <<record, live, raced>> /\ pc[r] = "show"
      BY <1>3 DEF Show
    <2>2. /\ AloneInv' /\ \A s \in Requests \ {r} : pc'[s] = "idle"
          /\ pc'[r] = "query"
      BY <2>1, GoCareful
    <2>3. ShownInv'
      BY <2>1 DEF CarefulParts, ShownInv
    <2>4. Shown' = Shown
      BY <2>1 DEF Shown
    <2>5. \A s \in Requests : FoundInv(s)'
      BY <2>1, <2>2, <2>4 DEF FoundInv, TypeOK
    <2>6. QED BY <2>2, <2>3, <2>5 DEF CarefulParts
  <1>4. ASSUME NEW r \in Requests, Query(r) PROVE CarefulParts'
    <2>1. /\ careful /\ pc[r] = "query" /\ peer[r] \in Peers
          /\ UNCHANGED <<record, live, raced>>
      BY <1>4, PeerOfRequest DEF Query
    <2>2. ShownInv'
      BY <2>1 DEF CarefulParts, ShownInv
    <2> DEFINE free == Hosts \ (used[r] \cup Recorded)
    <2>3. CASE free # {} /\ Go(r, "add")
               /\ host' = [host EXCEPT ![r] = Lowest(free)]
      <3>1. /\ AloneInv' /\ \A s \in Requests \ {r} : pc'[s] = "idle"
            /\ pc'[r] = "add" /\ peer'[r] = peer[r]
            /\ host'[r] = Lowest(free)
        BY <2>1, <2>3, GoCareful DEF TypeOK
      <3>2. Lowest(free) \in free
        BY <2>3, LowestIsFree
      <3>3. \A q \in Peers : record[q] # Lowest(free)
        BY <3>2, NoneAssumption DEF Recorded
      <3>4. \A q \in Peers : live[q] # Lowest(free)
        BY <2>1, <3>2 DEF CarefulParts, FoundInv, Shown
      <3> HIDE DEF free
      <3>5. FoundInv(r)'
        BY <2>1, <3>1, <3>3, <3>4 DEF FoundInv
      <3>6. QED
        BY <2>2, <3>1, <3>5 DEF CarefulParts, FoundInv
    <2>4. CASE End(r)
      BY <2>1, <2>2, <2>4, EndCareful DEF CarefulParts, FoundInv
    <2>5. QED BY <1>4, <2>3, <2>4 DEF Query, Allocate
  <1>5. ASSUME NEW r \in Requests, Add(r) PROVE CarefulParts'
    <2>1. /\ careful /\ pc[r] = "add" /\ peer[r] \in Peers
          /\ host[r] \in Hosts
          /\ UNCHANGED <<record, host, raced>>
      BY <1>5, PeerOfRequest DEF Add, HasAddress
    <2>2. \A q \in Peers \ {peer[r]} :
             record[q] # host[r] /\ live[q] # host[r]
      BY <2>1 DEF CarefulParts, FoundInv
    <2>3. ShownInv' /\ \A q \in Peers \ {peer[r]} : live'[q] = live[q]
      <3>1. CASE Assign(peer[r], host[r])
        BY <2>1, <2>2, <3>1, AssignFree DEF CarefulParts
      <3>2. CASE UNCHANGED live
        BY <2>1, <3>2 DEF CarefulParts, ShownInv
      <3>3. QED BY <1>5, <3>1, <3>2 DEF Add
    <2>4. CASE Go(r, "record")
      BY <2>1, <2>2, <2>3, <2>4, GoCareful DEF CarefulParts, FoundInv
    <2>5. CASE End(r)
      BY <2>1, <2>3, <2>5, EndCareful DEF CarefulParts, FoundInv
    <2>6. QED BY <1>5, <2>4, <2>5 DEF Add
  <1>6. ASSUME NEW r \in Requests, Record(r) PROVE CarefulParts'
    <2>1. /\ careful /\ pc[r] = "record" /\ peer[r] \in Peers
          /\ record' = [record EXCEPT ![peer[r]] = host[r]]
          /\ End(r) /\ UNCHANGED <<live, raced>>
      BY <1>6, PeerOfRequest DEF Record
    <2>2. \A q \in Peers \ {peer[r]} : live[q] # host[r]
      BY <2>1 DEF CarefulParts, FoundInv
    <2>3. ShownInv'
      BY <2>1, <2>2 DEF CarefulParts, ShownInv, TypeOK
    <2>4. QED BY <2>1, <2>3, EndCareful DEF CarefulParts, FoundInv
  <1>7. ASSUME NEW r \in Requests, LookUpAddress(r) PROVE CarefulParts'
    <2>1. /\ careful /\ pc[r] # "idle" /\ UNCHANGED <<record, live, raced>>
      BY <1>7 DEF LookUpAddress
    <2>2. ShownInv'
      BY <2>1 DEF CarefulParts, ShownInv
    <2>3. CASE End(r)
      BY <2>1, <2>2, <2>3, EndCareful DEF CarefulParts, FoundInv
    <2>4. ASSUME NEW step \in {"blocking", "unblocking", "deleting"},
                 Go(r, step),
                 host' = [host EXCEPT ![r] = record[peer[r]]]
          PROVE  CarefulParts'
      <3>1. /\ AloneInv' /\ \A s \in Requests \ {r} : pc'[s] = "idle"
            /\ pc'[r] = step /\ peer'[r] = peer[r]
        BY <2>1, <2>4, GoCareful
      <3>2. QED
        BY <2>1, <2>2, <2>4, <3>1 DEF CarefulParts, FoundInv, TypeOK
    <2>5. QED BY <1>7, <2>3, <2>4 DEF LookUpAddress
  <1>8. ASSUME NEW r \in Requests, RemovePeer(r) PROVE CarefulParts'
    <2>1. /\ careful /\ pc[r] # "idle" /\ peer[r] \in Peers
          /\ UNCHANGED <<record, raced>>
      BY <1>8, PeerOfRequest DEF RemovePeer
    <2>2. \A p \in Peers : live'[p] \in {live[p], Absent}
      BY <1>8 DEF RemovePeer, TypeOK
    <2>3. ShownInv'
      BY <2>1, <2>2, NoneAssumption DEF CarefulParts, ShownInv
    <2>4. CASE End(r)
      BY <2>1, <2>3, <2>4, EndCareful DEF CarefulParts, FoundInv
    <2>5. CASE Go(r, "forget")
      BY <2>1, <2>3, <2>5, GoCareful DEF CarefulParts, FoundInv
    <2>6. QED BY <1>8, <2>4, <2>5 DEF RemovePeer
  <1>9. ASSUME NEW r \in Requests, Forget(r) PROVE CarefulParts'
    <2>1. /\ careful /\ pc[r] # "idle" /\ peer[r] \in Peers
          /\ record' = [record EXCEPT ![peer[r]] = None]
          /\ End(r) /\ UNCHANGED <<live, raced>>
      BY <1>9, PeerOfRequest DEF Forget
    <2>2. ShownInv'
      BY <2>1, NoneAssumption DEF CarefulParts, ShownInv, TypeOK
    <2>3. QED BY <2>1, <2>2, EndCareful DEF CarefulParts, FoundInv
  <1>10. ASSUME NEW r \in Requests, Unblock(r) PROVE CarefulParts'
    <2>1. /\ careful /\ pc[r] = "unblocking" /\ peer[r] \in Peers
          /\ host[r] \in Hosts /\ record[peer[r]] = host[r]
          /\ End(r) /\ UNCHANGED <<record, raced>>
      BY <1>10, PeerOfRequest
      DEF Unblock, HasAddress, CarefulParts, FoundInv
    <2>2. \A q \in Peers \ {peer[r]} : record[q] # host[r]
      BY <2>1, CarefulRecords, NoneAssumption DEF CarefulParts
    <2>3. \A q \in Peers \ {peer[r]} : live[q] # host[r]
      BY <2>1 DEF CarefulParts, ShownInv
    <2>4. ShownInv'
      <3>1. CASE Assign(peer[r], host[r])
        BY <2>1, <2>2, <2>3, <3>1, AssignFree DEF CarefulParts
      <3>2. CASE UNCHANGED live
        BY <2>1, <3>2 DEF CarefulParts, ShownInv
      <3>3. QED BY <1>10, <3>1, <3>2 DEF Unblock
    <2>5. QED BY <2>1, <2>4, EndCareful DEF CarefulParts, FoundInv
  <1>11. ASSUME NEW r \in Requests, Abort(r) PROVE CarefulParts'
    <2>1. careful /\ pc[r] # "idle" /\ End(r)
          /\ UNCHANGED <<record, live, raced>>
      BY <1>11 DEF Abort
    <2>2. ShownInv'
      BY <2>1 DEF CarefulParts, ShownInv
    <2>3. QED BY <2>1, <2>2, EndCareful DEF CarefulParts, FoundInv
  <1>12. ASSUME InterfaceRestart PROVE CarefulParts'
    <2>1. /\ \A p \in Peers : live'[p] = Absent
          /\ UNCHANGED <<record, pc, peer, used, host, raced, careful>>
      BY <1>12 DEF InterfaceRestart
    <2>2. ShownInv'
      BY <2>1, NoneAssumption DEF ShownInv
    <2>3. Shown' = {}
      BY <2>1, NoneAssumption DEF Shown
    <2>4. ASSUME NEW r \in Requests PROVE FoundInv(r)'
      <3>1. pc[r] # "idle" => peer[r] \in Peers
        BY PeerOfRequest
      <3>2. QED
        BY <2>1, <2>3, <3>1, NoneAssumption
        DEF CarefulParts, FoundInv, HasAddress
    <2>5. AloneInv'
      BY <2>1 DEF CarefulParts, AloneInv
    <2>6. QED BY <2>2, <2>4, <2>5 DEF CarefulParts
  <1>13. ASSUME UNCHANGED vars PROVE CarefulParts'
    BY <1>13 DEF vars, CarefulParts, AloneInv, ShownInv, FoundInv, Shown
  <1>14. QED
    BY <1>1, <1>2, <1>3, <1>4, <1>5, <1>6, <1>7, <1>8, <1>9, <1>10, <1>11,
       <1>12, <1>13 DEF Next

\* As long as requests do not overlap and the interface can be queried, no
\* peer loses its address to another, for any number of users, through any
\* number of failing calls, cut off requests and restarts of the interface.
THEOREM Careful == Spec => []CarefulKeepsAddresses
  <1>1. Init => AddressInv
    BY InitDistinct, InitCareful DEF AddressInv
  <1>2. AddressInv /\ [Next]_vars => AddressInv'
    BY NextDistinct, NextCareful DEF AddressInv
  <1>3. AddressInv => CarefulKeepsAddresses
    BY DEF AddressInv, CarefulInv, ShownInv, CarefulKeepsAddresses
  <1>4. QED BY <1>1, <1>2, <1>3, PTL DEF Spec

-----------------------------------------------------------------------------
(* The GeoIP database *)

\* What a refresh has checked is good, and is on disk once it has replaced
\* the file.
GeoInv ==
    /\ GeoTypeOK
    /\ refresh.at \in {"fetch", "rename"} => refresh.url > 0
    /\ refresh.at \in {"rename", "adopt"} => refresh.got \in Databases
    /\ refresh.at = "adopt" => geoFile = refresh.got
    /\ ServesTheFile

\* It holds at first ...
LEMMA InitGeoInv == GeoInit => GeoInv
  <1> SUFFICES ASSUME GeoInit PROVE GeoInv
    OBVIOUS
  <1>1. /\ refresh.at = "idle" /\ geoLoaded = FALSE
        /\ NoRefresh \in [at : {"idle", "fetch", "rename", "adopt"},
                          url : 0 .. Urls, got : Contents]
        /\ NoDatabase \in Contents
    BY GeoIPManagerAssumption DEF GeoInit, NoRefresh, Contents
  <1>2. GeoTypeOK
    BY <1>1 DEF GeoInit, GeoTypeOK
  <1>3. QED BY <1>1, <1>2 DEF GeoInv, ServesTheFile

\* ... and every step keeps it.
LEMMA NextGeoInv == GeoInv /\ [GeoNext]_geoVars => GeoInv'
  <1> SUFFICES ASSUME GeoInv, [GeoNext]_geoVars PROVE GeoInv'
    OBVIOUS
  <1>a. /\ GeoTypeOK /\ ServesTheFile /\ Urls \in Nat \ {0}
        /\ Databases \subseteq Contents /\ NoDatabase \in Contents
        /\ NoRefresh \in [at : {"idle", "fetch", "rename", "adopt"},
                          url : 0 .. Urls, got : Contents]
    BY GeoIPManagerAssumption DEF GeoInv, Contents, NoRefresh
  <1>b. /\ refresh.url \in 0 .. Urls
        /\ refresh = [at |-> refresh.at, url |-> refresh.url,
                      got |-> refresh.got]
    BY <1>a DEF GeoTypeOK
  <1> USE DEF GeoInv, GeoTypeOK, ServesTheFile
  <1>1. CASE Load
    BY <1>a, <1>1 DEF Load
  <1>2. CASE BeginRefresh
    BY <1>a, <1>2 DEF BeginRefresh
  \* The next address, when nothing else has changed.
  <1>c. ASSUME NextUrl, refresh.url > 0, refresh.at # "adopt",
               UNCHANGED <<geoFile, served, geoLoaded, starting>>
        PROVE  GeoInv'
    <2>1. CASE /\ refresh.url < Urls
               /\ refresh' = [refresh EXCEPT !.at = "fetch", !.url = @ + 1]
               /\ UNCHANGED geoError
      <3>1. refresh.url + 1 \in 0 .. Urls /\ refresh.url + 1 > 0
        BY <1>a, <1>b, <2>1
      <3>2. refresh' = [at |-> "fetch", url |-> refresh.url + 1,
                        got |-> refresh.got]
        BY <1>b, <2>1
      <3>3. QED BY <1>a, <1>c, <2>1, <3>1, <3>2
    <2>2. CASE refresh' = NoRefresh /\ geoError' = TRUE
      BY <1>a, <1>c, <2>2 DEF NoRefresh
    <2>3. QED BY <1>c, <2>1, <2>2 DEF NextUrl
  <1>3. CASE Fetch
    <2>1. ASSUME NEW got \in Databases, UNCHANGED geoError,
                 refresh' = [refresh EXCEPT !.at = "rename", !.got = got]
          PROVE  GeoInv'
      <3>1. refresh' = [at |-> "rename", url |-> refresh.url, got |-> got]
        BY <1>b, <2>1
      <3>2. refresh.url > 0 /\ refresh.at = "fetch"
        BY <1>3 DEF Fetch
      <3>3. QED BY <1>a, <1>b, <1>3, <2>1, <3>1, <3>2 DEF Fetch
    <2>2. QED BY <1>3, <1>c, <2>1 DEF Fetch
  <1>4. CASE Replace
    <2>1. CASE /\ geoFile' = refresh.got
               /\ refresh' = [refresh EXCEPT !.at = "adopt"]
               /\ UNCHANGED geoError
      <3>1. refresh' = [at |-> "adopt", url |-> refresh.url,
                        got |-> refresh.got]
        BY <1>b, <2>1
      <3>2. refresh.got \in Databases
        BY <1>4 DEF Replace
      <3>3. QED BY <1>a, <1>b, <1>4, <2>1, <3>1, <3>2 DEF Replace
    <2>2. QED BY <1>4, <1>c, <2>1 DEF Replace
  <1>5. CASE Adopt
    BY <1>a, <1>5 DEF Adopt, NoRefresh
  <1>6. CASE Cleanup
    BY <1>a, <1>6 DEF Cleanup
  <1>7. CASE GeoRestart
    BY <1>a, <1>7 DEF GeoRestart, NoRefresh
  <1>8. CASE UNCHANGED geoVars
    BY <1>a, <1>8 DEF geoVars
  <1>9. QED
    BY <1>1, <1>2, <1>3, <1>4, <1>5, <1>6, <1>7, <1>8 DEF GeoNext

\* So it always holds.
LEMMA GeoInvHolds == GeoSpec => []GeoInv
  BY InitGeoInv, NextGeoInv, PTL DEF GeoSpec

\* The file, the index and the refresh are always of their types: no address
\* is tried beyond the last.
THEOREM GeoTypeCorrect == GeoSpec => []GeoTypeOK
  <1>1. GeoInv => GeoTypeOK
    BY DEF GeoInv
  <1>2. QED BY <1>1, GeoInvHolds, PTL

\* Whatever fails, and whenever the process loads, cleans up or stops: the
\* database served is the one a restart would load, but for the moment
\* between the rename and the adoption.
THEOREM FileServed == GeoSpec => []ServesTheFile
  <1>1. GeoInv => ServesTheFile
    BY DEF GeoInv
  <1>2. QED BY <1>1, GeoInvHolds, PTL

\* And no step puts a bad database in the place of a good one.
THEOREM GoodDatabaseKept == GeoSpec => KeepsGoodDatabase
  <1> DEFINE Kept == /\ geoFile \in Databases => geoFile' \in Databases
                     /\ geoLoaded /\ geoLoaded' /\ served \in Databases
                            => served' \in Databases
  <1>1. GeoInv /\ [GeoNext]_geoVars => [Kept]_geoVars
    BY DEF GeoInv, ServesTheFile, GeoTypeOK, GeoNext, Load, BeginRefresh,
           Fetch, Replace, NextUrl, Adopt, Cleanup, GeoRestart
  <1>2. GeoSpec => [][Kept]_geoVars
    BY <1>1, GeoInvHolds, PTL DEF GeoSpec
  <1>3. QED BY <1>2 DEF KeepsGoodDatabase

-----------------------------------------------------------------------------
(* The cached address of a server *)

\* A lookup about to store holds an address found under the name it read.
LookupInv(l) ==
    lookup[l].at = "store" =>
        <<lookup[l].row.hostname, lookup[l].address>> \in resolved

TransportInv ==
    /\ TransportTypeOK
    /\ lookup \in [Lookups -> [at : {"idle", "lookup", "store"},
                               row : Servers,
                               address : Addresses \cup {NoAddress}]]
    /\ \A l \in Lookups : LookupInv(l)
    /\ CachedPairResolved

\* It holds at first ...
LEMMA InitTransportInv == TransportInit => TransportInv
  BY DEF TransportInit, TransportInv, TransportTypeOK, LookupInv,
         CachedPairResolved

\* ... and every step keeps it.
LEMMA NextTransportInv ==
  TransportInv /\ [TransportNext]_transportVars => TransportInv'
  <1> SUFFICES ASSUME TransportInv, [TransportNext]_transportVars
               PROVE  TransportInv'
    OBVIOUS
  <1>a. /\ TransportTypeOK /\ CachedPairResolved
        /\ lookup \in [Lookups -> [at : {"idle", "lookup", "store"},
                                   row : Servers,
                                   address : Addresses \cup {NoAddress}]]
        /\ \A l \in Lookups : LookupInv(l)
    BY DEF TransportInv
  <1> USE DEF TransportInv, TransportTypeOK, Is, EndLookup
  <1>1. ASSUME NEW l \in Lookups, ReadServer(l) PROVE TransportInv'
    BY <1>a, <1>1 DEF ReadServer, LookupInv, CachedPairResolved
  <1>2. ASSUME NEW l \in Lookups, LookUp(l) PROVE TransportInv'
    <2>1. lookup[l].row.hostname \in Hostnames
      BY <1>a DEF Servers
    <2>2. tailnet[lookup[l].row.hostname] \in Addresses \cup {NoAddress}
      BY <1>a, <2>1
    <2>3. /\ resolved \subseteq resolved'
          /\ resolved' \subseteq Hostnames \X Addresses
      BY <1>a, <1>2, <2>1, <2>2 DEF LookUp
    <2>4. /\ server' = server /\ tailnet' = tailnet
          /\ lookup' \in [Lookups -> [at : {"idle", "lookup", "store"},
                                      row : Servers,
                                      address : Addresses \cup {NoAddress}]]
      BY <1>a, <1>2, <2>2 DEF LookUp
    <2>5. ASSUME NEW k \in Lookups PROVE LookupInv(k)'
      <3>1. CASE k = l
        BY <1>a, <1>2, <2>1, <3>1 DEF LookUp, LookupInv
      <3>2. CASE k # l
        BY <1>a, <1>2, <2>3, <3>2 DEF LookUp, LookupInv
      <3>3. QED BY <3>1, <3>2
    <2>6. CachedPairResolved'
      BY <1>a, <2>3, <2>4 DEF CachedPairResolved
    <2>7. QED BY <1>a, <2>3, <2>4, <2>5, <2>6
  <1>3. ASSUME NEW l \in Lookups, CacheBack(l) PROVE TransportInv'
    <2>1. /\ <<lookup[l].row.hostname, lookup[l].address>> \in resolved
          /\ lookup[l].row.hostname \in Hostnames
          /\ lookup[l].address \in Addresses
      BY <1>a, <1>3 DEF CacheBack, LookupInv
    <2>2. server' = server
          \/ /\ server' \in Servers
             /\ server'.tailnetIP = lookup[l].address
             /\ server'.tailnetHostname = lookup[l].row.hostname
      BY <1>a, <1>3, <2>1 DEF CacheBack, Pair, Servers
    <2>3. UNCHANGED <<tailnet, resolved>>
      BY <1>3 DEF CacheBack
    <2>4. CachedPairResolved'
      BY <1>a, <2>1, <2>2, <2>3 DEF CachedPairResolved
    <2>5. lookup' \in [Lookups -> [at : {"idle", "lookup", "store"},
                                   row : Servers,
                                   address : Addresses \cup {NoAddress}]]
      <3>1. lookup' = [lookup EXCEPT ![l].at = "idle",
                                     ![l].address = NoAddress]
        BY <1>3 DEF CacheBack
      <3>2. lookup[l] \in [at : {"idle", "lookup", "store"}, row : Servers,
                           address : Addresses \cup {NoAddress}]
        BY <1>a
      <3> HIDE DEF TransportInv, TransportTypeOK
      <3>3. QED BY <1>a, <3>1, <3>2
    <2>6. ASSUME NEW k \in Lookups PROVE LookupInv(k)'
      <3>1. CASE k = l
        BY <1>a, <1>3, <3>1 DEF CacheBack, LookupInv
      <3>2. CASE k # l
        BY <1>a, <1>3, <2>3, <3>2 DEF CacheBack, LookupInv
      <3>3. QED BY <3>1, <3>2
    <2>7. QED BY <1>a, <2>2, <2>3, <2>4, <2>5, <2>6
  <1>4. CASE Rename
    <2>1. /\ server' \in Servers /\ server'.tailnetIP = server.tailnetIP
          /\ server'.tailnetHostname = server.tailnetHostname
      BY <1>a, <1>4 DEF Rename, Servers
    <2>2. QED BY <1>a, <1>4, <2>1 DEF Rename, LookupInv, CachedPairResolved
  <1>5. CASE TailnetChanges
    BY <1>a, <1>5 DEF TailnetChanges, LookupInv, CachedPairResolved
  <1>6. CASE UNCHANGED transportVars
    BY <1>a, <1>6 DEF transportVars, LookupInv, CachedPairResolved
  <1>7. QED
    BY <1>1, <1>2, <1>3, <1>4, <1>5, <1>6 DEF TransportNext

\* So it always holds.
LEMMA TransportInvHolds == TransportSpec => []TransportInv
  BY InitTransportInv, NextTransportInv, PTL DEF TransportSpec

\* The row, the tailnet and the lookups are always of their types.
THEOREM TransportTypeCorrect == TransportSpec => []TransportTypeOK
  <1>1. TransportInv => TransportTypeOK
    BY DEF TransportInv
  <1>2. QED BY <1>1, TransportInvHolds, PTL

\* However many lookups overlap, and with renames and a changing tailnet in
\* between: the name and the address in the row were found together.
THEOREM PairResolved == TransportSpec => []CachedPairResolved
  <1>1. TransportInv => CachedPairResolved
    BY DEF TransportInv
  <1>2. QED BY <1>1, TransportInvHolds, PTL

-----------------------------------------------------------------------------
(* The limit on logins *)

\* The comparisons f of an address with bucket b: those of its window are
\* counted there, those before it were by the bucket that expired then.
Covered(b, f) ==
    /\ b.count = 0 => b.left = 0
    /\ b.left = 0 => f[0] = 0 /\ \A t \in 0 .. Window - 1 : f[t] <= MaxAttempts
    /\ b.left > 0 =>
          \A t \in 0 .. Window - 1 :
             /\ f[t] <= b.count + MaxAttempts
             /\ t <= Window - b.left => f[t] <= b.count

\* What an address tries is covered by its bucket.
LoginInv ==
    /\ LoginTypeOK
    /\ \A ip \in Ips : Covered(loginAttempts[ip], tried[ip])

\* The numbers of comparisons over the last ticks.
Counts == [0 .. Window - 1 -> Nat]

\* One more, or one tick older: they are numbers still.
LEMMA CountsStep ==
  ASSUME NEW f \in Counts
  PROVE  /\ NoneTried \in Counts /\ OneMore(f) \in Counts /\ Aged(f) \in Counts
         /\ \A t \in 0 .. Window - 1 :
               /\ NoneTried[t] = 0
               /\ OneMore(f)[t] = f[t] + 1
               /\ Aged(f)[t] = IF t = 0 THEN 0 ELSE f[t - 1]
  BY LoginAssumption DEF Counts, NoneTried, OneMore, Aged

\* A bucket with its slots, as numbers.
LEMMA BucketTypes ==
  ASSUME NEW b \in Buckets(MaxAttempts), NEW f \in Counts
  PROVE  /\ b.count \in 0 .. MaxAttempts /\ b.left \in 0 .. Window
         /\ \A t \in 0 .. Window - 1 : f[t] \in Nat
         /\ MaxAttempts \in Nat /\ MaxAttempts > 0
         /\ Window \in Nat /\ Window > 0
         /\ 0 \in 0 .. Window - 1
  BY LoginAssumption DEF Buckets, Counts

\* A slot more in a bucket that has not expired covers a comparison more.
LEMMA CoveredAgain ==
  ASSUME NEW b \in Buckets(MaxAttempts), NEW f \in Counts, Covered(b, f),
         b.left > 0, b.count < MaxAttempts,
         NEW g \in Counts, g = f \/ g = OneMore(f)
  PROVE  LET c == [b EXCEPT !.count = @ + 1]
         IN  c \in Buckets(MaxAttempts) /\ Covered(c, g)
  <1> DEFINE c == [b EXCEPT !.count = @ + 1]
  <1>1. b.count + 1 \in 0 .. MaxAttempts
    BY BucketTypes
  <1>2. c \in Buckets(MaxAttempts) /\ c.count = b.count + 1 /\ c.left = b.left
    BY <1>1 DEF Buckets
  <1> HIDE DEF c
  <1>3. \A t \in 0 .. Window - 1 : g[t] <= f[t] + 1
    BY CountsStep, BucketTypes
  <1>4. ASSUME NEW t \in 0 .. Window - 1
        PROVE  /\ g[t] <= c.count + MaxAttempts
               /\ t <= Window - c.left => g[t] <= c.count
    <2>1. /\ f[t] <= b.count + MaxAttempts
          /\ t <= Window - b.left => f[t] <= b.count
      BY DEF Covered
    <2>2. f[t] \in Nat /\ g[t] \in Nat
      BY BucketTypes
    <2>3. QED BY <1>2, <1>3, <2>1, <2>2, BucketTypes
  <1>5. c.count # 0 /\ c.left > 0 /\ ~ (c.left = 0)
    BY <1>2, BucketTypes
  <1>6. Covered(c, g)
    BY <1>4, <1>5 DEF Covered
  <1>7. QED BY <1>2, <1>6 DEF c

\* A new bucket in place of none or of one that has expired covers its first
\* comparison.
LEMMA CoveredFirst ==
  ASSUME NEW b \in Buckets(MaxAttempts), NEW f \in Counts, Covered(b, f),
         b.count = 0 \/ b.left = 0,
         NEW g \in Counts, g = f \/ g = OneMore(f)
  PROVE  LET c == [count |-> 1, left |-> Window]
         IN  c \in Buckets(MaxAttempts) /\ Covered(c, g)
  <1> DEFINE c == [count |-> 1, left |-> Window]
  <1>1. 1 \in 0 .. MaxAttempts /\ Window \in 0 .. Window
    BY BucketTypes
  <1>2. c \in Buckets(MaxAttempts) /\ c.count = 1 /\ c.left = Window
    BY <1>1 DEF Buckets
  <1> HIDE DEF c
  <1>3. /\ f[0] = 0
        /\ \A t \in 0 .. Window - 1 : f[t] <= MaxAttempts
    BY DEF Covered
  <1>4. ASSUME NEW t \in 0 .. Window - 1
        PROVE  /\ g[t] <= c.count + MaxAttempts
               /\ t <= Window - c.left => g[t] <= c.count
    <2>1. f[t] \in Nat /\ g[t] \in Nat /\ g[t] <= f[t] + 1
      BY CountsStep, BucketTypes
    <2>2. f[t] <= MaxAttempts /\ (t = 0 => f[t] = 0)
      BY <1>3
    <2>3. QED BY <1>2, <2>1, <2>2, BucketTypes
  <1>5. c.count # 0 /\ c.left > 0 /\ ~ (c.left = 0)
    BY <1>2, BucketTypes
  <1>6. Covered(c, g)
    BY <1>4, <1>5 DEF Covered
  <1>7. QED BY <1>2, <1>6 DEF c

\* A bucket that is dropped: nothing is counted since, or it had expired.
LEMMA CoveredDropped ==
  ASSUME NEW b \in Buckets(MaxAttempts), NEW f \in Counts, Covered(b, f)
  PROVE  /\ NoBucket \in Buckets(MaxAttempts)
         /\ Covered(NoBucket, NoneTried)
         /\ b.left = 0 => Covered(NoBucket, f)
  <1>1. NoBucket \in Buckets(MaxAttempts) /\ NoBucket.left = 0
    BY BucketTypes DEF NoBucket, Buckets
  <1>2. \A t \in 0 .. Window - 1 : NoneTried[t] = 0
    BY CountsStep
  <1>3. Covered(NoBucket, NoneTried)
    BY <1>1, <1>2, BucketTypes DEF Covered
  <1>4. b.left = 0 => Covered(NoBucket, f)
    BY <1>1 DEF Covered
  <1>5. QED BY <1>1, <1>3, <1>4

\* A tick: the bucket and what it covers are older.
LEMMA CoveredTick ==
  ASSUME NEW b \in Buckets(MaxAttempts), NEW f \in Counts, Covered(b, f)
  PROVE  Older(b) \in Buckets(MaxAttempts) /\ Covered(Older(b), Aged(f))
  <1>1. CASE b.left = 0
    <2>1. Older(b) = b
      BY <1>1 DEF Older
    <2>2. ASSUME NEW t \in 0 .. Window - 1
          PROVE  Aged(f)[t] <= MaxAttempts
      <3>1. CASE t = 0
        BY <3>1, CountsStep, BucketTypes
      <3>2. CASE t # 0
        <4>1. t - 1 \in 0 .. Window - 1
          BY <3>2, BucketTypes
        <4>2. f[t - 1] <= MaxAttempts /\ Aged(f)[t] = f[t - 1]
          BY <1>1, <3>2, <4>1, CountsStep DEF Covered
        <4>3. QED BY <4>2
      <3>3. QED BY <3>1, <3>2
    <2>3. Aged(f)[0] = 0
      BY CountsStep, BucketTypes
    <2>4. QED BY <1>1, <2>1, <2>2, <2>3 DEF Covered
  <1>2. CASE b.left # 0
    <2> DEFINE c == [b EXCEPT !.left = @ - 1]
    <2>1. b.left - 1 \in 0 .. Window /\ b.left > 0
      BY <1>2, BucketTypes
    <2>2. c \in Buckets(MaxAttempts) /\ c.count = b.count /\ c.left = b.left - 1
      BY <2>1 DEF Buckets
    <2>3. Older(b) = c
      BY <1>2 DEF Older
    <2> HIDE DEF c
    <2>4. ASSUME NEW t \in 0 .. Window - 1
          PROVE  /\ Aged(f)[t] <= c.count + MaxAttempts
                 /\ t <= Window - c.left => Aged(f)[t] <= c.count
      <3>1. CASE t = 0
        BY <2>2, <3>1, CountsStep, BucketTypes
      <3>2. CASE t # 0
        <4>1. t - 1 \in 0 .. Window - 1
          BY <3>2, BucketTypes
        <4>2. /\ f[t - 1] <= b.count + MaxAttempts
              /\ t - 1 <= Window - b.left => f[t - 1] <= b.count
          BY <2>1, <4>1 DEF Covered
        <4>3. Aged(f)[t] = f[t - 1] /\ f[t - 1] \in Nat
          BY <3>2, <4>1, CountsStep, BucketTypes
        <4>4. t - 1 <= Window - b.left <=> t <= Window - c.left
          BY <2>1, <2>2, BucketTypes
        <4>5. QED BY <2>2, <4>2, <4>3, <4>4
      <3>3. QED BY <3>1, <3>2
    <2>5. b.count # 0
      BY <2>1 DEF Covered
    <2>6. ASSUME c.left = 0
          PROVE  Aged(f)[0] = 0 /\ \A t \in 0 .. Window - 1 :
                                      Aged(f)[t] <= MaxAttempts
      <3>1. ASSUME NEW t \in 0 .. Window - 1 PROVE Aged(f)[t] <= MaxAttempts
        <4>1. Aged(f)[t] <= c.count /\ Aged(f)[t] \in Nat
          BY <2>4, <2>6, BucketTypes, CountsStep DEF Counts
        <4>2. QED BY <2>2, <4>1, BucketTypes
      <3>2. QED BY <3>1, CountsStep, BucketTypes
    <2>7. Covered(c, Aged(f))
      BY <2>2, <2>4, <2>5, <2>6 DEF Covered
    <2>8. QED BY <2>2, <2>3, <2>7
  <1>3. QED BY <1>1, <1>2

\* The aggregate bucket stays one, renewed or not, and one attempt more
\* fits in it when it is not full.
LEMMA GlobalType ==
  ASSUME LoginTypeOK
  PROVE  /\ Global \in Buckets(MaxGlobal)
         /\ Global.count < MaxGlobal =>
               [Global EXCEPT !.count = @ + 1] \in Buckets(MaxGlobal)
  <1>1. Global \in Buckets(MaxGlobal)
    <2>1. 0 \in 0 .. MaxGlobal /\ Window \in 0 .. Window
      BY LoginAssumption
    <2>2. [count |-> 0, left |-> Window] \in Buckets(MaxGlobal)
      BY <2>1 DEF Buckets
    <2>3. QED BY <2>2 DEF LoginTypeOK, Global
  <1>2. ASSUME Global.count < MaxGlobal
        PROVE  [Global EXCEPT !.count = @ + 1] \in Buckets(MaxGlobal)
    <2>1. PICK b \in Buckets(MaxGlobal) : b = Global
      BY <1>1
    <2>2. b.count + 1 \in 0 .. MaxGlobal
      BY <1>2, <2>1, LoginAssumption DEF Buckets
    <2>3. [b EXCEPT !.count = @ + 1] \in Buckets(MaxGlobal)
      BY <2>2 DEF Buckets
    <2>4. QED BY <2>1, <2>3
  <1>3. QED BY <1>1, <1>2

\* What the charge to the aggregate bucket does, granted or not: of the
\* counts only those of the address itself change, by one or not.
LEMMA ChargeStep ==
  ASSUME LoginTypeOK, NEW l \in Logins, NEW ip \in Ips \cup {NoIp},
         NEW before \in [Ips -> Counts], Charge(l, ip, before)
  PROVE  /\ globalBucket' \in Buckets(MaxGlobal)
         /\ admitted' \in Counts
         /\ verifying' \in [Logins -> Ips \cup {NoIp, NoLogin}]
         /\ tried' \in [Ips -> Counts]
         /\ \A jp \in Ips :
               \/ tried'[jp] = before[jp]
               \/ jp = ip /\ tried'[jp] = OneMore(before[jp])
  <1>1. admitted \in Counts
    BY DEF LoginTypeOK, Counts
  <1>2. OneMore(admitted) \in Counts
    BY <1>1, CountsStep
  <1>3. \A jp \in Ips : before[jp] \in Counts /\ OneMore(before[jp]) \in Counts
    BY CountsStep
  <1>4. CASE /\ Global.count < MaxGlobal
             /\ globalBucket' = [Global EXCEPT !.count = @ + 1]
             /\ verifying' = [verifying EXCEPT ![l] = ip]
             /\ admitted' = OneMore(admitted)
             /\ tried' = [jp \in Ips |-> IF jp = ip THEN OneMore(before[jp])
                                         ELSE before[jp]]
    <2>1. tried' \in [Ips -> Counts]
      BY <1>3, <1>4
    <2>2. globalBucket' \in Buckets(MaxGlobal)
      BY <1>4, GlobalType
    <2>3. verifying' \in [Logins -> Ips \cup {NoIp, NoLogin}]
      BY <1>4 DEF LoginTypeOK
    <2>4. QED BY <1>2, <1>3, <1>4, <2>1, <2>2, <2>3
  <1>5. CASE /\ Global.count = MaxGlobal
             /\ globalBucket' = Global
             /\ tried' = before
             /\ UNCHANGED <<verifying, admitted>>
    BY <1>1, <1>5, GlobalType DEF LoginTypeOK
  <1>6. QED BY <1>4, <1>5 DEF Charge

\* Nothing has been tried at first.
LEMMA InitLoginInv == LoginInit => LoginInv
  <1> SUFFICES ASSUME LoginInit PROVE LoginInv
    OBVIOUS
  <1>1. \A t \in 0 .. Window - 1 : NoneTried[t] = 0
    BY DEF NoneTried
  <1>2. NoneTried \in [0 .. Window - 1 -> Nat]
    BY DEF NoneTried
  <1>3. LoginTypeOK
    BY <1>2, LoginAssumption DEF LoginInit, LoginTypeOK, Buckets, NoBucket
  <1>4. 0 \in 0 .. Window - 1 /\ MaxAttempts \in Nat
    BY LoginAssumption
  <1>5. Covered(NoBucket, NoneTried)
    BY <1>1, <1>4 DEF Covered, NoBucket
  <1>6. QED BY <1>3, <1>5 DEF LoginInit, LoginInv

\* And every step keeps what was tried covered: a slot is spent before each
\* comparison, and the count of a bucket that goes before its time begins
\* anew.
LEMMA NextLoginInv == LoginInv /\ [LoginNext]_loginVars => LoginInv'
  <1> SUFFICES ASSUME LoginInv, [LoginNext]_loginVars PROVE LoginInv'
    OBVIOUS
  <1>a. /\ LoginTypeOK
        /\ NoLogin \notin Ips \cup {NoIp} /\ NoIp \notin Ips
        /\ tried \in [Ips -> Counts]
        /\ admitted \in Counts
        /\ globalBucket \in Buckets(MaxGlobal)
    BY LoginAssumption DEF LoginInv, LoginTypeOK, Counts
  <1>b. \A ip \in Ips : /\ loginAttempts[ip] \in Buckets(MaxAttempts)
                        /\ tried[ip] \in Counts
                        /\ Covered(loginAttempts[ip], tried[ip])
    BY <1>a DEF LoginInv, LoginTypeOK
  \* What remains to be shown of a step.
  <1>c. ASSUME globalBucket' \in Buckets(MaxGlobal), admitted' \in Counts,
               verifying' \in [Logins -> Ips \cup {NoIp, NoLogin}],
               tried' \in [Ips -> Counts],
               loginAttempts' \in [Ips -> Buckets(MaxAttempts)],
               \A ip \in Ips : Covered(loginAttempts'[ip], tried'[ip])
        PROVE  LoginInv'
    BY <1>c DEF LoginInv, LoginTypeOK, Counts
  <1>1. ASSUME NEW l \in Logins, NEW ip \in Ips, CheckAgain(l, ip)
        PROVE  LoginInv'
    <2>1. loginAttempts[ip].left > 0
      BY <1>1 DEF CheckAgain
    <2>2. CASE /\ loginAttempts[ip].count < MaxAttempts
               /\ loginAttempts' = [loginAttempts EXCEPT ![ip].count = @ + 1]
               /\ Charge(l, ip, tried)
      <3>1. /\ globalBucket' \in Buckets(MaxGlobal)
            /\ admitted' \in Counts
            /\ verifying' \in [Logins -> Ips \cup {NoIp, NoLogin}]
            /\ tried' \in [Ips -> Counts]
            /\ \A jp \in Ips :
                  \/ tried'[jp] = tried[jp]
                  \/ jp = ip /\ tried'[jp] = OneMore(tried[jp])
        BY <1>a, <2>2, ChargeStep
      <3>2. PICK c : c = [loginAttempts[ip] EXCEPT !.count = @ + 1]
        OBVIOUS
      <3>3. tried'[ip] \in Counts
        BY <3>1
      <3>4. c \in Buckets(MaxAttempts) /\ Covered(c, tried'[ip])
        BY <1>b, <2>1, <2>2, <3>1, <3>2, <3>3, CoveredAgain
      <3>5. loginAttempts' = [loginAttempts EXCEPT ![ip] = c]
        BY <2>2, <3>2
      <3>6. /\ loginAttempts' \in [Ips -> Buckets(MaxAttempts)]
            /\ loginAttempts'[ip] = c
            /\ \A jp \in Ips \ {ip} : loginAttempts'[jp] = loginAttempts[jp]
        BY <1>a, <3>4, <3>5 DEF LoginTypeOK
      <3>7. \A jp \in Ips : Covered(loginAttempts'[jp], tried'[jp])
        BY <1>b, <3>1, <3>4, <3>6
      <3>8. QED BY <1>c, <3>1, <3>6, <3>7
    <2>3. CASE /\ loginAttempts[ip].count = MaxAttempts
               /\ globalBucket' = Global
               /\ UNCHANGED <<loginAttempts, verifying, admitted, tried>>
      <3>1. globalBucket' \in Buckets(MaxGlobal)
        BY <1>a, <2>3, GlobalType
      <3>2. QED BY <1>a, <1>b, <1>c, <2>3, <3>1 DEF LoginTypeOK
    <2>4. QED BY <1>1, <2>2, <2>3 DEF CheckAgain
  <1>2. ASSUME NEW l \in Logins, NEW ip \in Ips, CheckFirst(l, ip)
        PROVE  LoginInv'
    <2>1. PICK gone \in Evictions(ip) :
             /\ loginAttempts' = [jp \in Ips |->
                   IF jp = ip THEN [count |-> 1, left |-> Window]
                   ELSE IF jp \in gone THEN NoBucket ELSE loginAttempts[jp]]
             /\ Charge(l, ip, Forgotten(gone))
      BY <1>2 DEF CheckFirst
    <2>2. ip \notin gone
      BY <2>1 DEF Evictions, Oldest
    <2>3. /\ Forgotten(gone) \in [Ips -> Counts]
          /\ \A jp \in Ips \ gone : Forgotten(gone)[jp] = tried[jp]
          /\ \A jp \in Ips : \/ Forgotten(gone)[jp] = NoneTried
                             \/ Forgotten(gone)[jp] = tried[jp]
                                /\ (jp \in gone => loginAttempts[jp].left = 0)
      BY <1>a, <1>b, CountsStep DEF Forgotten, Expired
    <2>4. PICK before \in [Ips -> Counts] : before = Forgotten(gone)
      BY <2>3
    <2>5. /\ globalBucket' \in Buckets(MaxGlobal)
          /\ admitted' \in Counts
          /\ verifying' \in [Logins -> Ips \cup {NoIp, NoLogin}]
          /\ tried' \in [Ips -> Counts]
          /\ \A jp \in Ips :
                \/ tried'[jp] = before[jp]
                \/ jp = ip /\ tried'[jp] = OneMore(before[jp])
      BY <1>a, <2>1, <2>4, ChargeStep
    <2>6. PICK c : c = [count |-> 1, left |-> Window]
      OBVIOUS
    <2>7. before[ip] = tried[ip] /\ tried'[ip] \in Counts
      BY <2>2, <2>3, <2>4, <2>5
    <2>8. loginAttempts[ip].count = 0 \/ loginAttempts[ip].left = 0
      BY <1>2 DEF CheckFirst
    <2>9. c \in Buckets(MaxAttempts) /\ Covered(c, tried'[ip])
      BY <1>b, <2>5, <2>6, <2>7, <2>8, CoveredFirst
    <2>10. NoBucket \in Buckets(MaxAttempts)
      BY <1>b, CoveredDropped
    <2>11. /\ loginAttempts' \in [Ips -> Buckets(MaxAttempts)]
           /\ loginAttempts'[ip] = c
           /\ \A jp \in Ips \ {ip} :
                 loginAttempts'[jp] = IF jp \in gone THEN NoBucket
                                      ELSE loginAttempts[jp]
      BY <1>b, <2>1, <2>6, <2>9, <2>10
    <2>12. ASSUME NEW jp \in Ips \ {ip}
           PROVE  Covered(loginAttempts'[jp], tried'[jp])
      <3>1. tried'[jp] = Forgotten(gone)[jp]
        BY <2>4, <2>5
      <3>2. CASE jp \notin gone
        BY <1>b, <2>3, <2>11, <3>1, <3>2
      <3>3. CASE jp \in gone
        BY <1>b, <2>3, <2>11, <3>1, <3>3, CoveredDropped
      <3>4. QED BY <3>2, <3>3
    <2>13. \A jp \in Ips : Covered(loginAttempts'[jp], tried'[jp])
      BY <2>9, <2>11, <2>12
    <2>14. QED BY <1>c, <2>5, <2>11, <2>13
  <1>3. ASSUME NEW l \in Logins, CheckUnattributed(l) PROVE LoginInv'
    <2>1. /\ globalBucket' \in Buckets(MaxGlobal)
          /\ admitted' \in Counts
          /\ verifying' \in [Logins -> Ips \cup {NoIp, NoLogin}]
          /\ tried' \in [Ips -> Counts]
          /\ \A jp \in Ips :
                \/ tried'[jp] = tried[jp]
                \/ jp = NoIp /\ tried'[jp] = OneMore(tried[jp])
      BY <1>a, <1>3, ChargeStep DEF CheckUnattributed
    <2>2. UNCHANGED loginAttempts
      BY <1>3 DEF CheckUnattributed
    <2>3. \A jp \in Ips : Covered(loginAttempts'[jp], tried'[jp])
      BY <1>a, <1>b, <2>1, <2>2
    <2>4. loginAttempts' \in [Ips -> Buckets(MaxAttempts)]
      BY <1>a, <2>2 DEF LoginTypeOK
    <2>5. QED BY <1>c, <2>1, <2>3, <2>4
  <1>4. ASSUME NEW l \in Logins, Succeed(l) PROVE LoginInv'
    <2> DEFINE gone == {verifying[l]}
    <2>1. /\ Forgotten(gone) \in [Ips -> Counts]
          /\ \A jp \in Ips \ gone : Forgotten(gone)[jp] = tried[jp]
          /\ \A jp \in Ips : \/ Forgotten(gone)[jp] = NoneTried
                             \/ Forgotten(gone)[jp] = tried[jp]
                                /\ (jp \in gone => loginAttempts[jp].left = 0)
      BY <1>a, <1>b, CountsStep DEF Forgotten, Expired
    <2>2. tried' = Forgotten(gone) /\ UNCHANGED <<globalBucket, admitted>>
      BY <1>4 DEF Succeed
    <2>3. NoBucket \in Buckets(MaxAttempts) \/ Ips = {}
      BY <1>b, CoveredDropped
    <2>4. /\ loginAttempts' \in [Ips -> Buckets(MaxAttempts)]
          /\ \A jp \in Ips : loginAttempts'[jp] = IF jp \in gone THEN NoBucket
                                                  ELSE loginAttempts[jp]
      BY <1>b, <1>4, <2>3 DEF Succeed
    <2>5. verifying' \in [Logins -> Ips \cup {NoIp, NoLogin}]
      BY <1>a, <1>4 DEF Succeed, LoginTypeOK
    <2> HIDE DEF gone
    <2>6. ASSUME NEW jp \in Ips
          PROVE  Covered(loginAttempts'[jp], tried'[jp])
      <3>1. CASE jp \notin gone
        BY <1>b, <2>1, <2>2, <2>4, <3>1
      <3>2. CASE jp \in gone
        BY <1>b, <2>1, <2>2, <2>4, <3>2, CoveredDropped
      <3>3. QED BY <3>1, <3>2
    <2>7. QED BY <1>a, <1>c, <2>1, <2>2, <2>4, <2>5, <2>6
  <1>5. ASSUME NEW l \in Logins, Refuse(l) PROVE LoginInv'
    <2>1. /\ verifying' \in [Logins -> Ips \cup {NoIp, NoLogin}]
          /\ UNCHANGED <<loginAttempts, globalBucket, admitted, tried>>
      BY <1>a, <1>5 DEF Refuse, LoginTypeOK
    <2>2. QED BY <1>a, <1>b, <1>c, <2>1 DEF LoginTypeOK
  <1>6. CASE Tick
    <2>1. \A ip \in Ips : /\ Older(loginAttempts[ip]) \in Buckets(MaxAttempts)
                          /\ Aged(tried[ip]) \in Counts
                          /\ Covered(Older(loginAttempts[ip]), Aged(tried[ip]))
      BY <1>b, CoveredTick, CountsStep
    <2>2. /\ loginAttempts' = [ip \in Ips |-> Older(loginAttempts[ip])]
          /\ tried' = [ip \in Ips |-> Aged(tried[ip])]
          /\ globalBucket' = Older(globalBucket)
          /\ admitted' = Aged(admitted) /\ UNCHANGED verifying
      BY <1>6 DEF Tick
    <2>3. globalBucket' \in Buckets(MaxGlobal)
      <3>1. CASE globalBucket.left = 0
        BY <1>a, <2>2, <3>1 DEF Older
      <3>2. CASE globalBucket.left # 0
        <4>1. globalBucket.left - 1 \in 0 .. Window
          BY <1>a, <3>2, LoginAssumption DEF Buckets
        <4>2. QED BY <1>a, <2>2, <3>2, <4>1 DEF Older, Buckets
      <3>3. QED BY <3>1, <3>2
    <2>4. admitted' \in Counts
      BY <1>a, <2>2, CountsStep
    <2>5. /\ loginAttempts' \in [Ips -> Buckets(MaxAttempts)]
          /\ tried' \in [Ips -> Counts]
          /\ \A ip \in Ips : Covered(loginAttempts'[ip], tried'[ip])
      BY <2>1, <2>2
    <2>6. QED BY <1>a, <1>c, <2>2, <2>3, <2>4, <2>5 DEF LoginTypeOK
  <1>7. CASE UNCHANGED loginVars
    BY <1>a, <1>b, <1>c, <1>7 DEF loginVars, LoginTypeOK
  <1>8. QED
    BY <1>1, <1>2, <1>3, <1>4, <1>5, <1>6, <1>7 DEF LoginNext

\* So it always holds.
LEMMA LoginInvHolds == LoginSpec => []LoginInv
  BY InitLoginInv, NextLoginInv, PTL DEF LoginSpec

\* The buckets never count more than their limits, and the rest is of its
\* type.
THEOREM LoginTypeCorrect == LoginSpec => []LoginTypeOK
  <1>1. LoginInv => LoginTypeOK
    BY DEF LoginInv
  <1>2. QED BY <1>1, LoginInvHolds, PTL

\* However many logins overlap: over the last Window ticks no more than twice
\* MAX_ATTEMPTS passwords were compared for an address since the last login
\* from it that succeeded and the last eviction of its bucket before it
\* expired.
THEOREM AddressBounded == LoginSpec => []AddressAttemptsBounded
  <1>1. LoginInv => AddressAttemptsBounded
    <2> SUFFICES ASSUME LoginInv, NEW ip \in Ips
                 PROVE  tried[ip][Window - 1] <= 2 * MaxAttempts
      BY DEF AddressAttemptsBounded
    <2>1. /\ loginAttempts[ip] \in Buckets(MaxAttempts)
          /\ tried[ip] \in Counts
          /\ Covered(loginAttempts[ip], tried[ip])
      BY DEF LoginInv, LoginTypeOK, Counts
    <2>2. /\ loginAttempts[ip].count \in 0 .. MaxAttempts
          /\ loginAttempts[ip].left \in 0 .. Window
          /\ Window - 1 \in 0 .. Window - 1
          /\ tried[ip][Window - 1] \in Nat
          /\ MaxAttempts \in Nat
      BY <2>1, BucketTypes
    <2>3. CASE loginAttempts[ip].left = 0
      <3>1. tried[ip][Window - 1] <= MaxAttempts
        BY <2>1, <2>2, <2>3 DEF Covered
      <3>2. QED BY <2>2, <3>1
    <2>4. CASE loginAttempts[ip].left > 0
      <3>1. tried[ip][Window - 1] <= loginAttempts[ip].count + MaxAttempts
        BY <2>1, <2>2, <2>4 DEF Covered
      <3>2. QED BY <2>2, <3>1
    <2>5. QED BY <2>2, <2>3, <2>4
  <1>2. QED BY <1>1, LoginInvHolds, PTL

\* The aggregate bucket counts what was started since it was renewed, and
\* what was started before was counted by the one that expired then; no
\* attempt older than that one is within the last Window ticks.
WindowInv ==
    /\ \A t \in 0 .. Window - 1 :
          /\ admitted[t] <= globalBucket.count + MaxGlobal
          /\ t <= Window - globalBucket.left
                => admitted[t] <= globalBucket.count
    /\ globalBucket.left = 0 => admitted[0] = 0

\* The fields of the aggregate bucket and the history, as integers.
LEMMA WindowTypes ==
  ASSUME LoginTypeOK
  PROVE  /\ globalBucket.count \in 0 .. MaxGlobal
         /\ globalBucket.left \in 0 .. Window
         /\ admitted \in [0 .. Window - 1 -> Nat]
         /\ DOMAIN admitted = 0 .. Window - 1
         /\ MaxGlobal \in Nat /\ MaxGlobal > 0
         /\ Window \in Nat /\ Window > 0
  BY LoginAssumption DEF LoginTypeOK, Buckets

\* The check renews the aggregate bucket when it has expired: what was
\* started in its window is then at most the limit, and nothing was started
\* in this tick.
LEMMA RenewedWindow ==
  ASSUME LoginTypeOK, WindowInv
  PROVE  /\ Global.count \in 0 .. MaxGlobal /\ Global.left \in 1 .. Window
         /\ \A t \in 0 .. Window - 1 :
               /\ admitted[t] <= Global.count + MaxGlobal
               /\ t <= Window - Global.left => admitted[t] <= Global.count
  <1>1. CASE globalBucket.left = 0
    <2>1. Global.count = 0 /\ Global.left = Window
      BY <1>1 DEF Global
    <2>2. ASSUME NEW t \in 0 .. Window - 1
          PROVE  admitted[t] <= MaxGlobal /\ (t <= 0 => admitted[t] <= 0)
      BY <1>1, WindowTypes DEF WindowInv
    <2>3. QED BY <2>1, <2>2, WindowTypes
  <1>2. CASE globalBucket.left # 0
    <2>1. Global = globalBucket
      BY <1>2 DEF Global
    <2>2. QED BY <1>2, <2>1, WindowTypes DEF WindowInv
  <1>3. QED BY <1>1, <1>2

\* A check that finds the aggregate bucket leaves it renewed, and charges it
\* with every comparison it starts.
LEMMA WindowCharged ==
  ASSUME LoginTypeOK, WindowInv,
         \/ globalBucket' = Global /\ UNCHANGED admitted
         \/ /\ globalBucket' = [Global EXCEPT !.count = @ + 1]
            /\ admitted' = OneMore(admitted)
  PROVE  WindowInv'
  <1>1. CASE globalBucket' = Global /\ UNCHANGED admitted
    BY <1>1, RenewedWindow, WindowTypes DEF WindowInv
  <1>2. CASE /\ globalBucket' = [Global EXCEPT !.count = @ + 1]
             /\ admitted' = OneMore(admitted)
    <2>1. /\ globalBucket'.count = Global.count + 1
          /\ globalBucket'.left = Global.left
      BY <1>2, GlobalType DEF Global, LoginTypeOK, Buckets
    <2>2. \A t \in 0 .. Window - 1 : admitted'[t] = admitted[t] + 1
      BY <1>2, WindowTypes DEF OneMore
    <2>3. QED BY <2>1, <2>2, RenewedWindow, WindowTypes DEF WindowInv
  <1>3. QED BY <1>1, <1>2

\* A tick makes the bucket and every attempt one tick older.
LEMMA WindowTick ==
  ASSUME LoginTypeOK, WindowInv, Tick
  PROVE  WindowInv'
  <1>1. /\ globalBucket'.count = globalBucket.count
        /\ globalBucket'.left = IF globalBucket.left = 0 THEN 0
                                ELSE globalBucket.left - 1
    BY DEF Tick, Older, LoginTypeOK, Buckets
  <1>2. /\ admitted'[0] = 0
        /\ \A t \in 1 .. Window - 1 : admitted'[t] = admitted[t - 1]
    BY WindowTypes DEF Tick, Aged
  <1>3. ASSUME NEW t \in 0 .. Window - 1
        PROVE  /\ admitted'[t] <= globalBucket'.count + MaxGlobal
               /\ t <= Window - globalBucket'.left
                     => admitted'[t] <= globalBucket'.count
    <2>1. CASE t = 0
      BY <1>1, <1>2, <2>1, WindowTypes
    <2>2. CASE t # 0
      <3>1. t - 1 \in 0 .. Window - 1 /\ t \in 1 .. Window - 1
        BY <2>2, WindowTypes
      <3>2. /\ admitted[t - 1] <= globalBucket.count + MaxGlobal
            /\ t - 1 <= Window - globalBucket.left
                  => admitted[t - 1] <= globalBucket.count
        BY <3>1 DEF WindowInv
      <3>3. QED BY <1>1, <1>2, <3>1, <3>2, WindowTypes
    <2>3. QED BY <2>1, <2>2
  <1>4. QED BY <1>2, <1>3 DEF WindowInv

\* Nothing was started at first.
LEMMA InitWindowInv == LoginInit => WindowInv
  <1> SUFFICES ASSUME LoginInit PROVE WindowInv
    OBVIOUS
  <1>1. /\ globalBucket.count = 0 /\ globalBucket.left = 0
        /\ \A t \in 0 .. Window - 1 : admitted[t] = 0
        /\ 0 \in 0 .. Window - 1 /\ MaxGlobal \in Nat
    BY LoginAssumption DEF LoginInit, NoBucket, NoneTried
  <1>2. QED BY <1>1 DEF WindowInv

\* Every step of a login and every tick keeps the count.
LEMMA NextWindowInv ==
    LoginTypeOK /\ WindowInv /\ [LoginNext]_loginVars => WindowInv'
  <1> SUFFICES ASSUME LoginTypeOK, WindowInv, [LoginNext]_loginVars
               PROVE  WindowInv'
    OBVIOUS
  <1>1. ASSUME NEW l \in Logins, NEW ip \in Ips \cup {NoIp}, NEW kept,
               Charge(l, ip, kept)
        PROVE  WindowInv'
    BY <1>1, WindowCharged DEF Charge
  <1>2. ASSUME NEW l \in Logins, NEW ip \in Ips,
               CheckAgain(l, ip) \/ CheckFirst(l, ip)
        PROVE  WindowInv'
    BY <1>1, <1>2, WindowCharged DEF CheckAgain, CheckFirst
  <1>3. ASSUME NEW l \in Logins, CheckUnattributed(l)
        PROVE  WindowInv'
    BY <1>1, <1>3 DEF CheckUnattributed
  <1>4. ASSUME UNCHANGED <<globalBucket, admitted>>
        PROVE  WindowInv'
    BY <1>4 DEF WindowInv
  <1>5. ASSUME NEW l \in Logins, Succeed(l) \/ Refuse(l)
        PROVE  WindowInv'
    BY <1>4, <1>5 DEF Succeed, Refuse
  <1>6. CASE Tick
    BY <1>6, WindowTick
  <1>7. CASE UNCHANGED loginVars
    BY <1>4, <1>7 DEF loginVars
  <1>8. QED
    BY <1>2, <1>3, <1>5, <1>6, <1>7 DEF LoginNext

\* Over the last Window ticks, wherever the windows of the aggregate bucket
\* begin: no more than twice MAX_GLOBAL_ATTEMPTS passwords were compared.
THEOREM RecentBounded == LoginSpec => []RecentAttemptsBounded
  <1>1. LoginTypeOK /\ WindowInv => RecentAttemptsBounded
    <2> SUFFICES ASSUME LoginTypeOK, WindowInv
                 PROVE  admitted[Window - 1] <= 2 * MaxGlobal
      BY DEF RecentAttemptsBounded
    <2>1. Window - 1 \in 0 .. Window - 1
      BY WindowTypes
    <2>2. admitted[Window - 1] <= globalBucket.count + MaxGlobal
      BY <2>1 DEF WindowInv
    <2>3. QED BY <2>1, <2>2, WindowTypes
  <1>2. LoginSpec => []WindowInv
    BY InitWindowInv, NextWindowInv, LoginTypeCorrect, PTL DEF LoginSpec
  <1>3. QED BY <1>1, <1>2, LoginTypeCorrect, PTL

-----------------------------------------------------------------------------
(* Ages of alerts *)

\* The oldest come first.
Sorted(ages) ==
    \A i, j \in 1 .. Len(ages) : i < j => ages[i] >= ages[j]

\* What is known of the ages of a kind, element by element.
LEMMA AgesElements ==
  ASSUME NEW ages \in Seq(0 .. AlertWindow)
  PROVE  /\ Len(ages) \in Nat /\ DOMAIN ages = 1 .. Len(ages)
         /\ \A i \in 1 .. Len(ages) : ages[i] \in 0 .. AlertWindow
         /\ ages # <<>> <=> Len(ages) > 0
  <1>1. /\ Len(ages) \in Nat /\ DOMAIN ages = 1 .. Len(ages)
        /\ \A i \in 1 .. Len(ages) : ages[i] \in 0 .. AlertWindow
    BY LenProperties, ElementOfSeq
  <1>2. ages # <<>> <=> Len(ages) > 0
    <2>1. Len(<<>>) = 0 /\ (ages # <<>> => Len(ages) \in Nat \ {0})
      BY EmptySeq
    <2>2. QED BY <2>1
  <1>3. QED BY <1>1, <1>2

\* The first n leave the window with the next tick, and no other does.
Leaving(ages, n) ==
    /\ \A i \in 1 .. n : ages[i] = AlertWindow
    /\ \A i \in n + 1 .. Len(ages) : ages[i] < AlertWindow

\* Of ages in order it is the first few that leave the window.
LEMMA SomeLeave ==
  ASSUME NEW ages \in Seq(0 .. AlertWindow), Sorted(ages)
  PROVE  \E n \in 0 .. Len(ages) : Leaving(ages, n)
  <1>1. /\ Len(ages) \in Nat /\ AlertWindow \in Nat
        /\ \A i \in 1 .. Len(ages) : ages[i] \in 0 .. AlertWindow
    BY AgesElements, AlertsAssumption
  <1> DEFINE Young == {i \in 1 .. Len(ages) : ages[i] < AlertWindow}
  <1>2. CASE Young = {}
    <2>1. \A i \in 1 .. Len(ages) : ages[i] = AlertWindow
      BY <1>1, <1>2
    <2>2. Len(ages) \in 0 .. Len(ages) /\ Len(ages) + 1 .. Len(ages) = {}
      BY <1>1
    <2>3. QED BY <2>1, <2>2 DEF Leaving
  <1>3. CASE Young # {}
    <2>1. Young \in SUBSET Nat
      BY <1>1
    <2> HIDE DEF Young
    <2>2. PICK m \in Young : \A i \in Young : m <= i
      BY <2>1, <1>3, NatMinimum
    <2> USE DEF Young
    <2>3. m \in 1 .. Len(ages) /\ m - 1 \in 0 .. Len(ages)
          /\ ages[m] < AlertWindow
      BY <1>1
    <2>4. ASSUME NEW i \in 1 .. m - 1 PROVE ages[i] = AlertWindow
      <3>1. i \in 1 .. Len(ages) /\ i < m
        BY <1>1, <2>3
      <3>2. i \notin Young
        BY <1>1, <2>2, <2>3, <3>1
      <3>3. QED BY <1>1, <3>1, <3>2
    <2>5. ASSUME NEW i \in (m - 1) + 1 .. Len(ages)
          PROVE  ages[i] < AlertWindow
      <3>1. i \in 1 .. Len(ages) /\ m <= i
        BY <1>1, <2>3
      <3>2. ages[m] >= ages[i]
        BY <1>1, <2>3, <3>1 DEF Sorted
      <3>3. QED BY <1>1, <2>3, <3>1, <3>2
    <2>6. QED BY <2>3, <2>4, <2>5 DEF Leaving
  <1>4. QED BY <1>2, <1>3

\* A tick later they are ages in order, and no more of them.
LEMMA LaterFields ==
  ASSUME NEW ages \in Seq(0 .. AlertWindow), Sorted(ages)
  PROVE  /\ Later(ages) \in Seq(0 .. AlertWindow)
         /\ Len(Later(ages)) <= Len(ages)
         /\ Sorted(Later(ages))
  <1>1. PICK n \in 0 .. Len(ages) :
          /\ Leaving(ages, n)
          /\ n = CHOOSE m \in 0 .. Len(ages) : Leaving(ages, m)
    BY SomeLeave
  <1>2. Later(ages) = [i \in 1 .. Len(ages) - n |-> ages[n + i] + 1]
    BY <1>1 DEF Later, Leaving
  <1>3. /\ Len(ages) \in Nat /\ AlertWindow \in Nat
        /\ \A i \in 1 .. Len(ages) : ages[i] \in 0 .. AlertWindow
    BY AgesElements, AlertsAssumption
  <1>4. PICK len \in Nat : len = Len(ages) - n
    <2>1. n \in 0 .. Len(ages)
      BY <1>1
    <2>2. Len(ages) - n \in Nat
      BY <1>3, <2>1
    <2>3. QED BY <2>2
  <1>5. ASSUME NEW i \in 1 .. len
        PROVE  /\ n + i \in n + 1 .. Len(ages)
               /\ n + i \in 1 .. Len(ages)
               /\ ages[n + i] \in Int
               /\ ages[n + i] + 1 \in 0 .. AlertWindow
    <2>1. n + i \in n + 1 .. Len(ages) /\ n + i \in 1 .. Len(ages)
      BY <1>3, <1>4
    <2>2. ages[n + i] < AlertWindow /\ ages[n + i] \in 0 .. AlertWindow
      BY <1>1, <1>3, <2>1 DEF Leaving
    <2>3. QED BY <1>3, <2>1, <2>2
  <1>6. Later(ages) \in [1 .. len -> 0 .. AlertWindow]
    BY <1>2, <1>4, <1>5
  <1>7. Later(ages) \in Seq(0 .. AlertWindow) /\ Len(Later(ages)) = len
    <2>1. Later(ages) \in Seq(0 .. AlertWindow)
      BY <1>6, SeqDef
    <2>2. /\ DOMAIN Later(ages) = 1 .. len
          /\ DOMAIN Later(ages) = 1 .. Len(Later(ages))
          /\ Len(Later(ages)) \in Nat
      BY <1>6, <2>1, LenProperties
    <2>3. QED BY <2>1, <2>2
  <1>8. \A i \in 1 .. len : Later(ages)[i] = ages[n + i] + 1
    BY <1>2, <1>4
  <1>9. ASSUME NEW i \in 1 .. len, NEW j \in 1 .. len, i < j
        PROVE  Later(ages)[i] >= Later(ages)[j]
    <2>1. n + i < n + j
      BY <1>9
    <2>2. ages[n + i] >= ages[n + j]
      BY <1>5, <2>1 DEF Sorted
    <2>3. QED BY <1>5, <1>8, <2>2
  <1>10. QED BY <1>3, <1>4, <1>7, <1>9 DEF Sorted

\* Nor are there more after one of them is deleted.
LEMMA RemovedFields ==
  ASSUME NEW ages \in Seq(0 .. AlertWindow), Sorted(ages),
         NEW i \in DOMAIN ages
  PROVE  /\ RemoveAt(ages, i) \in Seq(0 .. AlertWindow)
         /\ Len(RemoveAt(ages, i)) <= Len(ages)
         /\ Sorted(RemoveAt(ages, i))
  <1> DEFINE front == SubSeq(ages, 1, i - 1)
             rear == SubSeq(ages, i + 1, Len(ages))
  <1>1. /\ Len(ages) \in Nat /\ i \in 1 .. Len(ages)
        /\ \A j \in 1 .. Len(ages) : ages[j] \in 0 .. AlertWindow
    BY AgesElements
  <1>2. /\ front \in Seq(0 .. AlertWindow) /\ Len(front) = i - 1
        /\ \A j \in 1 .. i - 1 : front[j] = ages[j]
    <2>1. \A j \in 1 .. i - 1 : ages[j] \in 0 .. AlertWindow
      BY <1>1
    <2>2. 1 \in Int /\ i - 1 \in Int
      BY <1>1
    <2>3. /\ front \in Seq(0 .. AlertWindow)
          /\ Len(front) = IF 1 <= i - 1 THEN i - 1 - 1 + 1 ELSE 0
          /\ \A j \in 1 .. i - 1 - 1 + 1 : front[j] = ages[1 + j - 1]
      BY <2>1, <2>2, SubSeqProperties
    <2>4. QED BY <1>1, <2>3
  <1>3. /\ rear \in Seq(0 .. AlertWindow) /\ Len(rear) = Len(ages) - i
        /\ \A j \in 1 .. Len(ages) - i : rear[j] = ages[i + j]
    <2>1. \A j \in i + 1 .. Len(ages) : ages[j] \in 0 .. AlertWindow
      BY <1>1
    <2>2. i + 1 \in Int /\ Len(ages) \in Int
      BY <1>1
    <2>3. /\ rear \in Seq(0 .. AlertWindow)
          /\ Len(rear) = IF i + 1 <= Len(ages)
                         THEN Len(ages) - (i + 1) + 1 ELSE 0
          /\ \A j \in 1 .. Len(ages) - (i + 1) + 1 :
                rear[j] = ages[(i + 1) + j - 1]
      BY <2>1, <2>2, SubSeqProperties
    <2> HIDE DEF rear
    <2>4. Len(rear) = Len(ages) - i
      BY <1>1, <2>3
    <2>5. ASSUME NEW j \in 1 .. Len(ages) - i PROVE rear[j] = ages[i + j]
      <3>1. j \in 1 .. Len(ages) - (i + 1) + 1 /\ (i + 1) + j - 1 = i + j
        BY <1>1
      <3>2. QED BY <2>3, <3>1
    <2>6. QED BY <2>3, <2>4, <2>5
  <1>4. RemoveAt(ages, i) = front \o rear
    BY DEF RemoveAt
  <1> HIDE DEF front, rear
  <1>5. PICK s \in Seq(0 .. AlertWindow) :
          /\ s = RemoveAt(ages, i) /\ Len(s) = Len(ages) - 1
          /\ \A j \in 1 .. i - 1 : s[j] = ages[j]
          /\ \A j \in i .. Len(ages) - 1 : s[j] = ages[j + 1]
    <2> DEFINE s == front \o rear
    <2>1. /\ s \in Seq(0 .. AlertWindow)
          /\ Len(s) = Len(front) + Len(rear)
          /\ \A j \in 1 .. Len(front) + Len(rear) :
                s[j] = IF j <= Len(front) THEN front[j]
                                          ELSE rear[j - Len(front)]
      BY <1>2, <1>3, ConcatProperties
    <2> HIDE DEF s
    <2>2. Len(front) = i - 1 /\ Len(rear) = Len(ages) - i
          /\ Len(s) = Len(ages) - 1
      BY <1>1, <1>2, <1>3, <2>1
    <2>3. ASSUME NEW j \in 1 .. i - 1 PROVE s[j] = ages[j]
      <3>1. j \in 1 .. Len(front) + Len(rear) /\ j <= Len(front)
        BY <1>1, <2>2
      <3>2. QED BY <1>2, <2>1, <3>1
    <2>4. ASSUME NEW j \in i .. Len(ages) - 1 PROVE s[j] = ages[j + 1]
      <3>a. PICK m \in Nat, f \in Nat, r \in Nat :
              m = Len(ages) /\ f = Len(front) /\ r = Len(rear)
        BY <1>1, <2>2
      <3>b. f = i - 1 /\ r = m - i /\ i \in 1 .. m /\ j \in i .. m - 1
        BY <1>1, <2>2, <3>a
      <3>c. /\ j \in 1 .. f + r /\ ~(j <= f)
            /\ j - f \in 1 .. m - i /\ i + (j - f) = j + 1
        <4>1. i \in Nat /\ j \in Nat /\ i <= j /\ j <= m - 1 /\ 1 <= i
          BY <3>b
        <4>2. j \in 1 .. f + r /\ ~(j <= f)
          BY <3>b, <4>1
        <4>3. j - f \in 1 .. m - i /\ i + (j - f) = j + 1
          BY <3>b, <4>1
        <4>4. QED BY <4>2, <4>3
      <3>1. /\ j \in 1 .. Len(front) + Len(rear) /\ ~(j <= Len(front))
            /\ j - Len(front) \in 1 .. Len(ages) - i
            /\ i + (j - Len(front)) = j + 1
        BY <3>a, <3>c
      <3>2. s[j] = rear[j - Len(front)]
        BY <2>1, <3>1
      <3>3. QED BY <1>3, <3>1, <3>2
    <2>5. QED BY <1>4, <2>1, <2>2, <2>3, <2>4 DEF s
  <1>6. ASSUME NEW j \in 1 .. Len(s), NEW k \in 1 .. Len(s), j < k
        PROVE  s[j] >= s[k]
    <2>1. CASE k <= i - 1
      <3>1. j \in 1 .. i - 1 /\ k \in 1 .. i - 1
            /\ j \in 1 .. Len(ages) /\ k \in 1 .. Len(ages)
        BY <1>1, <1>5, <1>6, <2>1
      <3>2. QED BY <1>5, <1>6, <3>1 DEF Sorted
    <2>2. CASE j <= i - 1 /\ ~(k <= i - 1)
      <3>1. /\ j \in 1 .. i - 1 /\ k \in i .. Len(ages) - 1 /\ j < k + 1
            /\ j \in 1 .. Len(ages) /\ k + 1 \in 1 .. Len(ages)
        BY <1>1, <1>5, <1>6, <2>2
      <3>2. QED BY <1>5, <3>1 DEF Sorted
    <2>3. CASE ~(j <= i - 1)
      <3>1. /\ j \in i .. Len(ages) - 1 /\ k \in i .. Len(ages) - 1
            /\ j + 1 \in 1 .. Len(ages) /\ k + 1 \in 1 .. Len(ages)
            /\ j + 1 < k + 1
        BY <1>1, <1>5, <1>6, <2>3
      <3>2. QED BY <1>5, <3>1 DEF Sorted
    <2>4. QED BY <2>1, <2>2, <2>3
  <1>7. QED BY <1>1, <1>5, <1>6 DEF Sorted

\* One more alert, of age 0, goes to the end.
LEMMA AppendedFields ==
  ASSUME NEW ages \in Seq(0 .. AlertWindow), Sorted(ages)
  PROVE  /\ Append(ages, 0) \in Seq(0 .. AlertWindow)
         /\ Len(Append(ages, 0)) = Len(ages) + 1
         /\ Sorted(Append(ages, 0))
  <1>1. /\ Len(ages) \in Nat /\ 0 \in 0 .. AlertWindow
        /\ \A i \in 1 .. Len(ages) : ages[i] \in 0 .. AlertWindow
    BY AgesElements, AlertsAssumption
  <1>2. /\ Append(ages, 0) \in Seq(0 .. AlertWindow)
        /\ Len(Append(ages, 0)) = Len(ages) + 1
        /\ \A i \in 1 .. Len(ages) + 1 : Append(ages, 0)[i] =
              IF i <= Len(ages) THEN ages[i] ELSE 0
    BY <1>1
  <1>3. QED BY <1>1, <1>2 DEF Sorted

-----------------------------------------------------------------------------
(* Alerts *)

\* The kinds a check is there for.
KindsOf(c) == IF c \in ResourceChecks THEN ResourceKinds ELSE QuotaKinds

\* A check deals with the kinds it is there for, a resource check with one of
\* each metric; and as long as nothing disturbed it, what it saw exceeded and
\* is done with has an alert.
CheckInv(c) ==
    /\ check[c].todo \subseteq KindsOf(c)
    /\ c \in QuotaChecks => check[c].at # "look"
    /\ c \in ResourceChecks => \A k, l \in check[c].todo :
          k[1] = l[1] => k = l
    /\ check[c].at \in {"idle", "done"} => check[c].todo = {}
    /\ check[c].quiet => \A k \in check[c].exceeded \ check[c].todo :
          alerts[k] # <<>>

\* The checks that may create an alert of kind k without another look.
Creators(k) ==
    {c \in Checks : /\ check[c].at = "create"
                    /\ k \in check[c].todo
                    /\ c \in ResourceChecks => k \in Foremost(check[c].todo)}

\* The checks of its sort.
OfSort(k) == IF k \in ResourceKinds THEN ResourceChecks ELSE QuotaChecks

\* There are no more alerts of a kind than checks of its sort, those counted
\* that are about to create one; and the oldest come first.
KindInv(k) ==
    /\ Len(alerts[k]) + Cardinality(Creators(k)) <= Cardinality(OfSort(k))
    /\ Sorted(alerts[k])

AlertInv ==
    /\ AlertTypeOK
    /\ \A c \in Checks : CheckInv(c)
    /\ \A k \in AlertKinds : KindInv(k)

\* The resource kinds and the quota kinds have nothing in common.
LEMMA KindsApart == ResourceKinds \cap QuotaKinds = {}
  BY AlertsAssumption DEF ResourceKinds, QuotaKinds

\* Who may create an alert of a kind is a check of its sort.
LEMMA CreatorsOfSort ==
  ASSUME AlertInv, NEW k \in AlertKinds
  PROVE  /\ Creators(k) \subseteq OfSort(k)
         /\ IsFiniteSet(OfSort(k))
         /\ IsFiniteSet(Creators(k))
         /\ Cardinality(Creators(k)) \in Nat
         /\ Cardinality(OfSort(k)) \in Nat
  <1>1. IsFiniteSet(OfSort(k))
    BY AlertsAssumption DEF OfSort
  <1>2. ASSUME NEW c \in Creators(k) PROVE c \in OfSort(k)
    <2>1. c \in Checks /\ k \in KindsOf(c)
      BY <1>2 DEF Creators, AlertInv, CheckInv
    <2>2. QED BY <2>1, KindsApart DEF Checks, KindsOf, OfSort
  <1>3. IsFiniteSet(Creators(k))
    BY <1>1, <1>2, FS_Subset
  <1>4. QED BY <1>1, <1>2, <1>3, FS_CardinalityType

\* A kind stays within its bound when no check more is about to create one,
\* when it has no alert, or when a check has created one and is done with it.
LEMMA KindStep ==
  ASSUME AlertInv, NEW k \in AlertKinds, NEW c,
         alerts'[k] \in Seq(0 .. AlertWindow), Sorted(alerts'[k]),
         \/ /\ Len(alerts'[k]) <= Len(alerts[k])
            /\ Creators(k)' \subseteq Creators(k)
         \/ /\ Len(alerts'[k]) = 0
            /\ Creators(k)' \subseteq Creators(k) \cup {c}
            /\ c \in OfSort(k)
         \/ /\ Len(alerts'[k]) = Len(alerts[k]) + 1
            /\ Creators(k)' \subseteq Creators(k) \ {c}
            /\ c \in Creators(k)
  PROVE  KindInv(k)'
  <1>a. /\ Creators(k) \subseteq OfSort(k)
        /\ IsFiniteSet(OfSort(k)) /\ IsFiniteSet(Creators(k))
        /\ Cardinality(Creators(k)) \in Nat
        /\ Cardinality(OfSort(k)) \in Nat
    BY CreatorsOfSort
  <1>b. PICK new : new = Creators(k)'
    OBVIOUS
  <1>c. PICK len \in Nat, len1 \in Nat :
          len = Len(alerts[k]) /\ len1 = Len(alerts'[k])
    <2>1. alerts[k] \in Seq(0 .. AlertWindow)
      BY DEF AlertInv, AlertTypeOK
    <2>2. Len(alerts[k]) \in Nat /\ Len(alerts'[k]) \in Nat
      BY <2>1, LenProperties
    <2>3. QED BY <2>2
  <1>d. len + Cardinality(Creators(k)) <= Cardinality(OfSort(k))
    BY <1>c DEF AlertInv, KindInv
  <1>1. len1 + Cardinality(new) <= Cardinality(OfSort(k))
    <2>1. CASE len1 <= len /\ new \subseteq Creators(k)
      <3>1. Cardinality(new) <= Cardinality(Creators(k))
            /\ IsFiniteSet(new)
        BY <1>a, <2>1, FS_Subset
      <3>2. Cardinality(new) \in Nat
        BY <3>1, FS_CardinalityType
      <3>3. QED BY <1>a, <1>d, <2>1, <3>1, <3>2
    <2>2. CASE len1 = 0 /\ new \subseteq Creators(k) \cup {c}
               /\ c \in OfSort(k)
      <3>1. Cardinality(new) <= Cardinality(OfSort(k)) /\ IsFiniteSet(new)
        BY <1>a, <2>2, FS_Subset
      <3>2. Cardinality(new) \in Nat
        BY <3>1, FS_CardinalityType
      <3>3. QED BY <1>a, <2>2, <3>1, <3>2
    <2>3. CASE /\ len1 = len + 1 /\ new \subseteq Creators(k) \ {c}
               /\ c \in Creators(k)
      <3>1. /\ IsFiniteSet(Creators(k) \ {c})
            /\ Cardinality(Creators(k) \ {c}) = Cardinality(Creators(k)) - 1
        BY <1>a, <2>3, FS_RemoveElement
      <3>2. /\ Cardinality(new) <= Cardinality(Creators(k) \ {c})
            /\ IsFiniteSet(new)
        BY <2>3, <3>1, FS_Subset
      <3>3. Cardinality(new) \in Nat
        BY <3>2, FS_CardinalityType
      <3>4. QED BY <1>a, <1>d, <2>3, <3>1, <3>2, <3>3
    <2>4. QED BY <1>b, <1>c, <2>1, <2>2, <2>3
  <1>2. QED BY <1>b, <1>c, <1>1 DEF KindInv

\* The type of what a check holds.
CheckType == [at : {"idle", "look", "create", "done"},
              todo : SUBSET AlertKinds,
              exceeded : SUBSET AlertKinds,
              quiet : BOOLEAN]

\* One check takes a step and no kind loses its last alert: what is to be
\* shown is about that check and about the kinds.
LEMMA CheckStep ==
  ASSUME AlertInv, NEW c \in Checks, NEW r \in CheckType,
         check' = [check EXCEPT ![c] = r],
         alerts' \in [AlertKinds -> Seq(0 .. AlertWindow)],
         \A k \in AlertKinds : alerts[k] # <<>> => alerts'[k] # <<>>,
         /\ r.todo \subseteq KindsOf(c)
         /\ c \in QuotaChecks => r.at # "look"
         /\ c \in ResourceChecks => \A k, l \in r.todo : k[1] = l[1] => k = l
         /\ r.at \in {"idle", "done"} => r.todo = {}
         /\ r.quiet => \A k \in r.exceeded \ r.todo : alerts'[k] # <<>>,
         \A k \in AlertKinds : KindInv(k)'
  PROVE  AlertInv'
  <1>1. check' \in [Checks -> CheckType] /\ check'[c] = r
        /\ \A d \in Checks \ {c} : check'[d] = check[d]
    BY DEF AlertInv, AlertTypeOK, CheckType
  <1>2. AlertTypeOK'
    BY <1>1 DEF AlertTypeOK, CheckType
  <1>3. CheckInv(c)'
    BY <1>1 DEF CheckInv
  <1>4. ASSUME NEW d \in Checks, d # c PROVE CheckInv(d)'
    <2>1. CheckInv(d) /\ check'[d] = check[d]
      BY <1>1, <1>4 DEF AlertInv
    <2>2. check[d].exceeded \subseteq AlertKinds
      BY DEF AlertInv, AlertTypeOK
    <2>3. QED BY <2>1, <2>2 DEF CheckInv
  <1>5. QED BY <1>2, <1>3, <1>4 DEF AlertInv

\* The other checks are about to create what they were.
LEMMA CreatorsStep ==
  ASSUME AlertInv, NEW c \in Checks, NEW r \in CheckType,
         check' = [check EXCEPT ![c] = r], NEW k
  PROVE  /\ Creators(k)' \ {c} = Creators(k) \ {c}
         /\ c \in Creators(k)' <=>
               /\ r.at = "create" /\ k \in r.todo
               /\ c \in ResourceChecks => k \in Foremost(r.todo)
  <1>1. check'[c] = r /\ \A d \in Checks \ {c} : check'[d] = check[d]
    BY DEF AlertInv, AlertTypeOK, CheckType
  <1>2. QED BY <1>1 DEF Creators, Foremost

\* A check is one of a sort, and is of its type.
LEMMA CheckFields ==
  ASSUME AlertInv, NEW c \in Checks
  PROVE  /\ check[c] \in CheckType /\ CheckInv(c)
         /\ c \in ResourceChecks => c \notin QuotaChecks
         /\ KindsOf(c) \subseteq AlertKinds
  BY AlertsAssumption
     DEF AlertInv, AlertTypeOK, CheckType, KindsOf, Checks, AlertKinds

\* As long as no alert comes or goes, the kinds keep their ages.
LEMMA SameAlerts ==
  ASSUME AlertInv, UNCHANGED alerts
  PROVE  /\ alerts' \in [AlertKinds -> Seq(0 .. AlertWindow)]
         /\ \A k \in AlertKinds :
               /\ alerts[k] # <<>> => alerts'[k] # <<>>
               /\ alerts'[k] \in Seq(0 .. AlertWindow)
               /\ Sorted(alerts'[k])
               /\ Len(alerts[k]) \in Nat
               /\ Len(alerts'[k]) <= Len(alerts[k])
               /\ alerts[k] = <<>> => Len(alerts'[k]) = 0
  <1>1. ASSUME NEW k \in AlertKinds
        PROVE  /\ alerts[k] \in Seq(0 .. AlertWindow) /\ Sorted(alerts[k])
               /\ Len(alerts[k]) \in Nat
               /\ alerts[k] = <<>> => Len(alerts[k]) = 0
    <2>1. alerts[k] \in Seq(0 .. AlertWindow) /\ Sorted(alerts[k])
      BY DEF AlertInv, AlertTypeOK, KindInv
    <2>2. QED BY <2>1, AgesElements
  <1>2. \A k \in AlertKinds : Len(alerts'[k]) <= Len(alerts[k])
    BY <1>1
  <1>3. QED BY <1>1, <1>2 DEF AlertInv, AlertTypeOK

\* A step of a check that is not about to create, or no more than before,
\* an alert.
LEMMA QuietStep ==
  ASSUME AlertInv, NEW c \in Checks, NEW r \in CheckType,
         check' = [check EXCEPT ![c] = r], UNCHANGED alerts,
         NEW k \in AlertKinds,
         \/ ~ (r.at = "create" /\ k \in r.todo)
         \/ c \in OfSort(k) /\ alerts[k] = <<>>
         \/ /\ c \in ResourceChecks
            /\ k \notin Foremost(r.todo)
  PROVE  KindInv(k)'
  <1>1. /\ alerts'[k] \in Seq(0 .. AlertWindow) /\ Sorted(alerts'[k])
        /\ Len(alerts'[k]) <= Len(alerts[k])
        /\ alerts[k] = <<>> => Len(alerts'[k]) = 0
    BY SameAlerts
  <1>2. /\ Creators(k)' \ {c} = Creators(k) \ {c}
        /\ c \in Creators(k)' <=>
               /\ r.at = "create" /\ k \in r.todo
               /\ c \in ResourceChecks => k \in Foremost(r.todo)
    BY CreatorsStep
  <1>3. CASE c \notin Creators(k)'
    <2>1. Creators(k)' \subseteq Creators(k)
      BY <1>2, <1>3
    <2>2. QED BY <1>1, <2>1, KindStep
  <1>4. CASE c \in OfSort(k) /\ alerts[k] = <<>>
    <2>1. Creators(k)' \subseteq Creators(k) \cup {c}
      BY <1>2
    <2>2. QED BY <1>1, <1>4, <2>1, KindStep
  <1>5. QED BY <1>2, <1>3, <1>4

\* What a check holds is known from its four fields.
LEMMA SameCheck ==
  ASSUME NEW r \in CheckType, NEW s \in CheckType,
         r.at = s.at, r.todo = s.todo, r.exceeded = s.exceeded,
         r.quiet = s.quiet
  PROVE  r = s
  <1> DEFINE Fields == {"at", "todo", "exceeded", "quiet"}
  <1>1. /\ r = [field \in Fields |-> r[field]]
        /\ s = [field \in Fields |-> s[field]]
    BY DEF CheckType
  <1>2. \A field \in Fields : r[field] = s[field]
    OBVIOUS
  <1> HIDE DEF Fields
  <1>3. QED BY <1>1, <1>2

\* What a check holds that has just begun.
LEMMA BegunFields ==
  ASSUME NEW at \in {"look", "create"}, NEW todo \in SUBSET AlertKinds,
         NEW exceeded \in SUBSET AlertKinds
  PROVE  LET r == Begun(at, todo, exceeded)
         IN  /\ r \in CheckType /\ r.todo = todo /\ r.exceeded = exceeded
             /\ r.at = IF todo = {} THEN "done" ELSE at
  <1>1. PICK a \in {"look", "create", "done"} :
          a = IF todo = {} THEN "done" ELSE at
    OBVIOUS
  <1>2. Begun(at, todo, exceeded) =
          [Idle EXCEPT !.at = a, !.todo = todo, !.exceeded = exceeded]
    BY <1>1 DEF Begun
  <1>3. [Idle EXCEPT !.at = a, !.todo = todo, !.exceeded = exceeded] =
          [at |-> a, todo |-> todo, exceeded |-> exceeded, quiet |-> TRUE]
    <2> DEFINE r == [Idle EXCEPT !.at = a, !.todo = todo,
                                 !.exceeded = exceeded]
               s == [at |-> a, todo |-> todo, exceeded |-> exceeded,
                     quiet |-> TRUE]
    <2>1. r \in CheckType /\ s \in CheckType
      BY DEF Idle, CheckType
    <2>2. r.at = s.at /\ r.todo = s.todo /\ r.exceeded = s.exceeded
          /\ r.quiet = s.quiet
      BY DEF Idle
    <2> HIDE DEF r, s
    <2>3. r = s
      BY <2>1, <2>2, SameCheck
    <2>4. QED BY <2>3 DEF r, s
  <1>4. QED BY <1>1, <1>2, <1>3 DEF CheckType

\* A resource check begins: of each metric one kind is exceeded.
LEMMA BeginResourceStep ==
  ASSUME AlertInv, NEW c \in Checks, BeginResource(c)
  PROVE  AlertInv'
  <1>1. PICK sample \in [Range(Metrics) -> Severities \cup {"none"}] :
          check' = [check EXCEPT ![c] = Begun("look",
                       ResourceExceeded(sample), ResourceExceeded(sample))]
    BY DEF BeginResource
  <1>2. c \in ResourceChecks /\ c \notin QuotaChecks /\ UNCHANGED alerts
    BY CheckFields DEF BeginResource
  <1> DEFINE todo == ResourceExceeded(sample)
             r == Begun("look", todo, todo)
  <1>4. todo \subseteq ResourceKinds
        /\ \A k, l \in todo : k[1] = l[1] => k = l
    BY DEF ResourceExceeded, ResourceKinds
  <1>5. check' = [check EXCEPT ![c] = r]
    BY <1>1
  <1> HIDE DEF todo
  <1>6. r \in CheckType /\ r.todo = todo /\ r.exceeded = todo
        /\ r.at = IF todo = {} THEN "done" ELSE "look"
    BY <1>4, BegunFields DEF AlertKinds
  <1> HIDE DEF r
  <1>7. \A k \in AlertKinds : KindInv(k)'
    <2>1. r.at # "create"
      BY <1>6
    <2>2. QED BY <1>2, <1>5, <1>6, <2>1, QuietStep
  <1>8. /\ r.todo \subseteq KindsOf(c)
        /\ \A k \in r.exceeded \ r.todo : alerts'[k] # <<>>
        /\ r.at \in {"idle", "done"} => r.todo = {}
        /\ \A k, l \in r.todo : k[1] = l[1] => k = l
    BY <1>2, <1>4, <1>6 DEF KindsOf
  <1>9. /\ alerts' \in [AlertKinds -> Seq(0 .. AlertWindow)]
        /\ \A k \in AlertKinds : alerts[k] # <<>> => alerts'[k] # <<>>
    BY <1>2, SameAlerts
  <1>10. QED BY <1>2, <1>5, <1>6, <1>7, <1>8, <1>9, CheckStep

\* A quota check begins: it skips the kinds that have a recent alert.
LEMMA BeginQuotaStep ==
  ASSUME AlertInv, NEW c \in Checks, BeginQuota(c)
  PROVE  AlertInv'
  <1> DEFINE recent == {k \in QuotaKinds : alerts[k] # <<>>}
  <1>1. PICK usage \in [Users -> {0} \cup Thresholds] :
          check' = [check EXCEPT ![c] = Begun("create",
                       Pending(QuotaExceeded(usage), recent),
                       QuotaExceeded(usage))]
    BY DEF BeginQuota
  <1>2. c \in QuotaChecks /\ c \notin ResourceChecks /\ UNCHANGED alerts
    BY CheckFields DEF BeginQuota
  <1> DEFINE exceeded == QuotaExceeded(usage)
             todo == Pending(exceeded, recent)
             r == Begun("create", todo, exceeded)
  <1>4. /\ exceeded \subseteq QuotaKinds /\ todo \subseteq QuotaKinds
        /\ \A k \in todo : alerts[k] = <<>>
        /\ \A k \in exceeded \ todo : alerts[k] # <<>>
    BY DEF QuotaExceeded, Pending
  <1>5. check' = [check EXCEPT ![c] = r]
    BY <1>1
  <1> HIDE DEF exceeded, todo
  <1>6. r \in CheckType /\ r.todo = todo /\ r.exceeded = exceeded
        /\ r.at = IF todo = {} THEN "done" ELSE "create"
    BY <1>4, BegunFields DEF AlertKinds
  <1> HIDE DEF r
  <1>7. ASSUME NEW k \in AlertKinds PROVE KindInv(k)'
    <2>1. k \in todo => c \in OfSort(k) /\ alerts[k] = <<>>
      BY <1>2, <1>4, KindsApart DEF OfSort
    <2>2. QED BY <1>2, <1>5, <1>6, <2>1, QuietStep
  <1>8. /\ r.todo \subseteq KindsOf(c)
        /\ \A k \in r.exceeded \ r.todo : alerts'[k] # <<>>
        /\ r.at \in {"idle", "done"} => r.todo = {}
        /\ r.at # "look"
    BY <1>2, <1>4, <1>6 DEF KindsOf
  <1>9. /\ alerts' \in [AlertKinds -> Seq(0 .. AlertWindow)]
        /\ \A k \in AlertKinds : alerts[k] # <<>> => alerts'[k] # <<>>
    BY <1>2, SameAlerts
  <1>10. QED BY <1>2, <1>5, <1>6, <1>7, <1>8, <1>9, CheckStep

\* A check that fails has nothing left to deal with.
LEMMA CheckFailsStep ==
  ASSUME AlertInv, NEW c \in Checks, CheckFails(c)
  PROVE  AlertInv'
  <1>1. check' = [check EXCEPT ![c] = Idle] /\ UNCHANGED alerts
    BY DEF CheckFails
  <1>2. Idle \in CheckType /\ Idle.todo = {} /\ Idle.at = "idle"
        /\ Idle.exceeded = {}
    BY DEF Idle, CheckType
  <1>3. \A k \in AlertKinds : KindInv(k)'
    BY <1>1, <1>2, QuietStep
  <1>4. /\ alerts' \in [AlertKinds -> Seq(0 .. AlertWindow)]
        /\ \A k \in AlertKinds : alerts[k] # <<>> => alerts'[k] # <<>>
    BY <1>1, SameAlerts
  <1>5. QED BY <1>1, <1>2, <1>3, <1>4, CheckStep

\* What a check holds that goes on with the kinds of todo.
LEMMA ContinueFields ==
  ASSUME AlertInv, NEW c \in Checks, NEW at \in {"look", "create"},
         NEW todo \in SUBSET AlertKinds
  PROVE  \E r \in CheckType :
            /\ Continue(c, at, todo) = [check EXCEPT ![c] = r]
            /\ r.at = IF todo = {} THEN "done" ELSE at
            /\ r.todo = todo
            /\ r.exceeded = check[c].exceeded /\ r.quiet = check[c].quiet
  <1>1. PICK a \in {"look", "create", "done"} :
          a = IF todo = {} THEN "done" ELSE at
    OBVIOUS
  <1> DEFINE r == [at |-> a, todo |-> todo, exceeded |-> check[c].exceeded,
                   quiet |-> check[c].quiet]
  <1>2. check[c] \in CheckType /\ check \in [Checks -> CheckType]
    BY DEF AlertInv, AlertTypeOK, CheckType
  <1>3. r \in CheckType
    BY <1>2 DEF CheckType
  <1>4. [[check[c] EXCEPT !.at = a] EXCEPT !.todo = todo] = r
    <2> DEFINE s == [[check[c] EXCEPT !.at = a] EXCEPT !.todo = todo]
    <2>1. s \in CheckType
      BY <1>2 DEF CheckType
    <2>2. s.at = r.at /\ s.todo = r.todo /\ s.exceeded = r.exceeded
          /\ s.quiet = r.quiet
      BY <1>2 DEF CheckType
    <2> HIDE DEF r, s
    <2>3. s = r
      BY <1>3, <2>1, <2>2, SameCheck
    <2>4. QED BY <2>3 DEF s
  <1>5. Continue(c, at, todo) =
          [[check EXCEPT ![c].at = a] EXCEPT ![c].todo = todo]
    BY <1>1 DEF Continue
  <1> HIDE DEF r
  <1>6. [[check EXCEPT ![c].at = a] EXCEPT ![c].todo = todo] =
          [check EXCEPT ![c] = [[check[c] EXCEPT !.at = a]
                                   EXCEPT !.todo = todo]]
    BY <1>2
  <1>7. Continue(c, at, todo) = [check EXCEPT ![c] = r]
    BY <1>4, <1>5, <1>6
  <1>8. r.at = a /\ r.todo = todo /\ r.exceeded = check[c].exceeded
        /\ r.quiet = check[c].quiet
    BY DEF r
  <1>9. QED BY <1>1, <1>3, <1>7, <1>8

\* A resource check has one kind before all others of its todo.
LEMMA OneForemost ==
  ASSUME AlertInv, NEW c \in ResourceChecks,
         NEW k \in Foremost(check[c].todo), NEW l \in Foremost(check[c].todo)
  PROVE  k = l
  <1>1. /\ c \in Checks /\ k \in ResourceKinds /\ l \in ResourceKinds
        /\ k \in check[c].todo /\ l \in check[c].todo
        /\ ~Ahead(l, k) /\ ~Ahead(k, l)
    BY CheckFields DEF Checks, CheckInv, KindsOf, Foremost
  <1>2. PICK i \in DOMAIN Metrics, j \in DOMAIN Metrics :
          Metrics[i] = k[1] /\ Metrics[j] = l[1]
    BY <1>1 DEF ResourceKinds, Range
  <1>3. i = j
    BY <1>1, <1>2, AlertsAssumption DEF Ahead
  <1>4. k[1] = l[1]
    BY <1>2, <1>3
  <1>5. QED BY <1>1, <1>4, CheckFields DEF CheckInv

\* A look is the last before an alert is created: it finds none.
LEMMA LookStep ==
  ASSUME AlertInv, NEW c \in Checks, Look(c)
  PROVE  AlertInv'
  <1>a. /\ c \in ResourceChecks /\ c \notin QuotaChecks
        /\ check[c].todo \subseteq ResourceKinds
        /\ check[c].exceeded \subseteq AlertKinds
        /\ \A k, l \in check[c].todo : k[1] = l[1] => k = l
        /\ check[c] \in CheckType /\ UNCHANGED alerts
        /\ ResourceKinds \subseteq AlertKinds
    BY CheckFields DEF Look, CheckInv, Checks, KindsOf, CheckType, AlertKinds
  <1>b. /\ alerts' \in [AlertKinds -> Seq(0 .. AlertWindow)]
        /\ \A k \in AlertKinds : alerts[k] # <<>> => alerts'[k] # <<>>
    BY <1>a, SameAlerts
  <1>1. ASSUME NEW k \in Foremost(check[c].todo), Suppress(k),
               check' = Continue(c, "look", check[c].todo \ {k})
        PROVE  AlertInv'
    <2> DEFINE todo == check[c].todo \ {k}
    <2>1. todo \in SUBSET AlertKinds
      BY <1>a
    <2>2. PICK r \in CheckType :
            /\ check' = [check EXCEPT ![c] = r]
            /\ r.at = IF todo = {} THEN "done" ELSE "look"
            /\ r.todo = todo
            /\ r.exceeded = check[c].exceeded /\ r.quiet = check[c].quiet
      BY <1>1, <2>1, ContinueFields
    <2>3. \A l \in AlertKinds : KindInv(l)'
      <3>1. r.at # "create"
        BY <2>2
      <3>2. QED BY <1>a, <2>2, <3>1, QuietStep
    <2>4. /\ r.todo \subseteq KindsOf(c)
          /\ r.at \in {"idle", "done"} => r.todo = {}
          /\ \A l, m \in r.todo : l[1] = m[1] => l = m
      BY <1>a, <2>2 DEF KindsOf
    <2>5. r.quiet => \A l \in r.exceeded \ r.todo : alerts'[l] # <<>>
      <3>1. alerts[k] # <<>>
        BY <1>1 DEF Suppress
      <3>2. r.quiet => \A l \in r.exceeded \ check[c].todo : alerts[l] # <<>>
        BY <2>2, CheckFields DEF CheckInv
      <3>3. QED BY <1>a, <2>2, <3>1, <3>2
    <2> HIDE DEF todo
    <2>6. QED BY <1>a, <1>b, <2>2, <2>3, <2>4, <2>5, CheckStep
  <1>2. ASSUME NEW k \in Foremost(check[c].todo), ~Suppress(k),
               check' = [check EXCEPT ![c].at = "create"]
        PROVE  AlertInv'
    <2> DEFINE r == [at |-> "create", todo |-> check[c].todo,
                     exceeded |-> check[c].exceeded,
                     quiet |-> check[c].quiet]
    <2>1. r \in CheckType
      BY <1>a DEF CheckType
    <2>2. check' = [check EXCEPT ![c] = r]
      <3>1. [check[c] EXCEPT !.at = "create"] = r
        BY <1>a DEF CheckType
      <3> HIDE DEF r
      <3>2. QED BY <1>2, <3>1
    <2>3. /\ r.at = "create" /\ r.todo = check[c].todo
          /\ r.exceeded = check[c].exceeded /\ r.quiet = check[c].quiet
      OBVIOUS
    <2> HIDE DEF r
    <2>4. k \in ResourceKinds /\ k \in check[c].todo
      BY <1>a, <1>2 DEF Foremost
    <2>5. ASSUME NEW l \in AlertKinds PROVE KindInv(l)'
      <3>1. l = k => c \in OfSort(l) /\ alerts[l] = <<>>
        BY <1>a, <1>2, <2>4 DEF OfSort, Suppress
      <3>2. l # k => l \notin Foremost(r.todo)
        BY <1>a, <1>2, <2>3, OneForemost
      <3>3. QED BY <1>a, <2>1, <2>2, <3>1, <3>2, QuietStep
    <2>6. r.quiet => \A l \in r.exceeded \ r.todo : alerts'[l] # <<>>
      BY <1>a, <2>3, CheckFields DEF CheckInv
    <2>7. /\ r.todo \subseteq KindsOf(c)
          /\ r.at \notin {"idle", "done"}
          /\ \A l, m \in r.todo : l[1] = m[1] => l = m
      BY <1>a, <2>3 DEF KindsOf
    <2>8. QED BY <1>a, <1>b, <2>1, <2>2, <2>5, <2>6, <2>7, CheckStep
  <1>3. QED BY <1>1, <1>2 DEF Look

\* An alert is created, and the check is done with its kind.
LEMMA CreateStep ==
  ASSUME AlertInv, NEW c \in Checks, Create(c)
  PROVE  AlertInv'
  <1>0. PICK next \in {"look", "create"} :
          next = IF c \in QuotaChecks THEN "create" ELSE "look"
    OBVIOUS
  <1>1. PICK k \in Foremost(check[c].todo) :
          /\ alerts' = [alerts EXCEPT ![k] = Append(@, 0)]
          /\ check' = Continue(c, next, check[c].todo \ {k})
    BY <1>0 DEF Create
  <1> DEFINE todo == check[c].todo \ {k}
  <1>2. /\ check[c].todo \subseteq AlertKinds /\ k \in check[c].todo
        /\ check[c].todo \subseteq KindsOf(c)
        /\ check[c].exceeded \subseteq AlertKinds
        /\ todo \in SUBSET AlertKinds
        /\ check[c].at = "create"
    BY <1>1, CheckFields DEF Foremost, CheckInv, CheckType, Create
  <1>3. PICK r \in CheckType :
          /\ check' = [check EXCEPT ![c] = r]
          /\ r.at = IF todo = {} THEN "done" ELSE next
          /\ r.todo = todo
          /\ r.exceeded = check[c].exceeded /\ r.quiet = check[c].quiet
    <2>1. check' = Continue(c, next, todo)
      BY <1>1
    <2> HIDE DEF todo
    <2>2. \E r \in CheckType :
            /\ Continue(c, next, todo) = [check EXCEPT ![c] = r]
            /\ r.at = IF todo = {} THEN "done" ELSE next
            /\ r.todo = todo
            /\ r.exceeded = check[c].exceeded /\ r.quiet = check[c].quiet
      BY <1>2, ContinueFields
    <2>3. QED BY <2>1, <2>2
  <1>4. ASSUME NEW l \in AlertKinds
        PROVE  /\ alerts'[l] \in Seq(0 .. AlertWindow)
               /\ Sorted(alerts'[l])
               /\ Len(alerts[l]) \in Nat
               /\ Len(alerts'[l]) = IF l = k THEN Len(alerts[l]) + 1
                                             ELSE Len(alerts[l])
               /\ alerts[l] # <<>> => alerts'[l] # <<>>
               /\ alerts'[k] # <<>>
    <2>1. alerts \in [AlertKinds -> Seq(0 .. AlertWindow)]
          /\ alerts[l] \in Seq(0 .. AlertWindow) /\ Sorted(alerts[l])
          /\ k \in AlertKinds
          /\ alerts[k] \in Seq(0 .. AlertWindow) /\ Sorted(alerts[k])
      BY <1>2 DEF AlertInv, AlertTypeOK, KindInv
    <2>2. Len(alerts[l]) \in Nat /\ Len(alerts[k]) \in Nat
      BY <2>1, AgesElements
    <2>3. /\ Append(alerts[k], 0) \in Seq(0 .. AlertWindow)
          /\ Len(Append(alerts[k], 0)) = Len(alerts[k]) + 1
          /\ Sorted(Append(alerts[k], 0))
      BY <2>1, AppendedFields
    <2>4. Append(alerts[k], 0) # <<>>
      <3>1. PICK ages \in Seq(0 .. AlertWindow) :
              ages = Append(alerts[k], 0) /\ Len(ages) = Len(alerts[k]) + 1
        BY <2>3
      <3>2. Len(ages) > 0
        BY <2>2, <3>1
      <3>3. QED BY <3>1, <3>2, AgesElements
    <2>5. /\ alerts'[k] = Append(alerts[k], 0)
          /\ l # k => alerts'[l] = alerts[l]
      BY <1>1, <2>1
    <2>6. QED BY <2>1, <2>2, <2>3, <2>4, <2>5
  <1>5. alerts' \in [AlertKinds -> Seq(0 .. AlertWindow)]
    <2>1. alerts' \in [AlertKinds -> Seq(0 .. AlertWindow)] <=>
             \A l \in AlertKinds : alerts'[l] \in Seq(0 .. AlertWindow)
      BY <1>1 DEF AlertInv, AlertTypeOK
    <2>2. QED BY <1>4, <2>1
  <1>6. ASSUME NEW l \in AlertKinds PROVE KindInv(l)'
    <2>1. /\ Creators(l)' \ {c} = Creators(l) \ {c}
          /\ c \in Creators(l)' <=>
                /\ r.at = "create" /\ l \in r.todo
                /\ c \in ResourceChecks => l \in Foremost(r.todo)
      BY <1>3, CreatorsStep
    <2>2. CASE l = k
      <3>1. c \notin Creators(l)'
        BY <1>3, <2>1, <2>2
      <3>2. c \in Creators(l)
        BY <1>1, <1>2, <2>2 DEF Creators
      <3>3. Creators(l)' \subseteq Creators(l) \ {c}
        BY <2>1, <3>1
      <3>4. Len(alerts'[l]) = Len(alerts[l]) + 1
        BY <1>4, <2>2
      <3>5. QED BY <1>4, <3>2, <3>3, <3>4, KindStep
    <2>3. CASE l # k
      <3>1. c \in Creators(l)' => c \in Creators(l)
        <4>1. c \in ResourceChecks => c \notin QuotaChecks
          BY CheckFields
        <4>2. r.at = "create" => c \notin ResourceChecks
          BY <1>0, <1>3, <4>1
        <4>3. QED BY <1>2, <1>3, <2>1, <4>2 DEF Creators
      <3>2. Creators(l)' \subseteq Creators(l)
        BY <2>1, <3>1
      <3>3. Len(alerts'[l]) <= Len(alerts[l])
        BY <1>4, <2>3
      <3>4. QED BY <1>4, <3>2, <3>3, KindStep
    <2>4. QED BY <2>2, <2>3
  <1>7. r.quiet => \A l \in r.exceeded \ r.todo : alerts'[l] # <<>>
    <2>1. r.quiet => \A l \in r.exceeded \ check[c].todo : alerts[l] # <<>>
      BY <1>3, CheckFields DEF CheckInv
    <2>2. QED BY <1>2, <1>3, <1>4, <2>1
  <1>8. /\ r.todo \subseteq KindsOf(c)
        /\ c \in QuotaChecks => r.at # "look"
        /\ r.at \in {"idle", "done"} => r.todo = {}
        /\ c \in ResourceChecks =>
              \A l, m \in r.todo : l[1] = m[1] => l = m
    BY <1>0, <1>2, <1>3, CheckFields DEF CheckInv
  <1>9. \A l \in AlertKinds : alerts[l] # <<>> => alerts'[l] # <<>>
    BY <1>4
  <1> HIDE DEF todo
  <1>10. QED BY <1>3, <1>5, <1>6, <1>7, <1>8, <1>9, CheckStep

\* Alerts go and none comes: the checks are left as they are, but disturbed.
LEMMA DisturbedStep ==
  ASSUME AlertInv, check' = Disturbed,
         alerts' \in [AlertKinds -> Seq(0 .. AlertWindow)],
         \A k \in AlertKinds : /\ Len(alerts'[k]) <= Len(alerts[k])
                               /\ Sorted(alerts'[k])
  PROVE  AlertInv'
  <1>1. ASSUME NEW c \in Checks
        PROVE  /\ check'[c] \in CheckType
               /\ check'[c].at = check[c].at
               /\ check'[c].todo = check[c].todo
               /\ check'[c].quiet = FALSE
    <2>1. check[c] \in CheckType
          /\ check'[c] = [check[c] EXCEPT !.quiet = FALSE]
      BY CheckFields DEF Disturbed
    <2>2. QED BY <2>1 DEF CheckType
  <1>2. check' \in [Checks -> CheckType]
    BY <1>1 DEF Disturbed
  <1>3. AlertTypeOK'
    BY <1>2 DEF AlertTypeOK, CheckType
  <1>4. ASSUME NEW c \in Checks PROVE CheckInv(c)'
    BY <1>1, CheckFields DEF CheckInv
  <1>5. ASSUME NEW k \in AlertKinds PROVE KindInv(k)'
    <2>1. Creators(k)' = Creators(k)
      BY <1>1 DEF Creators, Foremost
    <2>2. alerts'[k] \in Seq(0 .. AlertWindow)
      OBVIOUS
    <2>3. QED BY <2>1, <2>2, KindStep
  <1>6. QED BY <1>3, <1>4, <1>5 DEF AlertInv

\* An alert is deleted.
LEMMA DeleteStep ==
  ASSUME AlertInv, deleteAlert
  PROVE  AlertInv'
  <1>0. PICK k \in AlertKinds : \E i \in DOMAIN alerts[k] :
          alerts' = [alerts EXCEPT ![k] = RemoveAt(@, i)]
    BY DEF deleteAlert
  <1>1. PICK i \in DOMAIN alerts[k] :
          alerts' = [alerts EXCEPT ![k] = RemoveAt(@, i)]
    BY <1>0
  <1>2. alerts \in [AlertKinds -> Seq(0 .. AlertWindow)]
    BY DEF AlertInv, AlertTypeOK
  <1>3. /\ RemoveAt(alerts[k], i) \in Seq(0 .. AlertWindow)
        /\ Len(RemoveAt(alerts[k], i)) <= Len(alerts[k])
        /\ Sorted(RemoveAt(alerts[k], i))
    <2>1. alerts[k] \in Seq(0 .. AlertWindow) /\ Sorted(alerts[k])
      BY <1>2 DEF AlertInv, KindInv
    <2>2. QED BY <2>1, RemovedFields
  <1>4. alerts' \in [AlertKinds -> Seq(0 .. AlertWindow)]
    BY <1>1, <1>2, <1>3
  <1>5. ASSUME NEW l \in AlertKinds
        PROVE  Len(alerts'[l]) <= Len(alerts[l]) /\ Sorted(alerts'[l])
    <2>1. Len(alerts[l]) <= Len(alerts[l]) /\ Sorted(alerts[l])
      BY <1>2, AgesElements DEF AlertInv, KindInv
    <2>2. alerts'[l] = IF l = k THEN RemoveAt(alerts[k], i) ELSE alerts[l]
      BY <1>1, <1>2
    <2>3. QED BY <1>3, <2>1, <2>2
  <1>6. check' = Disturbed
    BY DEF deleteAlert
  <1>7. QED BY <1>4, <1>5, <1>6, DisturbedStep

\* The alerts grow older.
LEMMA AgeStep ==
  ASSUME AlertInv, AlertsAge
  PROVE  AlertInv'
  <1>1. check' = Disturbed
        /\ alerts' = [k \in AlertKinds |-> Later(alerts[k])]
    BY DEF AlertsAge
  <1>2. ASSUME NEW k \in AlertKinds
        PROVE  /\ Later(alerts[k]) \in Seq(0 .. AlertWindow)
               /\ Len(Later(alerts[k])) <= Len(alerts[k])
               /\ Sorted(Later(alerts[k]))
    <2>1. alerts[k] \in Seq(0 .. AlertWindow) /\ Sorted(alerts[k])
      BY DEF AlertInv, AlertTypeOK, KindInv
    <2>2. QED BY <2>1, LaterFields
  <1>3. QED BY <1>1, <1>2, DisturbedStep

\* At first there is no alert and no check under way.
LEMMA InitAlertInv == AlertInit => AlertInv
  <1> SUFFICES ASSUME AlertInit PROVE AlertInv
    OBVIOUS
  <1>1. Idle \in CheckType /\ Idle.at = "idle" /\ Idle.todo = {}
        /\ Idle.exceeded = {}
    BY DEF Idle, CheckType
  <1>2. /\ \A c \in Checks : check[c] = Idle
        /\ check \in [Checks -> CheckType]
        /\ \A k \in AlertKinds : alerts[k] = <<>>
        /\ alerts \in [AlertKinds -> Seq(0 .. AlertWindow)]
    BY <1>1 DEF AlertInit
  <1>3. AlertTypeOK
    BY <1>2 DEF AlertTypeOK, CheckType
  <1>4. \A c \in Checks : CheckInv(c)
    BY <1>1, <1>2 DEF CheckInv
  <1>5. ASSUME NEW k \in AlertKinds PROVE KindInv(k)
    <2>1. Creators(k) = {}
      BY <1>1, <1>2 DEF Creators
    <2>2. Cardinality(Creators(k)) = 0
      BY <2>1, FS_EmptySet
    <2>3. Cardinality(OfSort(k)) \in Nat
      BY AlertsAssumption, FS_CardinalityType DEF OfSort
    <2>4. Len(alerts[k]) = 0
      BY <1>2
    <2>5. Sorted(alerts[k])
      BY <2>4 DEF Sorted
    <2>6. QED BY <2>2, <2>3, <2>4, <2>5 DEF KindInv
  <1>6. QED BY <1>3, <1>4, <1>5 DEF AlertInv

\* Nothing changes.
LEMMA SameAlertInv == AlertInv /\ UNCHANGED alertVars => AlertInv'
  BY DEF AlertInv, alertVars, AlertTypeOK, CheckInv, KindInv, Creators,
         Foremost, Sorted

\* Every step keeps the invariant.
LEMMA NextAlertInv == AlertInv /\ [AlertNext]_alertVars => AlertInv'
  <1> SUFFICES ASSUME AlertInv, [AlertNext]_alertVars PROVE AlertInv'
    OBVIOUS
  <1>1. ASSUME NEW c \in Checks,
               \/ BeginResource(c) \/ BeginQuota(c) \/ Look(c) \/ Create(c)
               \/ CheckFails(c)
        PROVE  AlertInv'
    BY <1>1, BeginResourceStep, BeginQuotaStep, LookStep, CreateStep,
       CheckFailsStep
  <1>2. CASE deleteAlert
    BY <1>2, DeleteStep
  <1>3. CASE AlertsAge
    BY <1>3, AgeStep
  <1>4. CASE UNCHANGED alertVars
    BY <1>4, SameAlertInv
  <1>5. QED BY <1>1, <1>2, <1>3, <1>4 DEF AlertNext

\* So it always holds.
LEMMA AlertInvHolds == AlertSpec => []AlertInv
  BY InitAlertInv, NextAlertInv, PTL DEF AlertSpec

\* The alerts and the checks are always of their types.
THEOREM AlertTypeCorrect == AlertSpec => []AlertTypeOK
  <1>1. AlertInv => AlertTypeOK
    BY DEF AlertInv
  <1>2. QED BY <1>1, AlertInvHolds, PTL

\* However many checks overlap, of whatever metrics, users and thresholds,
\* and whenever alerts age or are deleted: there are never more recent alerts
\* of a kind than checks of its sort.
THEOREM DuplicatesBounded == AlertSpec => []DuplicatesNeedOverlap
  <1>1. AlertInv => DuplicatesNeedOverlap
    <2> SUFFICES ASSUME AlertInv PROVE DuplicatesNeedOverlap
      OBVIOUS
    <2>1. ASSUME NEW k \in AlertKinds
          PROVE  Len(alerts[k]) <= Cardinality(OfSort(k))
      <3>1. alerts[k] \in Seq(0 .. AlertWindow)
        BY DEF AlertInv, AlertTypeOK
      <3>2. /\ Len(alerts[k]) \in Nat
            /\ Cardinality(Creators(k)) \in Nat
            /\ Cardinality(OfSort(k)) \in Nat
        BY <3>1, AgesElements, CreatorsOfSort
      <3>3. Len(alerts[k]) + Cardinality(Creators(k))
               <= Cardinality(OfSort(k))
        BY DEF AlertInv, KindInv
      <3>4. QED BY <3>2, <3>3
    <2>2. QED BY <2>1, KindsApart
              DEF DuplicatesNeedOverlap, AlertKinds, OfSort
  <1>2. QED BY <1>1, AlertInvHolds, PTL

\* And suppression never swallows a first alert: a check that ends, with no
\* alert gone meanwhile, leaves one for all it saw exceeded.
THEOREM FirstAlertRaised == AlertSpec => []ExceededMeansAlert
  <1>1. AlertInv => ExceededMeansAlert
    BY DEF AlertInv, CheckInv, ExceededMeansAlert
  <1>2. QED BY <1>1, AlertInvHolds, PTL

-----------------------------------------------------------------------------
(* The trie of the GeoIP database *)

\* Naturals up to a bound have a greatest among them.
LEMMA GreatestUpTo ==
  ASSUME NEW n \in Nat, NEW S \in SUBSET (0 .. n), S # {}
  PROVE  \E m \in S : \A k \in S : k <= m
  <1> DEFINE T == {n - k : k \in S}
  <1>1. T \in SUBSET Nat /\ T # {}
    <2>1. \A k \in S : n - k \in Nat
      OBVIOUS
    <2>2. QED BY <2>1
  <1>2. PICK t \in T : \A u \in T : t <= u
    BY <1>1, NatMinimum
  <1>3. PICK m \in S : t = n - m
    OBVIOUS
  <1>4. ASSUME NEW k \in S PROVE k <= m
    <2>1. n - k \in T
      OBVIOUS
    <2>2. n - m <= n - k
      BY <1>2, <1>3, <2>1
    <2>3. QED BY <2>2
  <1>5. QED BY <1>4

\* The mask of a prefix has that many ones in front, also for the whole
\* width and for none, where the shift alone would give the wrong one.
LEMMA MaskBits ==
  ASSUME NEW prefix \in 0 .. Width
  PROVE  Mask(prefix) = [i \in Bits |-> IF i <= prefix THEN 1 ELSE 0]
  <1>1. Width \in Nat /\ Width > 0
    BY GeoIPIndexAssumption
  <1>2. CASE prefix = 0
    BY <1>1, <1>2 DEF Mask, Zeros, Bits
  <1>3. CASE prefix # 0
    <2>1. Width - prefix \in 0 .. Width - 1
      BY <1>1, <1>3
    <2>2. (Width - prefix) % Width = Width - prefix
      BY <1>1, <2>1
    <2>3. \A i \in Bits : i + (Width - prefix) \in Bits <=> i <= prefix
      BY <1>1, <2>1 DEF Bits
    <2>4. QED BY <1>3, <2>2, <2>3 DEF Mask, ShiftLeft, Ones
  <1>4. QED BY <1>2, <1>3

\* So the network of a prefix is the address with the bits after the prefix
\* cleared.
LEMMA MaskedBits ==
  ASSUME NEW ip \in IPv4, NEW prefix \in 0 .. Width
  PROVE  /\ Masked(ip, Mask(prefix)) \in IPv4
         /\ Masked(ip, Mask(prefix))
               = [i \in Bits |-> IF i <= prefix THEN ip[i] ELSE 0]
  <1>1. \A i \in Bits : ip[i] \in {0, 1}
    BY DEF IPv4
  <1>2. Masked(ip, Mask(prefix))
           = [i \in Bits |-> IF i <= prefix THEN ip[i] ELSE 0]
    BY <1>1, MaskBits DEF Masked
  <1>3. QED BY <1>1, <1>2 DEF IPv4

\* Two nodes are the same when they are as deep and the bits on the way are
\* the same.
LEMMA SameNode ==
  ASSUME NEW a, NEW b, NEW d \in Nat, NEW e \in Nat
  PROVE  Node(a, d) = Node(b, e)
            <=> d = e /\ \A i \in 1 .. d : a[i] = b[i]
  <1>1. ASSUME Node(a, d) = Node(b, e)
        PROVE  d = e /\ \A i \in 1 .. d : a[i] = b[i]
    <2>1. 1 .. d = 1 .. e
      BY <1>1 DEF Node
    <2>2. d = e
      BY <2>1
    <2>3. ASSUME NEW i \in 1 .. d PROVE a[i] = b[i]
      <3>1. Node(a, d)[i] = a[i] /\ Node(b, d)[i] = b[i]
        BY DEF Node
      <3>2. QED BY <1>1, <2>2, <3>1
    <2>4. QED BY <2>2, <2>3
  <1>2. ASSUME d = e, \A i \in 1 .. d : a[i] = b[i]
        PROVE  Node(a, d) = Node(b, e)
    BY <1>2 DEF Node
  <1>3. QED BY <1>1, <1>2

\* A prefix contains an address as matchesCIDR has it, with masks, exactly
\* when the way to the address in the trie leads through its node.
LEMMA MatchIsOnTheWay ==
  ASSUME NEW ip \in IPv4, NEW cidr \in Cidrs, Valid(cidr)
  PROVE  /\ cidr.prefix \in 0 .. Width /\ Network(cidr) \in IPv4
         /\ matchesCIDR(ip, cidr)
               <=> Node(ip, cidr.prefix) = Node(Network(cidr), cidr.prefix)
  <1> DEFINE p == cidr.prefix
             net == Network(cidr)
             ours == Masked(ip, Mask(p))
  <1>1. Width \in Nat /\ p \in 0 .. Width /\ p \in Nat /\ cidr.ip \in IPv4
    BY GeoIPIndexAssumption DEF Cidrs, Valid
  <1>2. /\ net \in IPv4
        /\ net = [i \in Bits |-> IF i <= p THEN cidr.ip[i] ELSE 0]
        /\ ours = [i \in Bits |-> IF i <= p THEN ip[i] ELSE 0]
    BY <1>1, MaskedBits DEF Network
  <1>3. matchesCIDR(ip, cidr) <=> ours = net
    BY DEF matchesCIDR
  <1>4. 1 .. p \subseteq Bits /\ \A i \in 1 .. p : i <= p
    BY <1>1 DEF Bits
  <1>5. ours = net <=> \A i \in 1 .. p : ip[i] = net[i]
    <2>1. ASSUME ours = net, NEW i \in 1 .. p PROVE ip[i] = net[i]
      <3>1. ours[i] = ip[i]
        BY <1>2, <1>4
      <3>2. QED BY <2>1, <3>1
    <2>2. ASSUME \A i \in 1 .. p : ip[i] = net[i] PROVE ours = net
      <3>1. \A i \in Bits : i <= p => i \in 1 .. p
        BY <1>1 DEF Bits
      <3>2. \A i \in Bits : ours[i] = net[i]
        BY <1>2, <2>2, <3>1
      <3>3. QED BY <1>2, <3>2
    <2>3. QED BY <2>1, <2>2
  <1>6. Node(ip, p) = Node(net, p) <=> \A i \in 1 .. p : ip[i] = net[i]
    <2> HIDE DEF p, net
    <2>1. QED BY <1>1, SameNode
  <1>7. QED BY <1>1, <1>2, <1>3, <1>5, <1>6

\* The insertions whose prefix ends at a node.
Ends(n) == {i \in DOMAIN prefixes :
               /\ Valid(prefixes[i].cidr)
               /\ n = Node(Network(prefixes[i].cidr),
                           prefixes[i].cidr.prefix)}

\* The trie is what the prefixes make of it: the nodes on the way to one of
\* them and no others, each with the country of the last prefix that ends
\* there.
IndexInv ==
    /\ IndexTypeOK
    /\ \A n : n \in DOMAIN lookupIndex <=>
          \/ n = Root
          \/ \E i \in DOMAIN prefixes : /\ Valid(prefixes[i].cidr)
                                        /\ n \in Spine(prefixes[i].cidr)
    /\ \A n \in DOMAIN lookupIndex :
          \/ Ends(n) = {} /\ lookupIndex[n] = NoCountry
          \/ \E i \in Ends(n) :
                /\ \A j \in Ends(n) : j <= i
                /\ lookupIndex[n] = prefixes[i].country

\* An empty trie is the root alone.
LEMMA InitIndexInv == IndexInit => IndexInv
  <1> SUFFICES ASSUME IndexInit PROVE IndexInv
    OBVIOUS
  <1>1. /\ DOMAIN lookupIndex = {Root} /\ lookupIndex[Root] = NoCountry
        /\ DOMAIN prefixes = {} /\ prefixes = <<>>
    BY DEF IndexInit
  <1>2. Root \in {Node(ip, depth) : ip \in IPv4, depth \in 0 .. Width}
    <2>1. Zeros \in IPv4 /\ 0 \in 0 .. Width
      BY GeoIPIndexAssumption DEF Zeros, IPv4
    <2>2. Root = Node(Zeros, 0)
      BY DEF Root, Node
    <2>3. QED BY <2>1, <2>2
  <1>3. IndexTypeOK
    BY <1>1, <1>2 DEF IndexTypeOK
  <1>4. \A n : Ends(n) = {}
    BY <1>1 DEF Ends
  <1>5. QED BY <1>1, <1>3, <1>4 DEF IndexInv

\* What is known of the prefixes and of the last one after an insertion.
LEMMA Appended ==
  ASSUME IndexTypeOK, NEW country \in Countries, NEW cidr \in Cidrs,
         Insert(country, cidr)
  PROVE  /\ prefixes' \in Seq([country : Countries, cidr : Cidrs])
         /\ Len(prefixes) \in Nat
         /\ DOMAIN prefixes = 1 .. Len(prefixes)
         /\ DOMAIN prefixes' = 1 .. Len(prefixes) + 1
         /\ \A i \in DOMAIN prefixes :
               /\ prefixes'[i] = prefixes[i]
               /\ prefixes[i] \in [country : Countries, cidr : Cidrs]
         /\ prefixes'[Len(prefixes) + 1] = [country |-> country, cidr |-> cidr]
  <1> DEFINE item == [country |-> country, cidr |-> cidr]
             Items == [country : Countries, cidr : Cidrs]
  <1>1. /\ prefixes \in Seq(Items) /\ item \in Items
        /\ prefixes' = Append(prefixes, item)
    BY DEF IndexTypeOK, Insert
  <1> HIDE DEF item, Items
  <1>2. /\ prefixes' \in Seq(Items) /\ Len(prefixes) \in Nat
        /\ DOMAIN prefixes = 1 .. Len(prefixes)
        /\ DOMAIN prefixes' = 1 .. Len(prefixes) + 1
        /\ \A i \in 1 .. Len(prefixes) :
              prefixes'[i] = prefixes[i] /\ prefixes[i] \in Items
        /\ prefixes'[Len(prefixes) + 1] = item
    BY <1>1
  <1>3. QED BY <1>2 DEF item, Items

\* The insertions that end at a node are those from before and, at the node
\* of the new prefix, the new one.
LEMMA EndsStep ==
  ASSUME IndexTypeOK, NEW country \in Countries, NEW cidr \in Cidrs,
         Insert(country, cidr), NEW n
  PROVE  Ends(n)' = IF Valid(cidr) /\ n = Node(Network(cidr), cidr.prefix)
                    THEN Ends(n) \cup {Len(prefixes) + 1} ELSE Ends(n)
  <1> DEFINE size == Len(prefixes)
             EndsAt(c) == Valid(c) /\ n = Node(Network(c), c.prefix)
  <1>1. /\ size \in Nat
        /\ DOMAIN prefixes = 1 .. size /\ DOMAIN prefixes' = 1 .. size + 1
        /\ \A i \in 1 .. size : prefixes'[i].cidr = prefixes[i].cidr
        /\ prefixes'[size + 1].cidr = cidr
    <2>1. /\ size \in Nat /\ DOMAIN prefixes = 1 .. size
          /\ DOMAIN prefixes' = 1 .. size + 1
          /\ \A i \in 1 .. size : prefixes'[i] = prefixes[i]
          /\ prefixes'[size + 1] = [country |-> country, cidr |-> cidr]
      BY Appended
    <2>2. QED BY <2>1
  <1>2. /\ Ends(n)' = {i \in 1 .. size + 1 : EndsAt(prefixes'[i].cidr)}
        /\ Ends(n) = {i \in 1 .. size : EndsAt(prefixes[i].cidr)}
    BY <1>1 DEF Ends, Valid, Node, Network, Mask, Masked
  <1>3. /\ \A i \in 1 .. size : EndsAt(prefixes'[i].cidr)
                                   <=> EndsAt(prefixes[i].cidr)
        /\ EndsAt(prefixes'[size + 1].cidr) <=> EndsAt(cidr)
    BY <1>1
  <1>4. /\ \A i \in 1 .. size + 1 : i \in 1 .. size \/ i = size + 1
        /\ \A i \in 1 .. size : i \in 1 .. size + 1
        /\ size + 1 \in 1 .. size + 1
    BY <1>1
  <1> HIDE DEF EndsAt, size
  <1>5. Ends(n)' = IF EndsAt(cidr) THEN Ends(n) \cup {size + 1} ELSE Ends(n)
    BY <1>2, <1>3, <1>4
  <1>6. QED BY <1>5 DEF EndsAt, size

\* Every insertion keeps the trie what the prefixes make of it.
LEMMA InsertStep ==
  ASSUME IndexInv, NEW country \in Countries, NEW cidr \in Cidrs,
         Insert(country, cidr)
  PROVE  IndexInv'
  <1> DEFINE last == Node(Network(cidr), cidr.prefix)
             size == Len(prefixes)
  <1>0. Zeros \in IPv4
    BY DEF Zeros, IPv4
  <1>1. IndexTypeOK
    BY DEF IndexInv
  <1>2. /\ prefixes' \in Seq([country : Countries, cidr : Cidrs])
        /\ size \in Nat
        /\ DOMAIN prefixes = 1 .. size /\ DOMAIN prefixes' = 1 .. size + 1
        /\ \A i \in 1 .. size : prefixes'[i] = prefixes[i]
        /\ prefixes'[size + 1] = [country |-> country, cidr |-> cidr]
    BY <1>1, Appended
  <1>3. \A n : Ends(n)' = IF Valid(cidr) /\ n = last
                          THEN Ends(n) \cup {size + 1} ELSE Ends(n)
    BY <1>1, EndsStep
  <1>4. \A n : Ends(n) \subseteq 1 .. size
    BY <1>2 DEF Ends
  \* The nodes, once it is known which are there.
  <1>5. ASSUME \A n : n \in DOMAIN lookupIndex' <=>
                   \/ n \in DOMAIN lookupIndex
                   \/ Valid(cidr) /\ n \in Spine(cidr)
        PROVE  \A n : n \in DOMAIN lookupIndex' <=>
                   \/ n = Root
                   \/ \E i \in DOMAIN prefixes' :
                         /\ Valid(prefixes'[i].cidr)
                         /\ n \in Spine(prefixes'[i].cidr)
    <2> SUFFICES ASSUME NEW n
                 PROVE  n \in DOMAIN lookupIndex' <=>
                            \/ n = Root
                            \/ \E i \in 1 .. size + 1 :
                                  /\ Valid(prefixes'[i].cidr)
                                  /\ n \in Spine(prefixes'[i].cidr)
      BY <1>2
    <2>1. n \in DOMAIN lookupIndex <=>
             \/ n = Root
             \/ \E i \in 1 .. size : /\ Valid(prefixes[i].cidr)
                                     /\ n \in Spine(prefixes[i].cidr)
      BY <1>2 DEF IndexInv
    <2>2. (\E i \in 1 .. size + 1 : /\ Valid(prefixes'[i].cidr)
                                    /\ n \in Spine(prefixes'[i].cidr))
            <=> \/ \E i \in 1 .. size : /\ Valid(prefixes[i].cidr)
                                        /\ n \in Spine(prefixes[i].cidr)
                \/ Valid(cidr) /\ n \in Spine(cidr)
      <3>1. /\ \A i \in 1 .. size + 1 : i \in 1 .. size \/ i = size + 1
            /\ \A i \in 1 .. size : i \in 1 .. size + 1
            /\ size + 1 \in 1 .. size + 1
        BY <1>2
      <3>2. prefixes'[size + 1].cidr = cidr
        BY <1>2
      <3>3. \A i \in 1 .. size : prefixes'[i].cidr = prefixes[i].cidr
        BY <1>2
      <3> HIDE DEF size
      <3>4. QED BY ONLY <3>1, <3>2, <3>3
    <2>3. QED BY <1>5, <2>1, <2>2
  <1>6. CASE ~ Valid(cidr) /\ UNCHANGED lookupIndex
    <2>1. IndexTypeOK'
      BY <1>1, <1>2, <1>6 DEF IndexTypeOK
    <2>2. \A n \in DOMAIN lookupIndex' :
             \/ Ends(n)' = {} /\ lookupIndex'[n] = NoCountry
             \/ \E i \in Ends(n)' :
                   /\ \A j \in Ends(n)' : j <= i
                   /\ lookupIndex'[n] = prefixes'[i].country
      BY <1>2, <1>3, <1>4, <1>6 DEF IndexInv
    <2>3. QED BY <1>5, <1>6, <2>1, <2>2 DEF IndexInv
  <1>7. CASE /\ Valid(cidr)
             /\ lookupIndex' =
                   [n \in DOMAIN lookupIndex \cup Spine(cidr) |->
                       IF n = last THEN country
                       ELSE IF n \in DOMAIN lookupIndex THEN lookupIndex[n]
                       ELSE NoCountry]
    <2>1. /\ DOMAIN lookupIndex' = DOMAIN lookupIndex \cup Spine(cidr)
          /\ \A n \in DOMAIN lookupIndex' :
                lookupIndex'[n] = IF n = last THEN country
                                  ELSE IF n \in DOMAIN lookupIndex
                                       THEN lookupIndex[n] ELSE NoCountry
      BY <1>7
    <2>2. \A n : n \in DOMAIN lookupIndex' <=>
             \/ n = Root
             \/ \E i \in DOMAIN prefixes' :
                   Valid(prefixes'[i].cidr) /\ n \in Spine(prefixes'[i].cidr)
      BY <1>5, <1>7, <2>1
    <2>3. IndexTypeOK'
      <3>1. cidr.prefix \in 0 .. Width /\ Network(cidr) \in IPv4
        BY <1>7, <1>0, MatchIsOnTheWay
      <3>2. Spine(cidr) \subseteq
               {Node(ip, depth) : ip \in IPv4, depth \in 0 .. Width}
        BY <3>1, GeoIPIndexAssumption DEF Spine
      <3>3. QED BY <1>1, <1>2, <2>1, <3>2 DEF IndexTypeOK
    <2>4. ASSUME NEW n \in DOMAIN lookupIndex'
          PROVE  \/ Ends(n)' = {} /\ lookupIndex'[n] = NoCountry
                 \/ \E i \in Ends(n)' :
                       /\ \A j \in Ends(n)' : j <= i
                       /\ lookupIndex'[n] = prefixes'[i].country
      <3>1. CASE n = last
        <4>1. Ends(n)' = Ends(n) \cup {size + 1}
          BY <1>3, <1>7, <3>1
        <4>2. \A j \in Ends(n)' : j <= size + 1
          BY <1>2, <1>4, <4>1
        <4>3. lookupIndex'[n] = prefixes'[size + 1].country
          BY <1>2, <2>1, <3>1
        <4>4. QED BY <4>1, <4>2, <4>3
      <3>2. CASE n # last /\ n \in DOMAIN lookupIndex
        <4>1. Ends(n)' = Ends(n) /\ lookupIndex'[n] = lookupIndex[n]
          BY <1>3, <2>1, <3>2
        <4>2. \/ Ends(n) = {} /\ lookupIndex[n] = NoCountry
              \/ \E i \in Ends(n) :
                    /\ \A j \in Ends(n) : j <= i
                    /\ lookupIndex[n] = prefixes[i].country
          BY <3>2 DEF IndexInv
        <4>3. QED BY <1>2, <1>4, <4>1, <4>2
      <3>3. CASE n # last /\ n \notin DOMAIN lookupIndex
        <4>1. Ends(n)' = Ends(n) /\ lookupIndex'[n] = NoCountry
          BY <1>3, <2>1, <3>3
        <4>2. ASSUME NEW i \in Ends(n) PROVE FALSE
          <5>1. /\ i \in DOMAIN prefixes /\ Valid(prefixes[i].cidr)
                /\ n = Node(Network(prefixes[i].cidr),
                            prefixes[i].cidr.prefix)
            BY DEF Ends
          <5>2. prefixes[i].cidr \in Cidrs
            BY <1>1, <1>2, <5>1, Appended
          <5>3. prefixes[i].cidr.prefix \in 0 .. prefixes[i].cidr.prefix
            BY <5>1, <5>2, MatchIsOnTheWay, GeoIPIndexAssumption DEF Cidrs
          <5>4. n \in Spine(prefixes[i].cidr)
            BY <5>1, <5>3 DEF Spine
          <5>5. QED BY <3>3, <5>1, <5>4 DEF IndexInv
        <4>3. QED BY <4>1, <4>2
      <3>4. QED BY <3>1, <3>2, <3>3
    <2>5. QED BY <2>2, <2>3, <2>4 DEF IndexInv
  <1>8. QED BY <1>6, <1>7 DEF Insert

\* Whatever is inserted, the trie is what the prefixes make of it.
LEMMA NextIndexInv == IndexInv /\ [IndexNext]_indexVars => IndexInv'
  <1> SUFFICES ASSUME IndexInv, [IndexNext]_indexVars PROVE IndexInv'
    OBVIOUS
  <1>1. CASE IndexNext
    <2>1. PICK country \in Countries : \E cidr \in Cidrs :
                                          Insert(country, cidr)
      BY <1>1 DEF IndexNext
    <2>2. PICK cidr \in Cidrs : Insert(country, cidr)
      BY <2>1
    <2>3. QED BY <2>2, InsertStep
  <1>2. CASE UNCHANGED indexVars
    BY <1>2 DEF indexVars, IndexInv, IndexTypeOK, Ends
  <1>3. QED BY <1>1, <1>2

\* So it always is.
LEMMA IndexInvHolds == IndexSpec => []IndexInv
  BY InitIndexInv, NextIndexInv, PTL DEF IndexSpec

\* The nodes of the trie are ones that lead to an address, with a country or
\* none.
THEOREM IndexTypeCorrect == IndexSpec => []IndexTypeOK
  <1>1. IndexInv => IndexTypeOK
    BY DEF IndexInv
  <1>2. QED BY <1>1, IndexInvHolds, PTL

\* Every prefix of the list has its address, its length and its country.
LEMMA PrefixTypes ==
  ASSUME IndexTypeOK
  PROVE  /\ DOMAIN prefixes \subseteq Nat
         /\ \A i \in DOMAIN prefixes : /\ prefixes[i].cidr \in Cidrs
                                      /\ prefixes[i].country \in Countries
  <1> DEFINE Items == [country : Countries, cidr : Cidrs]
  <1>1. prefixes \in Seq(Items)
    BY DEF IndexTypeOK
  <1>2. \A item \in Items :
           item.cidr \in Cidrs /\ item.country \in Countries
    OBVIOUS
  <1> HIDE DEF Items
  <1>3. \A i \in DOMAIN prefixes : prefixes[i] \in Items /\ i \in Nat
    BY <1>1
  <1>4. QED BY <1>2, <1>3

\* On the way down to an address the lookup meets a country exactly at the
\* prefixes that contain the address.
LEMMA MetAreMatching ==
  ASSUME IndexInv, NEW ip \in IPv4, NEW d \in 0 .. Width
  PROVE  /\ Ends(Node(ip, d))
               = {i \in DOMAIN prefixes : /\ matchesCIDR(ip, prefixes[i].cidr)
                                          /\ prefixes[i].cidr.prefix = d}
         /\ d \in Met(ip) <=> Ends(Node(ip, d)) # {}
  <1> DEFINE node == Node(ip, d)
             At(i) == prefixes[i].cidr
  <1>1. /\ Width \in Nat /\ d \in Nat /\ NoCountry \notin Countries
        /\ IndexTypeOK
    BY GeoIPIndexAssumption DEF IndexInv
  <1>2. \A i \in DOMAIN prefixes :
           At(i) \in Cidrs /\ prefixes[i].country \in Countries
    BY <1>1, PrefixTypes
  <1>3. ASSUME NEW i \in DOMAIN prefixes, Valid(At(i))
        PROVE  /\ At(i).prefix \in 0 .. Width
               /\ \A e \in Nat :
                     Node(ip, e) = Node(Network(At(i)), At(i).prefix)
                     <=> matchesCIDR(ip, At(i)) /\ At(i).prefix = e
    <2> DEFINE c == At(i)
    <2>1. c \in Cidrs
      BY <1>2
    <2> HIDE DEF c
    <2>2. /\ c.prefix \in 0 .. Width /\ c.prefix \in Nat
          /\ matchesCIDR(ip, c)
                <=> Node(ip, c.prefix) = Node(Network(c), c.prefix)
      BY <1>1, <1>3, <2>1, MatchIsOnTheWay DEF c
    <2>3. ASSUME NEW e \in Nat, Node(ip, e) = Node(Network(c), c.prefix)
          PROVE  c.prefix = e
      BY <2>2, <2>3, SameNode
    <2>4. QED BY <2>2, <2>3 DEF c
  <1>4. Ends(node) = {i \in DOMAIN prefixes :
                         matchesCIDR(ip, At(i)) /\ At(i).prefix = d}
    <2>1. \A i \in DOMAIN prefixes :
             matchesCIDR(ip, At(i)) => Valid(At(i))
      BY DEF matchesCIDR
    <2>2. \A i \in DOMAIN prefixes :
             (/\ Valid(At(i))
              /\ node = Node(Network(At(i)), At(i).prefix))
                <=> (matchesCIDR(ip, At(i)) /\ At(i).prefix = d)
      BY <1>1, <1>3, <2>1
    <2>3. QED BY <2>2 DEF Ends
  <1>5. ASSUME d \in Met(ip) PROVE Ends(node) # {}
    <2>1. node \in DOMAIN lookupIndex /\ lookupIndex[node] # NoCountry
      BY <1>1, <1>5 DEF Met
    <2>2. QED BY <2>1 DEF IndexInv
  <1>6. ASSUME Ends(node) # {} PROVE d \in Met(ip)
    <2>1. PICK i \in DOMAIN prefixes : /\ Valid(At(i))
                                       /\ node = Node(Network(At(i)),
                                                      At(i).prefix)
      BY <1>6 DEF Ends
    <2>2. At(i).prefix = d
      BY <1>1, <1>3, <2>1
    <2>3. ASSUME NEW e \in 0 .. d
          PROVE  Node(ip, e) \in DOMAIN lookupIndex
      <3>1. e \in Nat /\ 1 .. e \subseteq 1 .. d
        BY <1>1
      <3>2. \A j \in 1 .. d : ip[j] = Network(At(i))[j]
        BY <1>1, <2>1, <2>2, SameNode
      <3>3. Node(ip, e) = Node(Network(At(i)), e)
        BY <3>1, <3>2, SameNode
      <3>4. Node(ip, e) \in Spine(At(i))
        BY <2>2, <3>3 DEF Spine
      <3>5. QED BY <2>1, <3>4 DEF IndexInv
    <2>4. node \in DOMAIN lookupIndex
      BY <1>1, <2>3
    <2>5. PICK j \in Ends(node) : lookupIndex[node] = prefixes[j].country
      BY <1>6, <2>4 DEF IndexInv
    <2>6. lookupIndex[node] # NoCountry
      BY <1>1, <1>2, <2>5 DEF Ends
    <2>7. QED BY <2>3, <2>6 DEF Met
  <1>7. QED BY <1>4, <1>5, <1>6

\* The lookup of an address, down the trie, gives what the list of all
\* prefixes with matchesCIDR does: the country of the longest prefix that
\* contains it, and of the last one if it was given more than once.
THEOREM LongestPrefixFound == IndexSpec => []LookupIsLongestPrefix
  <1>1. ASSUME IndexInv PROVE LookupIsLongestPrefix
    <2> SUFFICES ASSUME NEW ip \in IPv4
        PROVE  LET matching == {i \in DOMAIN prefixes :
                                   matchesCIDR(ip, prefixes[i].cidr)}
                   longest  == {i \in matching : \A j \in matching :
                                   prefixes[j].cidr.prefix
                                      <= prefixes[i].cidr.prefix}
               IN Lookup(ip) =
                     IF matching = {} THEN NoCountry
                     ELSE prefixes[CHOOSE i \in longest :
                                      \A j \in longest : j <= i].country
      BY DEF LookupIsLongestPrefix
    <2> DEFINE matching == {i \in DOMAIN prefixes :
                               matchesCIDR(ip, prefixes[i].cidr)}
               longest  == {i \in matching : \A j \in matching :
                               prefixes[j].cidr.prefix
                                  <= prefixes[i].cidr.prefix}
    <2> SUFFICES Lookup(ip) =
                    IF matching = {} THEN NoCountry
                    ELSE prefixes[CHOOSE i \in longest :
                                     \A j \in longest : j <= i].country
      OBVIOUS
    <2>1. /\ Width \in Nat /\ Met(ip) \subseteq 0 .. Width
          /\ DOMAIN prefixes \subseteq Nat
      BY <1>1, GeoIPIndexAssumption, PrefixTypes DEF Met, IndexInv
    <2>2. \A i \in matching : prefixes[i].cidr.prefix \in 0 .. Width
      BY <1>1, <2>1, PrefixTypes DEF matchesCIDR, Valid, IndexInv, Cidrs
    <2>3. \A d \in 0 .. Width :
             /\ Ends(Node(ip, d))
                   = {i \in matching : prefixes[i].cidr.prefix = d}
             /\ d \in Met(ip) <=> \E i \in matching :
                                     prefixes[i].cidr.prefix = d
      BY <1>1, MetAreMatching
    <2> HIDE DEF matching
    <2>4. CASE matching = {}
      <3>1. Met(ip) = {}
        BY <2>1, <2>3, <2>4
      <3>2. QED BY <2>4, <3>1 DEF Lookup
    <2>5. CASE matching # {}
      <3>1. Met(ip) # {}
        BY <2>2, <2>3, <2>5
      <3>2. PICK m \in Met(ip) : \A d \in Met(ip) : d <= m
        BY <2>1, <3>1, GreatestUpTo
      <3>3. (CHOOSE d \in Met(ip) : \A e \in Met(ip) : e <= d) = m
        <4>1. \A d \in Met(ip) : (\A e \in Met(ip) : e <= d) => d = m
          BY <2>1, <3>2
        <4>2. QED BY <3>2, <4>1
      <3>4. Lookup(ip) = lookupIndex[Node(ip, m)]
        BY <3>1, <3>3 DEF Lookup
      <3>5. m \in 0 .. Width
        BY <2>1, <3>2
      <3>6. longest = Ends(Node(ip, m))
        <4>1. \A i \in matching : prefixes[i].cidr.prefix <= m
          BY <2>2, <2>3, <3>2
        <4>2. PICK k \in matching : prefixes[k].cidr.prefix = m
          BY <2>3, <3>2, <3>5
        <4>3. \A i \in matching :
                 i \in longest <=> prefixes[i].cidr.prefix = m
          BY <2>2, <3>5, <4>1, <4>2
        <4>4. QED BY <2>3, <3>5, <4>3
      <3>7. PICK i \in Ends(Node(ip, m)) :
               /\ \A j \in Ends(Node(ip, m)) : j <= i
               /\ lookupIndex[Node(ip, m)] = prefixes[i].country
        <4>1. /\ Node(ip, m) \in DOMAIN lookupIndex
              /\ lookupIndex[Node(ip, m)] # NoCountry
          BY <2>1, <3>2 DEF Met
        <4>2. QED BY <1>1, <4>1 DEF IndexInv
      <3> HIDE DEF longest
      <3>8. (CHOOSE k \in longest : \A j \in longest : j <= k) = i
        <4>1. longest \subseteq Nat
          BY <2>1, <3>6 DEF Ends
        <4>2. i \in longest /\ \A j \in longest : j <= i
          BY <3>6, <3>7
        <4>3. \A k \in longest : (\A j \in longest : j <= k) => k = i
          BY <4>1, <4>2
        <4>4. QED BY <4>2, <4>3
      <3>9. QED BY <2>5, <3>4, <3>7, <3>8
    <2>6. QED BY <2>4, <2>5
  <1>2. QED BY <1>1, IndexInvHolds, PTL

-----------------------------------------------------------------------------
(* The server agent *)

\* The types, and that IMAGE_REF always names an image: what is pulled is
\* what the registry has, and nothing takes it away.
AgentInv == AgentTypeOK /\ configured \in Images

\* The installation leaves an image.
LEMMA InitAgentInv ==
  ASSUME AgentInit
  PROVE  AgentInv
  BY AcpAgentAssumption DEF AgentInit, AgentInv, AgentTypeOK, Missing

\* The steps of an upgrade keep it.
LEMMA UpgradeAgentInv ==
  ASSUME AgentInv, Upgrade
  PROVE  AgentInv'
  <1> USE DEF AgentInv, AgentTypeOK, countVars
  <1>1. CASE StartUpgrade
    BY <1>1 DEF StartUpgrade, serverVars
  <1>2. CASE UpgradeScripts
    BY <1>2 DEF UpgradeScripts, serverVars
  <1>3. CASE UpgradeEnable
    BY <1>3 DEF UpgradeEnable
  <1>4. CASE TagLastGood
    <2>1. upgraded' \in [from : Images \cup {NoImage},
                         result : {"none", "good", "failed", "unhealthy"}]
      BY <1>4 DEF TagLastGood
    <2>2. QED BY <1>4, <2>1 DEF TagLastGood, Tag
  <1>5. CASE PullImage
    BY <1>5 DEF PullImage
  <1>6. CASE ComposeUp
    BY <1>6 DEF ComposeUp
  <1>7. CASE UpgradeFails
    <2>1. upgraded' = [upgraded EXCEPT !.result = "failed"]
          /\ upgradeAt' = "idle"
      BY <1>7 DEF UpgradeFails, EndUpgrade
    <2>2. lastGood' \in Images \cup {NoImage}
      BY <1>7 DEF UpgradeFails, Tag
    <2>3. QED BY <1>7, <2>1, <2>2 DEF UpgradeFails
  <1>8. CASE CheckUpgrade
    <2>1. \/ upgradeAt' = "mark" /\ upgraded' = upgraded
          \/ /\ upgradeAt' = "idle"
             /\ upgraded' = [upgraded EXCEPT !.result = "unhealthy"]
      BY <1>8 DEF CheckUpgrade, EndUpgrade
    <2>2. upgraded' \in [from : Images \cup {NoImage},
                         result : {"none", "good", "failed", "unhealthy"}]
      BY <2>1
    <2>3. QED BY <1>8, <2>1, <2>2 DEF CheckUpgrade, serverVars
  <1>9. CASE TagUpgraded
    <2>1. upgraded' = [upgraded EXCEPT !.result = "good"]
          /\ upgradeAt' = "idle"
      BY <1>9 DEF TagUpgraded, EndUpgrade
    <2>2. lastGood' \in Images \cup {NoImage}
      BY <1>9 DEF TagUpgraded, Tag
    <2>3. QED BY <1>9, <2>1, <2>2 DEF TagUpgraded
  <1>10. QED
    BY <1>1, <1>2, <1>3, <1>4, <1>5, <1>6, <1>7, <1>8, <1>9 DEF Upgrade

\* So do the other runs of the agent, and what happens around it.
LEMMA WorldAgentInv ==
  ASSUME AgentInv,
         \/ StartCare \/ CareEnable \/ EndCare \/ CleanupImages
         \/ Release \/ ContainerSettles \/ Fault
  PROVE  AgentInv'
  <1> USE DEF AgentInv, AgentTypeOK, countVars
  <1>1. CASE StartCare
    BY <1>1 DEF StartCare, serverVars
  <1>2. CASE CareEnable
    BY <1>2 DEF CareEnable
  <1>3. CASE EndCare
    BY <1>3 DEF EndCare, serverVars
  <1>4. CASE CleanupImages
    BY <1>4 DEF CleanupImages
  <1>5. CASE Release
    BY <1>5, AcpAgentAssumption DEF Release
  <1>6. CASE ContainerSettles
    <2>1. container # Missing
      BY <1>6 DEF ContainerSettles, Missing
    <2>2. PICK s \in {"unhealthy", "healthy"} :
            container' = [container EXCEPT !.status = s]
      BY <1>6 DEF ContainerSettles
    <2>3. QED BY <1>6, <2>1, <2>2 DEF ContainerSettles
  <1>7. CASE Fault
    <2>1. faults' \in 0 .. MaxFaults
      BY <1>7, AcpAgentAssumption DEF Fault
    <2>2. container' \in [image : Images, status : {"exited", "starting",
                                                   "healthy", "unhealthy"}]
                            \cup {Missing}
      <3>1. CASE container' = Missing
        BY <3>1
      <3>2. CASE container' # Missing
        <4>1. PICK s \in {"unhealthy", "exited"} :
                /\ container' = [container EXCEPT !.status = s]
                /\ container.status # "missing"
          BY <1>7, <3>2 DEF Fault
        <4>2. container # Missing
          BY <4>1 DEF Missing
        <4>3. QED BY <4>1, <4>2
      <3>3. QED BY <3>1, <3>2
    <2>3. docker' \in BOOLEAN
      BY <1>7 DEF Fault
    <2>4. QED BY <1>7, <2>1, <2>2, <2>3 DEF Fault
  <1>8. QED BY <1>1, <1>2, <1>3, <1>4, <1>5, <1>6, <1>7

\* So it always holds.
LEMMA AgentInvHolds == AgentSpec => []AgentInv
  <1>1. ASSUME AgentInv, [AgentNext]_agentVars PROVE AgentInv'
    <2>1. CASE AgentNext
      BY <1>1, <2>1, UpgradeAgentInv, WorldAgentInv DEF AgentNext, Agent
    <2>2. CASE UNCHANGED agentVars
      BY <1>1, <2>2 DEF AgentInv, AgentTypeOK, agentVars
    <2>3. QED BY <1>1, <2>1, <2>2
  <1>2. QED BY <1>1, InitAgentInv, PTL DEF AgentSpec

\* Type correctness of the server agent (acp-agent.sh), for any images,
\* releases and faults.
THEOREM AgentTypeCorrect == AgentSpec => []AgentTypeOK
  <1>1. AgentInv => AgentTypeOK
    BY DEF AgentInv
  <1>2. QED BY <1>1, AgentInvHolds, PTL

\* After an upgrade run that ended well, and until the next one starts, the
\* image that IMAGE_REF names is one that works.
GoodUpgradeWorks ==
    upgraded.result = "good" =>
        upgradeAt = "idle" /\ configured \in Images \ Bad

\* The health check is of the image that was pulled: an image that does not
\* work is never healthy, and the container a run checks, if it is still
\* there, is of the configured image.
CheckedInv ==
    /\ container.status = "healthy" => container.image \notin Bad
    /\ upgradeAt = "check" =>
          container = Missing \/ container.image = configured
    /\ upgradeAt = "mark" => configured \notin Bad
    /\ GoodUpgradeWorks

\* The steps of an upgrade keep it.
LEMMA UpgradeCheckedInv ==
  ASSUME AgentInv, CheckedInv, Upgrade
  PROVE  CheckedInv'
  <1> USE DEF CheckedInv, GoodUpgradeWorks
  <1>a. upgraded \in [from : Images \cup {NoImage},
                      result : {"none", "good", "failed", "unhealthy"}]
    BY DEF AgentInv, AgentTypeOK
  <1>1. CASE StartUpgrade
    BY <1>1 DEF StartUpgrade, serverVars
  <1>2. CASE UpgradeScripts
    BY <1>2 DEF UpgradeScripts, serverVars
  <1>3. CASE UpgradeEnable
    BY <1>3 DEF UpgradeEnable
  <1>4. CASE TagLastGood
    <2>1. upgraded'.result = upgraded.result
      BY <1>a, <1>4 DEF TagLastGood
    <2>2. QED BY <1>4, <2>1 DEF TagLastGood
  <1>5. CASE PullImage
    BY <1>5 DEF PullImage
  <1>6. CASE ComposeUp
    BY <1>6 DEF ComposeUp
  <1>7. CASE UpgradeFails
    <2>1. upgraded'.result = "failed" /\ upgradeAt' = "idle"
      BY <1>a, <1>7 DEF UpgradeFails, EndUpgrade
    <2>2. QED BY <1>7, <2>1 DEF UpgradeFails
  <1>8. CASE CheckUpgrade
    <2>1. CASE HealthCheck /\ upgradeAt' = "mark" /\ UNCHANGED upgraded
      <3>1. container.image = configured /\ container.image \notin Bad
        BY <1>8, <2>1 DEF CheckUpgrade, HealthCheck, Missing
      <3>2. QED BY <1>8, <2>1, <3>1 DEF CheckUpgrade, serverVars
    <2>2. CASE EndUpgrade("unhealthy")
      <3>1. upgraded'.result = "unhealthy" /\ upgradeAt' = "idle"
        BY <1>a, <2>2 DEF EndUpgrade
      <3>2. QED BY <1>8, <3>1 DEF CheckUpgrade, serverVars
    <2>3. QED BY <1>8, <2>1, <2>2 DEF CheckUpgrade
  <1>9. CASE TagUpgraded
    <2>1. upgraded'.result = "good" /\ upgradeAt' = "idle"
      BY <1>a, <1>9 DEF TagUpgraded, EndUpgrade
    <2>2. configured' = configured /\ configured \in Images \ Bad
      BY <1>9 DEF TagUpgraded, AgentInv
    <2>3. QED BY <1>9, <2>1, <2>2 DEF TagUpgraded
  <1>10. QED
    BY <1>1, <1>2, <1>3, <1>4, <1>5, <1>6, <1>7, <1>8, <1>9 DEF Upgrade

\* So do the other runs and the world: none of them makes a container of
\* another image, and only a container that works becomes healthy.
LEMMA WorldCheckedInv ==
  ASSUME AgentInv, CheckedInv,
         \/ StartCare \/ CareEnable \/ EndCare \/ CleanupImages
         \/ Release \/ ContainerSettles \/ Fault
  PROVE  CheckedInv'
  <1>1. UNCHANGED <<configured, upgradeAt, upgraded>>
    BY DEF StartCare, CareEnable, EndCare, CleanupImages, Release,
           ContainerSettles, Fault, serverVars
  <1>2. /\ container'.status = "healthy" => container'.image \notin Bad
        /\ \/ container' = Missing
           \/ container' = container
           \/ container # Missing /\ container'.image = container.image
    <2>1. CASE container' = container
      BY <2>1 DEF CheckedInv
    <2>2. CASE container' = Missing
      BY <2>2 DEF Missing
    <2>3. CASE container' # container /\ container' # Missing
      <3>1. PICK s \in {"healthy", "unhealthy", "exited"} :
               /\ container' = [container EXCEPT !.status = s]
               /\ s = "healthy" => container.image \notin Bad
               /\ container.status # "missing"
        BY <2>3 DEF StartCare, CareEnable, EndCare, CleanupImages, Release,
                    ContainerSettles, Fault, serverVars
      <3>2. container # Missing
        BY <3>1 DEF Missing
      <3>3. /\ container'.status = s
            /\ container'.image = container.image
        BY <3>1, <3>2 DEF AgentInv, AgentTypeOK
      <3>4. QED BY <3>1, <3>2, <3>3
    <2>4. QED BY <2>1, <2>2, <2>3
  <1>3. upgradeAt' = "check" =>
           container' = Missing \/ container'.image = configured'
    BY <1>1, <1>2 DEF CheckedInv
  <1>4. QED BY <1>1, <1>2, <1>3 DEF CheckedInv, GoodUpgradeWorks

\* An upgrade run of the agent (acp-agent.sh) that reports success leaves
\* an image configured that works, whatever releases, faults and runs of
\* care and cleanup came between its steps, until the next run starts.
\* (Whether that image is marked as last-good it does not say: it may not
\* have been possible, and is no failure.)
THEOREM GoodUpgrade == AgentSpec => []GoodUpgradeWorks
  <1>1. AgentInit => CheckedInv
    BY DEF AgentInit, CheckedInv, GoodUpgradeWorks
  <1>2. ASSUME AgentInv, CheckedInv, [AgentNext]_agentVars
        PROVE  CheckedInv'
    <2>1. CASE AgentNext
      BY <1>2, <2>1, UpgradeCheckedInv, WorldCheckedInv
      DEF AgentNext, Agent
    <2>2. CASE UNCHANGED agentVars
      BY <1>2, <2>2 DEF CheckedInv, GoodUpgradeWorks, agentVars
    <2>3. QED BY <1>2, <2>1, <2>2
  <1>3. CheckedInv => GoodUpgradeWorks
    BY DEF CheckedInv
  <1>4. QED BY <1>1, <1>2, <1>3, AgentInvHolds, PTL DEF AgentSpec
=============================================================================
