------------------------------- MODULE Transport -------------------------------
(***************************************************************************)
(* The address under which a server's panel is reached. It is looked up in *)
(* the tailnet by name, which takes a while, and cached in the server's    *)
(* row together with the name it was found under. resolvePanelTransport    *)
(* does so for the routes that apply and push chains, and GET              *)
(* /api/servers/[id]/tailnet for the operator. Nothing stores a name       *)
(* without an address, so the lookup by the cached name is never reached:  *)
(* left are the cached address and the lookup by hostname.                 *)
(***************************************************************************)
EXTENDS Integers

CONSTANTS Resolvers,  \* calls of resolvePanelTransport
          Queries,    \* calls of GET /api/servers/[id]/tailnet
          Hostnames, Addresses, NoAddress, NoName

ASSUME TransportAssumption ==
    /\ NoAddress \notin Addresses /\ NoName \notin Hostnames
    /\ Resolvers \cap Queries = {}

Lookups == Resolvers \cup Queries

VARIABLES
    server,   \* the row: hostname, tailnetIP and tailnetHostname
    tailnet,  \* the address each name has in the tailnet
    lookup,   \* the calls
    resolved  \* history: the names and addresses found together

transportVars == <<server, tailnet, lookup, resolved>>

Servers == [hostname : Hostnames, tailnetIP : Addresses \cup {NoAddress},
            tailnetHostname : Hostnames \cup {NoName}]

TransportTypeOK ==
    /\ server \in Servers
    /\ tailnet \in [Hostnames -> Addresses \cup {NoAddress}]
    /\ \A l \in Lookups :
          /\ lookup[l].at \in {"idle", "lookup", "store"}
          /\ lookup[l].row \in Servers
          /\ lookup[l].address \in Addresses \cup {NoAddress}
    /\ resolved \subseteq Hostnames \X Addresses

TransportInit ==
    /\ server \in {s \in Servers : /\ s.tailnetIP = NoAddress
                                   /\ s.tailnetHostname = NoName}
    /\ tailnet \in [Hostnames -> Addresses \cup {NoAddress}]
    /\ lookup = [l \in Lookups |-> [at |-> "idle", row |-> server,
                                    address |-> NoAddress]]
    /\ resolved = {}

Is(l, at) == lookup[l].at = at

EndLookup(l) ==
    [lookup EXCEPT ![l].at = "idle", ![l].address = NoAddress]

-----------------------------------------------------------------------------

\* Tier 1: the address in the row, if there is one, is used unseen.
Cached(row) == row.tailnetIP # NoAddress

ReadServer(l) ==
    /\ Is(l, "idle") /\ ~Cached(server)
    /\ lookup' = [lookup EXCEPT ![l] =
          [at |-> "lookup", row |-> server, address |-> NoAddress]]
    /\ UNCHANGED <<server, tailnet, resolved>>

\* Tier 3: getNodeIP of the hostname that was read. The command may fail,
\* and the tailnet not know the name.
LookUp(l) ==
    /\ Is(l, "lookup")
    /\ LET name == lookup[l].row.hostname
       IN  \/ /\ tailnet[name] # NoAddress
              /\ lookup' = [lookup EXCEPT ![l].at = "store",
                                          ![l].address = tailnet[name]]
              /\ resolved' = resolved \cup {<<name, tailnet[name]>>}
           \/ lookup' = EndLookup(l) /\ UNCHANGED resolved
    /\ UNCHANGED <<server, tailnet>>

PairOfServer(l) == [server EXCEPT !.tailnetIP = lookup[l].address,
                                  !.tailnetHostname = server.hostname]

\* What is cached: the address with the name it was found under.
Pair(l) == [server EXCEPT !.tailnetIP = lookup[l].address,
                          !.tailnetHostname = lookup[l].row.hostname]

\* It is stored, or the update fails, which only the query reports.
CacheBack(l) ==
    /\ Is(l, "store")
    /\ server' \in {Pair(l), server}
    /\ lookup' = EndLookup(l)
    /\ UNCHANGED <<tailnet, resolved>>

\* PUT /api/servers/[id]/config changes the hostname and nothing cached.
Rename ==
    /\ \E h \in Hostnames \ {server.hostname} :
          server' = [server EXCEPT !.hostname = h]
    /\ UNCHANGED <<tailnet, lookup, resolved>>

\* Nodes join, leave and change their address.
TailnetChanges ==
    /\ \E h \in Hostnames, a \in Addresses \cup {NoAddress} :
          tailnet' = [tailnet EXCEPT ![h] = a]
    /\ UNCHANGED <<server, lookup, resolved>>

TransportNext ==
    \/ \E l \in Lookups : ReadServer(l) \/ LookUp(l) \/ CacheBack(l)
    \/ Rename
    \/ TailnetChanges

TransportSpec == TransportInit /\ [][TransportNext]_transportVars

-----------------------------------------------------------------------------
(* Properties.                                                             *)

\* The cached name and address were found together: overlapping lookups
\* never leave the name of one with the address of another.
CachedPairResolved ==
    server.tailnetIP # NoAddress =>
        <<server.tailnetHostname, server.tailnetIP>> \in resolved
=============================================================================
