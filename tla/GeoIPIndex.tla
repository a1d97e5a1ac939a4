----------------------------- MODULE GeoIPIndex -----------------------------
(***************************************************************************)
(* The trie in which the GeoIP manager looks an address up, built from the *)
(* prefixes of each country in turn, for addresses of Width bits (32 in    *)
(* the code).  An address is the function of its bits, the leftmost (bit   *)
(* 31 of the code) being the first, and a node of the trie is named by the *)
(* bits that lead to it.  JavaScript shifts by the count modulo the width, *)
(* which the masks take into account.                                      *)
(***************************************************************************)
EXTENDS Integers, Sequences

CONSTANTS Width, Countries, NoCountry,
          MaxPrefixes   \* bound: the prefixes of the database

ASSUME GeoIPIndexAssumption == /\ Width \in Nat \ {0} /\ MaxPrefixes \in Nat
                               /\ NoCountry \notin Countries

VARIABLES lookupIndex,  \* the country of each node of the trie
          prefixes      \* the prefixes inserted so far, with their country

indexVars == <<lookupIndex, prefixes>>

Bits == 1 .. Width
IPv4 == [Bits -> {0, 1}]

\* As the database has them: the host bits may be set, and a prefix length
\* beyond the width is malformed.
Cidrs == [ip : IPv4, prefix : 0 .. Width + 1]

Root == <<>>
Node(ip, depth) == [i \in 1 .. depth |-> ip[i]]

IndexTypeOK ==
    /\ DOMAIN lookupIndex \subseteq
          {Node(ip, depth) : ip \in IPv4, depth \in 0 .. Width}
    /\ \A n \in DOMAIN lookupIndex :
          lookupIndex[n] \in Countries \cup {NoCountry}
    /\ prefixes \in Seq([country : Countries, cidr : Cidrs])

IndexInit ==
    /\ lookupIndex = [n \in {Root} |-> NoCountry]
    /\ prefixes = <<>>

-----------------------------------------------------------------------------

Zeros == [i \in Bits |-> 0]
Ones  == [i \in Bits |-> 1]

ShiftLeft(bits, n) ==
    [i \in Bits |-> IF i + (n % Width) \in Bits THEN bits[i + (n % Width)]
                    ELSE 0]

MaskWithoutCase(prefix) == ShiftLeft(Ones, Width - prefix)

\* A shift by the whole width would not shift at all: prefix 0 is a case of
\* its own.
Mask(prefix) == IF prefix = 0 THEN Zeros ELSE ShiftLeft(Ones, Width - prefix)

\* ip & mask
Masked(ip, mask) ==
    [i \in Bits |-> IF ip[i] = 1 /\ mask[i] = 1 THEN 1 ELSE 0]

Valid(cidr) == cidr.prefix <= Width
Network(cidr) == Masked(cidr.ip, Mask(cidr.prefix))

matchesCIDR(ip, cidr) ==
    Valid(cidr) /\ Masked(ip, Mask(cidr.prefix)) = Network(cidr)

\* The nodes on the way to the one of a prefix.
Spine(cidr) == {Node(Network(cidr), depth) : depth \in 0 .. cidr.prefix}

\* One round of buildLookupIndex: missing nodes are made, and the last one
\* gets the country, whatever it had.
Insert(country, cidr) ==
    /\ prefixes' = Append(prefixes, [country |-> country, cidr |-> cidr])
    /\ \/ /\ Valid(cidr)
          /\ lookupIndex' =
                [n \in DOMAIN lookupIndex \cup Spine(cidr) |->
                    IF n = Node(Network(cidr), cidr.prefix) THEN country
                    ELSE IF n \in DOMAIN lookupIndex THEN lookupIndex[n]
                    ELSE NoCountry]
       \/ ~Valid(cidr) /\ UNCHANGED lookupIndex

\* The depths with a country on the way down, as far as the trie goes.
Met(ip) == {d \in 0 .. Width :
               /\ \A e \in 0 .. d : Node(ip, e) \in DOMAIN lookupIndex
               /\ lookupIndex[Node(ip, d)] # NoCountry}

LookupFirst(ip) ==
    IF Met(ip) = {} THEN NoCountry
    ELSE lookupIndex[Node(ip, CHOOSE d \in Met(ip) :
                                  \A e \in Met(ip) : d <= e)]

\* lookupCountryInIndex: the last country met.
Lookup(ip) ==
    IF Met(ip) = {} THEN NoCountry
    ELSE lookupIndex[Node(ip, CHOOSE d \in Met(ip) :
                                  \A e \in Met(ip) : e <= d)]

\* The prefixes of a country come together.
IndexNext ==
    \E country \in Countries, cidr \in Cidrs :
        /\ Len(prefixes) < MaxPrefixes
        /\ \A i \in 1 .. Len(prefixes) - 1 :
              prefixes[i].country = country
                  => prefixes[Len(prefixes)].country = country
        /\ Insert(country, cidr)

IndexSpec == IndexInit /\ [][IndexNext]_indexVars

-----------------------------------------------------------------------------
(* Properties.                                                             *)

\* An address is looked up as the database says: the country of the longest
\* prefix that contains it, of the last one if a prefix is given twice, and
\* none if no prefix does, however prefixes nest and in whatever order they
\* were inserted; the trie and matchesCIDR agree on what a prefix contains.
LookupIsLongestPrefix == \A ip \in IPv4 :
    LET matching == {i \in DOMAIN prefixes :
                        matchesCIDR(ip, prefixes[i].cidr)}
        longest  == {i \in matching : \A j \in matching :
                        prefixes[j].cidr.prefix <= prefixes[i].cidr.prefix}
    IN Lookup(ip) =
          IF matching = {} THEN NoCountry
          ELSE prefixes[CHOOSE i \in longest :
                           \A j \in longest : j <= i].country
=============================================================================
