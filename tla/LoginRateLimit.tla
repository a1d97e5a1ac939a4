--------------------------- MODULE LoginRateLimit ---------------------------
(***************************************************************************)
(* The fixed-window rate limiter of POST /api/auth/login: a bucket for     *)
(* each client address, at most MaxBuckets of them, and one bucket for all *)
(* attempts together.  A slot is reserved before the password is compared, *)
(* and a login that succeeds clears the bucket of its address after the    *)
(* comparison, when the bucket may be another one already.  Time is        *)
(* counted in ticks, of which Window make a window.                        *)
(***************************************************************************)
EXTENDS Integers, FiniteSets

CONSTANTS Ips,          \* the client addresses
          NoIp,         \* an address that cannot be attributed
          NoLogin,      \* no login under way
          Logins,       \* the logins that may be under way together
          MaxAttempts,  \* MAX_ATTEMPTS
          MaxGlobal,    \* MAX_GLOBAL_ATTEMPTS
          MaxBuckets,   \* MAX_BUCKETS
          Window        \* WINDOW_MS, in ticks

ASSUME LoginAssumption ==
    /\ NoIp \notin Ips /\ NoLogin \notin Ips \cup {NoIp}
    /\ IsFiniteSet(Logins)
    /\ {MaxAttempts, MaxGlobal, MaxBuckets, Window} \subseteq Nat \ {0}

VARIABLES
    loginAttempts,  \* the bucket of each address, if it has one
    globalBucket,   \* the aggregate bucket
    verifying,      \* the address of each login under way, or NoLogin
    admitted,       \* history: for each t below Window, the comparisons
                    \* started in this tick and in the t before it
    tried           \* history: the same for each address, since a login from
                    \* it succeeded or its bucket was evicted too early

loginVars == <<loginAttempts, globalBucket, verifying, admitted, tried>>

NoBucket == [count |-> 0, left |-> 0]

\* Nothing was started in any of the last ticks.
NoneTried == [t \in 0 .. Window - 1 |-> 0]

\* left: ticks until resetAt; at 0 the bucket has expired.
Buckets(max) == [count : 0..max, left : 0..Window]

LoginTypeOK ==
    /\ loginAttempts \in [Ips -> Buckets(MaxAttempts)]
    /\ globalBucket \in Buckets(MaxGlobal)
    /\ verifying \in [Logins -> Ips \cup {NoIp, NoLogin}]
    /\ admitted \in [0 .. Window - 1 -> Nat]
    /\ tried \in [Ips -> [0 .. Window - 1 -> Nat]]

LoginInit ==
    /\ loginAttempts = [ip \in Ips |-> NoBucket]
    /\ globalBucket = NoBucket
    /\ verifying = [l \in Logins |-> NoLogin]
    /\ admitted = NoneTried
    /\ tried = [ip \in Ips |-> NoneTried]

-----------------------------------------------------------------------------

\* A bucket is stored while its count is positive: it is counted in the
\* call that creates it.
Stored  == {ip \in Ips : loginAttempts[ip].count > 0}
Expired == {ip \in Stored : loginAttempts[ip].left = 0}
Oldest(S) == {ip \in S : \A jp \in S :
                  loginAttempts[ip].left <= loginAttempts[jp].left}

\* Making room for a new bucket: the expired ones go, and if that is not
\* enough, one of the oldest.
Evictions(ip) ==
    LET others == Stored \ {ip}
    IN IF Cardinality(others) < MaxBuckets THEN {{}}
       ELSE IF Expired \ {ip} # {} THEN {Expired \ {ip}}
       ELSE {{jp} : jp \in Oldest(others)}

GlobalUnrenewed == IF globalBucket.left = 0 THEN NoBucket ELSE globalBucket

\* The aggregate bucket as the check finds it, reset if it has expired.
Global == IF globalBucket.left = 0 THEN [count |-> 0, left |-> Window]
          ELSE globalBucket

OneMore(counts) == [t \in DOMAIN counts |-> counts[t] + 1]

\* What an address has tried is no longer limited by the bucket it had, when
\* that is dropped before it expires.
Forgotten(gone) == [ip \in Ips |-> IF ip \in gone \ Expired THEN NoneTried
                                   ELSE tried[ip]]

\* The request has passed its own bucket: charge the aggregate one, or
\* refuse; the slot in its own bucket is spent in either case.
Charge(l, ip, before) ==
    \/ /\ Global.count < MaxGlobal
       /\ globalBucket' = [Global EXCEPT !.count = @ + 1]
       /\ verifying' = [verifying EXCEPT ![l] = ip]
       /\ admitted' = OneMore(admitted)
       /\ tried' = [jp \in Ips |-> IF jp = ip THEN OneMore(before[jp])
                                   ELSE before[jp]]
    \/ /\ Global.count = MaxGlobal
       /\ globalBucket' = Global
       /\ tried' = before
       /\ UNCHANGED <<verifying, admitted>>

CheckAgainOneMore(l, ip) ==
    /\ verifying[l] = NoLogin
    /\ loginAttempts[ip].count \in 1 .. MaxAttempts
    /\ loginAttempts[ip].left > 0
    /\ loginAttempts' = [loginAttempts EXCEPT ![ip].count = @ + 1]
    /\ Charge(l, ip, tried)

\* checkLoginRateLimit with an address that has a bucket of this window.
CheckAgain(l, ip) ==
    LET bucket == loginAttempts[ip]
    IN /\ verifying[l] = NoLogin
       /\ bucket.count > 0 /\ bucket.left > 0
       /\ \/ /\ bucket.count < MaxAttempts
             /\ loginAttempts' = [loginAttempts EXCEPT ![ip].count = @ + 1]
             /\ Charge(l, ip, tried)
          \/ /\ bucket.count = MaxAttempts
             /\ globalBucket' = Global
             /\ UNCHANGED <<loginAttempts, verifying, admitted, tried>>

\* With an address that has none, or one that has expired.
CheckFirst(l, ip) ==
    /\ verifying[l] = NoLogin
    /\ loginAttempts[ip].count = 0 \/ loginAttempts[ip].left = 0
    /\ \E gone \in Evictions(ip) :
          /\ loginAttempts' = [jp \in Ips |->
                IF jp = ip THEN [count |-> 1, left |-> Window]
                ELSE IF jp \in gone THEN NoBucket ELSE loginAttempts[jp]]
          /\ Charge(l, ip, Forgotten(gone))

\* Without an address only the aggregate bucket counts.
CheckUnattributed(l) ==
    /\ verifying[l] = NoLogin
    /\ Charge(l, NoIp, tried)
    /\ UNCHANGED loginAttempts

\* The password was right: clearLoginAttempts.
Succeed(l) ==
    /\ verifying[l] # NoLogin
    /\ loginAttempts' = [ip \in Ips |-> IF ip = verifying[l] THEN NoBucket
                                        ELSE loginAttempts[ip]]
    /\ verifying' = [verifying EXCEPT ![l] = NoLogin]
    /\ tried' = Forgotten({verifying[l]})
    /\ UNCHANGED <<globalBucket, admitted>>

RefuseReturning(l) ==
    /\ verifying[l] # NoLogin
    /\ loginAttempts' = [ip \in Ips |->
          IF ip = verifying[l] /\ loginAttempts[ip].count > 0
          THEN [loginAttempts[ip] EXCEPT !.count = @ - 1]
          ELSE loginAttempts[ip]]
    /\ verifying' = [verifying EXCEPT ![l] = NoLogin]
    /\ UNCHANGED <<globalBucket, admitted, tried>>

\* It was wrong, the name unknown, or the request failed.
Refuse(l) ==
    /\ verifying[l] # NoLogin
    /\ verifying' = [verifying EXCEPT ![l] = NoLogin]
    /\ UNCHANGED <<loginAttempts, globalBucket, admitted, tried>>

\* The attempts are a tick older: none has been started in the new one.
Aged(counts) == [t \in DOMAIN counts |-> IF t = 0 THEN 0 ELSE counts[t - 1]]

Older(bucket) == IF bucket.left = 0 THEN bucket
                 ELSE [bucket EXCEPT !.left = @ - 1]

\* A tick passes.
Tick ==
    /\ loginAttempts' = [ip \in Ips |-> Older(loginAttempts[ip])]
    /\ globalBucket' = Older(globalBucket)
    /\ admitted' = Aged(admitted)
    /\ tried' = [ip \in Ips |-> Aged(tried[ip])]
    /\ UNCHANGED verifying

LoginNext ==
    \/ \E l \in Logins :
          \/ \E ip \in Ips : CheckAgain(l, ip) \/ CheckFirst(l, ip)
          \/ CheckUnattributed(l) \/ Succeed(l) \/ Refuse(l)
    \/ Tick

LoginSpec == LoginInit /\ [][LoginNext]_loginVars

-----------------------------------------------------------------------------
(* Properties.                                                             *)

\* The guesses at a password: over any span of one window's length, which
\* may fall into two windows, no more than twice MAX_ATTEMPTS comparisons are
\* started for an address, however many overlap and whatever becomes of the
\* buckets of others.  Its own count begins anew with a login from it that
\* succeeds, even while others are compared, and when its bucket is evicted
\* to make room before it expires.
AddressAttemptsBounded ==
    \A ip \in Ips : tried[ip][Window - 1] <= 2 * MaxAttempts

\* The aggregate bucket bounds the comparisons of its own window; over any
\* span of one window's length, which may fall into two windows, there are
\* at most twice as many, whatever buckets are evicted or cleared.
RecentAttemptsBounded == admitted[Window - 1] <= 2 * MaxGlobal
=============================================================================
