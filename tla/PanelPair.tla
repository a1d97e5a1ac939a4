------------------------------ MODULE PanelPair ------------------------------
(***************************************************************************)
(* Two panels registered with each other, each with the row in which it    *)
(* caches what it has received from the other: manual pushes, the          *)
(* automatic resync after an outage, and rollbacks followed by a push.  An *)
(* attempt of a push may be lost, answered in vain, or come so late that   *)
(* the call has gone on without it; the receiving route compares versions  *)
(* in one step and stores in another (ConfigReceive has all of them, and   *)
(* PanelPush the number of attempts).                                      *)
(***************************************************************************)
EXTENDS Integers

CONSTANTS Sides,     \* the two panels
          Kinds,     \* the operations of each: "push", "resync", "rollback"
          Versions, Bodies, NoSync

ASSUME PanelPairAssumption ==
    /\ \E x, y \in Sides : x # y /\ Sides = {x, y}
    /\ Versions \subseteq Nat \ {0}
    /\ DOMAIN Kinds = Sides
    /\ \A x \in Sides : Kinds[x] \subseteq {"push", "resync", "rollback"}

Payloads == [version : Versions, body : Bodies]

ASSUME NoSyncAssumption == NoSync \notin Payloads

VARIABLES
    cached,   \* the row of each panel for the other: now and before
    stale,    \* the payloads generated more than SYNC_FRESHNESS_MS ago
    keyed,    \* an API key of the other panel is cached and young enough
    fallback, \* the other panel is in fallback, as the health check sees it
    op,       \* the operations under way or ended last
    late      \* requests to each panel that their calls no longer wait for

pairVars == <<cached, stale, keyed, fallback, op, late>>

NoRow == [current |-> NoSync, previous |-> NoSync]
NoOp  == [at |-> "ended", payload |-> NoSync, seen |-> NoSync, reports |-> 0,
          done |-> FALSE, replaced |-> FALSE, had |-> NoSync]

\* A request that is to be received: what the receiving route has compared
\* its version with, once it has.
LateRequests == [payload : Payloads, checked : BOOLEAN,
             seen : Payloads \cup {NoSync}]

PairTypeOK ==
    /\ cached \in [Sides -> [current : Payloads \cup {NoSync},
                             previous : Payloads \cup {NoSync}]]
    /\ stale \subseteq Payloads
    /\ keyed \in [Sides -> BOOLEAN]
    /\ fallback \in [Sides -> BOOLEAN]
    /\ \A x \in Sides : op[x] \in
          [Kinds[x] -> [at : {"ended", "row", "restore", "reread", "send",
                              "store"},
                        payload : Payloads \cup {NoSync},
                        seen : Payloads \cup {NoSync},
                        reports : Nat,
                        done : BOOLEAN,
                        replaced : BOOLEAN,
                        had : Payloads \cup {NoSync}]]
    /\ late \in [Sides -> SUBSET LateRequests]

PairInit ==
    /\ cached = [x \in Sides |-> NoRow]
    /\ stale = {}
    /\ keyed = [x \in Sides |-> FALSE]
    /\ fallback = [x \in Sides |-> FALSE]
    /\ op = [x \in Sides |-> [k \in Kinds[x] |-> NoOp]]
    /\ late = [x \in Sides |-> {}]

Other(x) == CHOOSE y \in Sides : y # x

-----------------------------------------------------------------------------

SetOp(x, k, o) == op' = [op EXCEPT ![x][k] = o]

EndOp(x, k)    == SetOp(x, k, NoOp)

\* What is kept of a rollback that ends with success: the version it reports
\* and what the other panel had when it answered.
Outcome(x, k, had) ==
    IF k # "rollback" THEN NoOp
    ELSE [NoOp EXCEPT !.done = TRUE, !.had = had,
                      !.reports = op[x][k].reports,
                      !.replaced = op[x][k].replaced]

VerdictUnordered(row, p) ==
    IF row.current # NoSync /\ row.current.version = p.version THEN "same"
    ELSE IF p \in stale THEN "refused" ELSE "stored"

\* What POST /api/sync/receive makes of a payload.
Verdict(row, p) ==
    IF row.current # NoSync /\ row.current.version = p.version THEN "same"
    ELSE IF \/ p \in stale
            \/ row.current # NoSync /\ p.version < row.current.version
         THEN "refused"
    ELSE "stored"

\* A row that changes is new to a rollback that has not read it again.
Noting(x, row) ==
    [op EXCEPT ![x] = [k \in Kinds[x] |->
        IF k = "rollback" /\ @[k].at = "reread" /\ row # cached[x]
        THEN [@[k] EXCEPT !.replaced = TRUE] ELSE @[k]]]

AppliedOrNot(verdict) == TRUE

\* "same" and "stored" are answered with applied: true.
Applied(verdict) == verdict # "refused"

\* An attempt that fails is repeated, or was the last one.
NextAttempt(x, k) == {[op[x][k] EXCEPT !.at = "send", !.seen = NoSync], NoOp}

\* A request is received: refused, answered without a change, or found to be
\* stored.  An answer may be lost.
Compare(x, k) ==
    LET y == Other(x)
        verdict == Verdict(cached[y], op[x][k].payload)
    IN  /\ op[x][k].at = "send"
        /\ \/ /\ verdict = "stored"
              /\ SetOp(x, k, [op[x][k] EXCEPT !.at = "store",
                                              !.seen = cached[y].current])
           \/ /\ verdict # "stored" /\ Applied(verdict)
              /\ SetOp(x, k, Outcome(x, k, cached[y].current))
           \/ /\ verdict # "stored"
              /\ \E o \in NextAttempt(x, k) : SetOp(x, k, o)
        /\ UNCHANGED <<cached, stale, keyed, fallback, late>>

NewRow(y, p) == [current |-> p, previous |-> cached[y].current]

\* It is stored, whatever the row holds by now.
Store(x, k) ==
    LET y == Other(x)
        p == op[x][k].payload
        row == NewRow(y, p)
    IN  /\ op[x][k].at = "store"
        /\ cached' = [cached EXCEPT ![y] = row]
        /\ \E o \in NextAttempt(x, k) \cup {Outcome(x, k, p)} :
              op' = [Noting(y, row) EXCEPT ![x][k] = o]
        /\ UNCHANGED <<stale, keyed, fallback, late>>

\* What is left behind of a request when its call goes on without it.
LeftBy(x, k) == [payload |-> op[x][k].payload, seen |-> op[x][k].seen,
                 checked |-> op[x][k].at = "store"]

\* An attempt times out: the request was lost, or is still to be received.
TimeOut(x, k) ==
    /\ op[x][k].at \in {"send", "store"}
    /\ late' \in {late, [late EXCEPT ![Other(x)] = @ \cup {LeftBy(x, k)}]}
    /\ \E o \in NextAttempt(x, k) : SetOp(x, k, o)
    /\ UNCHANGED <<cached, stale, keyed, fallback>>

\* A request nobody waits for is received, in the same two steps.  (One of
\* them stands for any number that are alike.)
CompareLate(y, m) ==
    /\ ~m.checked
    /\ late' = [late EXCEPT ![y] = (@ \ {m}) \cup
                   IF Verdict(cached[y], m.payload) = "stored"
                   THEN {[m EXCEPT !.checked = TRUE,
                                   !.seen = cached[y].current]}
                   ELSE {}]
    /\ UNCHANGED <<cached, stale, keyed, fallback, op>>

StoreLate(y, m) ==
    /\ m.checked
    /\ cached' = [cached EXCEPT ![y] = NewRow(y, m.payload)]
    /\ op' = Noting(y, NewRow(y, m.payload))
    /\ late' \in {late, [late EXCEPT ![y] = @ \ {m}]}
    /\ UNCHANGED <<stale, keyed, fallback>>

\* cachePanelApiKey: only a resync reads the key.
CacheKey(x) == [keyed EXCEPT ![x] = "resync" \in Kinds[x]]

\* POST /api/panels/push: the key is cached, the configuration generated.
BeginPush(x) ==
    /\ "push" \in Kinds[x] /\ op[x]["push"].at = "ended"
    /\ keyed' = CacheKey(x)
    /\ \E p \in Payloads \ stale :
          SetOp(x, "push", [NoOp EXCEPT !.at = "send", !.payload = p])
    /\ UNCHANGED <<cached, stale, fallback, late>>

\* The health check finds the other panel unreachable.
EnterFallback(x) ==
    /\ "resync" \in Kinds[x] /\ ~fallback[x]
    /\ fallback' = [fallback EXCEPT ![x] = TRUE]
    /\ UNCHANGED <<cached, stale, keyed, op, late>>

\* It finds it again, and calls triggerAutoResync, which needs a cached key.
Reconnect(x) ==
    /\ fallback[x] /\ op[x]["resync"].at = "ended"
    /\ fallback' = [fallback EXCEPT ![x] = FALSE]
    /\ SetOp(x, "resync", IF keyed[x] THEN [NoOp EXCEPT !.at = "row"] ELSE NoOp)
    /\ UNCHANGED <<cached, stale, keyed, late>>

\* It reads the row of the other panel and pushes what it has cached.
ReadRow(x) ==
    /\ "resync" \in Kinds[x] /\ op[x]["resync"].at = "row"
    /\ \/ /\ cached[x].current # NoSync
          /\ SetOp(x, "resync", [op[x]["resync"] EXCEPT
                       !.at = "send", !.payload = cached[x].current])
       \/ /\ cached[x].current = NoSync
          /\ EndOp(x, "resync")
    /\ UNCHANGED <<cached, stale, keyed, fallback, late>>

\* rollbackPanelConfig reads the row ...
BeginRollback(x) ==
    /\ "rollback" \in Kinds[x] /\ op[x]["rollback"].at = "ended"
    /\ \/ /\ cached[x].previous # NoSync
          /\ SetOp(x, "rollback",
                   [NoOp EXCEPT !.at = "restore",
                                !.payload = cached[x].previous,
                                !.reports = cached[x].previous.version])
       \/ /\ cached[x].previous = NoSync
          /\ EndOp(x, "rollback")
    /\ UNCHANGED <<cached, stale, keyed, fallback, late>>

\* ... and writes the previous configuration it has read back.
Restore(x) ==
    /\ "rollback" \in Kinds[x] /\ op[x]["rollback"].at = "restore"
    /\ cached' = [cached EXCEPT ![x] =
                     [current |-> op[x]["rollback"].payload,
                      previous |-> NoSync]]
    /\ SetOp(x, "rollback", [op[x]["rollback"] EXCEPT !.at = "reread"])
    /\ UNCHANGED <<stale, keyed, fallback, late>>

\* rollbackPanelConfigWithPush reads the row again, caches the key and
\* pushes what it finds.
Reread(x) ==
    /\ "rollback" \in Kinds[x] /\ op[x]["rollback"].at = "reread"
    /\ keyed' = CacheKey(x)
    /\ SetOp(x, "rollback", [op[x]["rollback"] EXCEPT
                 !.at = "send", !.payload = cached[x].current])
    /\ UNCHANGED <<cached, stale, fallback, late>>

\* The lookup of the panel or of the row fails, or the call throws.
Fail(x, k) ==
    /\ op[x][k].at \in {"row", "restore", "reread"}
    /\ EndOp(x, k)
    /\ UNCHANGED <<cached, stale, keyed, fallback, late>>

\* Time: a payload grows older than five minutes, a key than an hour: then
\* getCachedPanelApiKey drops it, if the health check did not before.
GrowOld ==
    \/ /\ \E p \in Payloads \ stale : stale' = stale \cup {p}
       /\ UNCHANGED <<cached, keyed, fallback, op, late>>
    \/ /\ \E x \in Sides : keyed[x] /\ keyed' = [keyed EXCEPT ![x] = FALSE]
       /\ UNCHANGED <<cached, stale, fallback, op, late>>

\* A panel is started again: only its row is left.  Its requests that were
\* on their way are still to be received; the ones it was receiving fail.
RestartPanel(x) ==
    LET y == Other(x)
    IN  /\ keyed' = [keyed EXCEPT ![x] = FALSE]
        /\ fallback' = [fallback EXCEPT ![x] = FALSE]
        /\ op' = [z \in Sides |-> [k \in Kinds[z] |->
              IF z = x THEN NoOp
              ELSE IF op[z][k].at = "store"
              THEN [op[z][k] EXCEPT !.at = "send", !.seen = NoSync]
              ELSE op[z][k]]]
        /\ \E K \in SUBSET {k \in Kinds[x] :
                               op[x][k].at \in {"send", "store"}} :
              late' = [late EXCEPT ![x] = {m \in @ : ~m.checked},
                                   ![y] = @ \cup {LeftBy(x, k) : k \in K}]
        /\ UNCHANGED <<cached, stale>>

PairNext ==
    \/ \E x \in Sides :
          \/ BeginPush(x) \/ EnterFallback(x) \/ Reconnect(x) \/ ReadRow(x)
          \/ BeginRollback(x) \/ Restore(x) \/ Reread(x) \/ RestartPanel(x)
          \/ \E k \in Kinds[x] :
                Compare(x, k) \/ Store(x, k) \/ TimeOut(x, k) \/ Fail(x, k)
          \/ \E m \in late[x] : CompareLate(x, m) \/ StoreLate(x, m)
    \/ GrowOld

PairSpec == PairInit /\ [][PairNext]_pairVars

-----------------------------------------------------------------------------
(* Properties.                                                             *)

\* The version a rollback reports as rolled back and pushed is the one the
\* other panel had when it answered, unless a push from there replaced the
\* restored configuration before the rollback read it again.
RollbackReportsPeer ==
    \A x \in Sides : "rollback" \in Kinds[x] =>
        LET o == op[x]["rollback"]
        IN  o.done /\ ~o.replaced
                => o.had # NoSync /\ o.had.version = o.reports

\* Panel x was about to store payload p, after comparing it with another
\* configuration than the one in its row.
Overtaken(x, p) ==
    LET y == Other(x)
    IN  \/ \E k \in Kinds[y] : /\ op[y][k].at = "store" /\ op[y][k].payload = p
                              /\ op[y][k].seen # cached[x].current
        \/ \E m \in late[x] : /\ m.checked /\ m.payload = p
                              /\ m.seen # cached[x].current

\* A resync, a rollback or a push of one panel, however late it comes, takes
\* the other back to an earlier version only if the row changed while the
\* request was between the comparison of versions and the store: otherwise
\* what a panel has received goes back by its own rollback alone.
PeerSetBackOnlyOvertaken ==
    [][\A x \in Sides :
          \/ cached'[x].current = cached[x].current
          \/ cached[x].current = NoSync
          \/ cached'[x].current.version > cached[x].current.version
          \/ "rollback" \in Kinds[x] /\ op[x]["rollback"].at = "restore"
          \/ Overtaken(x, cached'[x].current)
       ]_pairVars
=============================================================================
