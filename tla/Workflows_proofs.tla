--------------------------- MODULE Workflows_proofs ---------------------------
(***************************************************************************)
(* Proofs about the operations that take several steps on several          *)
(* machines: pushes, resyncs and rollbacks of two panels, applying a       *)
(* chain, and the automation of one pull request, for any payloads, calls, *)
(* nodes, services, workers and numbers of pushes.                         *)
(***************************************************************************)
EXTENDS PanelPair, ApplyConfig, PrFlow, FiniteSetTheorems,
        WellFoundedInduction, TLAPS

-----------------------------------------------------------------------------
(* Two panels *)

\* The records of the operations, and the rows.
Ops == [at : {"ended", "row", "restore", "reread", "send", "store"},
        payload : Payloads \cup {NoSync}, seen : Payloads \cup {NoSync},
        reports : Nat, done : BOOLEAN, replaced : BOOLEAN,
        had : Payloads \cup {NoSync}]
Rows == [current : Payloads \cup {NoSync}, previous : Payloads \cup {NoSync}]

\* What the comparison that let a payload through has found.
Newer(p, seen) == seen = NoSync \/ p.version > seen.version

\* What an operation has in hand is a payload, newer than what the row held
\* when it was compared.  As long as no push has replaced what a rollback
\* restored, what it has in hand, in the row or sent has the version it will
\* report.
Sound(k, o, row) ==
    /\ o.at \in {"restore", "send", "store"} => o.payload \in Payloads
    /\ o.at = "store" => Newer(o.payload, o.seen)
    /\ o.at = "reread" => k = "rollback" /\ row.current \in Payloads
    /\ k = "rollback" /\ ~o.replaced =>
          /\ o.at \in {"restore", "send", "store"} =>
                o.payload.version = o.reports
          /\ o.at = "reread" => row.current.version = o.reports
          /\ o.done => o.had \in Payloads /\ o.had.version = o.reports

\* A late request that is about to be stored was compared too.
LateInv == \A y \in Sides : \A m \in late[y] :
               m.checked => Newer(m.payload, m.seen)

\* The types without those of the operations.
RestTypes ==
    /\ cached \in [Sides -> Rows]
    /\ stale \subseteq Payloads
    /\ keyed \in [Sides -> BOOLEAN]
    /\ fallback \in [Sides -> BOOLEAN]
    /\ late \in [Sides -> SUBSET LateRequests]

\* What is not about the operations, and what is.
RestInv == /\ RestTypes /\ LateInv
           /\ \A x \in Sides : fallback[x] => "resync" \in Kinds[x]

OpsInv == /\ DOMAIN op = Sides
          /\ \A x \in Sides : op[x] \in [Kinds[x] -> Ops]
          /\ \A x \in Sides : \A k \in Kinds[x] :
                Sound(k, op[x][k], cached[x])

PairInv == RestInv /\ OpsInv

\* The other panel is another one, and there are no more.
LEMMA OtherSide ==
  ASSUME NEW x \in Sides
  PROVE  /\ Other(x) \in Sides /\ Other(x) # x
         /\ \A y \in Sides : y = x \/ y = Other(x)
  BY PanelPairAssumption DEF Other

\* A payload has a version, and an empty row none.
LEMMA PayloadFields ==
  /\ \A p \in Payloads : p.version \in Nat /\ p # NoSync
  /\ NoSync \notin Payloads
  /\ NoRow \in Rows /\ NoOp \in Ops
  BY PanelPairAssumption, NoSyncAssumption
  DEF Payloads, NoRow, NoOp, Rows, Ops

\* The types are part of it.
LEMMA PairTypes == PairInv => PairTypeOK
  BY DEF PairInv, RestInv, OpsInv, RestTypes, PairTypeOK, Ops, Rows

\* What the invariant says of one operation and its row.
LEMMA OpFacts ==
  ASSUME PairInv, NEW x \in Sides, NEW k \in Kinds[x]
  PROVE  /\ op[x][k] \in Ops /\ Sound(k, op[x][k], cached[x])
         /\ cached[x] \in Rows /\ late[x] \subseteq LateRequests
         /\ RestInv /\ RestTypes
  BY DEF PairInv, RestInv, OpsInv, RestTypes

\* A step that sets one operation and leaves the rows alone.
LEMMA SetOpKeeps ==
  ASSUME PairInv, RestInv', NEW x \in Sides, NEW k \in Kinds[x],
         NEW o \in Ops, SetOp(x, k, o), UNCHANGED cached,
         Sound(k, o, cached[x])
  PROVE  PairInv'
  <1>1. op' = [op EXCEPT ![x][k] = o] /\ OpsInv
    BY DEF SetOp, PairInv
  <1>2. /\ DOMAIN op' = Sides
        /\ op'[x] = [op[x] EXCEPT ![k] = o]
        /\ \A z \in Sides \ {x} : op'[z] = op[z]
    BY <1>1 DEF OpsInv
  <1>3. op'[x] \in [Kinds[x] -> Ops] /\ op'[x][k] = o
        /\ \A j \in Kinds[x] \ {k} : op'[x][j] = op[x][j]
    BY <1>1, <1>2 DEF OpsInv
  <1>4. \A z \in Sides : op'[z] \in [Kinds[z] -> Ops]
    BY <1>1, <1>2, <1>3 DEF OpsInv
  <1>5. ASSUME NEW z \in Sides, NEW j \in Kinds[z]
        PROVE  Sound(j, op'[z][j], cached'[z])
    <2>1. CASE z = x /\ j = k
      BY <1>3, <2>1
    <2>2. CASE z # x \/ j # k
      <3>1. op'[z][j] = op[z][j]
        BY <1>2, <1>3, <2>2
      <3>2. QED BY <1>1, <3>1 DEF OpsInv
    <2>3. QED BY <2>1, <2>2
  <1>6. QED BY <1>2, <1>4, <1>5 DEF PairInv, OpsInv

\* An operation that has nothing in hand is sound.
LEMMA IdleSound ==
  \A k, row, o : o.at \in {"ended", "row"} /\ o.done = FALSE
                    => Sound(k, o, row)
  BY DEF Sound

\* An attempt that is over: the next one has the same in hand.
LEMMA NextAttemptSound ==
  ASSUME PairInv, NEW x \in Sides, NEW k \in Kinds[x],
         op[x][k].at \in {"send", "store"},
         NEW o \in NextAttempt(x, k), NEW row
  PROVE  o \in Ops /\ Sound(k, o, row)
  <1>1. op[x][k] \in Ops /\ Sound(k, op[x][k], cached[x])
    BY OpFacts
  <1>2. CASE o = NoOp
    <2>1. o.at = "ended" /\ o.done = FALSE
      BY <1>2 DEF NoOp
    <2>2. QED BY <1>2, <2>1, IdleSound, PayloadFields
  <1>3. CASE o = [op[x][k] EXCEPT !.at = "send", !.seen = NoSync]
    <2>1. /\ o \in Ops /\ o.at = "send"
          /\ o.payload = op[x][k].payload
          /\ o.reports = op[x][k].reports
          /\ o.done = op[x][k].done
          /\ o.replaced = op[x][k].replaced
          /\ o.had = op[x][k].had
      BY <1>1, <1>3 DEF Ops
    <2>2. QED BY <1>1, <2>1 DEF Sound
  <1>4. QED BY <1>2, <1>3 DEF NextAttempt

\* A rollback that succeeds reports the version the other panel has.
LEMMA OutcomeSound ==
  ASSUME PairInv, NEW x \in Sides, NEW k \in Kinds[x],
         op[x][k].at \in {"send", "store"}, NEW had \in Payloads,
         had.version = op[x][k].payload.version, NEW row
  PROVE  Outcome(x, k, had) \in Ops /\ Sound(k, Outcome(x, k, had), row)
  <1>1. op[x][k] \in Ops /\ Sound(k, op[x][k], cached[x])
    BY OpFacts
  <1>2. CASE k # "rollback"
    <2>1. Outcome(x, k, had) = NoOp /\ NoOp.at = "ended"
          /\ NoOp.done = FALSE
      BY <1>2 DEF Outcome, NoOp
    <2>2. QED BY <2>1, IdleSound, PayloadFields
  <1>3. CASE k = "rollback"
    <2> DEFINE o == Outcome(x, k, had)
    <2>1. /\ o \in Ops /\ o.at = "ended" /\ o.had = had
          /\ o.reports = op[x][k].reports
          /\ o.replaced = op[x][k].replaced
      <3>1. op[x][k].reports \in Nat /\ op[x][k].replaced \in BOOLEAN
        BY <1>1 DEF Ops
      <3>2. QED BY <1>3, <3>1 DEF Outcome, NoOp, Ops
    <2> HIDE DEF o
    <2>2. Sound(k, o, row)
      BY <1>1, <2>1 DEF Sound
    <2>3. QED BY <2>1, <2>2 DEF o
  <1>4. QED BY <1>2, <1>3

\* The steps of the operations that set one of them and leave the rows and
\* the late requests alone.
LEMMA QuietPairStep ==
  ASSUME PairInv, NEW x \in Sides,
         \/ BeginPush(x) \/ EnterFallback(x) \/ Reconnect(x) \/ ReadRow(x)
         \/ BeginRollback(x) \/ Reread(x)
         \/ \E k \in Kinds[x] : Fail(x, k)
  PROVE  PairInv'
  <1>a. RestInv /\ NoOp \in Ops
    BY PayloadFields DEF PairInv
  <1>b. RestInv' /\ UNCHANGED cached
    <2>1. /\ UNCHANGED <<cached, stale, late>>
          /\ \/ fallback' = fallback
             \/ /\ "resync" \in Kinds[x]
                /\ fallback' = [fallback EXCEPT ![x] = TRUE]
             \/ fallback' = [fallback EXCEPT ![x] = FALSE]
          /\ keyed' = keyed \/ keyed' = CacheKey(x)
      BY DEF BeginPush, EnterFallback, Reconnect, ReadRow, BeginRollback,
             Reread, Fail
    <2>2. fallback' \in [Sides -> BOOLEAN]
          /\ \A z \in Sides : fallback'[z] => "resync" \in Kinds[z]
      BY <1>a, <2>1 DEF RestInv, RestTypes
    <2>3. keyed' \in [Sides -> BOOLEAN]
      <3>1. ("resync" \in Kinds[x]) \in BOOLEAN
        OBVIOUS
      <3>2. keyed \in [Sides -> BOOLEAN]
        BY <1>a DEF RestInv, RestTypes
      <3>3. CacheKey(x) \in [Sides -> BOOLEAN]
        BY <3>1, <3>2, Zenon DEF CacheKey
      <3>4. QED BY <2>1, <3>2, <3>3
    <2>4. QED BY <1>a, <2>1, <2>2, <2>3 DEF RestInv, RestTypes, LateInv
  \* Setting an operation that has nothing in hand.
  <1>c. ASSUME NEW k \in Kinds[x], NEW o \in Ops,
               o.at \in {"ended", "row"}, o.done = FALSE, SetOp(x, k, o)
        PROVE  PairInv'
    <2>1. Sound(k, o, cached[x])
      BY <1>c, IdleSound
    <2>2. QED BY <1>b, <1>c, <2>1, SetOpKeeps
  <1>d. NoOp.at = "ended" /\ NoOp.done = FALSE
    BY DEF NoOp
  <1>1. CASE BeginPush(x)
    <2>1. "push" \in Kinds[x]
      BY <1>1 DEF BeginPush
    <2>2. PICK p \in Payloads \ stale :
             SetOp(x, "push", [NoOp EXCEPT !.at = "send", !.payload = p])
      BY <1>1 DEF BeginPush
    <2> DEFINE o == [NoOp EXCEPT !.at = "send", !.payload = p]
    <2>3. o \in Ops /\ o.at = "send" /\ o.payload = p
      BY PayloadFields DEF NoOp, Ops
    <2> HIDE DEF o
    <2>4. Sound("push", o, cached[x])
      BY <2>3 DEF Sound
    <2>5. SetOp(x, "push", o)
      BY <2>2 DEF o
    <2>6. QED BY <1>b, <2>1, <2>3, <2>4, <2>5, SetOpKeeps
  <1>2. CASE EnterFallback(x)
    <2>1. UNCHANGED <<cached, op>>
      BY <1>2 DEF EnterFallback
    <2>2. QED BY <1>b, <2>1 DEF PairInv, OpsInv
  <1>3. CASE Reconnect(x)
    <2>1. "resync" \in Kinds[x]
      BY <1>3 DEF Reconnect, PairInv, RestInv
    <2>2. \/ SetOp(x, "resync", [NoOp EXCEPT !.at = "row"])
          \/ SetOp(x, "resync", NoOp)
      BY <1>3 DEF Reconnect
    <2>3. /\ [NoOp EXCEPT !.at = "row"] \in Ops
          /\ [NoOp EXCEPT !.at = "row"].at = "row"
          /\ [NoOp EXCEPT !.at = "row"].done = FALSE
      BY PayloadFields DEF NoOp, Ops
    <2>4. QED BY <1>a, <1>c, <1>d, <2>1, <2>2, <2>3
  <1>4. CASE ReadRow(x)
    <2>1. "resync" \in Kinds[x]
      BY <1>4 DEF ReadRow
    <2> DEFINE o == [op[x]["resync"] EXCEPT
                        !.at = "send", !.payload = cached[x].current]
    <2>2. CASE cached[x].current # NoSync /\ SetOp(x, "resync", o)
      <3>1. cached[x].current \in Payloads /\ op[x]["resync"] \in Ops
        BY <2>1, <2>2, OpFacts DEF Rows
      <3>2. /\ o \in Ops /\ o.at = "send"
            /\ o.payload = cached[x].current
        BY <3>1 DEF Ops
      <3> HIDE DEF o
      <3>3. Sound("resync", o, cached[x])
        BY <3>1, <3>2 DEF Sound
      <3>4. QED BY <1>b, <2>1, <2>2, <3>2, <3>3, SetOpKeeps
    <2>3. CASE EndOp(x, "resync")
      BY <1>a, <1>c, <1>d, <2>1, <2>3 DEF EndOp
    <2>4. QED BY <1>4, <2>2, <2>3 DEF ReadRow
  <1>5. CASE BeginRollback(x)
    <2>1. "rollback" \in Kinds[x]
      BY <1>5 DEF BeginRollback
    <2> DEFINE o == [NoOp EXCEPT !.at = "restore",
                                 !.payload = cached[x].previous,
                                 !.reports = cached[x].previous.version]
    <2>2. CASE cached[x].previous # NoSync /\ SetOp(x, "rollback", o)
      <3>1. cached[x].previous \in Payloads
            /\ cached[x].previous.version \in Nat
        BY <2>1, <2>2, OpFacts, PayloadFields DEF Rows
      <3>2. /\ o \in Ops /\ o.at = "restore"
            /\ o.payload = cached[x].previous
            /\ o.reports = cached[x].previous.version
            /\ o.done = FALSE
        BY <3>1, PayloadFields DEF NoOp, Ops
      <3> HIDE DEF o
      <3>3. Sound("rollback", o, cached[x])
        BY <3>1, <3>2 DEF Sound
      <3>4. QED BY <1>b, <2>1, <2>2, <3>2, <3>3, SetOpKeeps
    <2>3. CASE EndOp(x, "rollback")
      BY <1>a, <1>c, <1>d, <2>1, <2>3 DEF EndOp
    <2>4. QED BY <1>5, <2>2, <2>3 DEF BeginRollback
  <1>6. CASE Reread(x)
    <2>1. "rollback" \in Kinds[x] /\ op[x]["rollback"].at = "reread"
      BY <1>6 DEF Reread
    <2> DEFINE o == [op[x]["rollback"] EXCEPT
                        !.at = "send", !.payload = cached[x].current]
    <2>2. /\ op[x]["rollback"] \in Ops
          /\ Sound("rollback", op[x]["rollback"], cached[x])
      BY <2>1, OpFacts
    <2>3. cached[x].current \in Payloads
      BY <2>1, <2>2 DEF Sound
    <2>4. /\ o \in Ops /\ o.at = "send" /\ o.payload = cached[x].current
          /\ o.reports = op[x]["rollback"].reports
          /\ o.done = op[x]["rollback"].done
          /\ o.replaced = op[x]["rollback"].replaced
          /\ o.had = op[x]["rollback"].had
      BY <2>2, <2>3 DEF Ops
    <2>5. SetOp(x, "rollback", o)
      BY <1>6 DEF Reread
    <2> HIDE DEF o
    <2>6. Sound("rollback", o, cached[x])
      BY <2>1, <2>2, <2>3, <2>4 DEF Sound
    <2>7. QED BY <1>b, <2>1, <2>4, <2>5, <2>6, SetOpKeeps
  <1>7. ASSUME NEW k \in Kinds[x], Fail(x, k) PROVE PairInv'
    BY <1>a, <1>c, <1>d, <1>7 DEF Fail, EndOp
  <1>8. QED BY <1>1, <1>2, <1>3, <1>4, <1>5, <1>6, <1>7

\* The rollback writes back what it has read: the row then holds what the
\* operation had in hand.
LEMMA RestoreStep ==
  ASSUME PairInv, NEW x \in Sides, Restore(x)
  PROVE  PairInv'
  <1> DEFINE o == [op[x]["rollback"] EXCEPT !.at = "reread"]
             row == [current |-> op[x]["rollback"].payload,
                     previous |-> NoSync]
  <1>1. /\ "rollback" \in Kinds[x] /\ op[x]["rollback"].at = "restore"
        /\ cached' = [cached EXCEPT ![x] = row]
        /\ op' = [op EXCEPT ![x]["rollback"] = o]
        /\ UNCHANGED <<stale, keyed, fallback, late>>
    BY DEF Restore, SetOp
  <1>2. /\ op[x]["rollback"] \in Ops
        /\ Sound("rollback", op[x]["rollback"], cached[x])
        /\ RestInv /\ OpsInv
    BY <1>1, OpFacts DEF PairInv
  <1>3. op[x]["rollback"].payload \in Payloads
    BY <1>1, <1>2 DEF Sound
  <1>4. /\ o \in Ops /\ o.at = "reread"
        /\ o.reports = op[x]["rollback"].reports
        /\ o.done = op[x]["rollback"].done
        /\ o.replaced = op[x]["rollback"].replaced
        /\ o.had = op[x]["rollback"].had
    BY <1>2 DEF Ops
  <1>5. row \in Rows /\ row.current = op[x]["rollback"].payload
    BY <1>3 DEF Rows
  <1> HIDE DEF o, row
  <1>6. /\ cached' \in [Sides -> Rows] /\ cached'[x] = row
        /\ \A z \in Sides \ {x} : cached'[z] = cached[z]
    BY <1>1, <1>2, <1>5 DEF RestInv, RestTypes
  <1>7. /\ DOMAIN op' = Sides
        /\ op'[x] = [op[x] EXCEPT !["rollback"] = o]
        /\ \A z \in Sides \ {x} : op'[z] = op[z]
    BY <1>1, <1>2 DEF OpsInv
  <1>8. /\ op'[x] \in [Kinds[x] -> Ops] /\ op'[x]["rollback"] = o
        /\ \A j \in Kinds[x] \ {"rollback"} : op'[x][j] = op[x][j]
    BY <1>1, <1>2, <1>4, <1>7 DEF OpsInv
  <1>9. \A z \in Sides : op'[z] \in [Kinds[z] -> Ops]
    BY <1>2, <1>7, <1>8 DEF OpsInv
  <1>10. RestInv'
    BY <1>1, <1>2, <1>6 DEF RestInv, RestTypes, LateInv
  <1>11. ASSUME NEW z \in Sides, NEW j \in Kinds[z]
         PROVE  Sound(j, op'[z][j], cached'[z])
    <2>1. CASE z = x /\ j = "rollback"
      <3>1. Sound("rollback", o, row)
        BY <1>1, <1>2, <1>3, <1>4, <1>5 DEF Sound
      <3>2. QED BY <1>6, <1>8, <2>1, <3>1
    <2>2. CASE z = x /\ j # "rollback"
      <3>1. op'[z][j] = op[z][j] /\ Sound(j, op[z][j], cached[z])
        BY <1>2, <1>8, <2>2 DEF OpsInv
      <3>2. QED BY <2>2, <3>1 DEF Sound
    <2>3. CASE z # x
      BY <1>2, <1>6, <1>7, <2>3 DEF OpsInv
    <2>4. QED BY <2>1, <2>2, <2>3
  <1>12. QED BY <1>7, <1>9, <1>10, <1>11 DEF PairInv, OpsInv

\* The comparison lets only a newer payload through, and answers that one is
\* applied without storing it only if the row has its version.
LEMMA VerdictFacts ==
  ASSUME PairInv, NEW y \in Sides, NEW p \in Payloads
  PROVE  /\ cached[y].current \in Payloads \cup {NoSync}
         /\ Verdict(cached[y], p) = "stored" =>
               Newer(p, cached[y].current)
         /\ Verdict(cached[y], p) # "stored" /\ Applied(Verdict(cached[y], p))
               => /\ cached[y].current \in Payloads
                  /\ cached[y].current.version = p.version
  <1>1. cached[y].current \in Payloads \cup {NoSync}
    BY DEF PairInv, RestInv, RestTypes, Rows
  <1>2. ASSUME Verdict(cached[y], p) = "stored"
        PROVE  Newer(p, cached[y].current)
    BY <1>1, <1>2, PayloadFields DEF Verdict, Newer
  <1>3. ASSUME Verdict(cached[y], p) # "stored",
               Applied(Verdict(cached[y], p))
        PROVE  /\ cached[y].current # NoSync
               /\ cached[y].current.version = p.version
    BY <1>3 DEF Verdict, Applied
  <1>4. QED BY <1>1, <1>2, <1>3

\* A request is compared.
LEMMA CompareStep ==
  ASSUME PairInv, NEW x \in Sides, NEW k \in Kinds[x], Compare(x, k)
  PROVE  PairInv'
  <1> DEFINE y == Other(x)
             p == op[x][k].payload
             verdict == Verdict(cached[y], p)
             o == [op[x][k] EXCEPT !.at = "store", !.seen = cached[y].current]
  <1>1. /\ op[x][k].at = "send"
        /\ UNCHANGED <<cached, stale, keyed, fallback, late>>
        /\ \/ verdict = "stored" /\ SetOp(x, k, o)
           \/ /\ verdict # "stored" /\ Applied(verdict)
              /\ SetOp(x, k, Outcome(x, k, cached[y].current))
           \/ \E a \in NextAttempt(x, k) : SetOp(x, k, a)
    BY DEF Compare
  <1>2. /\ op[x][k] \in Ops /\ Sound(k, op[x][k], cached[x])
        /\ RestInv /\ y \in Sides
    BY OpFacts, OtherSide
  <1>3. RestInv' /\ UNCHANGED cached
    BY <1>1, <1>2 DEF RestInv, RestTypes, LateInv
  <1>4. p \in Payloads
    BY <1>1, <1>2 DEF Sound
  <1>5. /\ cached[y].current \in Payloads \cup {NoSync}
        /\ verdict = "stored" => Newer(p, cached[y].current)
        /\ verdict # "stored" /\ Applied(verdict) =>
              /\ cached[y].current \in Payloads
              /\ cached[y].current.version = p.version
    BY <1>2, <1>4, VerdictFacts
  <1>6. /\ o \in Ops /\ o.at = "store" /\ o.payload = p
        /\ o.seen = cached[y].current
        /\ o.reports = op[x][k].reports
        /\ o.done = op[x][k].done
        /\ o.replaced = op[x][k].replaced
        /\ o.had = op[x][k].had
    BY <1>2, <1>5 DEF Ops
  <1> HIDE DEF y, verdict, o
  <1>7. CASE verdict = "stored" /\ SetOp(x, k, o)
    <2>1. Sound(k, o, cached[x])
      BY <1>1, <1>2, <1>5, <1>6, <1>7 DEF Sound
    <2>2. QED BY <1>3, <1>6, <1>7, <2>1, SetOpKeeps
  <1>8. CASE /\ verdict # "stored" /\ Applied(verdict)
             /\ SetOp(x, k, Outcome(x, k, cached[y].current))
    <2>1. /\ Outcome(x, k, cached[y].current) \in Ops
          /\ Sound(k, Outcome(x, k, cached[y].current), cached[x])
      BY <1>1, <1>5, <1>8, OutcomeSound
    <2>2. QED BY <1>3, <1>8, <2>1, SetOpKeeps
  <1>9. ASSUME NEW a \in NextAttempt(x, k), SetOp(x, k, a) PROVE PairInv'
    <2>1. a \in Ops /\ Sound(k, a, cached[x])
      BY <1>1, NextAttemptSound
    <2>2. QED BY <1>3, <1>9, <2>1, SetOpKeeps
  <1>10. QED BY <1>1, <1>7, <1>8, <1>9

\* A rollback that has yet to read its row again notes that it has changed;
\* no other operation does.
LEMMA NotingStep ==
  ASSUME PairInv, NEW y \in Sides, NEW row \in Rows,
         row.current \in Payloads
  PROVE  /\ DOMAIN Noting(y, row) = Sides
         /\ \A z \in Sides \ {y} : Noting(y, row)[z] = op[z]
         /\ Noting(y, row)[y] \in [Kinds[y] -> Ops]
         /\ \A j \in Kinds[y] : Sound(j, Noting(y, row)[y][j], row)
  <1>1. DOMAIN op = Sides /\ op[y] \in [Kinds[y] -> Ops]
    BY DEF PairInv, OpsInv
  <1> DEFINE noted == [k \in Kinds[y] |->
                 IF k = "rollback" /\ op[y][k].at = "reread"
                       /\ row # cached[y]
                 THEN [op[y][k] EXCEPT !.replaced = TRUE] ELSE op[y][k]]
  <1>2. Noting(y, row) = [op EXCEPT ![y] = noted]
    BY DEF Noting
  <1>3. noted \in [Kinds[y] -> Ops]
    <2>1. ASSUME NEW o \in Ops PROVE [o EXCEPT !.replaced = TRUE] \in Ops
      BY DEF Ops
    <2>2. \A k \in Kinds[y] : op[y][k] \in Ops
      BY <1>1
    <2>3. QED BY <2>1, <2>2
  <1>4. ASSUME NEW j \in Kinds[y] PROVE Sound(j, noted[j], row)
    <2>1. op[y][j] \in Ops /\ Sound(j, op[y][j], cached[y])
      BY OpFacts
    <2>2. CASE j = "rollback" /\ op[y][j].at = "reread" /\ row # cached[y]
      <3>1. noted[j] = [op[y][j] EXCEPT !.replaced = TRUE]
        BY <2>2
      <3> HIDE DEF noted
      <3>2. noted[j].at = "reread" /\ noted[j].replaced = TRUE
        BY <2>1, <2>2, <3>1 DEF Ops
      <3>3. QED BY <2>2, <3>2 DEF Sound
    <2>3. CASE ~(/\ j = "rollback" /\ op[y][j].at = "reread"
                 /\ row # cached[y])
      <3>1. noted[j] = op[y][j]
        BY <2>3
      <3> HIDE DEF noted
      <3>2. op[y][j].at = "reread" => row = cached[y]
        BY <2>1, <2>3 DEF Sound
      <3>3. QED BY <2>1, <3>1, <3>2 DEF Sound
    <2>4. QED BY <2>2, <2>3
  <1> HIDE DEF noted
  <1>5. QED BY <1>1, <1>2, <1>3, <1>4

\* A row gets another payload, which may end an operation of the other panel.
LEMMA RowStep ==
  ASSUME PairInv, RestInv', NEW y \in Sides, NEW row \in Rows,
         row.current \in Payloads,
         cached' = [cached EXCEPT ![y] = row],
         DOMAIN op' = Sides,
         op'[y] = Noting(y, row)[y],
         \A z \in Sides \ {y} : op'[z] \in [Kinds[z] -> Ops],
         \A z \in Sides \ {y} : \A j \in Kinds[z] :
            Sound(j, op'[z][j], cached[z])
  PROVE  PairInv'
  <1>1. /\ op'[y] \in [Kinds[y] -> Ops]
        /\ \A j \in Kinds[y] : Sound(j, op'[y][j], row)
    BY NotingStep
  <1>2. \A z \in Sides : op'[z] \in [Kinds[z] -> Ops]
    BY <1>1
  <1>3. cached'[y] = row /\ \A z \in Sides \ {y} : cached'[z] = cached[z]
    BY DEF PairInv, RestInv, RestTypes
  <1>4. ASSUME NEW z \in Sides, NEW j \in Kinds[z]
        PROVE  Sound(j, op'[z][j], cached'[z])
    BY <1>1, <1>3
  <1>5. QED BY <1>2, <1>4 DEF PairInv, OpsInv

\* What is stored is a payload.
LEMMA NewRowFacts ==
  ASSUME PairInv, NEW y \in Sides, NEW p \in Payloads
  PROVE  NewRow(y, p) \in Rows /\ NewRow(y, p).current = p
  <1>1. cached[y].current \in Payloads \cup {NoSync}
    BY DEF PairInv, RestInv, RestTypes, Rows
  <1>2. QED BY <1>1 DEF NewRow, Rows

\* It is stored.
LEMMA StoreStep ==
  ASSUME PairInv, NEW x \in Sides, NEW k \in Kinds[x], Store(x, k)
  PROVE  PairInv'
  <1> DEFINE y == Other(x)
             p == op[x][k].payload
             row == NewRow(y, p)
  <1>1. PICK o \in NextAttempt(x, k) \cup {Outcome(x, k, p)} :
           op' = [Noting(y, row) EXCEPT ![x][k] = o]
    BY DEF Store
  <1>2. /\ op[x][k].at = "store"
        /\ cached' = [cached EXCEPT ![y] = row]
        /\ UNCHANGED <<stale, keyed, fallback, late>>
    BY DEF Store
  <1>3. /\ op[x][k] \in Ops /\ Sound(k, op[x][k], cached[x])
        /\ RestInv /\ y \in Sides /\ y # x
        /\ \A z \in Sides : z = x \/ z = y
    BY OpFacts, OtherSide
  <1>4. p \in Payloads
    BY <1>2, <1>3 DEF Sound
  <1>5. row \in Rows /\ row.current = p
    BY <1>3, <1>4, NewRowFacts
  <1>6. o \in Ops /\ Sound(k, o, cached[x])
    <2>1. CASE o \in NextAttempt(x, k)
      BY <1>2, <2>1, NextAttemptSound
    <2>2. CASE o = Outcome(x, k, p)
      BY <1>2, <1>4, <2>2, OutcomeSound
    <2>3. QED BY <1>1, <2>1, <2>2
  <1> HIDE DEF y, row
  <1>7. /\ DOMAIN Noting(y, row) = Sides
        /\ Noting(y, row)[x] = op[x]
    BY <1>3, <1>4, <1>5, NotingStep
  <1>8. /\ DOMAIN op' = Sides /\ op'[y] = Noting(y, row)[y]
        /\ op'[x] = [op[x] EXCEPT ![k] = o]
    BY <1>1, <1>3, <1>7
  <1>9. OpsInv
    BY DEF PairInv
  <1>10. /\ op'[x] \in [Kinds[x] -> Ops] /\ op'[x][k] = o
         /\ \A j \in Kinds[x] \ {k} : op'[x][j] = op[x][j]
    BY <1>6, <1>8, <1>9 DEF OpsInv
  <1>11. ASSUME NEW j \in Kinds[x] PROVE Sound(j, op'[x][j], cached[x])
    BY <1>6, <1>9, <1>10 DEF OpsInv
  <1>12. RestInv'
    <2>1. cached' \in [Sides -> Rows]
      BY <1>2, <1>3, <1>5 DEF RestInv, RestTypes
    <2>2. QED BY <1>2, <1>3, <2>1 DEF RestInv, RestTypes, LateInv
  <1>13. /\ \A z \in Sides \ {y} : op'[z] \in [Kinds[z] -> Ops]
         /\ \A z \in Sides \ {y} : \A j \in Kinds[z] :
               Sound(j, op'[z][j], cached[z])
    BY <1>3, <1>10, <1>11
  <1>14. row.current \in Payloads
    BY <1>4, <1>5
  <1>15. QED BY <1>2, <1>3, <1>5, <1>8, <1>12, <1>13, <1>14, RowStep

\* What a call leaves behind is a request, compared if it was.
LEMMA LeftFacts ==
  ASSUME PairInv, NEW x \in Sides, NEW k \in Kinds[x],
         op[x][k].at \in {"send", "store"}
  PROVE  /\ LeftBy(x, k) \in LateRequests
         /\ LeftBy(x, k).checked =>
               Newer(LeftBy(x, k).payload, LeftBy(x, k).seen)
  <1>1. op[x][k] \in Ops /\ Sound(k, op[x][k], cached[x])
    BY OpFacts
  <1>2. op[x][k].payload \in Payloads
    BY <1>1 DEF Sound
  <1>3. LeftBy(x, k) \in LateRequests
    BY <1>1, <1>2 DEF LeftBy, LateRequests, Ops
  <1>4. LeftBy(x, k).checked =>
           Newer(LeftBy(x, k).payload, LeftBy(x, k).seen)
    BY <1>1 DEF LeftBy, Sound
  <1>5. QED BY <1>3, <1>4

\* An attempt times out.
LEMMA TimeOutStep ==
  ASSUME PairInv, NEW x \in Sides, NEW k \in Kinds[x], TimeOut(x, k)
  PROVE  PairInv'
  <1>1. PICK o \in NextAttempt(x, k) : SetOp(x, k, o)
    BY DEF TimeOut
  <1>2. /\ op[x][k].at \in {"send", "store"}
        /\ UNCHANGED <<cached, stale, keyed, fallback>>
        /\ \/ late' = late
           \/ late' = [late EXCEPT ![Other(x)] = @ \cup {LeftBy(x, k)}]
    BY DEF TimeOut
  <1>3. RestInv /\ Other(x) \in Sides
    BY OtherSide DEF PairInv
  <1>4. /\ LeftBy(x, k) \in LateRequests
        /\ LeftBy(x, k).checked =>
              Newer(LeftBy(x, k).payload, LeftBy(x, k).seen)
    BY <1>2, LeftFacts
  <1>5. late' \in [Sides -> SUBSET LateRequests] /\ LateInv'
    BY <1>2, <1>3, <1>4 DEF RestInv, RestTypes, LateInv
  <1>6. RestInv'
    BY <1>2, <1>3, <1>5 DEF RestInv, RestTypes
  <1>7. o \in Ops /\ Sound(k, o, cached[x])
    BY <1>1, <1>2, NextAttemptSound
  <1>8. QED BY <1>1, <1>2, <1>6, <1>7, SetOpKeeps

\* A late request is compared.
LEMMA CompareLateStep ==
  ASSUME PairInv, NEW y \in Sides, NEW m \in late[y], CompareLate(y, m)
  PROVE  PairInv'
  <1> DEFINE n == [m EXCEPT !.checked = TRUE, !.seen = cached[y].current]
  <1>1. /\ UNCHANGED <<cached, stale, keyed, fallback, op>>
        /\ late' = [late EXCEPT ![y] = (@ \ {m}) \cup
                       IF Verdict(cached[y], m.payload) = "stored"
                       THEN {n} ELSE {}]
    BY DEF CompareLate
  <1>2. RestInv /\ m \in LateRequests
    BY DEF PairInv, RestInv, RestTypes
  <1>3. m.payload \in Payloads
    BY <1>2 DEF LateRequests
  <1>4. /\ cached[y].current \in Payloads \cup {NoSync}
        /\ Verdict(cached[y], m.payload) = "stored" =>
              Newer(m.payload, cached[y].current)
    BY <1>3, VerdictFacts
  <1>5. /\ n \in LateRequests /\ n.payload = m.payload
        /\ n.seen = cached[y].current
    BY <1>2, <1>4 DEF LateRequests
  <1> HIDE DEF n
  <1>6. CASE Verdict(cached[y], m.payload) = "stored"
    <2>1. late' = [late EXCEPT ![y] = (@ \ {m}) \cup {n}]
      BY <1>1, <1>6
    <2>2. Newer(n.payload, n.seen)
      BY <1>4, <1>5, <1>6
    <2>3. late' \in [Sides -> SUBSET LateRequests] /\ LateInv'
      BY <1>2, <1>5, <2>1, <2>2 DEF RestInv, RestTypes, LateInv
    <2>4. QED BY <1>1, <1>2, <2>3 DEF PairInv, RestInv, RestTypes, OpsInv
  <1>7. CASE Verdict(cached[y], m.payload) # "stored"
    <2>1. late' = [late EXCEPT ![y] = @ \ {m}]
      BY <1>1, <1>7
    <2>2. late' \in [Sides -> SUBSET LateRequests] /\ LateInv'
      BY <1>2, <2>1 DEF RestInv, RestTypes, LateInv
    <2>3. QED BY <1>1, <1>2, <2>2 DEF PairInv, RestInv, RestTypes, OpsInv
  <1>8. QED BY <1>6, <1>7

\* And stored.
LEMMA StoreLateStep ==
  ASSUME PairInv, NEW y \in Sides, NEW m \in late[y], StoreLate(y, m)
  PROVE  PairInv'
  <1> DEFINE row == NewRow(y, m.payload)
  <1>1. /\ cached' = [cached EXCEPT ![y] = row]
        /\ op' = Noting(y, row)
        /\ late' \in {late, [late EXCEPT ![y] = @ \ {m}]}
        /\ UNCHANGED <<stale, keyed, fallback>>
    BY DEF StoreLate
  <1>2. RestInv /\ m \in LateRequests /\ OpsInv
    BY DEF PairInv, RestInv, RestTypes
  <1>3. m.payload \in Payloads
    BY <1>2 DEF LateRequests
  <1>4. row \in Rows /\ row.current \in Payloads
    BY <1>3, NewRowFacts
  <1> HIDE DEF row
  <1>5. late' \in [Sides -> SUBSET LateRequests] /\ LateInv'
    BY <1>1, <1>2 DEF RestInv, RestTypes, LateInv
  <1>6. RestInv'
    BY <1>1, <1>2, <1>4, <1>5 DEF RestInv, RestTypes
  <1>7. /\ DOMAIN op' = Sides
        /\ \A z \in Sides \ {y} : op'[z] = op[z]
    BY <1>1, <1>4, NotingStep
  <1>8. QED BY <1>1, <1>2, <1>4, <1>6, <1>7, RowStep DEF OpsInv

\* A panel is started again: its operations are gone, and what it was
\* receiving is to be sent again.
LEMMA RestartPanelStep ==
  ASSUME PairInv, NEW x \in Sides, RestartPanel(x)
  PROVE  PairInv'
  <1> DEFINE y == Other(x)
             again(z, k) == [op[z][k] EXCEPT !.at = "send", !.seen = NoSync]
             left(z, k) == IF z = x THEN NoOp
                           ELSE IF op[z][k].at = "store" THEN again(z, k)
                           ELSE op[z][k]
  <1>1. PICK K \in SUBSET {k \in Kinds[x] :
                              op[x][k].at \in {"send", "store"}} :
           late' = [late EXCEPT ![x] = {m \in @ : ~m.checked},
                                ![y] = @ \cup {LeftBy(x, k) : k \in K}]
    BY DEF RestartPanel
  <1>2. /\ UNCHANGED <<cached, stale>>
        /\ keyed' = [keyed EXCEPT ![x] = FALSE]
        /\ fallback' = [fallback EXCEPT ![x] = FALSE]
        /\ op' = [z \in Sides |-> [k \in Kinds[z] |-> left(z, k)]]
    BY DEF RestartPanel
  <1>3. RestInv /\ OpsInv /\ y \in Sides /\ y # x
        /\ \A z \in Sides : z = x \/ z = y
    BY OtherSide DEF PairInv
  <1> HIDE DEF y
  <1>4. ASSUME NEW k \in K
        PROVE  /\ LeftBy(x, k) \in LateRequests
               /\ LeftBy(x, k).checked =>
                     Newer(LeftBy(x, k).payload, LeftBy(x, k).seen)
    BY <1>4, LeftFacts
  <1>5. /\ DOMAIN late' = Sides
        /\ late'[x] = {m \in late[x] : ~m.checked}
        /\ late'[y] = late[y] \cup {LeftBy(x, k) : k \in K}
    BY <1>1, <1>3 DEF RestInv, RestTypes
  <1>6. late' \in [Sides -> SUBSET LateRequests]
    <2>1. late'[x] \subseteq LateRequests /\ late'[y] \subseteq LateRequests
      BY <1>3, <1>4, <1>5 DEF RestInv, RestTypes
    <2>2. late' = [z \in Sides |-> late'[z]]
      BY <1>1, <1>3 DEF RestInv, RestTypes
    <2>3. QED BY <1>3, <2>1, <2>2
  <1>7. LateInv'
    <2>1. \A m \in late'[x] : m.checked => Newer(m.payload, m.seen)
      BY <1>5
    <2>2. \A m \in late'[y] : m.checked => Newer(m.payload, m.seen)
      BY <1>3, <1>4, <1>5 DEF RestInv, LateInv
    <2>3. QED BY <1>3, <2>1, <2>2 DEF LateInv
  <1>8. RestInv'
    BY <1>2, <1>3, <1>6, <1>7 DEF RestInv, RestTypes
  <1>9. ASSUME NEW z \in Sides, NEW k \in Kinds[z]
        PROVE  left(z, k) \in Ops /\ Sound(k, left(z, k), cached[z])
    <2>1. op[z][k] \in Ops /\ Sound(k, op[z][k], cached[z])
      BY OpFacts
    <2>2. CASE z = x
      <3>1. NoOp.at = "ended" /\ NoOp.done = FALSE /\ NoOp \in Ops
        BY PayloadFields DEF NoOp
      <3>2. QED BY <2>2, <3>1, IdleSound
    <2>3. CASE z # x /\ op[z][k].at = "store"
      <3>1. again(z, k) \in NextAttempt(z, k)
        BY DEF NextAttempt
      <3>2. again(z, k) \in Ops /\ Sound(k, again(z, k), cached[z])
        BY <2>3, <3>1, NextAttemptSound
      <3>3. QED BY <2>3, <3>2
    <2>4. CASE z # x /\ op[z][k].at # "store"
      BY <2>1, <2>4
    <2>5. QED BY <2>2, <2>3, <2>4
  <1> HIDE DEF left, again
  <1>10. /\ DOMAIN op' = Sides
         /\ \A z \in Sides : op'[z] = [k \in Kinds[z] |-> left(z, k)]
    BY <1>2
  <1>11. \A z \in Sides : op'[z] \in [Kinds[z] -> Ops]
    BY <1>9, <1>10
  <1>12. \A z \in Sides : \A k \in Kinds[z] :
            Sound(k, op'[z][k], cached'[z])
    BY <1>2, <1>9, <1>10
  <1>13. QED BY <1>8, <1>10, <1>11, <1>12 DEF PairInv, OpsInv

\* Every step of the two panels keeps the invariant.
LEMMA NextPairInv == PairInv /\ [PairNext]_pairVars => PairInv'
  <1> SUFFICES ASSUME PairInv, [PairNext]_pairVars PROVE PairInv'
    OBVIOUS
  <1>1. CASE GrowOld \/ UNCHANGED pairVars
    <2>1. /\ cached' = cached /\ op' = op
          /\ fallback' = fallback /\ late' = late
      BY <1>1 DEF GrowOld, pairVars
    <2>2. stale' \subseteq Payloads /\ keyed' \in [Sides -> BOOLEAN]
      BY <1>1 DEF GrowOld, pairVars, PairInv, RestInv, RestTypes
    <2>3. QED BY <2>1, <2>2
              DEF PairInv, RestInv, RestTypes, LateInv, OpsInv
  <1>2. QED BY <1>1, QuietPairStep, RestoreStep, CompareStep, StoreStep,
               TimeOutStep, CompareLateStep, StoreLateStep, RestartPanelStep
            DEF PairNext

\* So it always holds.
LEMMA PairInvHolds == PairSpec => []PairInv
  <1>1. PairInit => PairInv
    <2>1. SUFFICES ASSUME PairInit PROVE PairInv
      OBVIOUS
    <2>2. RestInv
      BY <2>1, PayloadFields
      DEF PairInit, RestInv, RestTypes, LateInv
    <2>3. /\ DOMAIN op = Sides
          /\ \A x \in Sides : op[x] = [k \in Kinds[x] |-> NoOp]
      BY <2>1 DEF PairInit
    <2>4. NoOp.at = "ended" /\ NoOp.done = FALSE /\ NoOp \in Ops
      BY PayloadFields DEF NoOp
    <2>5. \A x \in Sides : \A k \in Kinds[x] :
             Sound(k, op[x][k], cached[x])
      BY <2>3, <2>4, IdleSound
    <2>6. \A x \in Sides : op[x] \in [Kinds[x] -> Ops]
      BY <2>3, <2>4
    <2>7. QED BY <2>2, <2>3, <2>5, <2>6 DEF PairInv, OpsInv
  <1>2. QED BY <1>1, NextPairInv, PTL DEF PairSpec

\* The rows, the keys and the operations are always of their types.
THEOREM PairTypeCorrect == PairSpec => []PairTypeOK
  BY PairTypes, PairInvHolds, PTL

\* Whatever pushes, resyncs and rollbacks overlap, and whichever requests
\* and answers are lost or late: the version a rollback reports is the one
\* the other panel had, unless a push replaced what was restored.
THEOREM RollbackReported == PairSpec => []RollbackReportsPeer
  <1>1. ASSUME PairInv PROVE RollbackReportsPeer
    <2>1. ASSUME NEW x \in Sides, "rollback" \in Kinds[x],
                 op[x]["rollback"].done, ~op[x]["rollback"].replaced
          PROVE  /\ op[x]["rollback"].had # NoSync
                 /\ op[x]["rollback"].had.version =
                       op[x]["rollback"].reports
      <3>1. Sound("rollback", op[x]["rollback"], cached[x])
        BY <1>1, <2>1, OpFacts
      <3>2. QED BY <2>1, <3>1, PayloadFields DEF Sound
    <2>2. QED BY <2>1 DEF RollbackReportsPeer
  <1>2. QED BY <1>1, PairInvHolds, PTL

\* A row that gets another payload than the one it was compared with moves on.
LEMMA StoredNewer ==
  ASSUME PairInv, NEW y \in Sides, NEW p \in Payloads,
         cached' = [cached EXCEPT ![y] = NewRow(y, p)],
         Newer(p, cached[y].current), NEW x \in Sides
  PROVE  \/ cached'[x].current = cached[x].current
         \/ cached[x].current = NoSync
         \/ cached'[x].current.version > cached[x].current.version
  <1>1. /\ cached'[y] = NewRow(y, p)
        /\ \A z \in Sides \ {y} : cached'[z] = cached[z]
    BY DEF PairInv, RestInv, RestTypes
  <1>2. NewRow(y, p).current = p
    BY DEF NewRow
  <1>3. QED BY <1>1, <1>2 DEF Newer

\* What a panel has received goes back to an earlier version by no step but
\* its own rollback, or by a request that was overtaken between the two steps
\* of its receipt.
THEOREM SetBackOnlyOvertaken == PairSpec => PeerSetBackOnlyOvertaken
  <1> DEFINE Kept(x) ==
          \/ cached'[x].current = cached[x].current
          \/ cached[x].current = NoSync
          \/ cached'[x].current.version > cached[x].current.version
          \/ "rollback" \in Kinds[x] /\ op[x]["rollback"].at = "restore"
          \/ Overtaken(x, cached'[x].current)
  <1>1. ASSUME PairInv, PairNext, NEW x \in Sides PROVE Kept(x)
    <2>a. /\ DOMAIN cached = Sides /\ Other(x) \in Sides /\ Other(x) # x
          /\ \A z \in Sides : z = x \/ z = Other(x)
      BY <1>1, OtherSide DEF PairInv, RestInv, RestTypes
    <2>1. ASSUME cached'[x] = cached[x] PROVE Kept(x)
      BY <2>1
    <2>2. ASSUME NEW z \in Sides, Restore(z) PROVE Kept(x)
      <3>1. CASE z = x
        BY <2>2, <3>1 DEF Restore
      <3>2. CASE z # x
        BY <2>1, <2>2, <2>a, <3>2 DEF Restore
      <3>3. QED BY <3>1, <3>2
    <2>3. ASSUME NEW z \in Sides, NEW k \in Kinds[z], Store(z, k)
          PROVE  Kept(x)
      <3>1. /\ op[z][k].at = "store"
            /\ cached' = [cached EXCEPT
                  ![Other(z)] = NewRow(Other(z), op[z][k].payload)]
        BY <2>3 DEF Store
      <3>2. Sound(k, op[z][k], cached[z]) /\ Other(z) \in Sides
            /\ Other(z) # z
        BY <1>1, OpFacts, OtherSide
      <3>3. /\ op[z][k].payload \in Payloads
            /\ Newer(op[z][k].payload, op[z][k].seen)
        BY <3>1, <3>2 DEF Sound
      <3>4. CASE Other(z) # x
        <4>1. cached'[x] = cached[x]
          BY <2>a, <3>1, <3>4
        <4>2. QED BY <2>1, <4>1
      <3>5. CASE Other(z) = x /\ op[z][k].seen # cached[x].current
        <4>1. cached'[x].current = op[z][k].payload
          BY <2>a, <3>1, <3>5 DEF NewRow
        <4>2. z = Other(x)
          BY <2>a, <3>2, <3>5
        <4>3. Overtaken(x, cached'[x].current)
          BY <3>1, <3>5, <4>1, <4>2 DEF Overtaken
        <4>4. QED BY <4>3
      <3>6. CASE Other(z) = x /\ op[z][k].seen = cached[x].current
        BY <1>1, <3>1, <3>3, <3>6, StoredNewer
      <3>7. QED BY <3>4, <3>5, <3>6
    <2>4. ASSUME NEW y \in Sides, NEW m \in late[y], StoreLate(y, m)
          PROVE  Kept(x)
      <3>1. /\ m.checked
            /\ cached' = [cached EXCEPT ![y] = NewRow(y, m.payload)]
        BY <2>4 DEF StoreLate
      <3>2. m \in LateRequests /\ Newer(m.payload, m.seen)
        BY <1>1, <3>1 DEF PairInv, RestInv, RestTypes, LateInv
      <3>3. m.payload \in Payloads
        BY <3>2 DEF LateRequests
      <3>4. CASE y # x
        <4>1. cached'[x] = cached[x]
          BY <2>a, <3>1, <3>4
        <4>2. QED BY <2>1, <4>1
      <3>5. CASE y = x /\ m.seen # cached[x].current
        <4>1. cached'[x].current = m.payload
          BY <2>a, <3>1, <3>5 DEF NewRow
        <4>2. Overtaken(x, cached'[x].current)
          BY <2>4, <3>1, <3>5, <4>1 DEF Overtaken
        <4>3. QED BY <4>2
      <3>6. CASE y = x /\ m.seen = cached[x].current
        BY <1>1, <3>1, <3>2, <3>3, <3>6, StoredNewer
      <3>7. QED BY <3>4, <3>5, <3>6
    <2>5. ASSUME cached' = cached PROVE Kept(x)
      BY <2>5
    <2> HIDE DEF Kept
    <2>6. QED BY <1>1, <2>2, <2>3, <2>4, <2>5
              DEF PairNext, BeginPush, EnterFallback, Reconnect, ReadRow,
                  BeginRollback, Reread, Fail, GrowOld, RestartPanel,
                  Compare, TimeOut, CompareLate
  <1>2. PairInv /\ [PairNext]_pairVars =>
           [\A x \in Sides : Kept(x)]_pairVars
    BY <1>1
  <1>3. PairSpec => [][\A x \in Sides : Kept(x)]_pairVars
    BY <1>2, PairInvHolds, PTL DEF PairSpec
  <1>4. QED BY <1>3 DEF PeerSetBackOnlyOvertaken

-----------------------------------------------------------------------------
(* Applying a chain *)

\* The request shares a temporary name.
Sharing(q) == q[2] \in run[q[1]].shared

\* A call that has not begun has sent nothing, and of a part that is left
\* there is no request, but a panel.
OrderInv(r) ==
    /\ run[r].at = "idle" =>
          run[r].shared = {} /\ \A p \in Parts : ~UnderWay(<<r, p>>)
    /\ run[r].at = "wait" => run[r].now \in Parts \ run[r].todo
    /\ run[r].at = "done" => run[r].todo = {}
    /\ \A p \in run[r].todo : ~UnderWay(<<r, p>>)
                              /\ PanelOf(<<r, p>>) \in Panels
    /\ Running(r) /\ ~run[r].failed => \A p \in Parts :
          UnderWay(<<r, p>>) => run[r].at = "wait" /\ run[r].now = p

\* As long as there is no error every part has its panel, and the parts are
\* taken in their order.
InOrder(r) ==
    Running(r) /\ ~run[r].failed =>
        /\ \A p \in Parts : PanelOf(<<r, p>>) \in Panels
        /\ \A p \in Parts \ run[r].todo :
            /\ \A x \in run[r].todo : Before(p, x)
            /\ run[r].at = "wait" /\ p # run[r].now => Before(p, run[r].now)

\* A part is behind the call if it has been applied as far as the call knows
\* or will be told.
Behind(r, p) ==
    /\ p \notin run[r].todo
    /\ run[r].at = "wait" /\ run[r].now = p => handler[<<r, p>>].ok

\* No part behind the call follows it to the same panel for the same service.
LastBehind(r, p) ==
    \A x \in Parts : Before(p, x) /\ Behind(r, x)
                        => Slot(<<r, x>>) # Slot(<<r, p>>)

\* The parts behind a call without an error are applied, unless a request of
\* it shares a temporary name, and those of an undisturbed one in force.
DoneInv(r) ==
    /\ run[r].at # "idle" /\ ~run[r].failed =>
          \A p \in Parts : Behind(r, p) /\ p \notin run[r].shared
                              => p \notin run[r].undone
    /\ Running(r) /\ ~run[r].disturbed => Alone(r)
    /\ Running(r) /\ ~run[r].disturbed /\ ~run[r].failed =>
          /\ run[r].shared = {}
          /\ \A p \in Parts : Behind(r, p) /\ LastBehind(r, p)
                                 => inForce[Slot(<<r, p>>)] = <<r, p>>

Holds(q, n) == handler[q].at \in {"apply", "unlink"} /\ handler[q].name = n

\* A temporary name belongs to the request that first took it: whoever else
\* holds it shares it, and one that does not share has its own.
NameInv(q) ==
    /\ UnderWay(q) => PanelOf(q) \in Panels
    /\ handler[q].ok => handler[q].at = "unlink"
    /\ handler[q].at \in {"apply", "unlink"} =>
          /\ handler[q].name \in Posts
          /\ run[handler[q].name[1]].at # "idle"
    /\ \A n \in Posts : Holds(q, n) /\ n # q => Sharing(n) /\ Sharing(q)
    /\ handler[q].at = "apply" /\ ~Sharing(q) => file[q] \in {q, Nothing}

ApplyInv ==
    /\ ApplyTypeOK
    /\ \A r \in Runs : OrderInv(r)
    /\ \A r \in Runs : InOrder(r)
    /\ \A r \in Runs : DoneInv(r)
    /\ \A q \in Posts : NameInv(q)

\* The records of the calls and of the requests.
Calls == [at : {"idle", "send", "wait", "done"},
          todo : SUBSET Parts, now : Parts \cup {Nothing},
          failed : BOOLEAN, to : [Nodes -> Panels \cup {Nothing}],
          undone : SUBSET Parts, disturbed : BOOLEAN,
          shared : SUBSET Parts]
Handlers == [at : {"none", "write", "apply", "unlink"},
             name : Posts \cup {Nothing}, ok : BOOLEAN]

\* The types, in terms of Calls and Handlers.
LEMMA ApplyTypes ==
  ApplyTypeOK <=> /\ run \in [Runs -> Calls]
                  /\ handler \in [Posts -> Handlers]
                  /\ file \in [Posts -> Posts \cup {Nothing}]
                  /\ received \in [Panels -> BOOLEAN]
                  /\ inForce \in [Slots -> Posts \cup {Nothing}]
  BY DEF ApplyTypeOK, Calls, Handlers

\* A request is a call and a part, and a part has a node of the chain.
LEMMA PostShape ==
  /\ \A q \in Posts : q[1] \in Runs /\ q[2] \in Parts /\ q = <<q[1], q[2]>>
  /\ \A r \in Runs : \A p \in Parts : <<r, p>> \in Posts
  /\ \A p \in Parts : p[1] \in Nodes /\ p[2] \in {"awg", "three_xui"}
  /\ Nothing \notin Posts
  <1>1. /\ \A q \in Posts :
              q[1] \in Runs /\ q[2] \in Parts /\ q = <<q[1], q[2]>>
        /\ \A r \in Runs : \A p \in Parts : <<r, p>> \in Posts
    BY DEF Posts
  <1>2. \A p \in Parts : p[1] \in Nodes /\ p[2] \in {"awg", "three_xui"}
    BY ApplyAssumption DEF Parts
  <1>3. QED BY <1>1, <1>2, NothingAssumption

\* What the next part, or the end of the call, leaves of its record.
LEMMA AdvanceFields ==
  ASSUME ApplyTypeOK, NEW r \in Runs, NEW todo \in SUBSET Parts,
         NEW failed \in BOOLEAN
  PROVE  LET a == Advance(r, todo, failed)
         IN  /\ a \in Calls
             /\ a.at = IF todo = {} THEN "done" ELSE "send"
             /\ a.todo = todo /\ a.now = Nothing /\ a.failed = failed
             /\ a.undone = run[r].undone /\ a.shared = run[r].shared
             /\ a.disturbed = run[r].disturbed /\ a.to = run[r].to
  <1>1. run[r] \in Calls
    BY ApplyTypes
  <1>2. QED BY <1>1 DEF Advance, Calls

\* The step that begins a call.
LEMMA BeginStep ==
  ASSUME ApplyInv, NEW r \in Runs, BeginApply(r)
  PROVE  ApplyInv'
  <1> DEFINE todo(to) == {p \in Parts : to[p[1]] # Nothing}
             failed(to) == \E n \in Nodes : to[n] = Nothing
             a(to) == Advance(r, todo(to), failed(to))
  <1>1. PICK to \in [Nodes -> Panels \cup {Nothing}] :
          run' = [s \in Runs |->
            IF s = r
            THEN [a(to) EXCEPT !.to = to, !.undone = Parts,
                               !.disturbed = ~Alone(r)]
            ELSE [run[s] EXCEPT !.disturbed = @ \/ Running(s)]]
    BY DEF BeginApply
  <1>2. /\ ApplyTypeOK /\ run \in [Runs -> Calls]
        /\ \A s \in Runs : OrderInv(s) /\ DoneInv(s) /\ InOrder(s)
        /\ \A q \in Posts : NameInv(q)
        /\ run[r].at = "idle"
        /\ UNCHANGED <<handler, file, received, inForce>>
    BY ApplyTypes DEF ApplyInv, BeginApply
  <1>3. /\ a(to) \in Calls
        /\ a(to).at = IF todo(to) = {} THEN "done" ELSE "send"
        /\ a(to).todo = todo(to) /\ a(to).failed = failed(to)
        /\ a(to).shared = run[r].shared
    <2>1. todo(to) \in SUBSET Parts /\ failed(to) \in BOOLEAN
      OBVIOUS
    <2> HIDE DEF todo, failed
    <2>2. QED BY <1>2, <2>1, AdvanceFields
  <1>4. Alone(r) \in BOOLEAN
    BY DEF Alone
  <1>5. /\ run'[r] \in Calls
        /\ run'[r].at = IF todo(to) = {} THEN "done" ELSE "send"
        /\ run'[r].todo = todo(to) /\ run'[r].failed = failed(to)
        /\ run'[r].shared = run[r].shared
        /\ run'[r].disturbed = ~Alone(r)
        /\ run'[r].to = to
    <2> HIDE DEF a, todo, failed
    <2>1. run'[r] = [a(to) EXCEPT !.to = to, !.undone = Parts,
                                  !.disturbed = ~Alone(r)]
      BY <1>1
    <2>2. QED BY <2>1, <1>3, <1>4 DEF Calls
  <1>6. ASSUME NEW s \in Runs, s # r
        PROVE  /\ run'[s] \in Calls
               /\ run'[s].at = run[s].at /\ run'[s].todo = run[s].todo
               /\ run'[s].now = run[s].now /\ run'[s].failed = run[s].failed
               /\ run'[s].undone = run[s].undone
               /\ run'[s].shared = run[s].shared
               /\ run'[s].to = run[s].to
               /\ Running(s) => run'[s].disturbed
               /\ run[s].disturbed => run'[s].disturbed
    <2>1. run'[s] = [run[s] EXCEPT !.disturbed = @ \/ Running(s)]
          /\ run[s] \in Calls
      BY <1>1, <1>2, <1>6
    <2>2. Running(s) \in BOOLEAN
      BY DEF Running
    <2>3. QED BY <2>1, <2>2 DEF Calls
  <1>7. ApplyTypeOK'
    <2>1. run' \in [Runs -> Calls]
      BY <1>1, <1>5, <1>6
    <2>2. QED BY <1>2, <2>1 DEF ApplyTypeOK, Calls
  <1>8. \A s \in Runs : OrderInv(s)' /\ InOrder(s)'
    <2>1. OrderInv(r)'
      <3>1. \A p \in todo(to) : PanelOf(<<r, p>>)' \in Panels
        BY <1>1, <1>5, PostShape DEF PanelOf
      <3>2. QED BY <1>2, <1>5, <3>1 DEF OrderInv, UnderWay, Running
    <2>2. InOrder(r)'
      <3>1. ~run'[r].failed => run'[r].todo = Parts
        BY <1>5, PostShape
      <3>2. ~run'[r].failed => \A p \in Parts : PanelOf(<<r, p>>)' \in Panels
        BY <1>5, PostShape DEF PanelOf
      <3>3. QED BY <3>1, <3>2 DEF InOrder
    <2>3. ASSUME NEW s \in Runs, s # r PROVE OrderInv(s)' /\ InOrder(s)'
      BY <1>2, <1>6, <2>3
      DEF OrderInv, InOrder, UnderWay, Running, PanelOf
    <2>4. QED BY <2>1, <2>2, <2>3
  <1>9. \A s \in Runs : DoneInv(s)'
    <2>1. ~run'[r].failed => todo(to) = Parts
      BY <1>5, PostShape
    <2>2. /\ ~run'[r].disturbed => Alone(r)'
          /\ run'[r].shared = {}
      <3>1. Alone(r) => Alone(r)'
        BY <1>2, <1>6 DEF Alone, Running, UnderWay
      <3>2. run'[r].disturbed = ~Alone(r)
        BY <1>5
      <3>3. run'[r].shared = {}
        BY <1>2, <1>5 DEF OrderInv
      <3>4. QED BY <3>1, <3>2, <3>3
    <2>3. DoneInv(r)'
      BY <2>1, <2>2, <1>5 DEF DoneInv, Behind
    <2>4. ASSUME NEW s \in Runs, s # r PROVE DoneInv(s)'
      <3>1. \A p \in Parts : Behind(s, p)' <=> Behind(s, p)
        BY <1>2, <1>6, <2>4 DEF Behind
      <3>2. Running(s)' => run'[s].disturbed
        BY <1>6, <2>4 DEF Running
      <3>3. QED BY <1>2, <1>6, <2>4, <3>1, <3>2 DEF DoneInv
    <2>5. QED BY <2>3, <2>4
  <1>10. \A q \in Posts : NameInv(q)'
    <2>1. \A s \in Runs : /\ run[s].at # "idle" => run'[s].at # "idle"
                          /\ run'[s].shared = run[s].shared
                          /\ s # r => run'[s].to = run[s].to
      BY <1>2, <1>5, <1>6
    <2>2. \A q \in Posts : UnderWay(q) => q[1] # r
      BY <1>2, PostShape DEF OrderInv
    <2>3. ASSUME NEW q \in Posts PROVE NameInv(q)'
      <3>1. UnderWay(q)' => PanelOf(q)' \in Panels
        BY <1>2, <2>1, <2>2, PostShape DEF NameInv, PanelOf, UnderWay
      <3>2. \A n \in Posts : /\ Holds(q, n)' <=> Holds(q, n)
                             /\ Sharing(n)' <=> Sharing(n)
        BY <1>2, <2>1, PostShape DEF Holds, Sharing
      <3>3. QED BY <1>2, <2>1, <3>1, <3>2, PostShape DEF NameInv
    <2>4. QED BY <2>3
  <1>11. QED BY <1>7, <1>8, <1>9, <1>10 DEF ApplyInv

\* The call that goes on, and the others, which stay as they are.
LEMMA AdvanceStep ==
  ASSUME ApplyTypeOK, NEW r \in Runs, NEW todo \in SUBSET Parts,
         NEW failed, failed \in BOOLEAN,
         run' = [run EXCEPT ![r] = Advance(r, todo, failed)]
  PROVE  /\ run' \in [Runs -> Calls]
         /\ run'[r].at = IF todo = {} THEN "done" ELSE "send"
         /\ run'[r].todo = todo /\ run'[r].failed = failed
         /\ run'[r].undone = run[r].undone
         /\ run'[r].shared = run[r].shared
         /\ run'[r].disturbed = run[r].disturbed
         /\ run'[r].to = run[r].to
         /\ \A s \in Runs \ {r} : run'[s] = run[s]
  <1>1. run \in [Runs -> Calls]
    BY ApplyTypes
  <1>2. run'[r] = Advance(r, todo, failed)
        /\ \A s \in Runs \ {r} : run'[s] = run[s]
    BY <1>1
  <1>3. run'[r] \in Calls
    BY <1>2, AdvanceFields
  <1>4. run' \in [Runs -> Calls]
    BY <1>1, <1>3
  <1>5. QED BY <1>2, <1>4, AdvanceFields

\* What the names say holds on if the requests and files stay as they are.
LEMMA NameKept ==
  ASSUME \A q \in Posts : NameInv(q), UNCHANGED <<handler, file>>,
         \A s \in Runs : /\ run[s].at # "idle" => run'[s].at # "idle"
                         /\ run'[s].shared = run[s].shared
                         /\ run'[s].to = run[s].to
  PROVE  \A q \in Posts : NameInv(q)'
  <1>1. \A q, n \in Posts : /\ Holds(q, n)' <=> Holds(q, n)
                            /\ Sharing(n)' <=> Sharing(n)
                            /\ PanelOf(n)' = PanelOf(n)
                            /\ UnderWay(n)' <=> UnderWay(n)
    BY PostShape DEF Holds, Sharing, PanelOf, UnderWay
  <1>2. QED BY <1>1, PostShape DEF NameInv

\* Going on after an error, whatever the panel does with the request.
LEMMA GiveUpStep ==
  ASSUME ApplyInv, NEW r \in Runs, Running(r),
         NEW todo \in SUBSET run[r].todo,
         run' = [run EXCEPT ![r] = Advance(r, todo, TRUE)],
         UNCHANGED <<handler, file, received, inForce>>
  PROVE  ApplyInv'
  <1>1. /\ ApplyTypeOK /\ run \in [Runs -> Calls]
        /\ \A s \in Runs : OrderInv(s) /\ DoneInv(s) /\ InOrder(s)
        /\ \A q \in Posts : NameInv(q)
    BY ApplyTypes DEF ApplyInv
  <1>2. todo \in SUBSET Parts
    BY <1>1 DEF Calls
  <1>3. /\ run' \in [Runs -> Calls]
        /\ run'[r].at = IF todo = {} THEN "done" ELSE "send"
        /\ run'[r].todo = todo /\ run'[r].failed
        /\ run'[r].shared = run[r].shared
        /\ run'[r].disturbed = run[r].disturbed
        /\ run'[r].to = run[r].to
        /\ \A s \in Runs \ {r} : run'[s] = run[s]
    <2> DEFINE failed == TRUE
    <2>1. failed \in BOOLEAN /\ failed
          /\ run' = [run EXCEPT ![r] = Advance(r, todo, failed)]
      OBVIOUS
    <2> HIDE DEF failed
    <2>2. /\ run' \in [Runs -> Calls]
          /\ run'[r].at = IF todo = {} THEN "done" ELSE "send"
          /\ run'[r].todo = todo /\ run'[r].failed = failed
          /\ run'[r].shared = run[r].shared
          /\ run'[r].disturbed = run[r].disturbed
          /\ run'[r].to = run[r].to
          /\ \A s \in Runs \ {r} : run'[s] = run[s]
      <3>1. ApplyTypeOK
        BY <1>1
      <3>2. QED BY ONLY <3>1, <1>2, <2>1, AdvanceStep
    <2>3. QED BY <2>1, <2>2
  <1>4. ApplyTypeOK'
    BY <1>1, <1>3 DEF ApplyTypeOK, Calls
  <1>5. \A s \in Runs : /\ Running(s)' => Running(s)
                        /\ Alone(s) => Alone(s)'
    BY <1>1, <1>3 DEF Running, Alone, UnderWay
  <1>6. OrderInv(r)' /\ InOrder(r)'
    <2>1. \A p \in Parts : /\ PanelOf(<<r, p>>)' = PanelOf(<<r, p>>)
                           /\ UnderWay(<<r, p>>)' <=> UnderWay(<<r, p>>)
      BY <1>3 DEF PanelOf, UnderWay
    <2>2. \A p \in todo : /\ ~UnderWay(<<r, p>>)'
                          /\ PanelOf(<<r, p>>)' \in Panels
      BY <1>1, <1>2, <2>1 DEF OrderInv
    <2>3. OrderInv(r)'
      BY <1>3, <2>2 DEF OrderInv, Running
    <2>4. QED BY <1>3, <2>3 DEF InOrder
  <1>7. ASSUME NEW s \in Runs, s # r PROVE OrderInv(s)' /\ InOrder(s)'
    <2>1. run'[s] = run[s] /\ OrderInv(s) /\ InOrder(s)
      BY <1>1, <1>3, <1>7
    <2>2. \A p \in Parts : /\ PanelOf(<<s, p>>)' = PanelOf(<<s, p>>)
                           /\ UnderWay(<<s, p>>)' <=> UnderWay(<<s, p>>)
      BY <2>1 DEF PanelOf, UnderWay
    <2>3. run[s].todo \in SUBSET Parts
      BY <1>1 DEF Calls
    <2>4. OrderInv(s)'
      BY <2>1, <2>2, <2>3 DEF OrderInv, Running
    <2>5. InOrder(s)'
      BY <2>1, <2>2 DEF InOrder, Running
    <2>6. QED BY <2>4, <2>5
  <1>8. DoneInv(r)'
    BY <1>1, <1>3, <1>5 DEF DoneInv
  <1>9. ASSUME NEW s \in Runs, s # r PROVE DoneInv(s)'
    <2>1. run'[s] = run[s]
      BY <1>3, <1>9
    <2>2. \A p \in Parts : /\ Behind(s, p)' <=> Behind(s, p)
                           /\ Slot(<<s, p>>)' = Slot(<<s, p>>)
      BY <2>1 DEF Behind, Slot, PanelOf
    <2>3. \A p \in Parts : LastBehind(s, p)' <=> LastBehind(s, p)
      BY <2>2 DEF LastBehind
    <2>4. QED BY <1>1, <1>5, <2>1, <2>2, <2>3 DEF DoneInv
  <1>10. \A q \in Posts : NameInv(q)'
    <2>1. \A s \in Runs : /\ run[s].at # "idle" => run'[s].at # "idle"
                          /\ run'[s].shared = run[s].shared
                          /\ run'[s].to = run[s].to
      BY <1>3
    <2>2. QED BY <1>1, <2>1, NameKept
  <1>11. QED BY <1>4, <1>6, <1>7, <1>8, <1>9, <1>10 DEF ApplyInv

\* The step that posts a part to its panel, or finds no way to do so.
LEMMA PostStep ==
  ASSUME ApplyInv, NEW r \in Runs, Post(r)
  PROVE  ApplyInv'
  <1>1. /\ ApplyTypeOK /\ run \in [Runs -> Calls]
        /\ handler \in [Posts -> Handlers]
        /\ \A s \in Runs : OrderInv(s) /\ DoneInv(s) /\ InOrder(s)
        /\ \A q \in Posts : NameInv(q)
        /\ run[r].at = "send"
        /\ UNCHANGED <<file, received, inForce>>
    BY ApplyTypes DEF ApplyInv, Post
  <1>2. PICK p \in run[r].todo :
          /\ \A q \in run[r].todo \ {p} : Before(p, q)
          /\ \/ /\ handler' = [handler EXCEPT ![<<r, p>>].at = "write"]
                /\ run' = [run EXCEPT ![r].at = "wait", ![r].now = p,
                                      ![r].todo = @ \ {p}]
             \/ /\ run' = [run EXCEPT ![r] = Advance(r, @.todo \ {p}, TRUE)]
                /\ UNCHANGED handler
    BY DEF Post
  <1>3. CASE /\ run' = [run EXCEPT ![r] = Advance(r, @.todo \ {p}, TRUE)]
             /\ UNCHANGED handler
    <2>1. run[r].todo \ {p} \in SUBSET run[r].todo /\ Running(r)
      BY <1>1 DEF Running
    <2>2. run' = [run EXCEPT ![r] = Advance(r, run[r].todo \ {p}, TRUE)]
      BY <1>3
    <2>3. QED BY <1>1, <1>3, <2>1, <2>2, GiveUpStep
  <1>4. CASE /\ handler' = [handler EXCEPT ![<<r, p>>].at = "write"]
             /\ run' = [run EXCEPT ![r].at = "wait", ![r].now = p,
                                   ![r].todo = @ \ {p}]
    <2>1. p \in Parts /\ <<r, p>> \in Posts
      BY <1>1, PostShape DEF Calls
    <2>2. /\ handler[<<r, p>>] \in Handlers /\ handler[<<r, p>>].at = "none"
          /\ ~handler[<<r, p>>].ok /\ PanelOf(<<r, p>>) \in Panels
      BY <1>1, <2>1 DEF OrderInv, NameInv, UnderWay
    <2>3. /\ handler'[<<r, p>>].at = "write" /\ ~handler'[<<r, p>>].ok
          /\ handler'[<<r, p>>] \in Handlers
          /\ \A q \in Posts \ {<<r, p>>} : handler'[q] = handler[q]
          /\ handler' \in [Posts -> Handlers]
      BY <1>1, <1>4, <2>1, <2>2 DEF Handlers
    <2>4. /\ run'[r].at = "wait" /\ run'[r].now = p
          /\ run'[r].todo = run[r].todo \ {p}
          /\ run'[r].failed = run[r].failed
          /\ run'[r].undone = run[r].undone
          /\ run'[r].shared = run[r].shared
          /\ run'[r].disturbed = run[r].disturbed
          /\ run'[r].to = run[r].to
          /\ run'[r] \in Calls
      <3>1. run[r] \in Calls
        BY <1>1
      <3>2. run'[r] = [run[r] EXCEPT !.at = "wait", !.now = p,
                                     !.todo = @ \ {p}]
        BY <1>1, <1>4
      <3>3. run[r].todo \ {p} \in SUBSET Parts /\ "wait" # "done"
        BY <3>1 DEF Calls
      <3>4. DEFINE left == run[r].todo \ {p}
      <3>5. run'[r] = [run[r] EXCEPT !.at = "wait", !.now = p, !.todo = left]
        BY <3>2
      <3> HIDE DEF left
      <3>6. /\ run'[r].at = "wait" /\ run'[r].now = p
            /\ run'[r].todo = left
            /\ run'[r].failed = run[r].failed
            /\ run'[r].undone = run[r].undone
            /\ run'[r].shared = run[r].shared
            /\ run'[r].disturbed = run[r].disturbed
            /\ run'[r].to = run[r].to
        BY <3>1, <3>5 DEF Calls
      <3>7. left \in SUBSET Parts
        BY <3>3 DEF left
      <3>8. run'[r] \in Calls
        BY <3>1, <3>5, <3>7, <2>1 DEF Calls
      <3>9. QED BY <3>6, <3>8 DEF left
    <2>5. \A s \in Runs \ {r} : run'[s] = run[s]
      BY <1>1, <1>4
    <2>6. ApplyTypeOK'
      <3>1. run' \in [Runs -> Calls]
        BY <1>1, <1>4, <2>4, <2>5
      <3>2. QED BY <1>1, <2>3, <3>1 DEF ApplyTypeOK, Calls, Handlers
    <2>7. \A s \in Runs : /\ Running(s)' <=> Running(s)
                          /\ Alone(r) => Alone(r)'
                          /\ run'[s].to = run[s].to
      BY <1>1, <2>1, <2>3, <2>4, <2>5, PostShape
      DEF Running, Alone, UnderWay
    <2>a. \A q \in Posts : PanelOf(q)' = PanelOf(q) /\ Slot(q)' = Slot(q)
      BY <2>7, PostShape DEF PanelOf, Slot
    <2>8. OrderInv(r)' /\ InOrder(r)'
      <3>1. \A x \in Parts \ {p} : UnderWay(<<r, x>>)' <=> UnderWay(<<r, x>>)
        BY <2>3, PostShape DEF UnderWay
      <3>2. \A x \in Parts \ {p} : ~run[r].failed => ~UnderWay(<<r, x>>)
        BY <1>1 DEF OrderInv, Running
      <3>3. run[r].todo \in SUBSET Parts
        BY <1>1 DEF Calls
      <3>4. OrderInv(r)'
        <4>1. \A x \in run'[r].todo : /\ ~UnderWay(<<r, x>>)'
                                      /\ PanelOf(<<r, x>>)' \in Panels
          BY <1>1, <2>4, <2>a, <3>1, <3>3, PostShape DEF OrderInv
        <4>2. QED BY <1>1, <2>1, <2>4, <3>1, <3>2, <4>1
                  DEF OrderInv, Running
      <3>5. ASSUME ~run'[r].failed, NEW x \in Parts \ run'[r].todo
            PROVE  /\ \A y \in run'[r].todo : Before(x, y)
                   /\ x # p => Before(x, p)
        <4>1. Running(r) /\ ~run[r].failed /\ InOrder(r)
          BY <1>1, <2>4, <3>5 DEF Running
        <4>2. CASE x = p
          BY <1>2, <2>4, <4>2
        <4>3. CASE x # p
          BY <2>4, <3>5, <4>1, <4>3 DEF InOrder
        <4>4. QED BY <4>2, <4>3
      <3>6. ASSUME ~run'[r].failed
            PROVE  \A x \in Parts : PanelOf(<<r, x>>)' \in Panels
        <4>1. Running(r) /\ ~run[r].failed /\ InOrder(r)
          BY <1>1, <2>4, <3>6 DEF Running
        <4>2. QED BY <2>a, <4>1, PostShape DEF InOrder
      <3>7. QED BY <2>4, <3>4, <3>5, <3>6 DEF InOrder
    <2>9. ASSUME NEW s \in Runs, s # r PROVE OrderInv(s)' /\ InOrder(s)'
      <3>1. run'[s] = run[s] /\ OrderInv(s) /\ InOrder(s)
        BY <1>1, <2>5, <2>9
      <3>2. \A x \in Parts : /\ UnderWay(<<s, x>>)' <=> UnderWay(<<s, x>>)
                             /\ PanelOf(<<s, x>>)' = PanelOf(<<s, x>>)
        BY <2>3, <2>9, <2>a, PostShape DEF UnderWay
      <3>3. run[s].todo \in SUBSET Parts
        BY <1>1 DEF Calls
      <3>4. QED BY <3>1, <3>2, <3>3 DEF OrderInv, InOrder, Running
    <2>10. DoneInv(r)'
      <3>1. \A x \in Parts : Behind(r, x)' => Behind(r, x) /\ x # p
        BY <1>1, <2>3, <2>4 DEF Behind
      <3>2. \A x \in Parts : Behind(r, x) /\ x # p => Behind(r, x)'
        BY <1>1, <2>4 DEF Behind
      <3>3. ~Behind(r, p)
        BY DEF Behind
      <3>4. \A x \in Parts : LastBehind(r, x)' => LastBehind(r, x)
        BY <2>a, <3>2, <3>3, PostShape DEF LastBehind
      <3>5. QED BY <1>1, <2>4, <2>7, <2>a, <3>1, <3>4, PostShape DEF DoneInv
    <2>11. ASSUME NEW s \in Runs, s # r PROVE DoneInv(s)'
      <3>1. run'[s] = run[s] /\ DoneInv(s)
        BY <1>1, <2>5, <2>11
      <3>2. \A x \in Parts : Behind(s, x)' <=> Behind(s, x)
        BY <2>3, <2>11, <3>1, PostShape DEF Behind
      <3>3. Alone(s) => ~Running(r)
        BY <2>11 DEF Alone
      <3>4. Running(r)
        BY <1>1 DEF Running
      <3>5. QED BY <2>7, <3>1, <3>2, <3>3, <3>4 DEF DoneInv
    <2>12. \A q \in Posts : NameInv(q)'
      <3>1. \A s \in Runs : /\ run[s].at # "idle" => run'[s].at # "idle"
                            /\ run'[s].shared = run[s].shared
        BY <2>4, <2>5
      <3>2. \A q, n \in Posts : /\ Holds(q, n)' <=> Holds(q, n)
                                /\ Sharing(n)' <=> Sharing(n)
        BY <2>2, <2>3, <3>1, PostShape DEF Holds, Sharing
      <3>3. ASSUME NEW q \in Posts PROVE NameInv(q)'
        <4>1. /\ handler'[q].ok => handler'[q].at = "unlink"
              /\ handler'[q].at \in {"apply", "unlink"} =>
                    handler'[q] = handler[q]
              /\ file' = file
          BY <1>1, <2>3 DEF NameInv
        <4>2. UnderWay(q)' => PanelOf(q)' \in Panels
          BY <1>1, <2>2, <2>3, <2>a DEF NameInv, UnderWay
        <4>3. QED BY <1>1, <3>1, <3>2, <4>1, <4>2, PostShape DEF NameInv
      <3>4. QED BY <3>3
    <2>13. QED BY <2>6, <2>8, <2>9, <2>10, <2>11, <2>12 DEF ApplyInv
  <1>5. QED BY <1>2, <1>3, <1>4

\* The end of a request: its temporary file is removed or stays, and the call
\* told if it still waits.
LEMMA AnswerStep ==
  ASSUME ApplyInv, NEW q \in Posts, NEW ok \in BOOLEAN, NEW name \in Posts,
         handler[q].at \in {"write", "unlink"},
         ok => handler[q].ok,
         run' = Answer(q, ok),
         handler' = [handler EXCEPT ![q] = NoHandler],
         file' \in {file, [file EXCEPT ![name] = Nothing]},
         UNCHANGED <<received, inForce>>
  PROVE  ApplyInv'
  <1> DEFINE r == q[1]
             failed == run[r].failed \/ ~ok
  <1>1. /\ ApplyTypeOK /\ run \in [Runs -> Calls]
        /\ handler \in [Posts -> Handlers]
        /\ file \in [Posts -> Posts \cup {Nothing}]
        /\ \A s \in Runs : OrderInv(s) /\ DoneInv(s) /\ InOrder(s)
        /\ \A x \in Posts : NameInv(x)
    BY ApplyTypes DEF ApplyInv
  <1>2. r \in Runs /\ q[2] \in Parts /\ q = <<r, q[2]>>
    BY PostShape
  <1>3. /\ \A x \in Posts \ {q} : handler'[x] = handler[x]
        /\ handler'[q] = NoHandler
        /\ handler' \in [Posts -> Handlers]
    BY <1>1 DEF Handlers, NoHandler
  <1>4. /\ \A n \in Posts : file'[n] \in {file[n], Nothing}
        /\ file' \in [Posts -> Posts \cup {Nothing}]
    BY <1>1
  <1>5. UnderWay(q) /\ run[r].at # "idle"
    BY <1>1, <1>2 DEF UnderWay, OrderInv
  <1>6. /\ run' \in [Runs -> Calls]
        /\ \A s \in Runs \ {r} : run'[s] = run[s]
        /\ Awaits(q) =>
              /\ run'[r].at = IF run[r].todo = {} THEN "done" ELSE "send"
              /\ run'[r].todo = run[r].todo /\ run'[r].failed = failed
              /\ run'[r].undone = run[r].undone
              /\ run'[r].shared = run[r].shared
              /\ run'[r].disturbed = run[r].disturbed
              /\ run'[r].to = run[r].to
        /\ ~Awaits(q) => run' = run
    <2>1. CASE Awaits(q)
      <3>1. run' = [run EXCEPT ![r] = Advance(r, run[r].todo, failed)]
        BY <2>1 DEF Answer, AppliedAnswer
      <3>2. run[r].todo \in SUBSET Parts /\ failed \in BOOLEAN
        BY <1>1, <1>2 DEF Calls
      <3>3. ApplyTypeOK
        BY <1>1
      <3> HIDE DEF failed, r
      <3>4. r \in Runs
        BY <1>2
      <3>5. /\ run' \in [Runs -> Calls]
            /\ run'[r].at = IF run[r].todo = {} THEN "done" ELSE "send"
            /\ run'[r].todo = run[r].todo /\ run'[r].failed = failed
            /\ run'[r].undone = run[r].undone
            /\ run'[r].shared = run[r].shared
            /\ run'[r].disturbed = run[r].disturbed
            /\ run'[r].to = run[r].to
            /\ \A s \in Runs \ {r} : run'[s] = run[s]
        <4>1. run'[r] = Advance(r, run[r].todo, failed)
              /\ \A s \in Runs \ {r} : run'[s] = run[s]
          BY <1>1, <3>1, <3>4
        <4> DEFINE a == Advance(r, run[r].todo, failed)
        <4>2. /\ a \in Calls
              /\ a.at = IF run[r].todo = {} THEN "done" ELSE "send"
              /\ a.todo = run[r].todo /\ a.failed = failed
              /\ a.undone = run[r].undone /\ a.shared = run[r].shared
              /\ a.disturbed = run[r].disturbed /\ a.to = run[r].to
          BY ONLY <3>2, <3>3, <3>4, AdvanceFields
        <4>3. run' \in [Runs -> Calls]
          BY <1>1, <3>1, <3>4, <4>2
        <4>4. QED BY <4>1, <4>2, <4>3
      <3>6. QED BY <2>1, <3>5
    <2>2. CASE ~Awaits(q)
      BY <1>1, <2>2 DEF Answer
    <2>3. QED BY <2>1, <2>2
  <1> HIDE DEF r
  <1>7. ApplyTypeOK'
    BY <1>1, <1>3, <1>4, <1>6 DEF ApplyTypeOK, Calls, Handlers
  <1>8. \A x \in Posts : UnderWay(x)' <=> UnderWay(x) /\ x # q
    BY <1>3 DEF UnderWay, NoHandler
  <1>9. Awaits(q) => run[r].at = "wait" /\ run[r].now = q[2]
    BY DEF Awaits, r
  <1>10. \A s \in Runs : /\ Running(s)' => Running(s)
                         /\ Alone(s) => Alone(s)'
                         /\ run'[s].shared = run[s].shared
                         /\ run'[s].disturbed = run[s].disturbed
                         /\ run'[s].undone = run[s].undone
                         /\ run'[s].todo = run[s].todo
                         /\ run'[s].to = run[s].to
                         /\ run[s].at # "idle" => run'[s].at # "idle"
                         /\ run[s].failed => run'[s].failed
    <2>1. ASSUME NEW s \in Runs
          PROVE  /\ Running(s)' => Running(s)
                 /\ run'[s].shared = run[s].shared
                 /\ run'[s].disturbed = run[s].disturbed
                 /\ run'[s].undone = run[s].undone
                 /\ run'[s].todo = run[s].todo
                 /\ run'[s].to = run[s].to
                 /\ run[s].at # "idle" => run'[s].at # "idle"
                 /\ run[s].failed => run'[s].failed
      BY <1>6, <1>9 DEF Running
    <2>2. ASSUME NEW s \in Runs, Alone(s) PROVE Alone(s)'
      BY <1>8, <2>1, <2>2, PostShape DEF Alone
    <2>3. QED BY <2>1, <2>2
  <1>a. \A x \in Posts : PanelOf(x)' = PanelOf(x) /\ Slot(x)' = Slot(x)
    BY <1>10, PostShape DEF PanelOf, Slot
  <1>11. \A s \in Runs : \A p \in Parts :
            /\ ~run'[s].failed => ~run[s].failed
            /\ ~run'[s].failed => (Behind(s, p)' <=> Behind(s, p))
    <2> SUFFICES ASSUME NEW s \in Runs, NEW p \in Parts, ~run'[s].failed
                 PROVE  /\ ~run[s].failed
                        /\ Behind(s, p)' <=> Behind(s, p)
      OBVIOUS
    <2>1. ~run[s].failed /\ run'[s].todo = run[s].todo
      BY <1>10
    <2>2. CASE Awaits(q) /\ s = r
      <3>1. ok
        BY <1>6, <2>2
      <3>2. run[s].at = "wait" /\ run[s].now = p => handler[<<s, p>>].ok
        BY <1>2, <1>9, <2>2, <3>1
      <3>3. run'[s].at # "wait"
        BY <1>6, <2>2
      <3>4. QED BY <2>1, <3>2, <3>3 DEF Behind
    <2>3. CASE ~(Awaits(q) /\ s = r)
      <3>1. run'[s] = run[s]
        BY <1>6, <2>3
      <3>2. CASE run[s].at = "wait" /\ run[s].now = p
        <4>1. <<s, p>> # q
          <5>1. CASE s = r
            BY <1>2, <2>3, <3>2, <5>1 DEF Awaits
          <5>2. CASE s # r
            BY <1>2, <5>2
          <5>3. QED BY <5>1, <5>2
        <4>2. handler'[<<s, p>>] = handler[<<s, p>>]
          BY <1>3, <4>1, PostShape
        <4>3. QED BY <2>1, <3>1, <3>2, <4>2 DEF Behind
      <3>3. CASE ~(run[s].at = "wait" /\ run[s].now = p)
        BY <2>1, <3>1, <3>3 DEF Behind
      <3>4. QED BY <3>2, <3>3
    <2>4. QED BY <2>1, <2>2, <2>3
  <1>12. ASSUME NEW s \in Runs PROVE OrderInv(s)' /\ InOrder(s)'
    <2>1. OrderInv(s) /\ InOrder(s)
      BY <1>1
    <2>2. run[s].todo \in SUBSET Parts
      BY <1>1 DEF Calls
    <2>a. \A p \in Parts : PanelOf(<<s, p>>)' = PanelOf(<<s, p>>)
      BY <1>a, PostShape
    <2>3. CASE Awaits(q) /\ s = r
      <3>1. \A p \in Parts : UnderWay(<<s, p>>)' =>
                UnderWay(<<s, p>>) /\ p # run[s].now
        BY <1>2, <1>8, <1>9, <2>3, PostShape
      <3>2. run[s].at = "wait" /\ run'[s].todo = run[s].todo
            /\ run'[s].at = (IF run[s].todo = {} THEN "done" ELSE "send")
            /\ (run[s].failed => run'[s].failed)
        BY <1>6, <1>9, <1>10, <2>3
      <3>3. OrderInv(s)'
        BY <2>1, <2>2, <2>a, <3>1, <3>2 DEF OrderInv, Running
      <3>4. InOrder(s)'
        BY <2>1, <2>a, <3>2 DEF InOrder, Running
      <3>5. QED BY <3>3, <3>4
    <2>4. CASE ~(Awaits(q) /\ s = r)
      <3>1. run'[s] = run[s]
        BY <1>6, <2>4
      <3>2. \A p \in Parts : UnderWay(<<s, p>>)' => UnderWay(<<s, p>>)
        BY <1>8, PostShape
      <3>3. OrderInv(s)'
        BY <2>1, <2>2, <2>a, <3>1, <3>2 DEF OrderInv, Running
      <3>4. InOrder(s)'
        BY <2>1, <2>a, <3>1 DEF InOrder, Running
      <3>5. QED BY <3>3, <3>4
    <2>5. QED BY <2>3, <2>4
  <1>13. ASSUME NEW s \in Runs PROVE DoneInv(s)'
    <2>1. DoneInv(s) /\ inForce' = inForce
      BY <1>1
    <2>2. run'[s].at # "idle" => run[s].at # "idle"
      BY <1>5, <1>6
    <2>3. ASSUME ~run'[s].failed, NEW p \in Parts
          PROVE  /\ LastBehind(s, p)' => LastBehind(s, p)
                 /\ Slot(<<s, p>>)' = Slot(<<s, p>>)
      BY <1>11, <1>a, <2>3, PostShape DEF LastBehind
    <2>4. QED BY <1>10, <1>11, <2>1, <2>2, <2>3 DEF DoneInv
  <1>14. ASSUME NEW x \in Posts PROVE NameInv(x)'
    <2>1. \A y, n \in Posts : Holds(y, n)' <=> Holds(y, n) /\ y # q
      BY <1>3 DEF Holds, NoHandler
    <2>2. \A n \in Posts : Sharing(n)' <=> Sharing(n)
      BY <1>10, PostShape DEF Sharing
    <2>3. CASE x = q
      BY <1>3, <1>8, <2>1, <2>3 DEF NameInv, NoHandler
    <2>4. CASE x # q
      <3>1. handler'[x] = handler[x] /\ NameInv(x)
            /\ file'[x] \in {file[x], Nothing}
        BY <1>1, <1>3, <1>4, <2>4
      <3>2. QED BY <1>8, <1>10, <1>a, <2>1, <2>2, <2>4, <3>1, PostShape
                DEF NameInv
    <2>5. QED BY <2>3, <2>4
  <1>15. QED BY <1>7, <1>12, <1>13, <1>14 DEF ApplyInv

\* Another request is under way only if the call is not alone.
LEMMA OneAtATime ==
  ASSUME NEW r \in Runs, Alone(r), NEW q \in Posts, UnderWay(q)
  PROVE  q[1] = r
  BY PostShape DEF Alone

\* And a call that is alone and without an error has one of them.
LEMMA OnlyRequest ==
  ASSUME NEW r \in Runs, OrderInv(r), Running(r), ~run[r].failed, Alone(r),
         NEW p \in Posts, UnderWay(p), NEW q \in Posts, UnderWay(q)
  PROVE  p = q
  <1>1. p[1] = r /\ q[1] = r
    BY OneAtATime
  <1>2. p[2] = run[r].now /\ q[2] = run[r].now
    BY <1>1, PostShape DEF OrderInv
  <1>3. QED BY <1>1, <1>2, PostShape

\* The step that writes the temporary file.
LEMMA WriteStep ==
  ASSUME ApplyInv, NEW q \in Posts, WriteFile(q)
  PROVE  ApplyInv'
  <1>1. /\ ApplyTypeOK /\ run \in [Runs -> Calls]
        /\ handler \in [Posts -> Handlers]
        /\ file \in [Posts -> Posts \cup {Nothing}]
        /\ \A s \in Runs : OrderInv(s) /\ DoneInv(s) /\ InOrder(s)
        /\ \A x \in Posts : NameInv(x)
        /\ handler[q].at = "write"
        /\ UNCHANGED <<received, inForce>>
    BY ApplyTypes DEF ApplyInv, WriteFile
  <1> DEFINE common(r, name) ==
                {p \in Parts : name # q /\ <<r, p>> \in {name, q}}
  <1>2. PICK name \in Names(q) :
          /\ handler' = [handler EXCEPT ![q].at = "apply", ![q].name = name]
          /\ file' = [file EXCEPT ![name] = q]
          /\ run' = [r \in Runs |->
                [run[r] EXCEPT !.shared = @ \cup common(r, name)]]
    BY DEF WriteFile
  <1>3. q[1] \in Runs /\ q[2] \in Parts /\ q = <<q[1], q[2]>>
    BY PostShape
  <1>4. UnderWay(q) /\ run[q[1]].at # "idle" /\ ~handler[q].ok
    BY <1>1, <1>3 DEF UnderWay, OrderInv, NameInv
  <1>5. name # q => \E p \in Posts : p # q /\ Holds(p, name) /\ UnderWay(p)
    BY <1>2 DEF Names, Namesakes, Holds, UnderWay
  <1>6. name \in Posts /\ run[name[1]].at # "idle"
    BY <1>1, <1>3, <1>4, <1>5 DEF NameInv, Holds
  <1>7. /\ handler'[q].at = "apply" /\ handler'[q].name = name
        /\ ~handler'[q].ok
        /\ handler'[q] \in Handlers
        /\ \A x \in Posts \ {q} : handler'[x] = handler[x]
        /\ handler' \in [Posts -> Handlers]
    <2>1. handler[q] \in Handlers
      BY <1>1
    <2>2. handler'[q] = [handler[q] EXCEPT !.at = "apply", !.name = name]
          /\ \A x \in Posts \ {q} : handler'[x] = handler[x]
      BY <1>1, <1>2
    <2>3. /\ handler'[q].at = "apply" /\ handler'[q].name = name
          /\ ~handler'[q].ok
          /\ handler'[q] \in Handlers
      BY <1>4, <1>6, <2>1, <2>2 DEF Handlers
    <2>4. QED BY <1>1, <1>2, <2>2, <2>3
  <1>8. /\ file'[name] = q
        /\ \A n \in Posts \ {name} : file'[n] = file[n]
        /\ file' \in [Posts -> Posts \cup {Nothing}]
    BY <1>1, <1>2, <1>3, <1>6
  <1>9. ASSUME NEW r \in Runs
        PROVE  /\ run'[r] \in Calls
               /\ run'[r].at = run[r].at /\ run'[r].todo = run[r].todo
               /\ run'[r].now = run[r].now /\ run'[r].failed = run[r].failed
               /\ run'[r].undone = run[r].undone
               /\ run'[r].disturbed = run[r].disturbed
               /\ run'[r].to = run[r].to
               /\ run'[r].shared = run[r].shared \cup common(r, name)
    <2>1. run'[r] = [run[r] EXCEPT !.shared = @ \cup common(r, name)]
          /\ run[r] \in Calls
      BY <1>1, <1>2
    <2> DEFINE now == run[r].shared \cup common(r, name)
    <2>2. now \in SUBSET Parts /\ run'[r] = [run[r] EXCEPT !.shared = now]
      BY <2>1 DEF Calls
    <2> HIDE DEF now
    <2>3. /\ run'[r] \in Calls
          /\ run'[r].at = run[r].at /\ run'[r].todo = run[r].todo
          /\ run'[r].now = run[r].now /\ run'[r].failed = run[r].failed
          /\ run'[r].undone = run[r].undone
          /\ run'[r].disturbed = run[r].disturbed
          /\ run'[r].to = run[r].to
          /\ run'[r].shared = now
      BY <2>1, <2>2 DEF Calls
    <2>4. QED BY <2>3 DEF now
  <1>10. ApplyTypeOK'
    <2>1. run' \in [Runs -> Calls]
      BY <1>2, <1>9
    <2>2. QED BY <1>1, <1>7, <1>8, <2>1 DEF ApplyTypeOK, Calls, Handlers
  <1>11. /\ \A x \in Posts : UnderWay(x)' <=> UnderWay(x)
         /\ \A x \in Posts : PanelOf(x)' = PanelOf(x) /\ Slot(x)' = Slot(x)
    <2>1. \A x \in Posts : UnderWay(x)' <=> UnderWay(x)
      BY <1>1, <1>7 DEF UnderWay
    <2>2. \A x \in Posts : PanelOf(x)' = PanelOf(x)
      BY <1>9, PostShape DEF PanelOf
    <2>3. QED BY <2>1, <2>2 DEF Slot
  <1>12. \A r \in Runs : /\ Running(r)' <=> Running(r)
                         /\ Alone(r) => Alone(r)'
    BY <1>9, <1>11, PostShape DEF Running, Alone
  <1>13. ASSUME NEW r \in Runs PROVE OrderInv(r)' /\ InOrder(r)'
    <2>1. run[r].todo \in SUBSET Parts /\ OrderInv(r) /\ InOrder(r)
      BY <1>1 DEF Calls
    <2>2. \A p \in Parts : /\ UnderWay(<<r, p>>)' <=> UnderWay(<<r, p>>)
                           /\ PanelOf(<<r, p>>)' = PanelOf(<<r, p>>)
      BY <1>11, PostShape
    <2>3. run[r].at = "idle" => run'[r].shared = {}
      <3>1. ASSUME run[r].at = "idle" PROVE common(r, name) = {}
        BY <1>4, <1>6, <3>1
      <3>2. QED BY <1>9, <2>1, <3>1 DEF OrderInv
    <2> HIDE DEF common
    <2>4. OrderInv(r)'
      BY <1>9, <2>1, <2>2, <2>3 DEF OrderInv, Running
    <2>5. InOrder(r)'
      BY <1>9, <2>1, <2>2 DEF InOrder, Running
    <2>6. QED BY <2>4, <2>5
  <1>14. ASSUME NEW r \in Runs PROVE DoneInv(r)'
    <2>1. \A x \in Posts : handler'[x].ok <=> handler[x].ok
      BY <1>4, <1>7
    <2>2. \A p \in Parts : /\ Behind(r, p)' <=> Behind(r, p)
                           /\ Slot(<<r, p>>)' = Slot(<<r, p>>)
      BY <1>9, <1>11, <2>1, PostShape DEF Behind
    <2>3. \A p \in Parts : LastBehind(r, p)' <=> LastBehind(r, p)
      BY <2>2 DEF LastBehind
    <2>4. Running(r) /\ ~run[r].failed /\ Alone(r) => name = q
      BY <1>1, <1>3, <1>4, <1>5, OnlyRequest
    <2>5. name = q => common(r, name) = {}
      OBVIOUS
    <2>6. DoneInv(r) /\ inForce' = inForce
      BY <1>1
    <2> HIDE DEF common
    <2>7. QED BY <1>9, <1>12, <2>2, <2>3, <2>4, <2>5, <2>6 DEF DoneInv
  <1>15. \A x, n \in Posts : x # q => (Holds(x, n)' <=> Holds(x, n))
    BY <1>7 DEF Holds
  <1>16. \A n \in Posts : /\ Sharing(n) => Sharing(n)'
                          /\ name # q => Sharing(name)' /\ Sharing(q)'
    BY <1>3, <1>6, <1>9, PostShape DEF Sharing
  <1> HIDE DEF common
  <1>17. ASSUME NEW x \in Posts PROVE NameInv(x)'
    <2>1. CASE x = q
      <3>1. \A n \in Posts : Holds(q, n)' => n = name
        BY <1>7 DEF Holds
      <3>2. run'[name[1]].at # "idle"
        BY <1>6, <1>9, PostShape
      <3>3. UnderWay(q)' => PanelOf(q)' \in Panels
        BY <1>1, <1>11 DEF NameInv
      <3>4. handler'[q].at = "apply" /\ ~Sharing(q)' => file'[q] = q
        BY <1>8, <1>16
      <3>5. QED BY <1>6, <1>7, <1>16, <2>1, <3>1, <3>2, <3>3, <3>4
                DEF NameInv
    <2>2. CASE x # q
      <3>1. NameInv(x) /\ handler'[x] = handler[x]
        BY <1>1, <1>7, <2>2
      <3>2. ~Sharing(x)' => ~Sharing(x) /\ file'[x] = file[x]
        BY <1>8, <1>16, <2>2
      <3>3. \A y \in Posts : run'[y[1]].at = run[y[1]].at
        BY <1>9, PostShape
      <3>4. QED BY <1>11, <1>15, <1>16, <2>2, <3>1, <3>2, <3>3 DEF NameInv
    <2>3. QED BY <2>1, <2>2
  <1>18. QED BY <1>10, <1>13, <1>14, <1>17 DEF ApplyInv

\* The step in which the command applies the file, or fails.
LEMMA CommandStep ==
  ASSUME ApplyInv, NEW q \in Posts, ApplyFile(q)
  PROVE  ApplyInv'
  <1> DEFINE f == file[handler[q].name]
  <1>1. /\ ApplyTypeOK /\ run \in [Runs -> Calls]
        /\ handler \in [Posts -> Handlers]
        /\ file \in [Posts -> Posts \cup {Nothing}]
        /\ inForce \in [Slots -> Posts \cup {Nothing}]
        /\ \A s \in Runs : OrderInv(s) /\ DoneInv(s) /\ InOrder(s)
        /\ \A x \in Posts : NameInv(x)
        /\ handler[q].at = "apply"
        /\ UNCHANGED <<file, received>>
    BY ApplyTypes DEF ApplyInv, ApplyFile
  <1>2. q[1] \in Runs /\ q[2] \in Parts /\ q = <<q[1], q[2]>>
    BY PostShape
  <1>3. /\ handler[q] \in Handlers /\ ~handler[q].ok
        /\ handler[q].name \in Posts /\ f \in Posts \cup {Nothing}
        /\ UnderWay(q) /\ Slot(q) \in Slots
    <2>1. handler[q] \in Handlers /\ ~handler[q].ok
          /\ handler[q].name \in Posts /\ UnderWay(q)
      BY <1>1 DEF NameInv, UnderWay
    <2>2. PanelOf(q) \in Panels
      BY <1>1, <2>1 DEF NameInv
    <2>3. Slot(q) \in Slots
      BY <1>2, <2>2, PostShape DEF Slot, Slots
    <2>4. QED BY <1>1, <2>1, <2>3
  <1>4. ~Sharing(q) => f \in {q, Nothing}
    BY <1>1, <1>2, <1>3 DEF NameInv, Holds
  <1>5. \/ /\ f \in Posts
           /\ inForce' = [inForce EXCEPT ![Slot(q)] = f]
           /\ handler' = [handler EXCEPT ![q].at = "unlink", ![q].ok = TRUE]
           /\ run' = [r \in Runs |-> [run[r] EXCEPT
                         !.undone = {p \in @ : <<r, p>> # f}]]
        \/ /\ handler' = [handler EXCEPT ![q].at = "unlink"]
           /\ UNCHANGED <<inForce, run>>
    BY <1>3 DEF ApplyFile
  <1> HIDE DEF f
  <1>6. /\ \A x \in Posts \ {q} : handler'[x] = handler[x]
        /\ handler'[q].at = "unlink" /\ handler'[q].name = handler[q].name
        /\ handler'[q] \in Handlers
        /\ handler' \in [Posts -> Handlers]
        /\ handler'[q].ok => f \in Posts
        /\ handler'[q].ok \/ inForce' = inForce
    <2>1. CASE /\ f \in Posts
               /\ handler' = [handler EXCEPT ![q].at = "unlink",
                                             ![q].ok = TRUE]
      BY <1>1, <1>3, <2>1 DEF Handlers
    <2>2. CASE /\ handler' = [handler EXCEPT ![q].at = "unlink"]
               /\ inForce' = inForce
      BY <1>1, <1>3, <2>2 DEF Handlers
    <2>3. QED BY <1>5, <2>1, <2>2
  <1>7. ASSUME NEW r \in Runs
        PROVE  /\ run'[r] \in Calls
               /\ run'[r].at = run[r].at /\ run'[r].todo = run[r].todo
               /\ run'[r].now = run[r].now /\ run'[r].failed = run[r].failed
               /\ run'[r].disturbed = run[r].disturbed
               /\ run'[r].shared = run[r].shared
               /\ run'[r].to = run[r].to
               /\ run'[r].undone \in SUBSET run[r].undone
               /\ handler'[q].ok => \A p \in Parts :
                     f = <<r, p>> => p \notin run'[r].undone
    <2>1. run[r] \in Calls
      BY <1>1
    <2>2. CASE run' = [s \in Runs |-> [run[s] EXCEPT
                          !.undone = {p \in @ : <<s, p>> # f}]]
      <3> DEFINE left == {p \in run[r].undone : <<r, p>> # f}
      <3>1. run'[r] = [run[r] EXCEPT !.undone = left]
        BY <2>2
      <3>2. /\ left \in SUBSET Parts /\ left \in SUBSET run[r].undone
            /\ \A p \in Parts : f = <<r, p>> => p \notin left
        BY <2>1 DEF Calls
      <3> HIDE DEF left
      <3>3. QED BY <2>1, <3>1, <3>2 DEF Calls
    <2>3. CASE /\ handler' = [handler EXCEPT ![q].at = "unlink"]
               /\ UNCHANGED <<inForce, run>>
      BY <1>1, <1>3, <2>1, <2>3 DEF Handlers
    <2>4. QED BY <1>5, <2>2, <2>3
  <1>8. /\ inForce' \in [Slots -> Posts \cup {Nothing}]
        /\ \A s \in Slots \ {Slot(q)} : inForce'[s] = inForce[s]
        /\ handler'[q].ok => inForce'[Slot(q)] = f
    <2>1. CASE f \in Posts /\ inForce' = [inForce EXCEPT ![Slot(q)] = f]
      BY <1>1, <1>3, <2>1
    <2>2. CASE /\ handler' = [handler EXCEPT ![q].at = "unlink"]
               /\ UNCHANGED <<inForce, run>>
      BY <1>1, <1>3, <2>2 DEF Handlers
    <2>3. QED BY <1>5, <2>1, <2>2
  <1>9. /\ \A x \in Posts : UnderWay(x)' <=> UnderWay(x)
        /\ \A x, n \in Posts : Holds(x, n)' <=> Holds(x, n)
        /\ \A x \in Posts : /\ PanelOf(x)' = PanelOf(x)
                            /\ Slot(x)' = Slot(x)
                            /\ Sharing(x)' <=> Sharing(x)
    <2>1. /\ \A x \in Posts : UnderWay(x)' <=> UnderWay(x)
          /\ \A x, n \in Posts : Holds(x, n)' <=> Holds(x, n)
      BY <1>1, <1>6 DEF UnderWay, Holds
    <2>2. \A x \in Posts : PanelOf(x)' = PanelOf(x)
                           /\ (Sharing(x)' <=> Sharing(x))
      BY <1>7, PostShape DEF PanelOf, Sharing
    <2>3. QED BY <2>1, <2>2 DEF Slot
  <1>10. \A r \in Runs : /\ Running(r)' <=> Running(r)
                         /\ Alone(r) => Alone(r)'
    BY <1>7, <1>9, PostShape DEF Running, Alone
  <1>11. ApplyTypeOK'
    <2>1. run' \in [Runs -> Calls]
      BY <1>1, <1>5, <1>7
    <2>2. QED BY <1>1, <1>6, <1>8, <2>1 DEF ApplyTypeOK, Calls, Handlers
  <1>12. ASSUME NEW r \in Runs PROVE OrderInv(r)' /\ InOrder(r)'
    <2>1. run[r].todo \in SUBSET Parts /\ OrderInv(r) /\ InOrder(r)
      BY <1>1 DEF Calls
    <2>2. \A p \in Parts : /\ UnderWay(<<r, p>>)' <=> UnderWay(<<r, p>>)
                           /\ PanelOf(<<r, p>>)' = PanelOf(<<r, p>>)
      BY <1>9, PostShape
    <2>a. /\ run'[r].at = run[r].at /\ run'[r].todo = run[r].todo
          /\ run'[r].now = run[r].now /\ run'[r].failed = run[r].failed
          /\ run'[r].shared = run[r].shared
      BY <1>7
    <2>3. OrderInv(r)'
      BY <2>1, <2>2, <2>a DEF OrderInv, Running
    <2>4. InOrder(r)'
      BY <1>7, <2>1, <2>2 DEF InOrder, Running
    <2>5. QED BY <2>3, <2>4
  <1>13. ASSUME NEW r \in Runs PROVE DoneInv(r)'
    <2>1. ASSUME NEW p \in Parts
          PROVE  /\ Behind(r, p) => Behind(r, p)'
                 /\ Behind(r, p)' =>
                       Behind(r, p) \/ (<<r, p>> = q /\ handler'[q].ok)
      <3> /\ run'[r].todo = run[r].todo /\ run'[r].at = run[r].at
          /\ run'[r].now = run[r].now
        BY <1>7
      <3>1. CASE <<r, p>> = q
        BY <1>3, <3>1 DEF Behind
      <3>2. CASE <<r, p>> # q
        <4>1. handler'[<<r, p>>] = handler[<<r, p>>]
          BY <1>6, <3>2, PostShape
        <4>2. QED BY <4>1 DEF Behind
      <3>3. QED BY <3>1, <3>2
    <2>2. DoneInv(r)
      BY <1>1
    <2>3. ASSUME run[r].at # "idle", ~run[r].failed,
                 NEW p \in Parts, Behind(r, p)', p \notin run[r].shared
          PROVE  p \notin run'[r].undone
      <3>1. CASE Behind(r, p)
        BY <1>7, <2>2, <2>3, <3>1 DEF DoneInv
      <3>2. CASE <<r, p>> = q /\ handler'[q].ok
        <4>1. r = q[1] /\ p = q[2]
          BY <3>2
        <4>2. f = <<r, p>>
          BY <1>4, <1>6, <2>3, <3>2, <4>1, PostShape DEF Sharing
        <4>3. QED BY <1>7, <3>2, <4>2
      <3>3. QED BY <2>1, <2>3, <3>1, <3>2
    <2>4. ASSUME Running(r), ~run[r].disturbed, ~run[r].failed,
                 NEW p \in Parts, Behind(r, p)', LastBehind(r, p)'
          PROVE  inForce'[Slot(<<r, p>>)] = <<r, p>>
      <3>1. Alone(r) /\ run[r].shared = {} /\ InOrder(r) /\ OrderInv(r)
        BY <1>1, <2>2, <2>4 DEF DoneInv
      <3>2. /\ q = <<r, q[2]>> /\ q[1] = r
            /\ run[r].at = "wait" /\ run[r].now = q[2]
        BY <1>2, <1>3, <2>4, <3>1, OneAtATime DEF OrderInv
      <3>3. handler'[q].ok => f = q
        BY <1>4, <1>6, <3>1, <3>2, PostShape DEF Sharing
      <3>4. CASE p = q[2]
        <4>1. handler'[q].ok
          BY <1>7, <2>4, <3>2, <3>4 DEF Behind
        <4>2. QED BY <1>8, <3>2, <3>3, <3>4, <4>1
      <3>5. CASE p # q[2]
        <4>1. Behind(r, p)
          BY <2>1, <2>4, <3>2, <3>5
        <4>2. LastBehind(r, p)
          BY <1>9, <2>1, <2>4, PostShape DEF LastBehind
        <4>3. inForce[Slot(<<r, p>>)] = <<r, p>>
          BY <2>2, <2>4, <4>1, <4>2 DEF DoneInv
        <4>4. CASE inForce' = inForce
          BY <4>3, <4>4
        <4>5. CASE handler'[q].ok
          <5>1. p \notin run[r].todo
            BY <4>1 DEF Behind
          <5>2. Before(p, q[2])
            BY <2>4, <3>1, <3>2, <3>5, <5>1 DEF InOrder
          <5>3. q[2] \notin run[r].todo
            BY <3>1, <3>2 DEF OrderInv
          <5>4. Behind(r, q[2])'
            BY <1>7, <3>2, <4>5, <5>3 DEF Behind
          <5>5. Slot(q)' # Slot(<<r, p>>)'
            BY <1>2, <2>4, <3>2, <5>2, <5>4 DEF LastBehind
          <5>6. Slot(q) # Slot(<<r, p>>)
            BY <1>9, <5>5, PostShape
          <5>7. Slot(<<r, p>>) \in Slots
            BY <2>4, <3>1, PostShape DEF InOrder, Slot, Slots
          <5>8. QED BY <1>8, <4>3, <5>6, <5>7
        <4>6. QED BY <1>6, <4>4, <4>5
      <3>6. QED BY <3>4, <3>5
    <2>5. \A p \in Parts : Slot(<<r, p>>)' = Slot(<<r, p>>)
      BY <1>9, PostShape
    <2>6. QED BY <1>7, <1>10, <2>2, <2>3, <2>4, <2>5 DEF DoneInv
  <1>14. ASSUME NEW x \in Posts PROVE NameInv(x)'
    <2>1. NameInv(x) /\ file' = file
      BY <1>1
    <2>2. \A y \in Posts : run'[y[1]].at = run[y[1]].at
      BY <1>7, PostShape
    <2>3. handler'[x].name = handler[x].name
          /\ (handler'[x].ok => handler'[x].at = "unlink")
          /\ (handler'[x].at = "apply" => handler[x].at = "apply")
          /\ (handler'[x].at \in {"apply", "unlink"} =>
                 handler[x].at \in {"apply", "unlink"})
      BY <1>1, <1>6, <2>1 DEF NameInv
    <2>4. QED BY <1>9, <2>1, <2>2, <2>3 DEF NameInv
  <1>15. QED BY <1>11, <1>12, <1>13, <1>14 DEF ApplyInv

\* A step in which nothing but the rows of the panels changes.
LEMMA QuietApplyStep ==
  ASSUME ApplyInv, ApplyTypeOK', UNCHANGED <<run, handler, file, inForce>>
  PROVE  ApplyInv'
  BY DEF ApplyInv, OrderInv, InOrder, DoneInv, NameInv, Holds, Sharing,
         Behind, LastBehind, Running, Alone, UnderWay, Slot, PanelOf

\* Every step keeps the invariant.
LEMMA NextApplyInv == ApplyInv /\ [ApplyNext]_applyVars => ApplyInv'
  <1> SUFFICES ASSUME ApplyInv, [ApplyNext]_applyVars PROVE ApplyInv'
    OBVIOUS
  <1>1. ASSUME NEW r \in Runs, TimesOut(r) PROVE ApplyInv'
    <2>1. /\ Running(r)
          /\ run' = [run EXCEPT ![r] = Advance(r, run[r].todo, TRUE)]
          /\ UNCHANGED <<handler, file, received, inForce>>
      BY <1>1 DEF TimesOut, Running
    <2>2. run[r].todo \in SUBSET run[r].todo
      OBVIOUS
    <2>3. QED BY <2>1, <2>2, GiveUpStep
  <1>2. ASSUME NEW q \in Posts, Finish(q) PROVE ApplyInv'
    <2>1. handler[q].name \in Posts /\ handler[q].ok \in BOOLEAN
      BY <1>2, ApplyTypes DEF ApplyInv, NameInv, Finish, Handlers
    <2>2. PICK name \in Posts : name = handler[q].name
      BY <2>1
    <2>3. PICK ok \in BOOLEAN : ok = handler[q].ok
      BY <2>1
    <2>4. /\ handler[q].at \in {"write", "unlink"} /\ run' = Answer(q, ok)
          /\ handler' = [handler EXCEPT ![q] = NoHandler]
          /\ file' \in {file, [file EXCEPT ![name] = Nothing]}
          /\ UNCHANGED <<received, inForce>>
          /\ (ok => handler[q].ok)
      BY <1>2, <2>2, <2>3 DEF Finish, Unlinked
    <2>5. QED BY ONLY ApplyInv, <2>4, AnswerStep
  <1>3. ASSUME NEW q \in Posts, WriteFails(q) PROVE ApplyInv'
    <2>1. /\ handler[q].at = "write" /\ run' = Answer(q, FALSE)
          /\ handler' = [handler EXCEPT ![q] = NoHandler]
          /\ UNCHANGED <<received, inForce>>
          /\ file' = file \/ \E n \in Names(q) :
                                file' = [file EXCEPT ![n] = Nothing]
      BY <1>3 DEF WriteFails
    <2>2. q \in Names(q) /\ Names(q) \subseteq Posts
      BY DEF ApplyInv, Names, Namesakes, NameInv
    <2>3. PICK name \in Posts :
             file' \in {file, [file EXCEPT ![name] = Nothing]}
      BY <2>1, <2>2
    <2> PICK ok \in BOOLEAN : ok = FALSE
      OBVIOUS
    <2>4. /\ handler[q].at \in {"write", "unlink"} /\ run' = Answer(q, ok)
          /\ (ok => handler[q].ok)
      BY <2>1
    <2>5. QED BY ONLY ApplyInv, <2>1, <2>3, <2>4, AnswerStep
  <1>4. ASSUME NEW n \in Panels, Receive(n) PROVE ApplyInv'
    <2>1. UNCHANGED <<run, handler, file, inForce>>
          /\ received' = [received EXCEPT ![n] = TRUE]
      BY <1>4 DEF Receive
    <2>2. ApplyTypeOK'
      BY <2>1 DEF ApplyInv, ApplyTypeOK
    <2>3. QED BY <2>1, <2>2, QuietApplyStep
  <1>5. CASE UNCHANGED applyVars
    <2>1. ApplyTypeOK'
      BY <1>5 DEF applyVars, ApplyInv, ApplyTypeOK
    <2>2. QED BY <1>5, <2>1, QuietApplyStep DEF applyVars
  <1>6. QED BY <1>1, <1>2, <1>3, <1>4, <1>5, BeginStep, PostStep, WriteStep,
               CommandStep DEF ApplyNext

\* It holds at first, and so always.
LEMMA ApplyInvHolds == ApplySpec => []ApplyInv
  <1>1. ApplyInit => ApplyInv
    <2> SUFFICES ASSUME ApplyInit PROVE ApplyInv
      OBVIOUS
    <2>1. /\ \A r \in Runs : run[r] = Ready
          /\ \A q \in Posts : handler[q] = NoHandler /\ file[q] = Nothing
      BY DEF ApplyInit
    <2>2. ApplyTypeOK
      <3>1. Ready \in Calls /\ NoHandler \in Handlers
        BY DEF Ready, Calls, NoHandler, Handlers
      <3>2. QED BY <3>1, ApplyTypes DEF ApplyInit
    <2>3. \A q \in Posts : ~UnderWay(q) /\ NameInv(q)
      BY <2>1 DEF UnderWay, NameInv, Holds, NoHandler
    <2>4. \A r \in Runs : OrderInv(r) /\ DoneInv(r) /\ InOrder(r)
      BY <2>1, <2>3, PostShape DEF OrderInv, InOrder, DoneInv, Running, Ready
    <2>5. QED BY <2>2, <2>3, <2>4 DEF ApplyInv
  <1>2. QED BY <1>1, NextApplyInv, PTL DEF ApplySpec

\* The calls, the requests and the files are always of their types.
THEOREM ApplyTypeCorrect == ApplySpec => []ApplyTypeOK
  <1>1. ApplyInv => ApplyTypeOK
    BY DEF ApplyInv
  <1>2. QED BY <1>1, ApplyInvHolds, PTL

\* However many calls apply the chain at once and whichever requests come to
\* nothing: one that reports success has had every part of it applied, but
\* perhaps those whose request shared a temporary name.
THEOREM ChainApplied == ApplySpec => []SuccessMeansApplied
  <1>1. ASSUME ApplyInv, NEW r \in Runs, Succeeded(r)
        PROVE  run[r].undone \subseteq run[r].shared
    <2>1. /\ OrderInv(r) /\ DoneInv(r) /\ run[r] \in Calls
          /\ run[r].at = "done" /\ ~run[r].failed
      BY <1>1, ApplyTypes DEF ApplyInv, Succeeded
    <2>2. \A p \in Parts : Behind(r, p)
      BY <2>1 DEF OrderInv, Behind
    <2>3. run[r].undone \in SUBSET Parts
      BY <2>1 DEF Calls
    <2>4. QED BY <2>1, <2>2, <2>3 DEF DoneInv
  <1>2. ApplyInv => SuccessMeansApplied
    BY <1>1 DEF SuccessMeansApplied
  <1>3. QED BY <1>2, ApplyInvHolds, PTL

\* And a call that was alone with the panels leaves in force, at the step
\* that ends it, the last of its parts for each panel and service.
THEOREM AloneInForce == ApplySpec => AloneMeansInForce
  <1> DEFINE InForce ==
        \A r \in Runs : Running(r) /\ Succeeded(r)' /\ ~run[r].disturbed =>
           \A p \in Parts : LastForSlot(r, p)
              => inForce'[Slot(<<r, p>>)] = <<r, p>>
  <1>1. ASSUME ApplyInv, ApplyNext PROVE InForce
    <2> SUFFICES ASSUME NEW r \in Runs, Running(r), Succeeded(r)',
                        ~run[r].disturbed, NEW p \in Parts,
                        LastForSlot(r, p)
                 PROVE  inForce'[Slot(<<r, p>>)] = <<r, p>>
      OBVIOUS
    <2>1. ApplyInv'
      BY <1>1, NextApplyInv
    <2>2. /\ ApplyTypeOK /\ run \in [Runs -> Calls]
          /\ OrderInv(r) /\ DoneInv(r)
          /\ run'[r].at = "done" /\ ~run'[r].failed
          /\ run[r].at \in {"send", "wait"}
      BY <1>1, ApplyTypes DEF ApplyInv, Succeeded, Running
    <2>3. ASSUME NEW s \in Runs, BeginApply(s) PROVE FALSE
      <3>1. s # r
        BY <2>2, <2>3 DEF BeginApply
      <3>2. run'[r] = [run[r] EXCEPT !.disturbed = @ \/ Running(r)]
        BY <2>3, <3>1 DEF BeginApply
      <3>3. QED BY <2>2, <3>2 DEF Calls
    <2>4. ASSUME NEW s \in Runs, NEW todo \in SUBSET run[s].todo,
                 run' = [run EXCEPT ![s] = Advance(s, todo, TRUE)]
          PROVE  FALSE
      <3>1. todo \in SUBSET Parts
        BY <2>2, <2>4 DEF Calls
      <3>2. s # r
        BY <2>2, <2>4 DEF Advance, Calls
      <3>3. run'[r] = run[r]
        BY <2>2, <2>4, <3>2
      <3>4. QED BY <2>2, <3>3
    <2>5. ASSUME NEW s \in Runs, Post(s) PROVE FALSE
      <3>1. PICK x \in run[s].todo :
              \/ run' = [run EXCEPT ![s].at = "wait", ![s].now = x,
                                    ![s].todo = @ \ {x}]
              \/ run' = [run EXCEPT ![s] = Advance(s, @.todo \ {x}, TRUE)]
        BY <2>5 DEF Post
      <3>2. CASE run' = [run EXCEPT ![s].at = "wait", ![s].now = x,
                                    ![s].todo = @ \ {x}]
        BY <2>2, <3>2 DEF Calls
      <3>3. CASE run' = [run EXCEPT ![s] = Advance(s, @.todo \ {x}, TRUE)]
        <4>1. run[s].todo \ {x} \in SUBSET run[s].todo
          OBVIOUS
        <4>2. QED BY <2>4, <3>3, <4>1
      <3>4. QED BY <3>1, <3>2, <3>3
    <2>6. ASSUME NEW s \in Runs, TimesOut(s) PROVE FALSE
      <3>1. run' = [run EXCEPT ![s] = Advance(s, run[s].todo, TRUE)]
            /\ run[s].todo \in SUBSET run[s].todo
        BY <2>6 DEF TimesOut
      <3>2. QED BY <2>4, <3>1
    <2>7. ASSUME NEW q \in Posts, NEW ok \in BOOLEAN, run' = Answer(q, ok),
                 ok => handler[q].ok, UNCHANGED inForce
          PROVE  inForce'[Slot(<<r, p>>)] = <<r, p>>
      <3>1. Awaits(q) /\ q[1] = r
        <4>1. CASE Awaits(q) /\ q[1] # r
          BY <2>2, <2>7, <4>1 DEF Answer
        <4>2. CASE ~Awaits(q)
          BY <2>2, <2>7, <4>2 DEF Answer
        <4>3. QED BY <4>1, <4>2
      <3>2. /\ q = <<r, q[2]>> /\ run[r].at = "wait"
            /\ run[r].now = q[2]
        BY <3>1, PostShape DEF Awaits
      <3> DEFINE failed == run[r].failed \/ ~ok
                 a == Advance(r, run[r].todo, failed)
      <3>3. run'[r] = a
        BY <2>2, <2>7, <3>1 DEF Answer, AppliedAnswer
      <3>4. a.failed = failed /\ a.at = IF run[r].todo = {} THEN "done"
                                                            ELSE "send"
        <4>1. run[r] \in Calls
          BY <2>2
        <4>2. QED BY <4>1 DEF Advance, Calls
      <3> HIDE DEF a
      <3>5. ok /\ ~run[r].failed /\ run[r].todo = {}
        BY <2>2, <3>3, <3>4
      <3>6. Behind(r, p)
        BY <2>7, <3>2, <3>5 DEF Behind
      <3>7. LastBehind(r, p)
        BY PostShape DEF LastForSlot, LastBehind
      <3>8. QED BY <2>2, <2>7, <3>5, <3>6, <3>7 DEF DoneInv, Running
    <2>8. ASSUME NEW q \in Posts, Finish(q)
          PROVE  inForce'[Slot(<<r, p>>)] = <<r, p>>
      <3>1. handler[q].ok \in BOOLEAN
        BY <1>1, ApplyTypes DEF ApplyInv, Handlers
      <3>2. QED BY <2>7, <2>8, <3>1 DEF Finish
    <2>9. ASSUME NEW q \in Posts, WriteFails(q)
          PROVE  inForce'[Slot(<<r, p>>)] = <<r, p>>
      <3> DEFINE ok == FALSE
      <3>1. ok \in BOOLEAN /\ ~ok /\ run' = Answer(q, ok) /\ UNCHANGED inForce
        BY <2>9 DEF WriteFails
      <3> HIDE DEF ok
      <3>2. QED BY <2>7, <3>1
    <2>10. ASSUME NEW q \in Posts, WriteFile(q) \/ ApplyFile(q) PROVE FALSE
      <3>1. run'[r].at = run[r].at
        <4>1. CASE WriteFile(q)
          BY <2>2, <4>1 DEF WriteFile, Calls
        <4>2. CASE ApplyFile(q)
          BY <2>2, <4>2 DEF ApplyFile, Calls
        <4>3. QED BY <2>10, <4>1, <4>2
      <3>2. QED BY <2>2, <3>1
    <2>11. ASSUME NEW n \in Panels, Receive(n) PROVE FALSE
      BY <2>2, <2>11 DEF Receive
    <2>12. QED BY <1>1, <2>3, <2>5, <2>6, <2>8, <2>9, <2>10, <2>11
               DEF ApplyNext
  <1>2. ApplyInv /\ [ApplyNext]_applyVars => [InForce]_applyVars
    BY <1>1
  <1>3. ApplySpec => [][InForce]_applyVars
    BY <1>2, ApplyInvHolds, PTL DEF ApplySpec
  <1>4. QED BY <1>3 DEF AloneMeansInForce

-----------------------------------------------------------------------------
(* One pull request *)

\* Of a list of choices that has one that applies, First gives the first.
LEMMA FirstApplies ==
  ASSUME NEW n \in Nat, NEW choices, DOMAIN choices = 1 .. n,
         NEW m \in 1 .. n, choices[m][1]
  PROVE  \E i \in 1 .. n : /\ choices[i][1]
                           /\ \A j \in 1 .. i - 1 : ~choices[j][1]
                           /\ First(choices) = choices[i][2]
  <1> DEFINE Applies(i) == /\ choices[i][1]
                           /\ \A j \in 1 .. i - 1 : ~choices[j][1]
             Applicable == {i \in 1 .. n : choices[i][1]}
  <1>1. \E i \in DOMAIN choices : Applies(i)
    <2>1. IsWellFoundedOn(OpToRel(<, Nat), Nat)
      BY NatLessThanWellFounded
    <2>2. Applicable \in SUBSET Nat /\ Applicable # {}
      OBVIOUS
    <2>3. PICK i \in Applicable :
             \A j \in Applicable : ~ (<<j, i>> \in OpToRel(<, Nat))
      BY <2>1, <2>2, WFMin
    <2>4. ASSUME NEW j \in 1 .. i - 1 PROVE ~choices[j][1]
      <3>1. j \in Nat /\ j < i /\ j \in 1 .. n /\ i \in Nat
        OBVIOUS
      <3>2. <<j, i>> \in OpToRel(<, Nat)
        BY <3>1 DEF OpToRel
      <3>3. QED BY <2>3, <3>1, <3>2
    <2>5. QED BY <2>4
  <1>2. Applies(CHOOSE i \in DOMAIN choices : Applies(i))
        /\ (CHOOSE i \in DOMAIN choices : Applies(i)) \in DOMAIN choices
    BY <1>1
  <1>3. First(choices) =
           choices[CHOOSE i \in DOMAIN choices : Applies(i)][2]
    BY DEF First
  <1>4. QED BY <1>2, <1>3

\* The decision comes to the finalizer only past the review, and dispatches
\* it only with a retry left.
LEMMA StateFields ==
  ASSUME NEW o
  PROVE  /\ State(o) \in States
         /\ State(o) \in FinalizerLane => "passed" \in Seen(o)
         /\ State(o) = "finalizer-dispatch" =>
               ~ (Dispatched(o) /\ RetryCount(o) >= MaxFinalizerRetries)
  <1> DEFINE c == Returns(o)
  <1>1. DOMAIN c = 1 .. 13 /\ c[13][1] = TRUE
    BY DEF Returns
  <1>2. PICK i \in 1 .. 13 : /\ c[i][1]
                             /\ \A j \in 1 .. i - 1 : ~c[j][1]
                             /\ First(c) = c[i][2]
    <2> HIDE DEF c
    <2>1. PICK n \in Nat, m \in Nat :
            n = 13 /\ m = 13 /\ m \in 1 .. n /\ DOMAIN c = 1 .. n
            /\ c[m][1]
      BY <1>1
    <2>2. \E i \in 1 .. n : /\ c[i][1]
                            /\ \A j \in 1 .. i - 1 : ~c[j][1]
                            /\ First(c) = c[i][2]
      <3>1. PICK choices : choices = c
        OBVIOUS
      <3>2. /\ DOMAIN choices = 1 .. n /\ m \in 1 .. n /\ choices[m][1]
        BY <2>1, <3>1
      <3>3. \E i \in 1 .. n : /\ choices[i][1]
                              /\ \A j \in 1 .. i - 1 : ~choices[j][1]
                              /\ First(choices) = choices[i][2]
        BY ONLY n \in Nat, <3>2, FirstApplies
      <3>4. QED BY <3>1, <3>3
    <2>3. QED BY <2>1, <2>2
  <1>3. /\ c[9][1] = ("passed" \notin Seen(o))
        /\ c[12][1] = (Dispatched(o) /\ RetryCount(o) >= MaxFinalizerRetries)
    BY DEF Returns
  <1>4. /\ c[1][2] = "draft" /\ c[2][2] = "checks-failed"
        /\ c[3][2] = "checks-pending" /\ c[4][2] = "command-running"
        /\ c[5][2] = "command-dispatch" /\ c[6][2] = "review-blocked"
        /\ c[7][2] = "review-running" /\ c[8][2] = "review-failed"
        /\ c[9][2] = "review-dispatch" /\ c[10][2] = "manual-only"
        /\ c[11][2] = "finalizer-done" /\ c[12][2] = "finalizer-capped"
        /\ c[13][2] = "finalizer-dispatch"
    BY DEF Returns
  <1>5. State(o) = c[i][2]
    BY <1>2 DEF State
  <1> HIDE DEF c
  <1>6. i \in {1, 2, 3, 4, 5, 6, 7, 8, 9, 10, 11, 12, 13}
    OBVIOUS
  <1>7. State(o) \in States
    BY <1>4, <1>5, <1>6
       DEF States, ReviewLane, FinalizerLane, Commands
  <1>8. State(o) \in FinalizerLane => i > 9
    BY <1>4, <1>5, <1>6 DEF FinalizerLane
  <1>9. State(o) = "finalizer-dispatch" => i = 13
    BY <1>4, <1>5, <1>6
  <1>10. i > 9 => ~c[9][1]
    BY <1>2
  <1>11. i = 13 => ~c[12][1]
    BY <1>2
  <1>12. QED BY <1>3, <1>7, <1>8, <1>9, <1>10, <1>11

\* The aggregate status is one that GitHub knows.
LEMMA AggregateFields ==
  ASSUME NEW o, NEW read
  PROVE  Aggregate(o, read) \in {"pending", "success", "failure", "error"}
  <1> DEFINE finalizer == Known(o, "finalizer", read).latest
             review == Known(o, "review", read).latest
             asked == o.state \notin {"draft", "checks-failed",
                                      "checks-pending"}
             c == << <<o.error, "error">>,
               <<o.state \in {"checks-failed", "review-blocked",
                              "review-failed"}, "failure">>,
               <<o.state \in {"manual-only", "finalizer-capped"}, "success">>,
               <<asked /\ Held(o), "pending">>,
               <<finalizer = "failure", "failure">>,
               <<finalizer = "success" /\ o.pr.autoMerge, "success">>,
               <<"concerns" \in Seen(o), "failure">>,
               <<"passed" \notin Seen(o) /\ review = "failure", "failure">>,
               <<TRUE, "pending">> >>
  <1>1. Aggregate(o, read) = First(c)
    BY DEF Aggregate
  <1>2. DOMAIN c = 1 .. 9 /\ c[9][1] = TRUE
    OBVIOUS
  <1>3. /\ c[1][2] = "error" /\ c[2][2] = "failure" /\ c[3][2] = "success"
        /\ c[4][2] = "pending" /\ c[5][2] = "failure" /\ c[6][2] = "success"
        /\ c[7][2] = "failure" /\ c[8][2] = "failure" /\ c[9][2] = "pending"
    OBVIOUS
  <1> HIDE DEF c
  <1>4. PICK i \in 1 .. 9 : First(c) = c[i][2]
    <2>1. PICK n \in Nat, m \in Nat :
            n = 9 /\ m = 9 /\ m \in 1 .. n /\ DOMAIN c = 1 .. n
            /\ c[m][1]
      BY <1>2
    <2>2. \E i \in 1 .. n : First(c) = c[i][2]
      <3>1. PICK choices : choices = c
        OBVIOUS
      <3>2. /\ DOMAIN choices = 1 .. n /\ m \in 1 .. n /\ choices[m][1]
        BY <2>1, <3>1
      <3>3. \E i \in 1 .. n : /\ choices[i][1]
                              /\ \A j \in 1 .. i - 1 : ~choices[j][1]
                              /\ First(choices) = choices[i][2]
        BY ONLY n \in Nat, <3>2, FirstApplies
      <3>4. QED BY <3>1, <3>3
    <2>3. QED BY <2>1, <2>2
  <1>5. i \in {1, 2, 3, 4, 5, 6, 7, 8, 9}
    OBVIOUS
  <1>6. QED BY <1>1, <1>3, <1>4, <1>5

\* The pull request, its labels, the workers and the orchestrators are of
\* their types, and a finalizer is dispatched only with a retry left.
FlowTypes ==
    /\ PrTypeOK
    /\ \A g \in Groups : orch[g].state = "finalizer-dispatch" =>
          ~ (/\ Dispatched(orch[g])
             /\ RetryCount(orch[g]) >= MaxFinalizerRetries)

\* An orchestrator that knows nothing yet is of its type.
LEMMA IdleFields ==
  ASSUME NEW p \in PullRequests
  PROVE  /\ IdleRun(p) \in Orchestrators
         /\ IdleRun(p).at = "idle" /\ IdleRun(p).pr = p
         /\ IdleRun(p).state = "none" /\ IdleRun(p).event = "plain"
  <1>1. NoSummary \in [Workers -> Summaries]
    BY PrFlowAssumption DEF NoSummary, Unused, Summaries
  <1>2. "none" \in States
    BY DEF States
  <1>3. QED BY <1>1, <1>2 DEF IdleRun, Orchestrators

\* The new request is one.
LEMMA NewPrType == NewPr \in PullRequests /\ NewPr.head \in Heads
  BY PrFlowAssumption DEF NewPr, PullRequests, Heads

\* The orchestrators stay of their type when one of them takes a step.
LEMMA OneGroup ==
  ASSUME FlowTypes, NEW g \in Groups, NEW o \in Orchestrators,
         orch' = [orch EXCEPT ![g] = o],
         o.state = "finalizer-dispatch" =>
            ~ (Dispatched(o) /\ RetryCount(o) >= MaxFinalizerRetries)
  PROVE  /\ orch' \in [Groups -> Orchestrators]
         /\ \A h \in Groups : orch'[h].state = "finalizer-dispatch" =>
               ~ (/\ Dispatched(orch'[h])
                  /\ RetryCount(orch'[h]) >= MaxFinalizerRetries)
  <1>1. orch \in [Groups -> Orchestrators]
    BY DEF FlowTypes, PrTypeOK
  <1>2. \A h \in Groups : orch'[h] = IF h = g THEN o ELSE orch[h]
    BY <1>1
  <1>3. orch' \in [Groups -> Orchestrators]
    BY <1>1
  <1>4. ASSUME NEW h \in Groups, orch'[h].state = "finalizer-dispatch"
        PROVE  ~ (/\ Dispatched(orch'[h])
                  /\ RetryCount(orch'[h]) >= MaxFinalizerRetries)
    <2>1. CASE h = g
      BY <1>2, <1>4, <2>1
    <2>2. CASE h # g
      BY <1>2, <1>4, <2>2 DEF FlowTypes
    <2>3. QED BY <2>1, <2>2
  <1>5. QED BY <1>3, <1>4

\* What is queued for the groups stays of its type.
LEMMA WakeTypes ==
  ASSUME FlowTypes, Wake \/ WakeByTitle
  PROVE  due' \in [Groups -> {"none", "plain", "reset", "review"}]
  BY DEF Wake, WakeByTitle, FlowTypes, PrTypeOK

\* What the workers have done stays of its type: failed runs are counted no
\* further than the bound.
LEMMA ConcludeTypes ==
  ASSUME FlowTypes, NEW w \in Workers, NEW latest \in {"success", "failure"}
  PROVE  Conclude(w, latest) \in [Workers -> [Heads -> Summaries]]
  <1> DEFINE h == job[w].head
  <1>1. /\ past \in [Workers -> [Heads -> Summaries]]
        /\ h \in Heads /\ past[w][h] \in Summaries
    BY DEF FlowTypes, PrTypeOK
  <1>2. PICK f \in 0 .. MaxFailed :
          f = IF latest = "failure" /\ past[w][h].failed < MaxFailed
              THEN past[w][h].failed + 1 ELSE past[w][h].failed
    BY <1>1, PrFlowAssumption DEF Summaries
  <1>3. Conclude(w, latest) =
          [past EXCEPT ![w][h] = [latest |-> latest, failed |-> f]]
    BY <1>1, <1>2 DEF Conclude
  <1>4. [latest |-> latest, failed |-> f] \in Summaries
    BY <1>2 DEF Summaries
  <1> HIDE DEF h
  <1>5. QED BY <1>1, <1>3, <1>4

\* So do the active runs.
LEMMA ToTypes ==
  ASSUME FlowTypes, NEW w \in Workers, NEW ok \in BOOLEAN,
         NEW at \in {"none", "queued", "working", "ending"}
  PROVE  To(w, at, ok) \in
            [Workers -> [at : {"none", "queued", "working", "ending"},
                         head : Heads, ok : BOOLEAN]]
  <1> DEFINE Jobs == [at : {"none", "queued", "working", "ending"},
                      head : Heads, ok : BOOLEAN]
  <1>1. job \in [Workers -> Jobs]
    BY DEF FlowTypes, PrTypeOK
  <1>2. PICK f \in [Workers -> Jobs] : f = [job EXCEPT ![w].at = at]
    BY <1>1
  <1>3. PICK g \in [Workers -> Jobs] : g = [f EXCEPT ![w].ok = ok]
    <2>1. PICK j \in Jobs : j = [f[w] EXCEPT !.ok = ok]
      BY <1>2
    <2>2. PICK g \in [Workers -> Jobs] : g = [f EXCEPT ![w] = j]
      OBVIOUS
    <2>3. g = [f EXCEPT ![w].ok = ok]
      BY <2>1, <2>2
    <2>4. QED BY <2>3
  <1>4. To(w, at, ok) = g
    BY <1>2, <1>3 DEF To
  <1>5. QED BY <1>4

\* And so is what is found of the runs for a head, ...
LEMMA SummaryTypes ==
  ASSUME FlowTypes, NEW w \in Workers, NEW h \in Heads
  PROVE  Summary(w, h) \in Summaries
  BY DEF FlowTypes, PrTypeOK, Summary, Summaries

\* ... read or not.
LEMMA FoundTypes ==
  ASSUME FlowTypes, NEW o \in Orchestrators, NEW read \in BOOLEAN
  PROVE  Found(o, read) \in [Workers -> Summaries]
  <1>1. o.pr.head \in Heads
    BY DEF Orchestrators, PullRequests
  <1>2. \A w \in Workers : Summary(w, o.pr.head) \in Summaries
    BY <1>1, SummaryTypes
  <1>3. NoSummary \in [Workers -> Summaries]
    BY PrFlowAssumption DEF NoSummary, Unused, Summaries
  <1>4. QED BY <1>2, <1>3 DEF Found

\* Steps of an orchestrator keep the types.
LEMMA StartTypes ==
  ASSUME FlowTypes, NEW g \in Groups, Start(g)
  PROVE  FlowTypes'
  <1>1. PICK p \in PullRequests : p = pr
    BY DEF FlowTypes, PrTypeOK
  <1>2. PICK event \in {"plain", "reset", "review"} : event = due[g]
    BY DEF FlowTypes, PrTypeOK, Start
  <1>3. PICK o : o = [IdleRun(p) EXCEPT !.at = "decide", !.event = event,
                        !.labels = labels, !.retries = retries]
    OBVIOUS
  <1>4. o \in Orchestrators /\ o.state = "none"
    <2>1. PICK idle \in Orchestrators :
            idle = IdleRun(p) /\ idle.state = "none"
      BY IdleFields
    <2>2. labels \in SUBSET Labels
          /\ retries \in SUBSET (1 .. MaxFinalizerRetries)
      BY DEF FlowTypes, PrTypeOK
    <2>3. QED BY <1>3, <2>1, <2>2 DEF Orchestrators
  <1>5. orch' = [orch EXCEPT ![g] = o]
    BY <1>1, <1>2, <1>3 DEF Start
  <1>6. /\ orch' \in [Groups -> Orchestrators]
        /\ \A h \in Groups : orch'[h].state = "finalizer-dispatch" =>
              ~ (/\ Dispatched(orch'[h])
                 /\ RetryCount(orch'[h]) >= MaxFinalizerRetries)
    BY <1>4, <1>5, OneGroup
  <1>7. QED BY <1>6 DEF FlowTypes, PrTypeOK, Start

\* Of an orchestrator it is the event, the request and the labels alone that
\* say what it sees.
LEMMA SameSight ==
  ASSUME NEW o, NEW q, o.event = q.event, o.pr = q.pr, o.labels = q.labels,
         o.retries = q.retries
  PROVE  /\ Resets(o) = Resets(q) /\ Seen(o) = Seen(q)
         /\ Dispatched(o) = Dispatched(q) /\ RetryCount(o) = RetryCount(q)
         /\ Stale(o) = Stale(q)
  BY DEF Resets, Seen, Dispatched, RetryCount, Stale

\* What a group has decided.
LEMMA DecideFields ==
  ASSUME FlowTypes, NEW g \in Groups, Decide(g)
  PROVE  \E o \in Orchestrators :
            /\ orch' = [orch EXCEPT ![g] = o]
            /\ o.event = orch[g].event /\ o.pr = orch[g].pr
            /\ o.labels = orch[g].labels /\ o.retries = orch[g].retries
            /\ o.at \in {"dispatch", "finish"}
            /\ o.state \in FinalizerLane => "passed" \in Seen(o)
            /\ o.state = "finalizer-dispatch" =>
                  ~ (Dispatched(o) /\ RetryCount(o) >= MaxFinalizerRetries)
  <1> DEFINE Chosen(r) ==
               LET d == [orch[g] EXCEPT !.runs = Found(orch[g], r)]
                   s == State(d)
               IN  orch' = [orch EXCEPT ![g] = [d EXCEPT
                       !.state = s,
                       !.runs = [w \in Workers |->
                                    IF Reads(s, w) THEN @[w] ELSE Unused],
                       !.at = IF s \in Dispatches THEN "dispatch"
                              ELSE "finish"]]
  <1>1. orch[g] \in Orchestrators
    BY DEF FlowTypes, PrTypeOK
  <1>0. PICK read \in BOOLEAN : Chosen(read)
    BY DEF Decide
  <1>2. PICK runs \in [Workers -> Summaries] : runs = Found(orch[g], read)
    BY <1>1, FoundTypes
  <1>3. PICK q : q = [orch[g] EXCEPT !.runs = runs]
    OBVIOUS
  <1>4. /\ q \in Orchestrators /\ q.event = orch[g].event
        /\ q.pr = orch[g].pr /\ q.labels = orch[g].labels
        /\ q.retries = orch[g].retries /\ q.runs = runs
    BY <1>1, <1>3 DEF Orchestrators
  <1>5. PICK state \in States : state = State(q)
    BY StateFields
  <1>6. PICK known \in [Workers -> Summaries] :
          known = [w \in Workers |->
                     IF Reads(state, w) THEN runs[w] ELSE Unused]
    <2>1. Unused \in Summaries
      BY PrFlowAssumption DEF Unused, Summaries
    <2>2. QED BY <2>1
  <1>7. PICK at \in {"dispatch", "finish"} :
          at = IF state \in Dispatches THEN "dispatch" ELSE "finish"
    OBVIOUS
  <1>8. PICK o : o = [q EXCEPT !.state = state, !.runs = known, !.at = at]
    OBVIOUS
  <1>9. /\ o \in Orchestrators /\ o.event = q.event /\ o.pr = q.pr
        /\ o.labels = q.labels /\ o.retries = q.retries
        /\ o.state = state /\ o.at = at
    BY <1>4, <1>8 DEF Orchestrators
  <1>10. orch' = [orch EXCEPT ![g] = o]
    BY <1>0, <1>2, <1>3, <1>4, <1>5, <1>6, <1>7, <1>8
  <1>11. Seen(o) = Seen(q) /\ Dispatched(o) = Dispatched(q)
         /\ RetryCount(o) = RetryCount(q)
    BY <1>9, SameSight
  <1>12. /\ state \in FinalizerLane => "passed" \in Seen(q)
         /\ state = "finalizer-dispatch" =>
               ~ (Dispatched(q) /\ RetryCount(q) >= MaxFinalizerRetries)
    BY <1>5, StateFields
  <1>13. QED BY <1>4, <1>9, <1>10, <1>11, <1>12

\* Deciding keeps the types.
LEMMA DecideTypes ==
  ASSUME FlowTypes, NEW g \in Groups, Decide(g)
  PROVE  FlowTypes'
  <1>1. PICK o \in Orchestrators :
          /\ orch' = [orch EXCEPT ![g] = o]
          /\ o.state = "finalizer-dispatch" =>
                ~ (Dispatched(o) /\ RetryCount(o) >= MaxFinalizerRetries)
    BY DecideFields
  <1>2. /\ orch' \in [Groups -> Orchestrators]
        /\ \A h \in Groups : orch'[h].state = "finalizer-dispatch" =>
              ~ (/\ Dispatched(orch'[h])
                 /\ RetryCount(orch'[h]) >= MaxFinalizerRetries)
    BY <1>1, OneGroup
  <1>3. events' \in 0 .. MaxEvents
    <2>1. events' = events \/ Event
      BY DEF Decide
    <2>2. QED BY <2>1, PrFlowAssumption DEF Event, FlowTypes, PrTypeOK
  <1>4. QED BY <1>2, <1>3 DEF FlowTypes, PrTypeOK, Decide

\* A dispatch changes nothing of what the group knows but whether it failed.
LEMMA DispatchFields ==
  ASSUME FlowTypes, NEW g \in Groups, Dispatch(g)
  PROVE  \E o \in Orchestrators :
            /\ orch' = [orch EXCEPT ![g] = o] /\ o.at = "finish"
            /\ o.event = orch[g].event /\ o.pr = orch[g].pr
            /\ o.labels = orch[g].labels /\ o.retries = orch[g].retries
            /\ o.state = orch[g].state
  <1>1. orch[g] \in Orchestrators /\ orch \in [Groups -> Orchestrators]
    BY DEF FlowTypes, PrTypeOK
  <1>2. CASE orch' = [orch EXCEPT ![g].at = "finish"]
    <2>1. PICK o : o = [orch[g] EXCEPT !.at = "finish"]
      OBVIOUS
    <2>2. /\ o \in Orchestrators /\ o.at = "finish"
          /\ o.event = orch[g].event /\ o.pr = orch[g].pr
          /\ o.labels = orch[g].labels /\ o.retries = orch[g].retries
          /\ o.state = orch[g].state
      BY <1>1, <2>1 DEF Orchestrators
    <2>3. orch' = [orch EXCEPT ![g] = o]
      BY <1>1, <1>2, <2>1
    <2>4. QED BY <2>2, <2>3
  <1>3. CASE orch' = [orch EXCEPT ![g].at = "finish", ![g].error = TRUE]
    <2>1. PICK o : o = [orch[g] EXCEPT !.at = "finish", !.error = TRUE]
      OBVIOUS
    <2>2. /\ o \in Orchestrators /\ o.at = "finish"
          /\ o.event = orch[g].event /\ o.pr = orch[g].pr
          /\ o.labels = orch[g].labels /\ o.retries = orch[g].retries
          /\ o.state = orch[g].state
      BY <1>1, <2>1 DEF Orchestrators
    <2>3. orch' = [orch EXCEPT ![g] = o]
      BY <1>1, <1>3, <2>1
    <2>4. QED BY <2>2, <2>3
  <1>4. QED BY <1>2, <1>3 DEF Dispatch

\* So does dispatching.
LEMMA DispatchTypes ==
  ASSUME FlowTypes, NEW g \in Groups, Dispatch(g)
  PROVE  FlowTypes'
  <1> DEFINE w == IF orch[g].state = "finalizer-dispatch"
                  THEN "finalizer" ELSE "review"
  <1>1. PICK o \in Orchestrators :
          /\ orch' = [orch EXCEPT ![g] = o]
          /\ o.event = orch[g].event /\ o.pr = orch[g].pr
          /\ o.labels = orch[g].labels /\ o.retries = orch[g].retries
          /\ o.state = orch[g].state
    BY DispatchFields
  <1>2. o.state = "finalizer-dispatch" =>
           ~ (Dispatched(o) /\ RetryCount(o) >= MaxFinalizerRetries)
    <2>1. PICK q : q = orch[g]
      OBVIOUS
    <2>2. Dispatched(o) = Dispatched(q) /\ RetryCount(o) = RetryCount(q)
      BY <1>1, <2>1, SameSight
    <2>3. QED BY <1>1, <2>1, <2>2 DEF FlowTypes
  <1>3. /\ orch' \in [Groups -> Orchestrators]
        /\ \A h \in Groups : orch'[h].state = "finalizer-dispatch" =>
              ~ (/\ Dispatched(orch'[h])
                 /\ RetryCount(orch'[h]) >= MaxFinalizerRetries)
    BY <1>1, <1>2, OneGroup
  <1>4. w \in Workers /\ orch[g].pr.head \in Heads
    BY DEF Workers, FlowTypes, PrTypeOK, Orchestrators, PullRequests
  <1>5. job' \in [Workers -> [at : {"none", "queued", "working", "ending"},
                              head : Heads, ok : BOOLEAN]]
    <2>1. PICK r : r = [NoRun EXCEPT !.at = "queued",
                                     !.head = orch[g].pr.head]
      OBVIOUS
    <2>2. r \in [at : {"none", "queued", "working", "ending"},
                 head : Heads, ok : BOOLEAN]
      BY <1>4, <2>1 DEF NoRun
    <2>3. job' = job \/ job' = [job EXCEPT ![w] = r]
      BY <2>1 DEF Dispatch, Queue
    <2> HIDE DEF w
    <2>4. QED BY <1>4, <2>2, <2>3 DEF FlowTypes, PrTypeOK
  <1>6. /\ past' \in [Workers -> [Heads -> Summaries]]
        /\ due' \in [Groups -> {"none", "plain", "reset", "review"}]
    <2>1. \/ past' = past /\ due' = due
          \/ past' = Conclude(w, "failure") /\ WakeByTitle
      BY DEF Dispatch, Queue
    <2> HIDE DEF w
    <2>2. CASE past' = past /\ due' = due
      BY <2>2 DEF FlowTypes, PrTypeOK
    <2>3. CASE past' = Conclude(w, "failure") /\ WakeByTitle
      <3>1. PICK v \in Workers : v = w
        BY <1>4
      <3>2. Conclude(v, "failure") \in [Workers -> [Heads -> Summaries]]
        BY ConcludeTypes
      <3>3. QED BY <2>3, <3>1, <3>2, WakeTypes
    <2>4. QED BY <2>1, <2>2, <2>3
  <1>7. events' \in 0 .. MaxEvents
    <2>1. events' = events \/ Event
      BY DEF Dispatch
    <2>2. QED BY <2>1, PrFlowAssumption DEF Event, FlowTypes, PrTypeOK
  <1>8. QED BY <1>3, <1>5, <1>6, <1>7 DEF FlowTypes, PrTypeOK, Dispatch

\* The retries that have a label are no more than there may be.
LEMMA RetryFields ==
  ASSUME NEW o \in Orchestrators
  PROVE  RetryCount(o) \in 0 .. MaxFinalizerRetries
  <1> DEFINE below == {n \in 1 .. MaxFinalizerRetries :
                          \E m \in o.retries : n <= m}
  <1>1. /\ IsFiniteSet(1 .. MaxFinalizerRetries)
        /\ Cardinality(1 .. MaxFinalizerRetries) = MaxFinalizerRetries
    <2>1. PICK a \in Int, b \in Int :
            a = 1 /\ b = MaxFinalizerRetries /\ ~(a > b)
      BY PrFlowAssumption
    <2>2. /\ IsFiniteSet(a .. b)
          /\ Cardinality(a .. b) = IF a > b THEN 0 ELSE b - a + 1
      BY FS_Interval
    <2>3. QED BY <2>1, <2>2
  <1>2. below \subseteq 1 .. MaxFinalizerRetries
    OBVIOUS
  <1>3. IsFiniteSet(below) /\ Cardinality(below) <= MaxFinalizerRetries
    BY <1>1, <1>2, FS_Subset
  <1>4. Cardinality(below) \in Nat
    BY <1>3, FS_CardinalityType
  <1>5. RetryCount(o) = Cardinality(below)
    BY DEF RetryCount
  <1> HIDE DEF below
  <1>6. QED BY <1>3, <1>4, <1>5, PrFlowAssumption

\* The labels a run leaves are labels, whatever fails.
LEMMA RelabelTypes ==
  ASSUME FlowTypes, NEW g \in Groups, NEW kept, NEW keptRetries,
         NEW adds \in BOOLEAN, Relabel(orch[g], kept, keptRetries, adds)
  PROVE  labels' \subseteq Labels /\ retries' \subseteq 1 .. MaxFinalizerRetries
  <1>1. PICK o \in Orchestrators : o = orch[g]
    BY DEF FlowTypes, PrTypeOK
  <1>2. o.state = "finalizer-dispatch" =>
           ~ (Dispatched(o) /\ RetryCount(o) >= MaxFinalizerRetries)
    BY <1>1 DEF FlowTypes
  <1>3. RetryCount(o) \in 0 .. MaxFinalizerRetries
    BY RetryFields
  <1>4. AddedRetries(o) \subseteq 1 .. MaxFinalizerRetries
    BY <1>2, <1>3, PrFlowAssumption DEF AddedRetries
  <1>5. StateLabels(o.state) \subseteq Labels
    BY DEF StateLabels, Labels, FlowLabels
  <1>6. labels \subseteq Labels /\ retries \subseteq 1 .. MaxFinalizerRetries
    BY DEF FlowTypes, PrTypeOK
  <1>7. QED BY <1>1, <1>4, <1>5, <1>6 DEF Relabel

\* The end of a run.
LEMMA FinishTypes ==
  ASSUME FlowTypes, NEW g \in Groups, FinishRun(g)
  PROVE  FlowTypes'
  <1>1. PICK o \in Orchestrators : o = IdleRun(NewPr) /\ o.state = "none"
    BY IdleFields, NewPrType
  <1>2. orch' = [orch EXCEPT ![g] = o]
    BY <1>1 DEF FinishRun
  <1>3. /\ orch' \in [Groups -> Orchestrators]
        /\ \A h \in Groups : orch'[h].state = "finalizer-dispatch" =>
              ~ (/\ Dispatched(orch'[h])
                 /\ RetryCount(orch'[h]) >= MaxFinalizerRetries)
    BY <1>1, <1>2, OneGroup
  <1>4. labels' \subseteq Labels /\ retries' \subseteq 1 .. MaxFinalizerRetries
    <2>1. CASE Relabel(orch[g], {}, {}, TRUE)
      BY <2>1, RelabelTypes
    <2>2. ASSUME NEW kept, NEW keptRetries, NEW adds \in BOOLEAN,
                 Relabel(orch[g], kept, keptRetries, adds)
          PROVE  labels' \subseteq Labels
                 /\ retries' \subseteq 1 .. MaxFinalizerRetries
      BY <2>2, RelabelTypes
    <2>3. QED BY <2>1, <2>2 DEF FinishRun
  <1>5. ready' \in {"none", "pending", "success", "failure", "error"}
    <2>1. PICK q : q = orch[g]
      OBVIOUS
    <2>2. \A read \in BOOLEAN : Aggregate(q, read) \in
                                  {"pending", "success", "failure", "error"}
      BY AggregateFields
    <2>3. PICK read \in BOOLEAN : ready' = ready \/ ready' = Aggregate(q, read)
      BY <2>1 DEF FinishRun
    <2>4. QED BY <2>2, <2>3 DEF FlowTypes, PrTypeOK
  <1>6. events' \in 0 .. MaxEvents /\ overtaken' \in BOOLEAN
    <2>1. events' = events \/ Event
      BY DEF FinishRun
    <2>2. overtaken' \in BOOLEAN
      BY DEF FinishRun
    <2>3. QED BY <2>1, <2>2, PrFlowAssumption DEF Event, FlowTypes, PrTypeOK
  <1>7. UNCHANGED <<pr, checks, job, past, due, reviewed>>
    BY DEF FinishRun
  <1>8. QED BY <1>3, <1>4, <1>5, <1>6, <1>7 DEF FlowTypes, PrTypeOK

\* A run that fails.
LEMMA OrchestratorFailsTypes ==
  ASSUME FlowTypes, NEW g \in Groups, OrchestratorFails(g)
  PROVE  FlowTypes'
  <1>1. PICK o \in Orchestrators : o = IdleRun(NewPr) /\ o.state = "none"
    BY IdleFields, NewPrType
  <1>2. orch' = [orch EXCEPT ![g] = o]
    BY <1>1 DEF OrchestratorFails
  <1>3. /\ orch' \in [Groups -> Orchestrators]
        /\ \A h \in Groups : orch'[h].state = "finalizer-dispatch" =>
              ~ (/\ Dispatched(orch'[h])
                 /\ RetryCount(orch'[h]) >= MaxFinalizerRetries)
    BY <1>1, <1>2, OneGroup
  <1>4. events' \in 0 .. MaxEvents /\ overtaken' \in BOOLEAN
    BY PrFlowAssumption DEF OrchestratorFails, Event, FlowTypes, PrTypeOK
  <1>5. QED BY <1>3, <1>4 DEF FlowTypes, PrTypeOK, OrchestratorFails

\* The part of the types that is about the orchestrators stays, as long as
\* they do.
LEMMA SameGroups ==
  ASSUME FlowTypes, PrTypeOK', orch' = orch
  PROVE  FlowTypes'
  BY DEF FlowTypes

\* Steps of the workers keep the types.
LEMMA WorkerTypes ==
  ASSUME FlowTypes,
         \/ ResolveReview \/ Review \/ ReadFinalizer \/ ApplyFinalizer
         \/ \E w \in Workers : EndRun(w)
  PROVE  FlowTypes'
  <1>a. "review" \in Workers /\ "finalizer" \in Workers
    BY DEF Workers
  <1>1. CASE ResolveReview
    <2>1. \/ job' = To("review", "working", TRUE) /\ due' = due
          \/ job' = To("review", "ending", TRUE) /\ Wake
      BY <1>1 DEF ResolveReview
    <2>2. /\ job' \in [Workers ->
                        [at : {"none", "queued", "working", "ending"},
                         head : Heads, ok : BOOLEAN]]
          /\ due' \in [Groups -> {"none", "plain", "reset", "review"}]
      <3>1. PICK at \in {"working", "ending"} : job' = To("review", at, TRUE)
        BY <2>1
      <3>2. due' = due \/ Wake
        BY <2>1
      <3>3. due' \in [Groups -> {"none", "plain", "reset", "review"}]
        BY <3>2, WakeTypes DEF FlowTypes, PrTypeOK
      <3>4. QED BY <1>a, <3>1, <3>3, ToTypes
    <2>3. PrTypeOK' /\ orch' = orch
      BY <1>1, <2>2 DEF FlowTypes, PrTypeOK, ResolveReview, history
    <2>4. QED BY <2>3, SameGroups
  <1>2. CASE Review
    <2>1. /\ job' = To("review", "ending", TRUE)
             \/ job' = To("review", "ending", FALSE)
          /\ Wake
      BY <1>2 DEF Review
    <2>2. /\ job' \in [Workers ->
                        [at : {"none", "queued", "working", "ending"},
                         head : Heads, ok : BOOLEAN]]
          /\ due' \in [Groups -> {"none", "plain", "reset", "review"}]
      <3>1. PICK w \in Workers : w = "review"
        BY DEF Workers
      <3>2. PICK at \in {"none", "queued", "working", "ending"} : at = "ending"
        OBVIOUS
      <3>3. PICK ok \in BOOLEAN : job' = To(w, at, ok)
        BY <2>1, <3>1, <3>2
      <3>4. To(w, at, ok) \in
               [Workers -> [at : {"none", "queued", "working", "ending"},
                            head : Heads, ok : BOOLEAN]]
        BY <1>a, ToTypes
      <3>5. QED BY <1>a, <2>1, <3>3, <3>4, WakeTypes
    <2>3. /\ labels' \subseteq Labels /\ reviewed' \in BOOLEAN
          /\ events' \in 0 .. MaxEvents
      <3>1. labels' \subseteq Labels
        BY <1>2
           DEF Review, FlowTypes, PrTypeOK, Signals, Labels, ResetLabels
      <3>2. reviewed' \in BOOLEAN
        BY <1>2 DEF Review, FlowTypes, PrTypeOK
      <3>3. events' = events \/ Event
        BY <1>2 DEF Review
      <3>4. events' \in 0 .. MaxEvents
        BY <3>3, PrFlowAssumption DEF Event, FlowTypes, PrTypeOK
      <3>5. QED BY <3>1, <3>2, <3>4
    <2>4. UNCHANGED <<pr, retries, checks, past, orch, ready, overtaken>>
      BY <1>2 DEF Review
    <2>5. PrTypeOK'
      BY <2>2, <2>3, <2>4 DEF FlowTypes, PrTypeOK
    <2>6. QED BY <2>4, <2>5, SameGroups
  <1>3. CASE ReadFinalizer
    <2>1. PICK at \in {"working", "ending"} : job' = To("finalizer", at, TRUE)
      BY <1>3 DEF ReadFinalizer
    <2>2. job' \in [Workers ->
                        [at : {"none", "queued", "working", "ending"},
                         head : Heads, ok : BOOLEAN]]
      BY <1>a, <2>1, ToTypes
    <2>3. PrTypeOK' /\ orch' = orch
      BY <1>3, <2>2 DEF FlowTypes, PrTypeOK, ReadFinalizer, history
    <2>4. QED BY <2>3, SameGroups
  <1>4. CASE ApplyFinalizer
    <2>1. /\ job' = To("finalizer", "ending", TRUE)
             \/ job' = To("finalizer", "ending", FALSE)
          /\ Wake
      BY <1>4 DEF ApplyFinalizer
    <2>2. /\ job' \in [Workers ->
                        [at : {"none", "queued", "working", "ending"},
                         head : Heads, ok : BOOLEAN]]
          /\ due' \in [Groups -> {"none", "plain", "reset", "review"}]
      <3>1. PICK w \in Workers : w = "finalizer"
        BY DEF Workers
      <3>2. PICK at \in {"none", "queued", "working", "ending"} : at = "ending"
        OBVIOUS
      <3>3. PICK ok \in BOOLEAN : job' = To(w, at, ok)
        BY <2>1, <3>1, <3>2
      <3>4. To(w, at, ok) \in
               [Workers -> [at : {"none", "queued", "working", "ending"},
                            head : Heads, ok : BOOLEAN]]
        BY <1>a, ToTypes
      <3>5. QED BY <1>a, <2>1, <3>3, <3>4, WakeTypes
    <2>3. pr' \in PullRequests /\ events' \in 0 .. MaxEvents
      <3>1. pr' \in PullRequests
        BY <1>4 DEF ApplyFinalizer, FlowTypes, PrTypeOK, PullRequests
      <3>2. events' = events \/ Event
        BY <1>4 DEF ApplyFinalizer
      <3>3. events' \in 0 .. MaxEvents
        BY <3>2, PrFlowAssumption DEF Event, FlowTypes, PrTypeOK
      <3>4. QED BY <3>1, <3>3
    <2>4. PrTypeOK' /\ orch' = orch
      BY <1>4, <2>2, <2>3 DEF FlowTypes, PrTypeOK, ApplyFinalizer
    <2>5. QED BY <2>4, SameGroups
  <1>5. ASSUME NEW w \in Workers, EndRun(w) PROVE FlowTypes'
    <2>1. /\ past' = Conclude(w, "success") \/ past' = Conclude(w, "failure")
          /\ job' = [job EXCEPT ![w] = NoRun] /\ WakeByTitle
      BY <1>5 DEF EndRun
    <2>2. /\ past' \in [Workers -> [Heads -> Summaries]]
          /\ due' \in [Groups -> {"none", "plain", "reset", "review"}]
      BY <2>1, ConcludeTypes, WakeTypes
    <2>3. NoRun \in [at : {"none", "queued", "working", "ending"},
                     head : Heads, ok : BOOLEAN]
      BY PrFlowAssumption DEF NoRun, Heads
    <2>4. job' \in [Workers ->
                        [at : {"none", "queued", "working", "ending"},
                         head : Heads, ok : BOOLEAN]]
      BY <2>1, <2>3 DEF FlowTypes, PrTypeOK
    <2>5. PrTypeOK' /\ orch' = orch
      BY <1>5, <2>2, <2>4 DEF FlowTypes, PrTypeOK, EndRun, history
    <2>6. QED BY <2>5, SameGroups
  <1>6. QED BY <1>1, <1>2, <1>3, <1>4, <1>5

\* A change of the request cancels the run of its group.
LEMMA ChangedTypes ==
  ASSUME FlowTypes, NEW event \in {"plain", "reset"}, Changed(event)
  PROVE  /\ due' \in [Groups -> {"none", "plain", "reset", "review"}]
         /\ orch' \in [Groups -> Orchestrators]
         /\ \A g \in Groups : orch'[g].state = "finalizer-dispatch" =>
               ~ (/\ Dispatched(orch'[g])
                  /\ RetryCount(orch'[g]) >= MaxFinalizerRetries)
  <1>1. PICK o \in Orchestrators : o = IdleRun(NewPr) /\ o.state = "none"
    BY IdleFields, NewPrType
  <1>2. \A g \in Groups : orch'[g] = IF g = "prt" THEN o ELSE orch[g]
    BY <1>1 DEF Changed
  <1>3. orch' \in [Groups -> Orchestrators]
    BY <1>1 DEF Changed, FlowTypes, PrTypeOK
  <1>4. due' \in [Groups -> {"none", "plain", "reset", "review"}]
    BY DEF Changed, FlowTypes, PrTypeOK
  <1>5. ASSUME NEW g \in Groups, orch'[g].state = "finalizer-dispatch"
        PROVE  ~ (/\ Dispatched(orch'[g])
                  /\ RetryCount(orch'[g]) >= MaxFinalizerRetries)
    <2>1. orch'[g] = orch[g]
      BY <1>1, <1>2, <1>5
    <2>2. QED BY <1>5, <2>1 DEF FlowTypes
  <1>6. QED BY <1>3, <1>4, <1>5

\* Steps of GitHub, the watchdog and people keep the types.
LEMMA OtherTypes ==
  ASSUME FlowTypes,
         Check \/ Merge \/ Watch \/ Push \/ ToggleDraft \/ Label \/ Command
  PROVE  FlowTypes'
  <1>a. Event => events' \in 0 .. MaxEvents
    BY PrFlowAssumption DEF Event, FlowTypes, PrTypeOK
  <1>b. /\ pr.head \in Heads /\ pr \in PullRequests
        /\ checks \in [Heads -> {"pending", "passed", "failed"}]
    BY DEF FlowTypes, PrTypeOK, PullRequests
  <1>1. CASE Check
    <2>1. checks' \in [Heads -> {"pending", "passed", "failed"}]
      BY <1>1, <1>b DEF Check
    <2>2. events' \in 0 .. MaxEvents
      BY <1>1, <1>a DEF Check, FlowTypes, PrTypeOK
    <2>3. due' \in [Groups -> {"none", "plain", "reset", "review"}]
      BY <1>1, WakeTypes DEF Check
    <2>4. PrTypeOK' /\ orch' = orch
      BY <1>1, <2>1, <2>2, <2>3 DEF Check, FlowTypes, PrTypeOK
    <2>5. QED BY <2>4, SameGroups
  <1>2. CASE Merge
    <2>1. pr' \in PullRequests
      BY <1>2, <1>b DEF Merge, PullRequests
    <2>2. PrTypeOK' /\ orch' = orch
      BY <1>2, <2>1 DEF Merge, FlowTypes, PrTypeOK, history
    <2>3. QED BY <2>2, SameGroups
  <1>3. CASE Watch
    <2>1. due' \in [Groups -> {"none", "plain", "reset", "review"}]
      BY <1>3, WakeTypes DEF Watch
    <2>2. PrTypeOK' /\ orch' = orch
      BY <1>3, <2>1 DEF Watch, FlowTypes, PrTypeOK, history
    <2>3. QED BY <2>2, SameGroups
  <1>4. CASE Push
    <2>1. pr' \in PullRequests
      BY <1>4, <1>b, PrFlowAssumption DEF Push, PullRequests, Heads
    <2>2. /\ events' \in 0 .. MaxEvents /\ overtaken' \in BOOLEAN
          /\ Changed("reset") /\ reviewed' = FALSE /\ ready' = "none"
          /\ UNCHANGED <<labels, retries, checks, job, past>>
      BY <1>4, <1>a DEF Push, Act
    <2>3. QED BY <2>1, <2>2, ChangedTypes DEF FlowTypes, PrTypeOK
  <1>5. CASE ToggleDraft
    <2>1. pr' \in PullRequests
      BY <1>5, <1>b DEF ToggleDraft, PullRequests
    <2>2. /\ events' \in 0 .. MaxEvents /\ overtaken' \in BOOLEAN
          /\ Changed("plain")
          /\ UNCHANGED <<labels, retries, checks, job, past, ready, reviewed>>
      BY <1>5, <1>a DEF ToggleDraft, Act
    <2>3. QED BY <2>1, <2>2, ChangedTypes DEF FlowTypes, PrTypeOK
  <1>6. CASE Label
    <2>1. labels' \subseteq Labels
      BY <1>6 DEF Label, FlowTypes, PrTypeOK, Labels, ResetLabels
    <2>2. due' \in [Groups -> {"none", "plain", "reset", "review"}]
      BY <1>6 DEF Label, FlowTypes, PrTypeOK
    <2>3. events' \in 0 .. MaxEvents /\ overtaken' \in BOOLEAN
      BY <1>6, <1>a DEF Label, Act
    <2>4. PrTypeOK' /\ orch' = orch
      BY <1>6, <2>1, <2>2, <2>3 DEF Label, FlowTypes, PrTypeOK
    <2>5. QED BY <2>4, SameGroups
  <1>7. CASE Command
    <2>1. due' \in [Groups -> {"none", "plain", "reset", "review"}]
      BY <1>7 DEF Command, FlowTypes, PrTypeOK
    <2>2. events' \in 0 .. MaxEvents
      BY <1>7, <1>a DEF Command, Act
    <2>3. PrTypeOK' /\ orch' = orch
      BY <1>7, <2>1, <2>2 DEF Command, FlowTypes, PrTypeOK
    <2>4. QED BY <2>3, SameGroups
  <1>8. QED BY <1>1, <1>2, <1>3, <1>4, <1>5, <1>6, <1>7

\* At first.
LEMMA InitFlowTypes == PrInit => FlowTypes
  <1> SUFFICES ASSUME PrInit PROVE FlowTypes
    OBVIOUS
  <1>1. PICK o \in Orchestrators : o = IdleRun(NewPr) /\ o.state = "none"
    BY IdleFields, NewPrType
  <1>2. orch \in [Groups -> Orchestrators]
        /\ \A g \in Groups : orch[g].state = "none"
    BY <1>1 DEF PrInit
  <1>3. job \in [Workers -> [at : {"none", "queued", "working", "ending"},
                             head : Heads, ok : BOOLEAN]]
    BY PrFlowAssumption DEF PrInit, NoRun, Heads
  <1>4. past \in [Workers -> [Heads -> Summaries]]
    BY PrFlowAssumption DEF PrInit, Unused, Summaries
  <1>5. /\ pr \in PullRequests
        /\ checks \in [Heads -> {"pending", "passed", "failed"}]
        /\ due \in [Groups -> {"none", "plain", "reset", "review"}]
        /\ events \in 0 .. MaxEvents
    BY NewPrType, PrFlowAssumption DEF PrInit
  <1>6. PrTypeOK
    BY <1>2, <1>3, <1>4, <1>5 DEF PrInit, PrTypeOK
  <1>7. QED BY <1>2, <1>6 DEF FlowTypes

\* A run of an orchestrator that has fetched the request.
Deciding(g) == orch[g].at # "idle"

\* Unless something came in between, what is under way is about the head; ...
HeadInv == ~overtaken =>
    /\ \A g \in Groups : Deciding(g) => orch[g].pr.head = pr.head
    /\ Active("review") => job["review"].head = pr.head

\* ... until the labels are reset nothing else is decided, and the request
\* is no draft; ...
ResetInv == ~overtaken /\ Resetting =>
    /\ ~pr.draft
    /\ \A g \in Groups \ {"prt"} : ~Deciding(g)
    /\ \A g \in Groups : Deciding(g) => /\ orch[g].event = "reset"
                                        /\ ~orch[g].pr.draft

\* ... and while the head has not been reviewed, no run takes the label of an
\* old head for its own, and nothing has come to the finalizer.
UnreviewedInv == ~overtaken /\ ~reviewed =>
    /\ ~pr.autoMerge /\ ~pr.merged
    /\ ~Active("finalizer")
    /\ "passed" \in labels => Resetting
    /\ \A g \in Groups : Deciding(g) =>
          /\ "passed" \notin Seen(orch[g])
          /\ orch[g].event = "reset" /\ "passed" \in labels =>
                "passed" \in orch[g].labels
          /\ orch[g].at = "dispatch" =>
                orch[g].state # "finalizer-dispatch"

FlowInv == FlowTypes /\ HeadInv /\ ResetInv /\ UnreviewedInv

\* The labels are to be reset when the group of events is woken for it, or
\* at it.
LEMMA ResettingFields ==
  /\ Resetting <=> /\ "prt" \in Groups
                   /\ due["prt"] = "reset" \/ (/\ orch["prt"].at # "idle"
                                               /\ orch["prt"].event = "reset")
  /\ Resetting' <=> /\ "prt" \in Groups
                    /\ \/ due'["prt"] = "reset"
                       \/ /\ orch'["prt"].at # "idle"
                          /\ orch'["prt"].event = "reset"
  BY PrFlowAssumption DEF Resetting

\* A run that resets the labels of a ready request does not see them.
LEMMA SeenFields ==
  ASSUME NEW o
  PROVE  /\ "passed" \in Seen(o) =>
               /\ "passed" \in o.labels
               /\ ~ (o.event = "reset" /\ ~o.pr.draft)
         /\ Stale(o) <=> /\ o.event = "reset" /\ ~o.pr.draft
                         /\ "passed" \in o.labels
  BY DEF Seen, Resets, Stale, ResetLabels, Signals

\* A group fetches the request.
LEMMA StartInv ==
  ASSUME FlowInv, NEW g \in Groups, Start(g)
  PROVE  HeadInv' /\ ResetInv' /\ UnreviewedInv'
  <1>a. /\ orch \in [Groups -> Orchestrators]
        /\ due \in [Groups -> {"none", "plain", "reset", "review"}]
        /\ Groups \subseteq {"prt", "wake", "title"}
    BY PrFlowAssumption DEF FlowInv, FlowTypes, PrTypeOK
  <1>1. PICK o : o = [IdleRun(pr) EXCEPT !.at = "decide", !.event = due[g],
                        !.labels = labels, !.retries = retries]
    OBVIOUS
  <1>2. o.at = "decide" /\ o.event = due[g] /\ o.labels = labels /\ o.pr = pr
    BY <1>1 DEF IdleRun
  <1>3. /\ \A h \in Groups : orch'[h] = IF h = g THEN o ELSE orch[h]
        /\ \A h \in Groups : due'[h] = IF h = g THEN "none" ELSE due[h]
        /\ due[g] # "none" /\ orch[g].at = "idle"
        /\ overtaken' = (overtaken \/ (g # "prt" /\ Resetting))
        /\ UNCHANGED <<pr, labels, job, reviewed>>
    BY <1>a, <1>1 DEF Start
  <1>4. HeadInv'
    BY <1>2, <1>3 DEF FlowInv, HeadInv, Deciding, Active
  <1>5. ~overtaken' /\ Resetting' => Resetting /\ g = "prt"
    BY <1>a, <1>2, <1>3, ResettingFields
  <1>6. ~overtaken' /\ Resetting => g = "prt" /\ due[g] = "reset"
    BY <1>a, <1>3, ResettingFields
  <1>7. ResetInv'
    <2> SUFFICES ASSUME ~overtaken', Resetting'
                 PROVE  /\ ~pr'.draft
                        /\ \A h \in Groups \ {"prt"} : ~Deciding(h)'
                        /\ \A h \in Groups : Deciding(h)' =>
                              orch'[h].event = "reset" /\ ~orch'[h].pr.draft
      BY DEF ResetInv
    <2>1. /\ ~pr.draft /\ g = "prt" /\ due[g] = "reset"
          /\ \A h \in Groups \ {"prt"} : ~Deciding(h)
      BY <1>3, <1>5, <1>6 DEF FlowInv, ResetInv
    <2>2. \A h \in Groups \ {"prt"} : ~Deciding(h)'
      BY <1>3, <2>1 DEF Deciding
    <2>3. QED BY <1>2, <1>3, <2>1, <2>2
  <1>8. UnreviewedInv'
    <2> SUFFICES ASSUME ~overtaken', ~reviewed' PROVE UnreviewedInv'
      BY DEF UnreviewedInv
    <2>1. /\ ~pr.autoMerge /\ ~pr.merged /\ ~Active("finalizer")
          /\ "passed" \in labels => Resetting
          /\ \A h \in Groups : Deciding(h) =>
                /\ "passed" \notin Seen(orch[h])
                /\ orch[h].event = "reset" /\ "passed" \in labels =>
                      "passed" \in orch[h].labels
                /\ orch[h].at = "dispatch" =>
                      orch[h].state # "finalizer-dispatch"
      BY <1>3 DEF FlowInv, UnreviewedInv
    <2>2. "passed" \in labels =>
             /\ Resetting' /\ g = "prt" /\ o.event = "reset" /\ ~o.pr.draft
      BY <1>a, <1>2, <1>3, <1>6, <2>1, ResettingFields DEF FlowInv, ResetInv
    <2>3. "passed" \notin Seen(o)
      BY <1>2, <2>2, SeenFields
    <2>4. ASSUME NEW h \in Groups, Deciding(h)'
          PROVE  /\ "passed" \notin Seen(orch'[h])
                 /\ orch'[h].event = "reset" /\ "passed" \in labels' =>
                       "passed" \in orch'[h].labels
                 /\ orch'[h].at = "dispatch" =>
                       orch'[h].state # "finalizer-dispatch"
      <3>1. CASE h = g
        BY <1>2, <1>3, <2>3, <3>1
      <3>2. CASE h # g
        <4>1. orch'[h] = orch[h] /\ labels' = labels /\ Deciding(h)
          BY <1>3, <2>4, <3>2 DEF Deciding
        <4>2. QED BY <2>1, <4>1
      <3>3. QED BY <3>1, <3>2
    <2>5. QED BY <1>3, <2>1, <2>2, <2>4 DEF UnreviewedInv, Active, Deciding
  <1>9. QED BY <1>4, <1>7, <1>8

\* The condition on one run while the head has not been reviewed.
Unaware(o) ==
    /\ "passed" \notin Seen(o)
    /\ o.event = "reset" /\ "passed" \in labels => "passed" \in o.labels
    /\ o.at = "dispatch" => o.state # "finalizer-dispatch"

\* A run goes on, with what it has fetched.
LEMMA GoesOn ==
  ASSUME FlowInv, NEW g \in Groups, Deciding(g), NEW o \in Orchestrators,
         orch' = [orch EXCEPT ![g] = o], o.at # "idle",
         o.event = orch[g].event, o.pr = orch[g].pr, o.labels = orch[g].labels,
         o.retries = orch[g].retries,
         o.at = "dispatch" /\ o.state = "finalizer-dispatch" =>
            "passed" \in Seen(o),
         UNCHANGED <<pr, labels, reviewed, overtaken>>,
         "prt" \in Groups => due'["prt"] = due["prt"],
         ~overtaken /\ Active("review")' =>
            job'["review"].head = pr.head,
         ~overtaken /\ ~reviewed => ~Active("finalizer")'
  PROVE  HeadInv' /\ ResetInv' /\ UnreviewedInv'
  <1>a. /\ orch \in [Groups -> Orchestrators]
        /\ Groups \subseteq {"prt", "wake", "title"}
    BY PrFlowAssumption DEF FlowInv, FlowTypes, PrTypeOK
  <1>1. \A h \in Groups : orch'[h] = IF h = g THEN o ELSE orch[h]
    BY <1>a
  <1>2. \A h \in Groups : Deciding(h)' <=> Deciding(h)
    BY <1>1 DEF Deciding
  <1>3. \A h \in Groups : /\ orch'[h].event = orch[h].event
                          /\ orch'[h].pr = orch[h].pr
                          /\ orch'[h].labels = orch[h].labels
    BY <1>1
  <1>4. Resetting' <=> Resetting
    BY <1>2, <1>3, ResettingFields DEF Deciding
  <1>5. HeadInv'
    BY <1>2, <1>3 DEF FlowInv, HeadInv
  <1>6. ResetInv'
    BY <1>a, <1>2, <1>3, <1>4 DEF FlowInv, ResetInv
  <1>7. UnreviewedInv'
    <2> SUFFICES ASSUME ~overtaken, ~reviewed PROVE UnreviewedInv'
      BY DEF UnreviewedInv
    <2>1. /\ ~pr.autoMerge /\ ~pr.merged
          /\ "passed" \in labels => Resetting
          /\ \A h \in Groups : Deciding(h) => Unaware(orch[h])
      BY DEF FlowInv, UnreviewedInv, Unaware
    <2>2. Unaware(o)
      <3>1. PICK q : q = orch[g]
        OBVIOUS
      <3>2. Seen(o) = Seen(q)
        BY <3>1, SameSight
      <3>3. QED BY <2>1, <3>1, <3>2 DEF Unaware
    <2>3. ASSUME NEW h \in Groups, Deciding(h)' PROVE Unaware(orch[h])'
      <3>1. CASE h = g
        BY <1>1, <2>2, <3>1 DEF Unaware
      <3>2. CASE h # g
        <4>1. orch'[h] = orch[h] /\ Unaware(orch[h])
          BY <1>1, <1>2, <2>1, <2>3, <3>2
        <4>2. QED BY <4>1 DEF Unaware
      <3>3. QED BY <3>1, <3>2
    <2>4. QED BY <1>4, <2>1, <2>3 DEF UnreviewedInv, Unaware
  <1>8. QED BY <1>5, <1>6, <1>7

\* The decision: it comes to the finalizer only past a review.
LEMMA DecideInv ==
  ASSUME FlowInv, NEW g \in Groups, Decide(g)
  PROVE  HeadInv' /\ ResetInv' /\ UnreviewedInv'
  <1>1. FlowTypes
    BY DEF FlowInv
  <1>2. PICK o \in Orchestrators :
          /\ orch' = [orch EXCEPT ![g] = o]
          /\ o.event = orch[g].event /\ o.pr = orch[g].pr
          /\ o.labels = orch[g].labels /\ o.retries = orch[g].retries
          /\ o.at \in {"dispatch", "finish"}
          /\ o.state \in FinalizerLane => "passed" \in Seen(o)
    BY <1>1, DecideFields
  <1>3. "finalizer-dispatch" \in FinalizerLane
    BY DEF FinalizerLane
  <1>4. /\ UNCHANGED <<pr, labels, job, due, reviewed, overtaken>>
        /\ Deciding(g)
    BY DEF Decide, Deciding
  <1>5. /\ ~overtaken /\ Active("review")' => job'["review"].head = pr.head
        /\ ~overtaken /\ ~reviewed => ~Active("finalizer")'
    BY <1>4 DEF FlowInv, HeadInv, UnreviewedInv, Active
  <1>6. QED BY <1>2, <1>3, <1>4, <1>5, GoesOn

\* The dispatch: a review is one of the head.
LEMMA DispatchInv ==
  ASSUME FlowInv, NEW g \in Groups, Dispatch(g)
  PROVE  HeadInv' /\ ResetInv' /\ UnreviewedInv'
  <1>1. FlowTypes
    BY DEF FlowInv
  <1>2. PICK o \in Orchestrators :
          /\ orch' = [orch EXCEPT ![g] = o] /\ o.at = "finish"
          /\ o.event = orch[g].event /\ o.pr = orch[g].pr
          /\ o.labels = orch[g].labels /\ o.retries = orch[g].retries
    BY <1>1, DispatchFields
  <1>3. /\ UNCHANGED <<pr, labels, reviewed, overtaken>>
        /\ Deciding(g) /\ orch[g].at = "dispatch"
    BY DEF Dispatch, Deciding
  <1>4. "prt" \in Groups => due'["prt"] = due["prt"]
    BY <1>1 DEF Dispatch, Queue, WakeByTitle, FlowTypes, PrTypeOK
  <1> DEFINE w == IF orch[g].state = "finalizer-dispatch"
                  THEN "finalizer" ELSE "review"
  <1>5. \/ job' = job
        \/ job' = [job EXCEPT ![w] = [NoRun EXCEPT !.at = "queued",
                                            !.head = orch[g].pr.head]]
    BY DEF Dispatch, Queue
  <1>6. /\ job \in [Workers -> [at : {"none", "queued", "working", "ending"},
                                head : Heads, ok : BOOLEAN]]
        /\ "review" \in Workers /\ "finalizer" \in Workers
    BY <1>1 DEF FlowTypes, PrTypeOK, Workers
  <1>7. ~overtaken /\ Active("review")' => job'["review"].head = pr.head
    <2>1. \/ job'["review"] = job["review"]
          \/ job'["review"].head = orch[g].pr.head
      BY <1>5, <1>6 DEF NoRun
    <2>2. ~overtaken => orch[g].pr.head = pr.head
      BY <1>3 DEF FlowInv, HeadInv
    <2>3. QED BY <2>1, <2>2 DEF FlowInv, HeadInv, Active
  <1>8. ~overtaken /\ ~reviewed => ~Active("finalizer")'
    <2> SUFFICES ASSUME ~overtaken, ~reviewed
                 PROVE  ~Active("finalizer")'
      OBVIOUS
    <2>1. ~Active("finalizer") /\ orch[g].state # "finalizer-dispatch"
      BY <1>3 DEF FlowInv, UnreviewedInv
    <2>2. job'["finalizer"] = job["finalizer"]
      BY <1>5, <1>6, <2>1
    <2>3. QED BY <2>1, <2>2 DEF Active
  <1>9. QED BY <1>2, <1>3, <1>4, <1>7, <1>8, GoesOn

\* A run ends: nothing that a review said of an old head is left.
LEMMA EndsGroup ==
  ASSUME FlowInv, NEW g \in Groups, Deciding(g),
         orch' = [orch EXCEPT ![g] = IdleRun(NewPr)],
         UNCHANGED <<pr, due, job, reviewed>>,
         "passed" \in labels' => "passed" \in labels,
         overtaken => overtaken',
         Stale(orch[g]) /\ "passed" \in labels' => overtaken'
  PROVE  HeadInv' /\ ResetInv' /\ UnreviewedInv'
  <1>a. /\ orch \in [Groups -> Orchestrators]
        /\ Groups \subseteq {"prt", "wake", "title"}
    BY PrFlowAssumption DEF FlowInv, FlowTypes, PrTypeOK
  <1>0. IdleRun(NewPr).at = "idle"
    BY DEF IdleRun
  <1>1. \A h \in Groups : orch'[h] = IF h = g THEN IdleRun(NewPr) ELSE orch[h]
    BY <1>a
  <1>2. /\ ~Deciding(g)'
        /\ \A h \in Groups : Deciding(h)' => /\ Deciding(h) /\ h # g
                                             /\ orch'[h] = orch[h]
    BY <1>0, <1>1 DEF Deciding
  <1>3. Resetting' => Resetting
    BY <1>0, <1>1, ResettingFields
  <1>4. HeadInv'
    BY <1>2 DEF FlowInv, HeadInv, Active
  <1>5. ResetInv'
    <2> SUFFICES ASSUME ~overtaken', Resetting' PROVE ResetInv'
      BY DEF ResetInv
    <2>1. /\ ~pr.draft
          /\ \A h \in Groups \ {"prt"} : ~Deciding(h)
          /\ \A h \in Groups : Deciding(h) => /\ orch[h].event = "reset"
                                              /\ ~orch[h].pr.draft
      BY <1>3 DEF FlowInv, ResetInv
    <2>2. QED BY <1>a, <1>2, <2>1 DEF ResetInv
  <1>6. UnreviewedInv'
    <2> SUFFICES ASSUME ~overtaken', ~reviewed' PROVE UnreviewedInv'
      BY DEF UnreviewedInv
    <2>1. /\ ~pr.autoMerge /\ ~pr.merged /\ ~Active("finalizer")
          /\ "passed" \in labels => Resetting
          /\ \A h \in Groups : Deciding(h) => Unaware(orch[h])
      BY DEF FlowInv, UnreviewedInv, Unaware
    <2>2. "passed" \notin labels'
      <3> SUFFICES ASSUME "passed" \in labels' PROVE FALSE
        OBVIOUS
      <3>1. "passed" \in labels /\ Resetting /\ ~Stale(orch[g])
        BY <2>1
      <3>2. orch[g].event = "reset" /\ ~orch[g].pr.draft
        BY <3>1 DEF FlowInv, ResetInv
      <3>3. "passed" \in orch[g].labels
        BY <2>1, <3>1, <3>2 DEF Unaware
      <3>4. PICK q : q = orch[g]
        OBVIOUS
      <3>5. Stale(q)
        BY <3>2, <3>3, <3>4, SeenFields
      <3>6. QED BY <3>1, <3>4, <3>5
    <2>3. \A h \in Groups : Deciding(h)' => Unaware(orch[h])'
      BY <1>2, <2>1, <2>2 DEF Unaware
    <2>4. QED BY <2>1, <2>2, <2>3 DEF UnreviewedInv, Active, Unaware
  <1>7. QED BY <1>4, <1>5, <1>6

\* The end of a run takes labels off and puts none of a review on.
LEMMA FinishInv ==
  ASSUME FlowInv, NEW g \in Groups, FinishRun(g)
  PROVE  HeadInv' /\ ResetInv' /\ UnreviewedInv'
  <1>1. "passed" \in labels' => "passed" \in labels
    <2>1. "passed" \notin StateLabels(orch[g].state)
      BY DEF StateLabels
    <2>2. \E kept, keptRetries : \E adds \in BOOLEAN :
             Relabel(orch[g], kept, keptRetries, adds)
      BY DEF FinishRun
    <2>3. QED BY <2>1, <2>2 DEF Relabel
  <1>2. /\ Deciding(g) /\ orch' = [orch EXCEPT ![g] = IdleRun(NewPr)]
        /\ UNCHANGED <<pr, due, job, reviewed>>
        /\ overtaken' = (overtaken \/ (Stale(orch[g]) /\ "passed" \in labels'))
    BY DEF FinishRun, Deciding
  <1>3. QED BY <1>1, <1>2, EndsGroup

\* A run that fails leaves the labels.
LEMMA OrchestratorFailsInv ==
  ASSUME FlowInv, NEW g \in Groups, OrchestratorFails(g)
  PROVE  HeadInv' /\ ResetInv' /\ UnreviewedInv'
  <1>1. /\ Deciding(g) /\ orch' = [orch EXCEPT ![g] = IdleRun(NewPr)]
        /\ UNCHANGED <<pr, due, job, reviewed, labels>>
        /\ overtaken' = (overtaken \/ Stale(orch[g]))
    BY DEF OrchestratorFails, Deciding
  <1>2. QED BY <1>1, EndsGroup

\* The orchestrators, and what is queued for the group of events, stay.
LEMMA SameRuns ==
  ASSUME FlowInv, orch' = orch, "prt" \in Groups => due'["prt"] = due["prt"],
         pr'.head = pr.head, pr'.draft = pr.draft,
         UNCHANGED overtaken, reviewed => reviewed',
         ~overtaken /\ Active("review")' => job'["review"].head = pr.head,
         ~overtaken /\ ~reviewed' =>
            /\ ~pr'.autoMerge /\ ~pr'.merged /\ ~Active("finalizer")'
            /\ "passed" \in labels' => "passed" \in labels
  PROVE  HeadInv' /\ ResetInv' /\ UnreviewedInv'
  <1>1. Resetting' <=> Resetting
    BY ResettingFields
  <1>2. HeadInv'
    BY DEF FlowInv, HeadInv, Deciding
  <1>3. ResetInv'
    BY <1>1 DEF FlowInv, ResetInv, Deciding
  <1>4. UnreviewedInv'
    BY <1>1 DEF FlowInv, UnreviewedInv, Deciding
  <1>5. QED BY <1>2, <1>3, <1>4

\* A wake of another group is no reset.
LEMMA WakeFields ==
  ASSUME FlowTypes, Wake \/ WakeByTitle, "prt" \in Groups
  PROVE  due'["prt"] = due["prt"]
  BY DEF Wake, WakeByTitle, FlowTypes, PrTypeOK

\* A run of a worker goes on with its head.
LEMMA ToFields ==
  ASSUME FlowTypes, NEW w \in Workers, NEW at, NEW ok, job' = To(w, at, ok)
  PROVE  /\ job'[w].head = job[w].head /\ job'[w].at = at
         /\ \A v \in Workers \ {w} : job'[v] = job[v]
  BY DEF To, FlowTypes, PrTypeOK

\* Steps of the workers: a label that a review puts on is one of the head.
LEMMA WorkerInv ==
  ASSUME FlowInv,
         \/ ResolveReview \/ Review \/ ReadFinalizer \/ ApplyFinalizer
         \/ \E w \in Workers : EndRun(w)
  PROVE  HeadInv' /\ ResetInv' /\ UnreviewedInv'
  <1>a. /\ FlowTypes /\ "review" \in Workers /\ "finalizer" \in Workers
        /\ "finalizer" # "review"
        /\ ~overtaken => (Active("review") => job["review"].head = pr.head)
        /\ ~overtaken /\ ~reviewed =>
              ~pr.autoMerge /\ ~pr.merged /\ ~Active("finalizer")
    BY DEF FlowInv, HeadInv, UnreviewedInv, Workers
  <1>1. CASE ResolveReview
    <2>1. /\ UNCHANGED <<pr, labels, orch, reviewed, overtaken>>
          /\ Active("review")
          /\ due' = due \/ Wake
      BY <1>1 DEF ResolveReview, history, Active
    <2>2. PICK at : \E ok : job' = To("review", at, ok)
      BY <1>1 DEF ResolveReview
    <2>3. /\ job'["review"].head = job["review"].head
          /\ job'["finalizer"] = job["finalizer"]
      BY <1>a, <2>2, ToFields
    <2>4. "prt" \in Groups => due'["prt"] = due["prt"]
      BY <1>a, <2>1, WakeFields
    <2>5. ~overtaken => job'["review"].head = pr.head
      BY <1>a, <2>1, <2>3
    <2>6. ~overtaken /\ ~reviewed => ~Active("finalizer")'
      BY <1>a, <2>3 DEF Active
    <2>7. QED BY <1>a, <2>1, <2>4, <2>5, <2>6, SameRuns
  <1>2. CASE Review
    <2>1. /\ UNCHANGED <<pr, orch, overtaken>> /\ Wake /\ Active("review")
          /\ reviewed => reviewed'
      <3>1. \/ reviewed' = reviewed
            \/ \E signal \in Signals :
                  reviewed' = (reviewed \/ (/\ signal = "passed"
                                           /\ job["review"].head = pr.head))
        BY <1>2 DEF Review
      <3>2. reviewed => reviewed'
        BY <3>1
      <3>3. UNCHANGED <<pr, orch, overtaken>> /\ Wake
        BY <1>2 DEF Review
      <3>4. Active("review")
        BY <1>2 DEF Review, Active
      <3>5. QED BY <3>2, <3>3, <3>4
    <2>2. PICK at : \E ok : job' = To("review", at, ok)
      BY <1>2 DEF Review
    <2>3. /\ job'["review"].head = job["review"].head
          /\ job'["finalizer"] = job["finalizer"]
      BY <1>a, <2>2, ToFields
    <2>4. "prt" \in Groups => due'["prt"] = due["prt"]
      BY <1>a, <2>1, WakeFields
    <2>5. ~overtaken => job["review"].head = pr.head
      BY <1>a, <2>1
    <2>6. ~overtaken /\ ~reviewed' =>
             /\ ~Active("finalizer")'
             /\ "passed" \in labels' => "passed" \in labels
      <3>1. ~overtaken /\ ~reviewed' => ~Active("finalizer")'
        BY <1>a, <2>1, <2>3 DEF Active
      <3>2. ASSUME ~overtaken, ~reviewed', "passed" \in labels'
            PROVE  "passed" \in labels
        BY <1>2, <2>5, <3>2 DEF Review, Signals
      <3>3. QED BY <3>1, <3>2
    <2>7. QED BY <1>a, <2>1, <2>3, <2>4, <2>5, <2>6, SameRuns
  <1>3. CASE ReadFinalizer
    <2>1. /\ UNCHANGED <<pr, labels, due, orch, reviewed, overtaken>>
          /\ Active("finalizer")
      BY <1>3 DEF ReadFinalizer, history, Active
    <2>2. PICK at : \E ok : job' = To("finalizer", at, ok)
      BY <1>3 DEF ReadFinalizer
    <2>3. job'["review"] = job["review"]
      BY <1>a, <2>2, ToFields
    <2>4. ~overtaken /\ Active("review")' => job'["review"].head = pr.head
      BY <1>a, <2>3 DEF Active
    <2>5. ~overtaken => reviewed
      BY <1>a, <2>1
    <2>6. QED BY <1>a, <2>1, <2>4, <2>5, SameRuns
  <1>4. CASE ApplyFinalizer
    <2>1. /\ UNCHANGED <<labels, orch, reviewed, overtaken>> /\ Wake
          /\ Active("finalizer")
          /\ pr'.head = pr.head /\ pr'.draft = pr.draft
      BY <1>4, <1>a
         DEF ApplyFinalizer, Active, FlowTypes, PrTypeOK, PullRequests
    <2>2. PICK at : \E ok : job' = To("finalizer", at, ok)
      BY <1>4 DEF ApplyFinalizer
    <2>3. job'["review"] = job["review"]
      BY <1>a, <2>2, ToFields
    <2>4. ~overtaken /\ Active("review")' => job'["review"].head = pr.head
      BY <1>a, <2>3 DEF Active
    <2>5. ~overtaken => reviewed
      BY <1>a, <2>1
    <2>6. "prt" \in Groups => due'["prt"] = due["prt"]
      BY <1>a, <2>1, WakeFields
    <2>7. QED BY <1>a, <2>1, <2>4, <2>5, <2>6, SameRuns
  <1>5. ASSUME NEW w \in Workers, EndRun(w)
        PROVE  HeadInv' /\ ResetInv' /\ UnreviewedInv'
    <2>1. /\ UNCHANGED <<pr, labels, orch, reviewed, overtaken>>
          /\ WakeByTitle
          /\ job' = [job EXCEPT ![w] = NoRun]
      BY <1>5 DEF EndRun, history
    <2>2. \A v \in Workers : Active(v)' =>
             Active(v) /\ job'[v] = job[v]
      BY <1>a, <2>1 DEF Active, NoRun, FlowTypes, PrTypeOK
    <2>3. "prt" \in Groups => due'["prt"] = due["prt"]
      BY <1>a, <2>1, WakeFields
    <2>4. ~overtaken /\ Active("review")' => job'["review"].head = pr.head
      BY <1>a, <2>2
    <2>5. ~overtaken /\ ~reviewed => ~Active("finalizer")'
      BY <1>a, <2>2
    <2>6. QED BY <1>a, <2>1, <2>3, <2>4, <2>5, SameRuns
  <1>6. QED BY <1>1, <1>2, <1>3, <1>4, <1>5

\* Steps of GitHub, the watchdog and the commands.
LEMMA GitHubInv ==
  ASSUME FlowInv, Check \/ Merge \/ Watch \/ Command
  PROVE  HeadInv' /\ ResetInv' /\ UnreviewedInv'
  <1>1. /\ UNCHANGED <<labels, job, orch, reviewed, overtaken>>
        /\ pr'.head = pr.head /\ pr'.draft = pr.draft
        /\ pr'.autoMerge = pr.autoMerge
        /\ pr'.merged # pr.merged => pr.autoMerge
    BY DEF Check, Merge, Watch, Command, history, FlowInv, FlowTypes,
           PrTypeOK, PullRequests
  <1>2. "prt" \in Groups => due'["prt"] = due["prt"]
    BY DEF Check, Merge, Watch, Command, Wake, FlowInv, FlowTypes, PrTypeOK
  <1>3. /\ ~overtaken /\ Active("review")' => job'["review"].head = pr.head
        /\ ~overtaken /\ ~reviewed =>
              /\ ~pr'.autoMerge /\ ~pr'.merged /\ ~Active("finalizer")'
    BY <1>1 DEF FlowInv, HeadInv, UnreviewedInv, Active
  <1>4. QED BY <1>1, <1>2, <1>3, SameRuns

\* A push finds nothing under way, or overtakes it.
LEMMA PushInv ==
  ASSUME FlowInv, Push, ~pr.merged
  PROVE  HeadInv' /\ ResetInv' /\ UnreviewedInv'
  <1> SUFFICES ASSUME ~overtaken'
               PROVE  HeadInv' /\ ResetInv' /\ UnreviewedInv'
    BY DEF HeadInv, ResetInv, UnreviewedInv
  <1>1. /\ ~overtaken /\ ~pr.draft /\ ~pr.autoMerge
        /\ \A g \in Groups \ {"prt"} : orch[g].at = "idle"
        /\ \A w \in Workers : ~Active(w)
        /\ ~reviewed' /\ UNCHANGED <<labels, job>>
        /\ Changed("reset") /\ "prt" \in Groups
    BY PrFlowAssumption DEF Push, Act
  <1>2. /\ pr'.draft = pr.draft /\ pr'.autoMerge = pr.autoMerge
        /\ pr'.merged = pr.merged
    BY DEF Push, FlowInv, FlowTypes, PrTypeOK, PullRequests
  <1>3. \A g \in Groups : ~Deciding(g)'
    BY <1>1, PrFlowAssumption DEF Changed, Deciding, IdleRun
  <1>4. Resetting'
    BY <1>1, ResettingFields DEF Changed
  <1>5. ~Active("review")' /\ ~Active("finalizer")'
    BY <1>1 DEF Active, Workers
  <1>6. QED BY <1>1, <1>2, <1>3, <1>4, <1>5
            DEF HeadInv, ResetInv, UnreviewedInv

\* A request becomes a draft, or is made ready: the labels were reset before,
\* or the run that was to do it is overtaken.
LEMMA ToggleInv ==
  ASSUME FlowInv, ToggleDraft
  PROVE  HeadInv' /\ ResetInv' /\ UnreviewedInv'
  <1> SUFFICES ASSUME ~overtaken'
               PROVE  HeadInv' /\ ResetInv' /\ UnreviewedInv'
    BY DEF HeadInv, ResetInv, UnreviewedInv
  <1>1. /\ ~overtaken /\ ~Resetting /\ Changed("plain") /\ "prt" \in Groups
        /\ UNCHANGED <<labels, job, reviewed>>
    BY PrFlowAssumption DEF ToggleDraft, Act
  <1>2. /\ pr'.head = pr.head /\ pr'.autoMerge = pr.autoMerge
        /\ pr'.merged = pr.merged
    BY DEF ToggleDraft, FlowInv, FlowTypes, PrTypeOK, PullRequests
  <1>3. \A g \in Groups : Deciding(g)' => Deciding(g) /\ orch'[g] = orch[g]
    BY <1>1 DEF Changed, Deciding, IdleRun
  <1>4. ~Resetting'
    BY <1>1, ResettingFields DEF Changed, IdleRun
  <1>5. HeadInv'
    BY <1>1, <1>2, <1>3 DEF FlowInv, HeadInv, Active
  <1>6. ResetInv'
    BY <1>4 DEF ResetInv
  <1>7. UnreviewedInv'
    <2> SUFFICES ASSUME ~reviewed' PROVE UnreviewedInv'
      BY DEF UnreviewedInv
    <2>1. /\ ~pr.autoMerge /\ ~pr.merged /\ ~Active("finalizer")
          /\ "passed" \notin labels
          /\ \A g \in Groups : Deciding(g) => Unaware(orch[g])
      BY <1>1 DEF FlowInv, UnreviewedInv, Unaware
    <2>2. \A g \in Groups : Deciding(g)' => Unaware(orch[g])'
      BY <1>1, <1>3, <2>1 DEF Unaware
    <2>3. QED BY <1>1, <1>2, <2>1, <2>2 DEF UnreviewedInv, Unaware, Active
  <1>8. QED BY <1>5, <1>6, <1>7

\* A maintainer's label is none of a review.
LEMMA LabelInv ==
  ASSUME FlowInv, Label
  PROVE  HeadInv' /\ ResetInv' /\ UnreviewedInv'
  <1> SUFFICES ASSUME ~overtaken'
               PROVE  HeadInv' /\ ResetInv' /\ UnreviewedInv'
    BY DEF HeadInv, ResetInv, UnreviewedInv
  <1>1. /\ ~overtaken /\ "prt" \in Groups /\ due["prt"] # "reset"
        /\ UNCHANGED <<pr, job, orch, reviewed>>
        /\ "passed" \in labels' => "passed" \in labels
    BY PrFlowAssumption DEF Label, Act
  <1>2. due'["prt"] # "reset"
    BY <1>1 DEF Label
  <1>3. Resetting' <=> Resetting
    BY <1>1, <1>2, ResettingFields
  <1>4. HeadInv'
    BY <1>1 DEF FlowInv, HeadInv, Active, Deciding
  <1>5. ResetInv'
    BY <1>1, <1>3 DEF FlowInv, ResetInv, Deciding
  <1>6. UnreviewedInv'
    BY <1>1, <1>3 DEF FlowInv, UnreviewedInv, Active, Deciding
  <1>7. QED BY <1>4, <1>5, <1>6

\* At first the request has no labels, and there is no run.
LEMMA InitFlowInv == PrInit => FlowInv
  <1> SUFFICES ASSUME PrInit PROVE FlowInv
    OBVIOUS
  <1>1. FlowTypes
    BY InitFlowTypes
  <1>2. /\ \A g \in Groups : ~Deciding(g)
        /\ ~Active("review") /\ ~Active("finalizer")
        /\ "passed" \notin labels
        /\ ~pr.draft /\ ~pr.autoMerge /\ ~pr.merged
    BY PrFlowAssumption
       DEF PrInit, Deciding, IdleRun, Active, NoRun, NewPr, Workers
  <1>3. QED BY <1>1, <1>2 DEF FlowInv, HeadInv, ResetInv, UnreviewedInv

\* Every step keeps the types, ...
LEMMA NextFlowTypes == FlowTypes /\ [PrNext]_prVars => FlowTypes'
  <1> SUFFICES ASSUME FlowTypes, [PrNext]_prVars PROVE FlowTypes'
    OBVIOUS
  <1>1. ASSUME NEW g \in Groups,
               \/ Start(g) \/ Decide(g) \/ Dispatch(g) \/ FinishRun(g)
               \/ OrchestratorFails(g)
        PROVE  FlowTypes'
    BY <1>1, StartTypes, DecideTypes, DispatchTypes, FinishTypes,
       OrchestratorFailsTypes
  <1>2. CASE \/ ResolveReview \/ Review \/ ReadFinalizer \/ ApplyFinalizer
             \/ \E w \in Workers : EndRun(w)
    BY <1>2, WorkerTypes
  <1>3. CASE \/ Check \/ Merge \/ Watch \/ Push \/ ToggleDraft \/ Label
             \/ Command
    BY <1>3, OtherTypes
  <1>4. CASE UNCHANGED prVars
    BY <1>4 DEF prVars, FlowTypes, PrTypeOK
  <1>5. QED BY <1>1, <1>2, <1>3, <1>4 DEF PrNext

\* ... and the invariant.
LEMMA NextFlowInv == FlowInv /\ [PrNext]_prVars => FlowInv'
  <1> SUFFICES ASSUME FlowInv, [PrNext]_prVars PROVE FlowInv'
    OBVIOUS
  <1>1. FlowTypes'
    BY NextFlowTypes DEF FlowInv
  <1>2. ASSUME NEW g \in Groups,
               \/ Start(g) \/ Decide(g) \/ Dispatch(g) \/ FinishRun(g)
               \/ OrchestratorFails(g)
        PROVE  HeadInv' /\ ResetInv' /\ UnreviewedInv'
    BY <1>2, StartInv, DecideInv, DispatchInv, FinishInv, OrchestratorFailsInv
  <1>3. CASE \/ ResolveReview \/ Review \/ ReadFinalizer \/ ApplyFinalizer
             \/ \E w \in Workers : EndRun(w)
    BY <1>1, <1>3, WorkerInv DEF FlowInv
  <1>4. CASE Check \/ Merge \/ Watch \/ Command
    BY <1>1, <1>4, GitHubInv DEF FlowInv
  <1>5. CASE /\ Push \/ ToggleDraft \/ Label
             /\ ~pr.merged
    BY <1>1, <1>5, PushInv, ToggleInv, LabelInv DEF FlowInv
  <1>6. CASE UNCHANGED prVars
    BY <1>1, <1>6 DEF prVars, FlowInv, HeadInv, ResetInv, UnreviewedInv,
                      Deciding, Active, Resetting
  <1>7. QED BY <1>1, <1>2, <1>3, <1>4, <1>5, <1>6 DEF PrNext, FlowInv

\* So it always holds.
LEMMA FlowInvHolds == PrSpec => []FlowInv
  BY InitFlowInv, NextFlowInv, PTL DEF PrSpec

\* The request, the workers and the orchestrators are always of their types:
\* no retry is labelled beyond the last, and no failed run counted beyond the
\* bound.
THEOREM FlowTypeCorrect == PrSpec => []PrTypeOK
  <1>1. FlowInv => PrTypeOK
    BY DEF FlowInv, FlowTypes
  <1>2. QED BY <1>1, FlowInvHolds, PTL

\* However the three groups, the workers, GitHub, the watchdog and people
\* interleave, and whatever calls fail: what is merged without anything
\* having come in between has passed a review of its own.
THEOREM ReviewedHeadMerged == PrSpec => []MergesReviewedHead
  <1>1. FlowInv => MergesReviewedHead
    BY DEF FlowInv, UnreviewedInv, MergesReviewedHead
  <1>2. QED BY <1>1, FlowInvHolds, PTL
=============================================================================
