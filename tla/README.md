# Amnezia control panel: specifications, model checks and proofs

The control panel is a Next.js application (`src/src`) that manages VPN users
on one server and, through *chains*, pushes routing and WireGuard
configurations to other instances of itself ("remote panels"). It keeps its
data in SQLite (Prisma with the better-sqlite3 adapter: one connection, so
transactions are serialised) and some of its state in the memory of one
Node.js process. Requests interleave at every `await`.

This directory holds TLA+ specifications of the parts where that interleaving,
the network between panels, restarts and time make the code hard to test, the
TLC configurations that check them, and TLAPS proofs.

## 1. Inventory

| Component | State | Operations | What makes it hard | What makes it correct |
|---|---|---|---|---|
| Configuration receive and rollback (`sync/receive`, `rollback-manager`) | one `cached_panel_configs` row per sender: current and previous configuration | receive (authenticate, read, decide, transaction), rollback (fetch, swap) | decision on a snapshot, concurrent requests, replays, expiry | the row is a register with one level of history; answers are true; old versions and expired payloads stay out |
| Configuration push (`panel-sync-client`) | per panel: recent failures (breaker); per call: attempts | push to one, push to all | retries, lost answers, late requests, shared breaker | success means the receiver has it; the breaker opens and closes |
| Panel health checks (`panel-health-checker`, panel routes) | failure counts, fallback set, snapshots, cached panel list, API keys | interval, cycle, CRUD, eviction, automatic resync | a cycle suspended while panels are created and deleted | flags agree, checks follow reality, deleted panels are left alone |
| Push orchestration (`panel-push`, `transport-resolver`, `config-diff`) | the tailnet address cached in a server's row; progress events | resolve an address, push selected panels, explain errors | lookups that overlap each other and a rename | the cached address is that of the cached name |
| Applying a configuration (`sync/apply`, `config-applier`) | temporary files, WireGuard and Xray processes | apply | several external steps, any of which fails; names shared within a millisecond; a caller that stops waiting first | success means applied; no file stays behind |
| Chains (`chain-router`, `chain-config-generator`) | chains and nodes | generate, apply | wide data | routing rules match the chain |
| Users and VPN access (users routes, `user-sync`, `vpn-services`) | users, protocols; peers of AWG; clients of 3x-ui | create, update, delete, block, unblock, sync, retry | two systems written in turn; overlapping routes | a blocked or deleted user has no access; addresses are unique |
| Quotas and alerts | alerts | two checks, delete | read, then create | no duplicates in the window, and no first alert swallowed |
| Routing and geo rules | rules | CRUD, templates, enforcement | order of application | rules match what is enforced |
| GeoIP database (`geoip-manager`) | file, lookup index, status | load, refresh, lookup, cleanup | refresh against cleanup and restart | lookup is the longest prefix; a bad download never replaces a good file |
| Login (`login-rate-limit`, `auth/login`) | per-address and global buckets | check, clear | concurrent logins, eviction | attempts per window are bounded |
| Audit log | failure counter | write | swallowed errors | three failures raise an alert |
| Server agent (`acp-agent.sh`) | image tags, container, failure count | care, upgrade, rollback, cleanup (three timers) | timers overlap; failed health checks | a failed upgrade is rolled back; a good release gets to run |
| Repository automation (`.github/workflows`) | labels, worker runs and statuses of a pull request | orchestrate, review, finalize, watch | runs in three groups that overlap, pushes at any moment | what is merged was reviewed; retries are bounded |
| Remote deployment, process life cycle, infrastructure clients, user interface | | | | not modelled: I/O without state of its own |

Components interact through HTTP (push to receive, health probes), through the
database (the row that receive writes and rollback, apply and resync read),
through callbacks between modules in one process (the panel routes call
`evictPanel` and `invalidatePanelListCache`; rollback calls
`pushConfigToPanel` and `cachePanelApiKey`; the health checks call
`pushConfigToPanel` for a resync) and through timers. `PROJECT.json` lists every
hazard with its line.

## 2. Modules

| Module | Models | Extends or instantiates |
|---|---|---|
| `CachedConfig` | abstract: what the stored configuration of one sender promises | |
| `ConfigReceive` | `POST /api/sync/receive` and `rollbackPanelConfig`, step by step | |
| `ConfigReceiveHistory` | the same with history variables; its properties | `ConfigReceive`, `CachedConfig` |
| `ConfigReceive_proofs` | its theorems | `ConfigReceiveHistory` |
| `PanelPush` | `pushConfigToPanel`, the breaker, the version of a batch | |
| `PanelPush_proofs` | its theorems | `PanelPush` |
| `PushSync` | both ends and the network between them | `PanelPush`, `ConfigReceive` |
| `PushSync_proofs` | its theorems | `PushSync` |
| `PanelHealth` | health-check cycle, caches, panel routes | |
| `PanelHealth_proofs` | its theorems | `PanelHealth` |
| `PanelPair` | two panels: push, automatic resync, rollback with its push, API-key cache | |
| `UserAccess` | one user in the database and in the VPN services, all routes | |
| `UserAccess_proofs` | its theorems | `UserAccess` |
| `AwgPeers` | addresses of the AWG peers of several users | |
| `LoginRateLimit` | `checkLoginRateLimit`, `clearLoginAttempts` and the logins between them | |
| `GeoIPIndex` | `buildLookupIndex`, `lookupCountryInIndex`, the CIDR arithmetic | |
| `GeoIPManager` | init, refresh, cleanup and restart | |
| `AcpAgent` | upgrade, care and cleanup runs of `acp-agent.sh` | |
| `Alerts` | the resource and the quota check | |
| `ApplyConfig` | `POST /api/chains/apply` and the panels that answer `POST /api/sync/apply` | |
| `Transport` | `resolvePanelTransport` and what changes under it | |
| `PrFlow` | the orchestrator of pull requests, its workers, the watchdog, GitHub | |
| `Services_proofs` | theorems about the services of one panel and of a server | `AwgPeers`, `GeoIPManager`, `GeoIPIndex`, `Transport`, `LoginRateLimit`, `Alerts`, `AcpAgent` |
| `Workflows_proofs` | theorems about the operations of several machines | `PanelPair`, `ApplyConfig`, `PrFlow` |
| `MCSupervision` | `PanelHealth` and `AcpAgent`, one or the other | both |
| `MCServices` | the nine modules without shared state, one at a time | `AwgPeers` ... `PrFlow` |
| `MCServices_proofs` | what is proved of each of the nine holds of the whole | `MCServices`, `Services_proofs`, `Workflows_proofs` |
| `MCUserAccess` | `UserAccess` on two kinds of instances | `UserAccess` |
| other `MC*` | instances for TLC | |

A definition whose name says what is wrong with it (`SameOrOlderVersion`,
`AttemptFailsOneMore`, ...) is a mutated form of the one that follows it. No
specification uses it; `PROJECT.json` names, for each property, the mutated
form that must violate it.

### ConfigReceive

`current` and `previous` are the columns `config`/`configVersion` and
`previousConfig`/`previousConfigVersion`. A handler goes through `read`
(admitted: authenticated, valid, signed), `decide` (holding `seen`, the
`existingConfig` of the code) and `commit` (about to run the transaction); the
steps are separated by the awaits of the route. `Decide` takes the four
outcomes in the order of the code: same version, not fresh, not newer, commit.
`Commit` is the whole transaction, which reads the row again. `Fail` is a
database error in any of them, `Reject` every refusal before the row is read.
Freshness is a state of each payload: `early` (generated by a clock that runs
ahead by more than five minutes), `fresh`, `expired`, in that order. The
rollback reads, then writes what it read in a statement of its own; other
requests run in between.

A configuration is a version and a body; the body stands for all data that is
applied. Payloads in circulation are a constant set, and any of them may arrive
at any time, any number of times: this covers retries, delays and replays.

### PanelPush and PushSync

A call is `waiting` for the answer of attempt `attempt`, `sleeping` before the
next, or ended. The breaker is the sequence of the ages of recorded failures;
`Tick` ages them and drops those that leave the window, which is what filtering
by time stamp amounts to whenever the code looks; as the oldest come first (the
theorem `InOrder`), what leaves is a prefix. `BatchVersion` is the counter
of `pushConfigToAllPanels`: it restarts in every batch and counts the panels
with a role and a key up to the target.

`PushSync` puts the calls and the receiver together. Each attempt is a request
of its own in `net`, delivered at most once, at any time or never, also after
the sender has timed out, retried, ended or lost interest; answers reach the
sender only if it still waits for that attempt. The receiver can restart. All
pushes of this instance go to one panel.

### PanelHealth

`row` is the database, `edit` the memory work a panel route has still to do
after its database write (the route awaits in between). `cycle` follows
`runHealthCheckCycle`: `query` and `queried` are the two sides of `findMany`,
`loop` and `testing` the two sides of `testPanel`. Time is counted in intervals
of 30 s; the list lives `ListTTL` of them, counted from the start of the cycle
that queried it. The two clocks do not agree to the millisecond: the interval is
a timer, the expiry compares `Date.now()`, and 60 s are exactly two intervals. So
a list may be found expired at any of the ticks up to one after its time, and the
code's list may serve a third cycle (a clock that is set back is left out). Counts
saturate at `MaxCount`, above every value they are compared with. A probe that was started on a row answers by the reachability at
its end. The order in which a cycle visits panels is left open.

### PanelPair

Two panels registered with each other; `cached[x]` is the row panel x keeps for
the other, with what it replaced. Receiving is two steps, as in the route: the
comparison of versions (`Compare`) and the transaction (`Store`), with whatever
else happens to the row in between. An attempt that times out leaves its request
behind before, between or after these (`late`), to be received later, twice or
never; the call tries again or gives up. The number of attempts and the reasons
of a failure are in `PanelPush`, the replay window in `ConfigReceive`. A resync goes through the cached key, the row and the push; a rollback through
the refusals, the swap, the second read and the push. `GrowOld` makes payloads
stale and cached keys expire. What reading the code for it brought out:

- the automatic resync of a panel looks for a row under the id of the panel it
  wants to reach, and only `/api/sync/receive` writes such rows: a panel that
  only sends finds "no cached config", and one that finds a row pushes what it
  had *received*;
- a rollback pushes back to the sender, which refuses it as stale if it holds
  something newer; the rollback itself then stands;
- a key changed by `PUT /api/panels/[id]` stays cached until it expires, because
  `removePanelApiKey` is never called (in the model such a push is one whose
  attempts all fail).

### UserAccess

`user` and `protocol` are rows, `client` is what the services hold by key. A
request has a phase of its own and, in the phases that work on several services
at once (`Promise.allSettled`), a step for each service. A call may fail before
or after it took effect. The 3x-ui service disables a client in place, AWG
removes the peer (`InPlace`). A database error ends the request (`Abort`, also
a stop of the process); in the service part of a PUT the code would go on with
the other services, which `Abort` with the failing calls covers except for
their continuation. Marks on a request are history: whether it overlapped
another, whether a call failed, whether it found rows and clients in agreement.

The services a PUT names are an array that nothing deduplicates. What it has to
do for a service once is in `req`; the repetitions are in `again`, each with its
steps of creating the client, finding the row and writing it, in parallel with
the first (one repetition stands for more). The row keeps the key of whichever
writes last, and the other client stays, unknown to the database.

Behaviours the model has and no property excludes: the second client of a
service named twice; a service added by PUT to a
blocked user gives access at once; `isActive: false` by PUT changes no client; a
removed service whose deletion failed leaves a client nobody knows of; and a
user whose services are repaired by two syncs, one each, stays inactive, because
a sync reactivates only if all protocols were pending and all of them succeeded
(`sync/route.ts:81`).

### AwgPeers

Creation reads the interface, then the database, chooses the lowest free host,
adds the peer and lets its caller record the address: each an await. WireGuard
takes an address from the peer that had it (`Assign`). `raced` is the set of
creations that overlapped that of a peer, `careful` that nothing overlapped and
no query of the interface failed.

### LoginRateLimit, GeoIPIndex, GeoIPManager

A bucket is its count and the ticks it has left. A login takes its slot before
the password is compared; when it succeeds it clears whatever bucket its
address has by then. `Evictions` is expiry and then the oldest bucket.
`admitted` is history: for each number of ticks, the comparisons started since
so many ticks ago; `tried` is the same for each address, counted anew when its
bucket is cleared or evicted before its time. That is less than the comment of
the code promises (`login-rate-limit.ts:13`, "concurrent requests cannot overrun
the limit"): with four comparisons under way, one more that succeeds clears the
bucket and five others may start beside them. Between two successes of an
address the limit holds, over windows that do not fit the buckets twice.

In `GeoIPIndex` an address is its `Width` bits, first the leftmost, and the
shift is JavaScript's, which takes its count modulo the width. A node of the trie
is the bits that lead to it. `GeoIPManager` keeps the two steps in which the file and the index are
replaced apart; `Poor` is any content that fails the checks of a download but
may well be on disk, also one that cannot be parsed (the index is then empty).

### AcpAgent

One action per step of the three runs, over one Docker daemon. `healthcheck`
ends in `die`, which exits also where its result is tested: so the further
attempts of `wait_for_health`, the repairs of `care` and `rollback_image` have no
action, and `EndUpgrade` records how a run ended. A hung app is consequently
never restarted. `Tag` is `tag_last_good_image`, which an upgrade calls before the
pull and after the health check: it tags nothing, and that is no failure, when
the reference is a digest, the image is not found or the daemon is silent; and
it may fail, which ends the run. So an upgrade may succeed without a mark. After
a failed upgrade the next one tags the bad image as last-good.

### Alerts, ApplyConfig, Transport

`alerts` holds the ages of the recent alerts of a kind (type, and severity where
two share one). The resource check looks and creates once per metric, the quota
check reads once for all. What a check has still to do is a set of kinds, taken
in their order (`Ahead`): the metrics one after the other, the thresholds of a
user from below, the users in whatever order they are read.

A call of `ApplyConfig` posts one part after the other (node, service; what is
left is a set, taken in the order `Before`). The panel of a node is the first
whose address contains its name or the reverse, or one whose number is that of
its server: any panel, or none, and two nodes may get the same (`to`). Each
request writes, applies and removes a file that a request of the same
millisecond may share. The caller waits 15 s; the panel may take 5 s and 15 s
for its commands, and goes on when nobody waits. An answer carries the version
of the cached row although what was applied came with the request, and a node
without services counts as applied. The file is removed in the end, or stays when
`unlink` fails, which the code ignores; a panel that is stopped while it works on
a request is the same to its caller as one that never answers (`TimesOut`) and
leaves the file as well.

`Transport` has tier 1 (the row) and tier 3 (the CLI) of the resolver; tier 2
cannot be reached, since it needs what tier 1 would have returned. An address
once cached is used until it is changed by hand, also after a rename.

### PrFlow

`orch[g]` is the orchestrator run of a concurrency group: `prt` for events of the
pull request, `wake` for the wakes that know its number, `title` for the ends of
workers' runs, which are grouped by the title of the run instead. A run fetches (`Start`), decides
(`Decide`, the returns of `makeDecision` in their order), dispatches, and ends
with labels and status (`FinishRun`); each of these is one step. `due` is the
queued wake, of which the newest wins. A state change cancels the run of `prt`.
The workers compare their head when they begin and wake the orchestrator before
and when they end. `overtaken` is history: a push during a wake's run or a
worker's, with auto-merge enabled, or on a draft; a change of the draft state or
a label, or a wake, before the labels were reset after a push; and a reset that
did not take the label of an old head off. Behaviours the model has and that a
maintainer should know:

- `syncLabels` takes each label off with a call of its own and lets it fail
  unnoticed (`allowFailure`), and a run that fails before it decides resets
  nothing: the label of the review of an old head then stays, and the next run
  takes the new head for reviewed;
- the label `needs-review` on a request with auto-merge publishes the status
  success, and GitHub merges it; an approved one has its aggregate pending
  for ever;
- a push to a draft resets no labels, and a change after a push cancels the run
  that would;
- review labels are given without comparing the head again, and
  `gh pr merge --auto` names no head;
- a queued `/review` is lost to any newer wake;
- the watchdog overlooks the status `error`.

## 3. What is checked

Passing runs, and what they say:

| Run | Instance | Properties |
|---|---|---|
| `receive` | 2 handlers (each repeats without bound), 1 rollback, payloads (1,a) (2,b) (2,c) | `HTypeOK`; `AppliedWasInForce`: a version reported as applied was in force during the request; `ExpiredNeverCommits`: the replay defense; `DowngradeNeedsOverlap`: a commit that overlaps nothing raises the version; `ImplementsCachedConfig`: refinement |
| `push` | 2 calls, 3 attempts, breaker at 3 failures | `TypeOK`; `BreakerOvershootBounded`: failures and calls under way never exceed threshold - 1 + calls; `DegradedEnds`; `PushEnds` |
| `sync` | 2 pushes of 2 attempts, breaker at 1, 2 panels | `TypeOK`; `SuccessMeansVersionInForce`; `SuccessMeansInForceUnlessVersionReused` |
| `health` | 1 panel, fallback at 3, list life 2, counts to 4; the agent with 2 images of which one is bad, 2 releases, 1 fault | `TypeOK`, `AgentTypeOK`; `FallbackConsistent`; `EvictedFailuresBounded`: of a deleted panel at most three failures are counted, so it may just fall back; `FollowsReachability`, `DeletedLeftAlone` and, for the agent, `GoodReleaseRuns` (liveness) |
| `users` | 1 request over both services, 2 overlapping ones over 3x-ui, or 1 over 3x-ui that may name it twice; 2 keys | `TypeOK`; `CleanRunsAgree`: a request that nothing disturbs, without failures and repetitions, leaves rows and clients in agreement; `SyncRestores`: so does a sync with the active protocols of the user, in whatever state earlier failures and overlaps left them; `CreateTellsTruth`: a protocol is active exactly if its service reported a client, which is there |
| `services`, addresses | 2 requests, 2 peers, 2 hosts | `AddressesDistinct`: one address twice only by overlapping creations; `CarefulKeepsAddresses` |
| login | 3 addresses, 2 logins, limits 2 and 3, 2 buckets, window 2 | `AddressAttemptsBounded`: over any window no address tries more than twice its limit, until a login from it succeeds or its bucket is evicted; `RecentAttemptsBounded`: twice the aggregate limit, whatever happens to the buckets |
| index | 2 bits, 2 countries, 3 prefixes | `LookupIsLongestPrefix` |
| database | 2 databases, 2 URLs | `ServesTheFile`, `KeepsGoodDatabase` |
| pair | versions 1 and 2; one side resyncs and rolls back, the other pushes; 2 operations and late requests at a time, 1 stale payload | `PeerSetBackOnlyOvertaken`: a panel goes back by its own rollback, or where a row changed between comparison and store; `RollbackReportsPeer` |
| alerts | 2 checks of either kind, 1 metric or user, window 1 | `DuplicatesNeedOverlap`, `ExceededMeansAlert` |
| apply | 2 calls, 2 nodes with a service each, on 1 or 2 panels; 2 requests at a time | `SuccessMeansApplied`; `AloneMeansInForce`: after an undisturbed success the last part of each panel is in force |
| transport | 1 resolver, 1 query, 2 names, 2 addresses | `CachedPairResolved` |
| flow | 2 heads, 2 acts or failures, 1 finalizer retry; the wakes by title when no other is left | `MergesReviewedHead` |
| all of `services` | | `ServicesTypeOK` |

Runs that find what a comment of the code excludes:

| Run | Property | What happens |
|---|---|---|
| `receive_downgrade` | `PushNeverDowngrades` | two receives read the empty or old row, the newer commits, the older commits after it |
| `sync_reuse` | `SuccessMeansInForce` | two batches give the panel the same version; the second is answered "already applied" and reported as pushed |
| `health_evict` | `EvictedLeavesNoTrace` | the cycle is in `testPanel` while the panel is deleted and evicted; it then writes the count and the snapshot again |
| `users_update` | `UpdateTellsTruth` | a PUT adds a service, creating the client fails, and its protocol is stored as active with an empty configuration |
| `agent` | `FailedUpgradeRollsBack` | an upgrade to an image that does not get healthy: the script exits in the health check, and the bad image stays |
| `flow` | `FinalizerRetriesBounded` | the merge keeps failing; a wake that finds the finalizer active takes its retry label off, and the count starts again |

`MCServices` and `MCSupervision` put modules that share no state in one run: the
variable `focus`, chosen at the start, says which of them moves, and each
property speaks of the variables of its own module. So a run explores the sum of
their state spaces and not the product.

**Bounds.** Two handlers and a rollback are the smallest instance in which a
handler is overtaken both by a commit and by a rollback between its read and its
transaction; handlers repeat, so histories are not bounded. Two payloads with
one version show the idempotency check at work on different bodies. Two pushes
with two attempts give four requests, enough for a late first attempt to commit
after the other push. `MaxFailures = 1` in `sync` makes the breaker reachable
there; `push` has the limits of the code. In `health` one panel is enough for
every interleaving of its routes with the cycle, since panels share only the
list; fallback needs the three failures of the code, `ListTTL = 2` is the
code's 60 s over 30 s, and `MaxCount = 4` is one more than anything compared.

Two requests for one user are what two browser tabs do; with both services
their state space is too large, so overlaps are checked over the service that
has three client states, and single requests, of which any number follow each
other, over both; a repetition, which is a second actor, over that service too.
A `VIEW` leaves out what else is marked on a request that was disturbed, since
every property excepts it then, or does not ask. Two peers and two hosts make exhaustion and every clash
possible. Three addresses over two buckets force evictions, and two logins
share or do not share one. Two bits have prefixes of every length from 0 to the
width and malformed ones beyond it; three prefixes nest, repeat and conflict.
Two versions are older and newer. Two calls with one part each per node give two
requests for every file. `MCServices` names three bounds: `FewRequests` (two
operations or late requests of two panels at a time, one of them late, which
are the two that a set-back needs), `FewPosts` (the first node is on the first
panel, two requests at a time, the calls in order) and `TitleAlone` (the end of
a worker's run wakes last). In the pair the key that a resync needs is cached by a rollback, which
needs a row, so a resync that finds no row does not occur; that, other `Kinds`
and all that the three bounds leave out is in the theorems. In
`services` the pull request sees every two acts or failures at every moment of
its life with two heads, such as a push and a failed reset; the theorem
`ReviewedHeadMerged` covers any number of them. `flow` has the retry limits
of the code, one head and five failures, more than the limit. `MaxEvents`,
`MaxReleases` and `MaxFaults` bound what the environment does, never the code.
The theorems below do away with the bounds where they
are proved. Symmetry is used in `receive`, `sync` and `users` (handlers, pushes,
requests and keys are interchangeable and no liveness is checked there).

**Fairness.** `PanelPush`: an attempt is answered or times out (the HTTP client
aborts after 8 s) and a sleep ends, so each call keeps going; time passes. No
batch must be sent. `PanelHealth`: the runtime resumes suspended functions, the
interval keeps firing, and a panel route that wrote the row gets to its memory
work. `FollowsReachability` and `DeletedLeftAlone` assume that restarts and database errors
stop eventually (`Calm`): each of them may cost a list or three failures again.
That is a state of the environment, `troubled`, and not a condition on steps,
because in a steady state a completed probe and a failed lookup are the same
step. `AcpAgent`: the timers start their runs and runs go on; a step that may fail
(the download of the scripts, starting Docker, tagging, pulling, starting the
container) does not fail for ever once it is tried again and again, which is strong
fairness of its success; and Docker decides the health of a container. Releases
and faults need not happen. The other modules have safety properties only.

**Deadlock** is checked except in `sync`, `services` and `flow`, where what is made
once may be done: pushes, calls of a chain, the prefixes of a database, a merged
pull request.

## 4. What is proved

For every value of the constants (`*_proofs.tla`, checked by TLAPS). Type
correctness comes first in each. For the receiver the inductive invariant
`IInv` ties what a handler holds to the history: the row it saw and the row of
the moment were in force during its run (`held`), a decision to commit is a
comparison won against what it saw, a late handler's payload is expired, and
whatever a rollback may restore had been in force. `AppliedWasInForce` needs the
first, `DowngradeNeedsOverlap` the first two, `ExpiredNeverCommits` the third
and the refinement of `CachedConfig` the last. None of them is inductive by
itself: each speaks of the present, and what threatens it was read earlier.

For the health checks `FallbackHolds` is inductive with the types.
`EvictedHolds` is not: how often a deleted panel is still counted as failing
depends on how long a suspended cycle can keep it in the cached list. Its
invariant, `EvictedInv`, is a budget: the failures counted for a deleted panel,
the probe under way and the uses left to the list never add up to more than
`ListTTL + 1`. Each interval turns one unit of the list into a probe, each failed
probe into a count, and a list that is written back after the eviction is dated
from the start of its cycle, when nothing was counted. With the numbers of the
code the bound is three, the limit itself: whether a deleted panel enters
fallback once more is decided by the milliseconds of the timer.

For the push, `BreakerBounded` counts: the failures the breaker remembers and
the calls under way are together never more than the threshold less one and all
calls (`Bounded`), since a call starts only below the threshold and a failure
that is recorded ends one. `TypeInv` adds what types alone do not give: a call
that sleeps has an attempt left, and the failures are in the order of time.

`PushSync_proofs` first shows that each end of the connected system takes only
steps of its own module (`SenderRefined`, `ReceiverRefined`), so that facts about
`PanelPush` and `ConfigReceive` hold of it. `SyncInv` then follows a payload
through the network: the request of an attempt not made is nowhere; what a
handler holds is the payload of its push; while the push goes on, what the
handler has read was in force since the push began, and an answer "applied" is
borne out by what was. A late request cannot break this because the answer it
gives is no longer awaited. `SuccessNamesVersion` and `SuccessNamesConfig` follow.

For users, `UserInv` has one part per operation, each about a request that so
far nothing overlapped. `AloneInv` says that such a request is the only one,
which is why its parts survive: every other action is either its own or makes it
disturbed. The parts relate the step of each service to its row and client
(`CreateParts`, `SyncParts` and so on), and at the answer give `CreateTellsTruth`,
`SyncRestores` and `CleanRunsAgree`; of an update that names a service twice no
part speaks. `UpdateTellsTruth` is refuted by a run.

For AWG addresses `DistinctInv` speaks of creations in progress: each overlaps
all others under way (`raced`), and what it has chosen is recorded only for
peers it overlapped. `CarefulInv` adds, for careful operation, that there is one
request at a time, what the interface shows, and that what the request found
is still so.

`GeoInv` has what a refresh holds between its steps: what has been checked is a
good database, and after the replacement it is on disk. `TransportInv`: what a
lookup is about to store was found under the name it read. `AlertInv` counts, for
each kind, the alerts and the checks that may create another without looking
(`Creators`): the sum is bounded by the checks of the sort; and what an
undisturbed check is done with has its alert.

For the logins, `LoginInv` covers what an address has tried by its bucket: what
was started since the bucket was made is within its count, and a window that
reaches further back adds at most one bucket that expired. `WindowInv` bounds
the comparisons of all addresses in the same way by two aggregate buckets: those started since the aggregate
bucket was renewed are counted in it, and those before were counted by the one
that expired then, which held at most the limit. `RecentAttemptsBounded` alone is
not inductive, since it says nothing of the windows that begin later.

`IndexInv` says what the trie is: its nodes are the ways to the valid prefixes
inserted so far and no others, and each node has the country of the last prefix
that ends there. From that, `LongestPrefixFound` needs no induction over the
trie. A prefix contains an address exactly if its node is on the way of the
address (`MatchIsOnTheWay`), which rests on what the mask is, bit by bit
(`MaskBits`); so the depths with a country that the lookup meets are the lengths
of the prefixes that match (`MetAreMatching`), and the last is the longest. The
case of prefix 0 is needed in `MaskBits`: without it the shift by the whole width
would be one by none.

`AgentInv` has, beside the types, that the server always has a configured image.
`CheckedInv` adds that only a working image is ever healthy and that the
container an upgrade checks is of the configured image; so an upgrade that
reports success has configured one that works, and nothing takes its place until
the next upgrade starts (`GoodUpgrade`). That it is also marked as last-good
cannot be proved, since the mark may be skipped. Of an upgrade that fails nothing
of the kind holds, as the run `agent` shows.

`PairInv` follows what a rollback has in hand: the version it will report is that
of the payload it restores, of the row it reads again, and of what it sends,
until a push replaces it (`Sound`); and that a payload between its comparison and
its store is newer than the row it was compared with (`Newer`, for late requests
`LateInv`), so that only a row that changed since can be set back. `ApplyInv` has
these parts: a request that is under way is the one its call waits for, unless
the call has failed (`OrderInv`), and the parts are taken in their order, each
with a panel (`InOrder`); a part behind an undisturbed call is applied, and in
force if none behind the call came later to its panel (`DoneInv`); and a temporary
name belongs to the request that took it first, so that whoever else holds it
shares it (`NameInv`, `FileInv`).

`FlowInv` is about a pull request that nothing overtook. What is under way is
about its head (`HeadInv`); until the labels are reset nothing but the reset is
decided (`ResetInv`); and while the head has not been reviewed, the label of an
old review is there only if it is to be reset, no run sees it, no finalizer was
dispatched, and nothing is merged (`UnreviewedInv`). That `makeDecision` comes to
the finalizer only past a review is read off its list of returns (`StateFields`).
The attempt to prove it found that the first form of `MergesReviewedHead` held
only because a run allowed one event; see PrFlow above.

`MCServices_proofs` puts these together: the composition takes only steps of its
components (`ComponentsImplemented`), so all that the run `services` checks
holds of it for every value of the constants (`ServicesTyped`, `ServicesHold`).

Two liveness properties have a safety half, which is proved. Every step of a push
under way lowers a measure that is never more than twice the attempts allowed
(`PushesRunDown`): fairness has only to add that it takes its steps. And a deleted
panel that the cycle under way and the lists in use have let go of (`LetGo`) is
never probed again (`LetGoForGood`): fairness has to add that they do.

The assumptions are those the modules name: payloads are configurations with a
positive version (the schema), failures are counted past every number they are
compared with, sets that are counted (pushes, logins, checks) are finite, the limits
are positive, what is a sequence in the code repeats nothing (`NodeSeq`,
`Services`, `Metrics`), there are two panels in `PanelPair`, acts of people wake
the group of events, and the sentinels are no values (`Absent`, too, is no panel,
no snapshot and no number). Nothing else is assumed about the constants: every
number of requests, panels, peers, checks, heads and failures is covered.

## 5. What is not modelled or only model-checked

Every invariant and action property of the passing runs is proved. Only
model-checked, and why:

- liveness (`DegradedEnds`, `PushEnds`, `FollowsReachability`, `DeletedLeftAlone`,
  `GoodReleaseRuns`): it rests on fairness and ENABLED, which the prover does not
  handle; of two of them the safety half is proved;
- the properties of the runs that expect a violation, which do not hold.

Not modelled: deletion of the sender's row, which cascades to its cached
configuration; the contents of configurations, and with them the generation of
chains and the routing rules (pure transformations); the formats of the GeoIP
file; passwords, tokens and CSRF; what external commands do; bootstrap and
removal of the agent; in the automation, dependency review, PR Improve, the
advisory and external reviewers, and the tools for issues and plans. The
components marked "not_modelled" in `PROJECT.json` have their reason there. Much
of the repository is user interface, such tools and tests; the modules above
cover a small share of its lines.

## 6. Plan

Done: the modules of section 2 and the theorems of section 4. What would be worth
adding:

1. `PushSync`: to state `BreakerOvershootBounded` and `AppliedWasInForce` of the
   connected system. Both follow from the refinements, but the prover cannot
   carry the assumptions of the refined modules over, so they would have to be
   proved again under the names of the instance.
2. `PrFlow`: the label `needs-review` with auto-merge, once the documents of the
   repository say what it should do.
3. Routing and geo rules: the order in which rules are enforced.
