# Clay Seal Identity in TLA+

A verification project for the `clayseal-identity` repository: the identity
service (`src/clayseal/backend`, FastAPI over SQLAlchemy), its SDK
(`src/clayseal/identity`, `src/clayseal/workload_keys.py`) and the JavaScript
verifier (`src/js`). TLC checks the models on small instances, TLAPS proves the
most important of the checked properties for every value of the constants.

## 1. Inventory

A *tenant* (customer) holds API keys, JWT signing keys, Biscuit root keys, an
X.509 CA, trust anchors and registration entries. A workload presents attested
evidence to `POST /v1/identify` and receives an `Agent` row, a JWT-SVID, perhaps
a Biscuit and an X.509-SVID. Relying parties verify offline from the published
keys, or call `/v1/validate` and `/v1/authorize`, which also see revocations.

All shared state is in one database. A request handler is a thread with its own
session (`db.py:get_db`): a sequence of statements under READ COMMITTED, in
one or several transactions, rolled back when the session closes. Several
server processes run at once. So the behaviours that are hard are the
interleavings of statements and commits, writes of values read earlier, death
between two commits, and time passing anywhere.

| Component | State | Operations | What makes it correct |
|---|---|---|---|
| JWT signing keys (`identity.py`, `signing_keys.py`) | `signing_keys` rows | `get_active_key` (select, heal, create), `rotate_key`, `issue_credential`, `build_jwks` | every live token's key is published; a tenant is not left without a key; a heal leaves one key and those created since |
| Attestation (`attestation.py`, `node_attestors.py`) | `attestation_uses` rows | verify evidence, `record_attestation_use`, match, mint, prune | evidence mints once; a failed call does not spend it |
| Agents (`identity.py`, `capabilities.py`, `retention.py`) | `agents`, `biscuit_revocations` | issue, `validate_token`, `verify_capability`, `revoke_agent`, `prune_expired` | an acknowledged revocation holds; nothing valid is pruned |
| Audit trail (`audit.py`) | `audit_events`, a lock per process | `record_event`, `verify_event_log` | the chain verifies; append-only; every call ends |
| Challenges (`capabilities.py`) | `capability_challenges` | issue, consume, prune | a challenge serves one request |
| Proofs of possession (`workload_keys.py`, `mcp_server.py`) | in-memory replay cache | verify, `store_if_new` | a proof is accepted once |
| API keys (`deps.py`, `cache.py`, `api_keys.py`) | `customers`, `tenant_api_keys`, a cache per process | create, authenticate (cached), upgrade, revoke | a revoked key stops working; a valid one goes on |
| Database connections (`db.py`, `audit.py`) | pool | request session, audit session | threads block each other only when the pool is full of them, and not for good |
| Registration (`identity.py`) | `registration_entries` | register, lint, match | what lint passes is never ambiguous |
| Biscuit roots and capabilities (`capabilities.py`) | `biscuit_root_keys` | create, rotate, mint, attenuate, authorize | attenuation only narrows; old tokens verify |
| X.509 (`x509_svid.py`) | `x509_ca_keys` | create, rotate, issue leaf, bundle | every live leaf's CA is in the bundle |
| Rate limiter (`rate_limit.py`) | counters in memory | `check` | less than twice `limit` in any window's time |
| SDK: HTTP client (`_http.py`, `client.py`) | retry counter | request, retry | no request is repeated that may have been served |
| SDK: sessions and protected tools (`session.py`, `agent_tools.py`) | token and key of a session | attenuate, delegate, authorize, call a tool | a derived session has no right its source lacks; a tool runs only when cleared |
| mTLS binding (`mtls.py`, `deps.py`) | - | `verify_mtls_binding` | the certificate presented is the session's |
| SDK: offline verifier, adapters; JavaScript verifier | - | verify a token with a published key set | (stateless, not modelled) |
| Federation, discovery, configuration, start-up, migrations | - | serve and parse | (not modelled) |

The hazards of each, at their lines, are in `PROJECT.json`.

## 2. Plan

The order is by what a failure would cost a deployment.

1. **SigningKeys** with proofs - done.
2. **NodeAttestation** with proofs - done.
3. **AuditLog**, refining **AppendOnlyLog**, with proofs - done.
4. **AgentLifecycle** with proofs - done.
5. **X509Bundle** with proofs - done.
6. **ProofOfPossession** (challenges and replay caches) with proofs - done.
7. **ApiKeys**, **ConnectionPool**, **RateLimiter**, composed in **RequestPath**
   with the SDK's HTTP client, with proofs - done.
8. **Capabilities**, **Registration**, **RootKeys**, composed in **Delegation** with
   the SDK's sessions and tools, refining **LeastPrivilege**, with proofs - done.

Left out of the plan: a composition of SigningKeys with NodeAttestation. The one
thing the two share is that the creation of a key commits the transaction of a
one-time record, and that commit is an action of NodeAttestation
(`ProvisionKey`); the product would explore the interleavings of two machines
that do not touch each other otherwise.

Abstract specifications: the append-only log (`AppendOnlyLog`), the promise of
published keys (`TrustStore`, implemented by the signing keys, the CAs and the
Biscuit roots alike) and the promise of capability tokens (`LeastPrivilege`). Each
states what its reader may conclude from it, and these consequences are proved
too, so that what a refinement is worth can be read without its steps.

Open: an abstract specification of what revocation promises, which
AgentLifecycle and ApiKeys would both implement.

## 3. Modules

Every component module has one action per database statement or commit, so that
TLC interleaves requests exactly where the database lets them interleave.
Definitions that start with a comment "Mutant:" are faulty variants of the
definition that follows; they belong to no specification and show that the
properties can fail.

### SigningKeys (`identity.py` 126-214, 262, 974-993)

A kid is the rank of its key by `created_at`. `IssueSelect`, `IssueHeal`,
`IssueCreate`, `IssueSign` are `get_active_key` and the signing that follows;
`RotateSelect`, `RotateRetire`, `RotateCreate` are `rotate_key`; `Abort` is a
request that dies at any of these points. `CommitRetirement` writes the two
dirty columns of the rows the session marked, whatever they hold by then.
`Tick` lets time pass only while each request meets its deadlines: at most
`ReadToSign` from reading the key to signing, `StampToCommit` from stamping
`retired_at` to its commit. The 300 s of `build_jwks` are `Grace`; the
assumption `ReadToSign + StampToCommit <= Grace` says what they are for.
`TtlAssumption` is a requirement on the deployment: `config.py` does not check
that the default TTL is below the maximum.

### TrustStore (`identity.py`, `x509_svid.py`, `capabilities.py`)

What a verifier that is offline relies on: keys are introduced, credentials are
issued under a published key, and keys are withdrawn that no live credential
needs, for good. `published` maps to `PublishedKeys`, `Bundle` and `PublishedRoots`,
`void` to the keys that exist and are not among them, `live` to the unexpired tokens,
the unexpired leaves of at most the default lifetime (of the longer ones it is not
true, section 6) and the tokens of sessions. A retirement maps to a stutter, the
time at which its key leaves the published set to `Withdraw`. `WithdrawnForGood` is
worth having because two requests may retire the same key and the later one
overwrites `retired_at`: were it late enough, the key would come back. The
`WithdrawalAssumption` of the three modules (twice the time from stamp to commit is
less than the time a retired key stays) excludes that; without it TLC finds the key
that returns.

### NodeAttestation (`attestation.py`, `node_attestors.py`, `identity.py` 217-372, 626-738)

The calls of one tenant, each with a piece of evidence. `Verify` computes the
one-time key and when it lapses, by kind of evidence: the `jti` and `exp` of a
signed document; for a projected Kubernetes token the pod and a time bucket; for
an EC2 document the boot, with no expiry of its own. `Record` is the insert
inside a savepoint: it waits for an open transaction with the same key and is
refused by a committed row. `ProvisionKey` may commit the transaction early,
because `get_active_key` and `get_active_root_key` share the session. `Mint`
commits agent and record; `Fail` rolls back; `Prune` uses a clock it read before.

### AgentLifecycle (`identity.py` 753-968, `capabilities.py` 445-569, `retention.py`)

Requests that validate, authorize and revoke agents while they expire and are
pruned. `MarkExpired` is the unconditional UPDATE of `validate_token`;
`ReadIds`/`WriteRevocation` are `revoke_biscuit_ids` and the commit, which a
concurrent revoke may turn into an IntegrityError. `late` and `acked` are
history: a request that began after a revoke was acknowledged.

### X509Bundle (`x509_svid.py`)

The CA table under issuance and rotation. `get_or_create_ca` is `IssueSelect` and
`IssueCreate`; `rotate_ca` is `RotateSelect`, `RotateRetire` and then
`get_or_create_ca` again (`RotateReselect`, `RotateCreate`), which is content with
any other active CA. `LeafTtls` is what `identify` passes on, including the
`timedelta.seconds` of a credential that lives for whole days. `Bundle` is the
cutoff of `x509_trust_bundle`.

### ProofOfPossession (`capabilities.py` 275-330, `workload_keys.py` 143-196, `mcp_server.py`)

Two users of one proof format. In the identity service `Claim` is the conditional
UPDATE of `consume_server_challenge`, which waits for a row that another request
has claimed, `CommitClaim` its commit and `Serve` the handler after it. In a tool
server `Check` is the freshness test inside `authorize_biscuit`, `ReadClock` and
`Store` are `store_if_new` before and under its lock. Both compare `iat` with the
clock through `Fresh`. `wins` and `accepts` are history.

### AuditLog, AppendOnlyLog (`audit.py`)

`Lock`, `ReadLast`, then `Return` (insert and commit), `Conflict` (the primary
key is taken), `Refuse` (a database error, which may hide a commit) or `Crash`
(all calls of the process). A hash is represented by what was hashed, so two
rows have the same hash only if their chains are the same. `Promise` maps the
table to the list of its events and a call's stage to open, unsure (a database error
may have hidden a commit), returned or raised; only an unsure call appends again.
`MaxRows` only has to leave room for every attempt of every call.

### ConnectionPool (`db.py`, `audit.py`, `config.py`)

Which requests of a process hold one of its `Capacity` connections. `Query` is a
statement of the request's session, which takes a connection unless it has one;
`Release` is a commit or the close of `get_db`. `LockAudit`, `ConnectAudit` and
`AppendEvent` are `record_event`: it takes the process's `_lock` and only then a
connection for a session of its own, while the caller may still hold one
(`db.refresh` began a new transaction). `TimeOut` is `pool_timeout`; nothing bounds
the wait for the lock.

### ApiKeys (`deps.py` 22-200, `cache.py`, `api_keys.py`)

`get_current_auth` in the steps between which other requests run: `Lookup`
(`TTLCache.get`), `Recheck` (the row of a hit, as it is now), `Candidates` (SELECT
by lookup), `FindLegacy` (SELECT by the whole key), `Upgrade` with its commit,
`Refresh`, `Remember` (`TTLCache.set`). A hash is the number of the salt it was made
with, so an upgrade makes every cached hash stale. A row that a session has
loaded is not refreshed by a later SELECT, which `verified` models. The cache may
drop an entry at any time.

### RateLimiter (`rate_limit.py`)

`Arrive` is the middleware: both buckets in one step, since it does not await
between them, the address first. `Count` is `FixedWindowRateLimiter.check`. A bucket
that was never hit has count 0, and so has one that `_evict_stale` dropped. `hits` is
history.

### RequestPath (`_http.py`, `client.py`, `routers/identity.py`)

The four above and a client, from `HttpClient.request` to its answer: `ConnectError`
and `LoseAnswer` are its two kinds of failure, `Receive` and `Again` decide on a
retry. The handlers are the creation and the revocation of a scoped key and a read,
so the keys requests are checked against change under them. A request whose
answer is lost goes on in its thread. `Crash` ends the threads of a process and
empties its cache and counters. `effects`, `events`, `late` and `overtaken` are history.

### Capabilities (`capabilities.py`, `biscuit_scope.py`, `_core.py`, `_capabilities.py`)

The algebra, without state: `Normalize`, `Reconcile`, minting (`Biscuit`),
`Attenuate`, the Datalog decision (`Grants`: the policy of `_AUTHORIZER_POLICY` and the
checks of every block), `PathFacts` and `InScope`, the proof of possession
(`Proves`) and their conjunction `Authorizes`. Names, patterns and `fnmatch` are
constants.

### Registration (`identity.py`, `attestation.py`, `routers/identity.py`)

Attestors and entries as an administrator creates and deletes them, the two
linters, the selectors evidence proves, and `_match_entry`. An entry keeps the set
of its selectors and the length of the list: the linter counts the one, the
matcher the other.

### RootKeys (`capabilities.py` 174-270)

`get_active_root_key`, `rotate_root_key` at its commits and `build_biscuit_jwks`.
Unlike the signing keys, nothing heals here: any active row will do.

### Delegation, LeastPrivilege (`identity.py` 626-738, `session.py`, `agent_tools.py`, `mtls.py`)

An identify request is `Attest`, `Match`, `Stamp`, `ReadRoot`, `CreateRoot`, `Mint`, each
a statement after which an administrator or a rotation may step in. A session
receives the token; `Narrow` (attenuate) and `Delegate` derive others from it
offline. `CheckTool` is `ProtectedTool._before`, `RunTool` the tool after it,
`CheckServer` is `POST /v1/authorize` with `MtlsAccepts`.

LeastPrivilege says what this is for: rights come from what was approved, a
derived holder has none its source lacks, rights only lapse. The mapping takes
for the rights of a holder what `Grants` says of its token at this moment.
`Administer` maps to `Approve` or a stutter, `Mint` to `Endow`, `Narrow` and `Delegate` to
`HandOver`, `Tick` to `Lapse`, a check that goes ahead to `Begin`, `EndCall` to `End`.

## 4. What TLC checks

| Run | Instance | Shows |
|---|---|---|
| `signing_keys` | 3 requests, 3 keys, 1 token, clock 0..4, TTL 2 (the longest), grace 2; symmetric requests | `KeepsTrust`, `KeylessOnlyMidRotation`, `HealsToNewest` |
| `node_attestation` | 3 calls, all choices of 3 kinds of evidence, window 2, clock 0..2 | `OneMintPerLapse`, `SecondMintOnlyAfterExpiry`, `BurntOnlyByMintOrKey`, `EveryCallEnds` |
| `ec2_document_mints_twice` | 2 calls, one EC2 document | a second mint after pruning (finding) |
| `agent_lifecycle` | 3 requests, one agent with and one without a Biscuit, clock 0..2, no grace | `RevokedStaysDead`, `RevokedShowsUntilExpiry`, `ValidIsKept` |
| `revoked_pruned` | 2 requests, 1 agent | a revoked agent is pruned (finding) |
| `x509_bundle` | 3 requests, 3 CAs, 1 leaf, default lifetime 1, slack 3, clock 0..4; symmetric | `KeepsTrust`, `CaLostOnlyMidRotation` |
| `long_leaf_outlives_ca` | 1 request, 2 CAs; the code's settings in units of 5 minutes | a valid leaf without its CA in the bundle (finding) |
| `proof_of_possession` | 3 requests with 1 challenge, 2 threads with 1 proof, window 2, any `iat`, clock 0..3; symmetric | `ChallengeServesOne`, `RefusedForCause`, `ReplayOnlyAtWindowsEnd` |
| `audit_log` | 2 threads of one process, 1 of another, 2 attempts | `ChainIntact`, `GivesUpOnlyToProgress`, `EveryCallEnds`, `KeepsPromise` |
| `request_path` | 2 calls in 7 pairs, 1 retry, 1 process, 2 connections, the bootstrap key (modern or legacy) and a scoped one, cache of 1, 1 crash, window 2, limit 2 (one pair, no crash) or none, clock 0..2 | `RevokedKeyIsRefused`, `KeyRefusedForCause`, `EffectAtMostOnce`, `AnswerTellsTheTruth`, `StallNeedsFullHouse`, `BurstBound`, `EveryRequestEnds` |
| `delegation` | 3 sessions, 1 issuer, 2 entries, 2 anchors, 2 rotations, 3 root keys, 2 allowed patterns and 1 denied, clock 0..4, budgets below; symmetric | `LintedTablesDecide`, `MintsWereApproved`, `UsesAreBound`, `DeniedStaysDenied`, `RightsOnlyShrink`, `KeepsTrust` |
| `allow_list_widened` | the same without time; 1 session attenuated twice, 1 tool call | a path cleared that the first session's allowed pattern excludes (finding) |

*Why the bounds are enough.* Three requests are one more than any race here
needs: two that conflict and one that acts between them; with two, the rotation
that is overtaken by a heal and then by another rotation does not occur. One
token suffices for `KeepsTrust`, which speaks of one credential at a time, and the longest lifetime alone:
what is kept for it is kept for a shorter one signed at the same moment.
`KeepsTrust` stands where `PublishedUntilExpiry` and `ShortLeavesVerify` could: it
implies both (`Verifiable`), and they remain as invariants of the proofs.
The clocks reach past every expiry, lapse, cutoff and (window 2) bucket
boundary. Three appenders in two processes give a conflict, the retry after it
and an exhausted call. Where a theorem exists the bounds do not matter.

In `request_path` two calls that change something fill a pool of two connections
at `record_event`, which is what a stall takes; a read may have two requests
under way, the first with its answer lost; the crash forgets a cache and a
counter once; two windows fit into the clock with their boundary, and the four
requests of two reads can put three hits across it, the most a limit of 2 admits
(`BurstBound` with one hit less fails). One process is
enough because processes share only the rows, and a crash followed by a new
cache is like a second process; the theorems are for any number.

In `delegation` a table of budgets bounds how often each kind of operation
happens, so that each run of the state space combines the operations that meet:
four registrations or deletions with two mints; two rotations with a mint and
four ticks; two derivations with a tool call and two ticks; a derivation with a
check by the server. mTLS matters only to the last. The chain of three sessions
is the shortest in which what the first denies passes through another.

Deadlock checking is off because all these systems come to rest when their
requests are answered and the bounded clock has run out.

*Fairness.* Only three properties need it. In NodeAttestation a request that can
insert, provision or mint does so (`WF`); failure is never assumed, so a call
that waits for another's row is shown to be woken by the end of that
transaction. In AuditLog a thread whose next step is possible takes it; a database
error or a crash is never assumed. In RequestPath each request has weak fairness for `Serve`: its
thread is scheduled, the database answers, and `pool_timeout` fires. Nothing is
assumed of clients or crashes. All three are the scheduling of threads and the
release of row locks at the end of transactions; nothing is assumed about
pruning or the order in which waiting threads get the lock.

## 5. What is proved

`SigningKeysProofs`, `NodeAttestationProofs`, `AgentLifecycleProofs`, `AuditLogProofs`,
`X509BundleProofs`, `ProofOfPossessionProofs`, `RequestPathProofs` and
`DelegationProofs` prove every safety property of the passing runs, for any number
of requests, keys, agents, rows, tokens, sessions, entries and attempts:

* `TypeOK` of each module.
* **RotationNeverStrandsAToken** (`PublishedUntilExpiry`). The invariant has to
  speak of the requests in flight: a retired key a request still holds was
  stamped no earlier than `StampToCommit` before now and was read no more than
  `ReadToSign` ago, hence `retired_at` bounds the `iat` of every token of that
  key up to the grace.
* **NeverStrandsATenant** (`KeylessOnlyMidRotation`). A request that heals holds
  a key newer than all those it retires; the newest key is therefore retired
  only by a rotation, which then creates one.
* **HealedToNewest** (`HealsToNewest`). `HealsMissNone`: between its SELECT and its commit
  a heal has marked every active key older than the one it keeps, because keys are
  born in order and none becomes active again.
* **OneTimeLedger**, **DocumentIsSpent**, **FailureKeepsEvidence**. The invariant
  `LedgerInv`: a call that holds a claim has its row in the table or in its open
  transaction until the row lapses; two claims of one key are apart; a row of a
  call that failed was committed early.
* **RevocationHolds** (`RevokedStaysDead`), **RevocationShows**,
  **ValidIsNeverPruned**. That an agent is revoked is not inductive, for a late
  validation writes `expired` over it. What lasts is `AckedIsDead` (never active
  again, and on the deny-list if it has a Biscuit) with `ExpiredIsExpired`
  (nothing but the clock marks it expired); `LateSeesRevoked` adds that, while
  a late validation holds a valid token, nobody is about to overwrite the row.
* **LogAlwaysVerifies** (`ChainIntact`). The filled sequence numbers are an
  interval from 1, and a writer about to insert holds the entry hash of the row
  before its sequence number, because rows are never changed or removed.
* **ContentionIsProgress**: a lost attempt means the number it had computed is
  filled, which was free when it began the attempt.
* **TrailIsAppendOnly**: the refinement `Spec => KeepsPromise`; `InsertAppends`
  shows that filling the next row appends to the mapped sequence.
* **BundleServesShortLeaves** (`ShortLeavesVerify`), **CaIsReplaced**. As for the
  signing keys: a retired CA that a request still holds was read no later than
  `StampToCommit` after the stamp, so each of its leaves was signed within
  `StampToCommit + ReadToSign` of `retired_at`, which `SlackAssumption` puts
  inside the slack.
* **ChallengesAreSingleUse**, **RefusalsAreJustified**. `OneClaimant`: the row lock
  leaves one claimant of an open row; `RowsTell` ties a used row to a winner and a
  pruned one to its expiry.
* **ReplayBound** (`ReplayOnlyAtWindowsEnd`). `CacheInv`: an accepted proof is in the
  cache as long as `now < iat + MaxAge`, because a thread's clock is never ahead.
* **RevokedKeysRefused**, **KeysRefusedForCause** (RequestPath). `KeyInv` follows the rows:
  they only move forward (absent, active, revoked; plaintext to upgraded), so a
  late request finds its key revoked at whichever statement it has reached, and a
  request that missed the tenant's row in one SELECT misses it in the next only if
  an upgrade came between.
* **EffectsAtMostOnce**, **AnswersAreTrue**. `EffectInv`: a call that changes something
  has at most one request under way, because it sends again only what never
  reached a server; `Progress` ties the stage of that request to the counts of
  commits and events, and `Told` the client's outcome to both.
* **StallsNeedFullHouse**. If every thread is blocked, none is at a step that needs
  no connection; each connection is then held by a request that waits for the lock
  or for the auditor's connection. The rest counts finite sets.
* **BurstsAreBounded** (`BurstBound`). `BurstInv`, per bucket: the admitted hits of the
  current window are at most its count and at most the limit, those in the
  `Window` seconds before it less than the limit, because the first hit of their window
  lies further back, and those of any `Window` seconds less than twice the limit.
* **MintsWereApprovedAlways**. `WindowInv` and `ApprovalInv`: the entry a request has
  matched was in the table at some moment since its evidence was verified.
* **UsesAreBoundAlways**, **DeniedStaysDeniedAlways** (paths that a pattern denies or that
  escape; allowed patterns do not narrow, section 6). `ChainInv`: the token of a session
  extends its source's by one block and is bound to the key that was attested;
  `Ancestry` carries this along a lineage of any length, which `Lineage` defines
  as the smallest set of holders closed under stemming from one another. `CallInv` says of the call under way what
  was decided when it began.
* **JwksKeepsTrust**, **BundleKeepsTrust**, **RootsKeepTrust** (`KeepsTrust`): the
  refinements of TrustStore. That live credentials verify is
  `PublishedUntilExpiry` or `ShortLeavesVerify`. That a withdrawn key stays away needs
  `RemarksInTime`: a request that is about to overwrite `retired_at` of a key that is
  already retired read the key as active before the first commit, hence no more
  than `StampToCommit` after the first stamp, and commits within `StampToCommit` of
  its own; so its commit comes before the key is withdrawn, and rewriting the
  stamp only keeps the key longer. **TrustIsSound** and **JwksIsTrustworthy**
  draw the conclusions, `Verifiable` and `WithdrawnForGood`.
* **LeastPrivilegeIsSound**, **NoPrivilegeIsGained**: in LeastPrivilege, and so in the
  code, no holder has a right that was never approved (`OnlyApproved`), and none
  that has its token gains one (`NoGain`).
* **LogIsSound**, **TrailKeepsEvents**: in AppendOnlyLog, and so in `record_event`, an
  event whose call returned is in the log, nothing in it is altered or lost, and none
  is appended again unless a database error left its call unsure.
* **NoRequestIsStuck**, **EveryStepIsProgress** (RequestPath), **NoAppenderIsStuck**,
  **EveryAttemptCounts** (AuditLog), **EveryStepIsProgress** (NodeAttestation): what
  the liveness properties rest on, apart from fairness. Every request under way
  has a step, or waits for a lock whose holder has one; every step of a thread
  lowers `StepsLeft`, and no other actor raises it. For RequestPath this takes
  `WaitInv`: the pool is never overdrawn (**PoolIsNeverOverdrawn**), a session has its
  connection from the first statement to its commit. In AuditLog each lost attempt is one fewer. `Ready` lists
  the guards of `Serve`; TLC confirms that it equals `ENABLED Serve(r)` when
  `ReadyIsEnabled` of MCRequestPath is added to `RequestPath.cfg` as an invariant.
* **RightsOnlyShrinkAlways**: the refinement of LeastPrivilege. That derivation hands
  over no more than there is follows from `DescentNarrows`: each block adds checks,
  to a decision that is a conjunction.
* **PublishedUntilExpiryAlways** for the roots. `Lasting` bounds the expiry of a token
  by the retirement of its root; `PendingInv` and `MintedInv` carry it for requests
  that have read a root and sessions that hold a token, `InTimeInv` for rotations
  between stamp and commit. The assumption `StampToCommit < Grace` is used here: it
  is strict because a token is still good in the second of its `exp`.
* **LintedTablesDecideAlways**. Among the matching entries one has the longest list
  (`Greatest`, over finite sets of selectors), in a linted table no two have as many
  selectors, and without repeated selectors the two counts are the same.

The proofs rest only on the named `ASSUME`s of the modules, which TLC evaluates in
every run. *Not proved*: liveness (`EveryCallEnds` of two modules,
`EveryRequestEnds`). The provers cannot reason about fairness and `ENABLED`, nor add
up `StepsLeft` over any number of threads by induction, so the conclusion from
the theorems above stays with TLC.

## 6. What the code does not do as documented

* `node_attestors.py:331`: an EC2 document mints once. It mints again when the
  record of its use was pruned (`ec2_document_mints_twice`); `OneMintPerLapse` is what
  holds instead.
* `retention.py:9`: revoked rows are kept. A validation that read the row before
  the revoke marks it expired, and it is pruned (`revoked_pruned`).
  `RevokedStaysDead` shows that the revocation nevertheless holds.
* `models.py:179`: retired CAs stay in the bundle until their leaves expire. They
  stay for 65 minutes, and leaves live for up to a day (`long_leaf_outlives_ca`).
  `ShortLeavesVerify` is what holds.
* `capabilities.py:386`: attenuation "Cannot widen anything". The `allowed_path` facts of
  all blocks are taken together, so a block with a second pattern admits paths the
  first one excluded (`allow_list_widened`, `PathsOnlyNarrow`). `RightsOnlyShrink` and, for
  what is denied, `DeniedStaysDenied` are what holds.

Further points that reading the code for the models showed, and that no run is about:

* `node_attestors.py:307` says that "the same token can't mint twice". The one-time key of
  a projected pod token holds a time bucket, so on either side of a bucket boundary
  the same token has two keys and mints twice. `OneMintPerLapse` excepts exactly this
  case; without the exception the run `node_attestation` finds it.
* `mcp_server.py:99`: a proof is accepted once within its window. In the window's
  last second, `iat + 300`, `store_if_new` has forgotten it while `verify_request_pop`
  still accepts it (line 116). `ReplayOnlyAtWindowsEnd` is what holds; with
  `accepts[x] <= 1` in its place the run `proof_of_possession` finds the replay.
* `models.py:126` speaks of exactly one active signing key. Two rotations at once leave
  two; the next `get_active_key` heals it.
* `deps.py:109`: a legacy key without a `cs_<lookup>.` prefix works once. The upgrade
  stores the tenant's id prefix in `api_key`, where no later request looks
  (the third cause of `KeyRefusedForCause`).
* An upgrade that commits between the two SELECTs of another request makes that
  one a spurious 401 (the second cause).
* An operation that was committed stays without an audit event, and the client gets
  a 500, when the audit trail's connection times out. `AnswerTellsTheTruth` leaves
  a failure open for this reason.
* `identity.py:597` says that ties are broken by the earliest creation; the code raises.
* The linter counts distinct selectors, the matcher the length of the list: with a
  repeated selector they disagree; `LintedTablesDecide` confines it to those entries.
* `attenuate` and `delegate` with an empty list narrow nothing; narrowing
  `(db, read)` to `(db, "*")` leaves a session that may do nothing.
* `POST /v1/authorize` passes no path, so path caveats do not count there.
* `agent_tools.py:271`: methods of a protected tool other than the four ways to call it
  pass through unguarded.

## 7. Not modelled

*Simplified.* Sessions run under READ COMMITTED, the default of the production
database; SQLite in development serialises writers and shows fewer interleavings.
A selector field has one value, and evidence always declares its type. Two
attestor rows with the same key and type count as one. In Delegation a server may
refuse for reasons that other modules model (revocation, challenges, evidence
used before). Signatures hold or not by who made them.

*Left out.* Cryptography, HTTP framing, parsing and logging, which hold no state
that requests race on. The offline verifier of the SDK and its JavaScript port
are functions of one token and a key set; what they rely on, that the key of a live
token is published, is proved for the three kinds of key. Federation and
discovery routes are views of the key tables. The dev attestor, X.509 contexts,
tool manifests and framework adapters hold no state of their own. Configuration
appears as constants with assumptions; migrations, scripts and deployment files
run once.
