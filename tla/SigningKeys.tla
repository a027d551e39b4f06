---------------------------- MODULE SigningKeys ----------------------------
(***************************************************************************)
(* One tenant's JWT signing keys: the signing_keys table, the requests     *)
(* that mint credentials (get_active_key, then jwt.encode) and the         *)
(* requests that rotate the key (rotate_key), interleaved at the points    *)
(* where their transactions commit.  A request runs in a session that      *)
(* holds no row locks across its reads, under READ COMMITTED, so every     *)
(* SELECT sees what is committed at that moment and every COMMIT is one    *)
(* atomic step.                                                            *)
(*                                                                         *)
(* A kid is the rank of its key by created_at: get_active_key orders by    *)
(* created_at, a microsecond timestamp taken at distinct for distinct keys.*)
(***************************************************************************)
EXTENDS Naturals, FiniteSets

CONSTANTS
    Requests,       \* request handlers that may run at the same time
    MaxKeys,        \* bound on the keys ever created
    MaxTime,        \* bound on the clock
    MaxTokens,      \* bound on the tokens ever signed
    MinTtl, MaxTtl, \* settings.min_ttl_seconds, settings.max_ttl_seconds
    DefaultTtl,     \* settings.default_ttl_seconds, which is not clamped
    Grace,          \* the 300 s build_jwks adds to max_ttl_seconds
    ReadToSign,     \* longest time from reading the key to signing with it
    StampToCommit   \* longest time from stamping retired_at to its commit

ASSUME BoundsAssumption ==
    /\ MaxKeys \in Nat \ {0}
    /\ MaxTime \in Nat
    /\ MaxTokens \in Nat

(* Nothing in config.py relates the three TTL settings; a deployment must. *)
ASSUME TtlAssumption ==
    /\ MinTtl \in Nat
    /\ MaxTtl \in Nat
    /\ DefaultTtl \in Nat
    /\ MinTtl <= MaxTtl
    /\ DefaultTtl <= MaxTtl

(* The grace period is only of use to requests that are quick enough. *)
ASSUME GraceAssumption ==
    /\ Grace \in Nat
    /\ ReadToSign \in Nat
    /\ StampToCommit \in Nat
    /\ ReadToSign + StampToCommit <= Grace

(* Requests that retire one key in turn commit before it is withdrawn. *)
ASSUME WithdrawalAssumption == 2 * StampToCommit < MaxTtl + Grace

VARIABLES
    now,         \* utcnow(), shared by every server process
    status,      \* SigningKey.status of each kid
    algorithm,   \* SigningKey.algorithm of each kid
    retiredAt,   \* SigningKey.retired_at (0 until set)
    pc,          \* where each request is
    held,        \* the key object an issuing request holds (0: none)
    readAt,      \* when it read that key as active (0: none)
    stale,       \* rows a request has marked retired but not committed
    stamp,       \* the retired_at it wrote into them (0: none)
    tokens,      \* the credentials signed so far
    interrupted  \* a request died before creating a key, and none was since
                 \* created (history variable)

rows == <<status, algorithm, retiredAt>>
locals == <<pc, held, readAt, stale, stamp>>
vars == <<now, rows, locals, tokens, interrupted>>

Kids == 1..MaxKeys
Times == 0..MaxTime
NoKey == 0

Status == {"unborn", "active", "retired"}
Algorithm == {"RS256", "legacy"}
Token == [kid : Kids, iat : Times, exp : Nat]
Stage == {"idle", "heal", "create", "sign", "retire", "replace"}

ActiveKeys == {k \in Kids : status[k] = "active"}
UnbornKeys == {k \in Kids : status[k] = "unborn"}

(* The kid the next INSERT gets: the least one not yet in the table. *)
IsNextKid(k) ==
    /\ k \in UnbornKeys
    /\ \A j \in Kids : j < k => status[j] # "unborn"

(* _clamp_ttl: the default as it is, or a requested value within bounds. *)
GrantedTtls == {DefaultTtl} \cup (MinTtl..MaxTtl)

(* Mutant: the key is dropped as soon as tokens signed before it was        *)
(* retired have expired.                                                    *)
PublishedKeysWithoutGrace ==
    {k \in Kids : /\ status[k] # "unborn"
                  /\ algorithm[k] = "RS256"
                  /\ ~ (status[k] = "retired" /\ retiredAt[k] + MaxTtl <= now)}

(* build_jwks: every RS256 key but those retired before the cutoff. *)
PublishedKeys ==
    {k \in Kids : /\ status[k] # "unborn"
                  /\ algorithm[k] = "RS256"
                  /\ ~ /\ status[k] = "retired"
                       /\ retiredAt[k] + MaxTtl + Grace <= now}

-----------------------------------------------------------------------------
(* A tenant starts with no key, or with one that an earlier release made   *)
(* for another algorithm and left active.                                  *)
Init ==
    /\ now = 0
    /\ \E legacy \in SUBSET {1} :
         /\ status = [k \in Kids |-> IF k \in legacy THEN "active" ELSE "unborn"]
         /\ algorithm = [k \in Kids |-> IF k \in legacy THEN "legacy" ELSE "RS256"]
    /\ retiredAt = [k \in Kids |-> 0]
    /\ pc = [p \in Requests |-> "idle"]
    /\ held = [p \in Requests |-> NoKey]
    /\ readAt = [p \in Requests |-> 0]
    /\ stale = [p \in Requests |-> {}]
    /\ stamp = [p \in Requests |-> 0]
    /\ tokens = {}
    /\ interrupted = FALSE

(* Mutant: ORDER BY created_at without DESC. *)
Oldest(S) == {k \in S : /\ algorithm[k] = "RS256"
                        /\ \A j \in S : algorithm[j] = "RS256" => k <= j}

(* Of the active keys a request has read, the newest usable one. *)
Newest(S) == {k \in S : /\ algorithm[k] = "RS256"
                        /\ \A j \in S : algorithm[j] = "RS256" => j <= k}

(* get_active_key's SELECT: keep the newest RS256 key, mark every other     *)
(* active row retired (committed by Heal), create a key if none was usable. *)
IssueSelect(p) ==
    /\ pc[p] = "idle"
    /\ \E k \in Kids \cup {NoKey} :
         /\ IF Newest(ActiveKeys) = {} THEN k = NoKey ELSE k \in Newest(ActiveKeys)
         /\ held' = [held EXCEPT ![p] = k]
         /\ readAt' = [readAt EXCEPT ![p] = IF k = NoKey THEN 0 ELSE now]
         /\ LET others == ActiveKeys \ {k} IN
            /\ stale' = [stale EXCEPT ![p] = others]
            /\ stamp' = [stamp EXCEPT ![p] = IF others = {} THEN 0 ELSE now]
            /\ pc' = [pc EXCEPT ![p] = IF others # {} THEN "heal"
                                       ELSE IF k = NoKey THEN "create" ELSE "sign"]
    /\ UNCHANGED <<now, rows, tokens, interrupted>>

(* Mutant: retired_at holds the time at which the key may be dropped.        *)
CommitCutoff(p) ==
    /\ status' = [k \in Kids |-> IF k \in stale[p] THEN "retired" ELSE status[k]]
    /\ retiredAt' = [k \in Kids |-> IF k \in stale[p] THEN stamp[p] + MaxTtl + Grace
                                                      ELSE retiredAt[k]]
    /\ stale' = [stale EXCEPT ![p] = {}]
    /\ stamp' = [stamp EXCEPT ![p] = 0]
    /\ UNCHANGED algorithm

(* Mutant: of the rows found besides, only one is retired.                   *)
CommitOneRow(p) ==
    /\ \E j \in stale[p] :
         /\ status' = [status EXCEPT ![j] = "retired"]
         /\ retiredAt' = [retiredAt EXCEPT ![j] = stamp[p]]
    /\ stale' = [stale EXCEPT ![p] = {}]
    /\ stamp' = [stamp EXCEPT ![p] = 0]
    /\ UNCHANGED algorithm

(* The COMMIT of the rows p marked: UPDATE by primary key of the two dirty  *)
(* columns, whatever other requests committed to the row meanwhile.         *)
CommitRetirement(p) ==
    /\ status' = [k \in Kids |-> IF k \in stale[p] THEN "retired" ELSE status[k]]
    /\ retiredAt' = [k \in Kids |-> IF k \in stale[p] THEN stamp[p] ELSE retiredAt[k]]
    /\ stale' = [stale EXCEPT ![p] = {}]
    /\ stamp' = [stamp EXCEPT ![p] = 0]
    /\ UNCHANGED algorithm

IssueHeal(p) ==
    /\ pc[p] = "heal"
    /\ CommitRetirement(p)
    /\ pc' = [pc EXCEPT ![p] = IF held[p] = NoKey THEN "create" ELSE "sign"]
    /\ UNCHANGED <<now, held, readAt, tokens, interrupted>>

(* create_signing_key: insert an active RS256 row and commit. *)
InsertKey(k) ==
    /\ IsNextKid(k)
    /\ status' = [status EXCEPT ![k] = "active"]
    /\ algorithm' = [algorithm EXCEPT ![k] = "RS256"]
    /\ UNCHANGED retiredAt

IssueCreate(p) ==
    /\ pc[p] = "create"
    /\ \E k \in Kids :
         /\ InsertKey(k)
         /\ held' = [held EXCEPT ![p] = k]
    /\ readAt' = [readAt EXCEPT ![p] = now]
    /\ pc' = [pc EXCEPT ![p] = "sign"]
    /\ interrupted' = FALSE
    /\ UNCHANGED <<now, stale, stamp, tokens>>

(* The rest of issue_credential: exp counts from the time of signing, and   *)
(* the key is the one read before, retired since or not.                    *)
IssueSign(p) ==
    /\ pc[p] = "sign"
    /\ Cardinality(tokens) < MaxTokens
    /\ \E ttl \in GrantedTtls :
         tokens' = tokens \cup {[kid |-> held[p], iat |-> now, exp |-> now + ttl]}
    /\ pc' = [pc EXCEPT ![p] = "idle"]
    /\ held' = [held EXCEPT ![p] = NoKey]
    /\ readAt' = [readAt EXCEPT ![p] = 0]
    /\ UNCHANGED <<now, rows, stale, stamp, interrupted>>

-----------------------------------------------------------------------------
(* rotate_key: _active_signing_key returns an arbitrary active row; it is   *)
(* stamped, and its retirement commits before the new key is made.          *)
RotateSelect(p) ==
    /\ pc[p] = "idle"
    /\ \/ /\ ActiveKeys = {}
          /\ pc' = [pc EXCEPT ![p] = "replace"]
          /\ UNCHANGED <<stale, stamp>>
       \/ \E k \in ActiveKeys :
            /\ stale' = [stale EXCEPT ![p] = {k}]
            /\ stamp' = [stamp EXCEPT ![p] = now]
            /\ pc' = [pc EXCEPT ![p] = "retire"]
    /\ UNCHANGED <<now, rows, held, readAt, tokens, interrupted>>

RotateRetire(p) ==
    /\ pc[p] = "retire"
    /\ CommitRetirement(p)
    /\ pc' = [pc EXCEPT ![p] = "replace"]
    /\ UNCHANGED <<now, held, readAt, tokens, interrupted>>

RotateCreate(p) ==
    /\ pc[p] = "replace"
    /\ \E k \in Kids : InsertKey(k)
    /\ pc' = [pc EXCEPT ![p] = "idle"]
    /\ interrupted' = FALSE
    /\ UNCHANGED <<now, held, readAt, stale, stamp, tokens>>

(* A database error or the death of the process: get_db closes the session, *)
(* which rolls back what is not committed.  Also how create_customer, which *)
(* only provisions the key, leaves get_active_key without signing.          *)
Abort(p) ==
    /\ pc[p] # "idle"
    /\ interrupted' = (interrupted \/ pc[p] \in {"create", "replace"})
    /\ pc' = [pc EXCEPT ![p] = "idle"]
    /\ held' = [held EXCEPT ![p] = NoKey]
    /\ readAt' = [readAt EXCEPT ![p] = 0]
    /\ stale' = [stale EXCEPT ![p] = {}]
    /\ stamp' = [stamp EXCEPT ![p] = 0]
    /\ UNCHANGED <<now, rows, tokens>>

(* Time passes, as long as every request still meets its deadlines. *)
Tick ==
    /\ now < MaxTime
    /\ \A p \in Requests :
         /\ held[p] # NoKey => now < readAt[p] + ReadToSign
         /\ stale[p] # {} => now < stamp[p] + StampToCommit
    /\ now' = now + 1
    /\ UNCHANGED <<rows, locals, tokens, interrupted>>

Next ==
    \/ \E p \in Requests :
         \/ IssueSelect(p) \/ IssueHeal(p) \/ IssueCreate(p) \/ IssueSign(p)
         \/ RotateSelect(p) \/ RotateRetire(p) \/ RotateCreate(p)
         \/ Abort(p)
    \/ Tick

Spec == Init /\ [][Next]_vars

-----------------------------------------------------------------------------
(* The shape of the state. *)
TypeOK ==
    /\ now \in Times
    /\ status \in [Kids -> Status]
    /\ algorithm \in [Kids -> Algorithm]
    /\ retiredAt \in [Kids -> Times]
    /\ pc \in [Requests -> Stage]
    /\ held \in [Requests -> Kids \cup {NoKey}]
    /\ readAt \in [Requests -> Times]
    /\ stale \in [Requests -> SUBSET Kids]
    /\ stamp \in [Requests -> Times]
    /\ tokens \subseteq Token
    /\ interrupted \in BOOLEAN

(* A relying party can verify a token offline for as long as it is valid:   *)
(* build_jwks publishes the key of every unexpired token, including a token *)
(* signed by a request that was already holding the key when a rotation or  *)
(* a heal retired it, and one whose key two requests retired in turn.       *)
PublishedUntilExpiry ==
    \A t \in tokens : now < t.exp => t.kid \in PublishedKeys

(* The JWKS keeps what TrustStore promises: besides, a key that has left it *)
(* never returns, although a request that marked the key before may still   *)
(* write another retired_at into its row.                                   *)
Trust == INSTANCE TrustStore
         WITH Signers <- Kids,
              published <- PublishedKeys,
              void <- (Kids \ UnbornKeys) \ PublishedKeys,
              live <- {<<t.kid, t>> : t \in {u \in tokens : now < u.exp}}
KeepsTrust == Trust!Spec

(* Rotations and heals that race never leave a tenant without a signing     *)
(* key: if every key is retired, a rotation is about to create one, or died *)
(* just then.  get_active_key may only retire keys older than the newest.   *)
KeylessOnlyMidRotation ==
    ActiveKeys = {} =>
        \/ UnbornKeys = Kids
        \/ \E p \in Requests : pc[p] \in {"create", "replace"}
        \/ interrupted

(* Rotations that retire one key in turn create one each.  The next         *)
(* get_active_key that heals leaves the newest it found, and besides only    *)
(* keys created since; and no request undoes a retirement, though sessions  *)
(* write rows they read before another session's commit.                    *)
HealsToNewest ==
    [][/\ \A p \in Requests :
             (pc[p] = "heal" /\ pc'[p] \in {"create", "sign"})
                 => \A k \in ActiveKeys' : k >= held[p]
       /\ \A k \in Kids : status[k] = "retired" => status'[k] = "retired"]_vars
=============================================================================
