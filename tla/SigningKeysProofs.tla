------------------------- MODULE SigningKeysProofs -------------------------
(***************************************************************************)
(* Proofs about SigningKeys for every number of requests, keys and tokens  *)
(* and every choice of the durations that satisfies the assumptions.       *)
(*                                                                         *)
(* PublishedUntilExpiry is not inductive: whether a token outlives its key *)
(* in the JWKS is decided when the key is read and when the retirement is  *)
(* stamped, both before the steps that create the token and retire the     *)
(* key.  OverlapInv keeps the two clocks apart by what the deadlines allow.*)
(***************************************************************************)
EXTENDS SigningKeys, TLAPS

USE BoundsAssumption, TtlAssumption, GraceAssumption

(* A request holding a key read it in time, and, if the key was retired     *)
(* meanwhile, not long after the retirement was stamped.                    *)
HoldersInTime ==
    \A p \in Requests :
        held[p] # NoKey =>
            /\ readAt[p] <= now
            /\ now <= readAt[p] + ReadToSign
            /\ status[held[p]] # "unborn"
            /\ algorithm[held[p]] = "RS256"
            /\ status[held[p]] = "retired" =>
                   readAt[p] <= retiredAt[held[p]] + StampToCommit

(* A request with rows marked retired stamped them in time. *)
StampsInTime ==
    \A p \in Requests :
        stale[p] # {} =>
            /\ stamp[p] <= now
            /\ now <= stamp[p] + StampToCommit
            /\ \A k \in stale[p] : status[k] # "unborn"

(* A token was signed within the grace period of its key's retirement. *)
TokensInTime ==
    \A t \in tokens :
        /\ t.exp <= t.iat + MaxTtl
        /\ t.iat <= now
        /\ status[t.kid] # "unborn"
        /\ algorithm[t.kid] = "RS256"
        /\ status[t.kid] = "retired" =>
               t.iat <= retiredAt[t.kid] + StampToCommit + ReadToSign

SignersHold == \A p \in Requests : pc[p] = "sign" => held[p] # NoKey

OverlapInv ==
    /\ TypeOK
    /\ SignersHold
    /\ HoldersInTime
    /\ StampsInTime
    /\ TokensInTime

-----------------------------------------------------------------------------
LEMMA TypeInit == Init => TypeOK
<1> SUFFICES ASSUME Init PROVE TypeOK
  OBVIOUS
<1>1. /\ status \in [Kids -> Status]
      /\ algorithm \in [Kids -> Algorithm]
  BY DEF Init, Kids, Status, Algorithm
<1>2. /\ now \in Times
      /\ retiredAt \in [Kids -> Times]
      /\ pc \in [Requests -> Stage]
      /\ held \in [Requests -> Kids \cup {NoKey}]
      /\ readAt \in [Requests -> Times]
      /\ stale \in [Requests -> SUBSET Kids]
      /\ stamp \in [Requests -> Times]
  BY DEF Init, Times, Stage
<1>3. tokens \subseteq Token /\ interrupted \in BOOLEAN
  BY DEF Init
<1>4. QED
  BY <1>1, <1>2, <1>3 DEF TypeOK

(* What one request's step does to the types, action by action. *)
LEMMA TypeStep == TypeOK /\ SignersHold /\ [Next]_vars => TypeOK'
<1> SUFFICES ASSUME TypeOK, SignersHold, [Next]_vars PROVE TypeOK'
  OBVIOUS
<1> USE DEF TypeOK, rows, locals, NoKey
<1>1. ASSUME NEW p \in Requests, IssueSelect(p) PROVE TypeOK'
  <2> PICK k \in Kids \cup {NoKey} :
        /\ held' = [held EXCEPT ![p] = k]
        /\ readAt' = [readAt EXCEPT ![p] = IF k = NoKey THEN 0 ELSE now]
        /\ stale' = [stale EXCEPT ![p] = ActiveKeys \ {k}]
        /\ stamp' = [stamp EXCEPT ![p] = IF ActiveKeys \ {k} = {} THEN 0 ELSE now]
        /\ pc' = [pc EXCEPT ![p] = IF ActiveKeys \ {k} # {} THEN "heal"
                                   ELSE IF k = NoKey THEN "create" ELSE "sign"]
    BY <1>1 DEF IssueSelect
  <2>1. 0 \in Times /\ now \in Times
    BY DEF Times
  <2>2. ActiveKeys \subseteq Kids
    BY DEF ActiveKeys
  <2>3. stale' \in [Requests -> SUBSET Kids]
    BY <2>2
  <2>4. pc' \in [Requests -> Stage]
    BY DEF Stage
  <2>5. /\ readAt' \in [Requests -> Times]
        /\ stamp' \in [Requests -> Times]
        /\ held' \in [Requests -> Kids \cup {NoKey}]
    BY <2>1
  <2>6. QED
    BY <1>1, <2>3, <2>4, <2>5 DEF IssueSelect
<1>2. ASSUME NEW p \in Requests, CommitRetirement(p) PROVE
        /\ status' \in [Kids -> Status]
        /\ retiredAt' \in [Kids -> Times]
        /\ stale' \in [Requests -> SUBSET Kids]
        /\ stamp' \in [Requests -> Times]
        /\ algorithm' \in [Kids -> Algorithm]
  BY <1>2 DEF CommitRetirement, Status, Times
<1>3. ASSUME NEW p \in Requests, IssueHeal(p) PROVE TypeOK'
  BY <1>3, <1>2 DEF IssueHeal, Stage
<1>4. ASSUME NEW k \in Kids, InsertKey(k) PROVE
        /\ status' \in [Kids -> Status]
        /\ retiredAt' \in [Kids -> Times]
        /\ algorithm' \in [Kids -> Algorithm]
  BY <1>4 DEF InsertKey, Status, Algorithm
<1>5. ASSUME NEW p \in Requests, IssueCreate(p) PROVE TypeOK'
  BY <1>5, <1>4 DEF IssueCreate, Stage
<1>6. ASSUME NEW p \in Requests, IssueSign(p) PROVE TypeOK'
  <2>1. held[p] \in Kids
    BY <1>6 DEF IssueSign, SignersHold
  <2>2. \A ttl \in GrantedTtls : now + ttl \in Nat
    BY DEF GrantedTtls, Times
  <2>3. tokens' \subseteq Token
    BY <1>6, <2>1, <2>2 DEF IssueSign, Token
  <2>4. pc' \in [Requests -> Stage]
    BY <1>6 DEF IssueSign, Stage
  <2>5. readAt' \in [Requests -> Times] /\ held' \in [Requests -> Kids \cup {NoKey}]
    BY <1>6 DEF IssueSign, Times
  <2>6. QED
    BY <1>6, <2>3, <2>4, <2>5 DEF IssueSign
<1>7. ASSUME NEW p \in Requests, RotateSelect(p) PROVE TypeOK'
  BY <1>7 DEF RotateSelect, Stage, ActiveKeys
<1>8. ASSUME NEW p \in Requests, RotateRetire(p) PROVE TypeOK'
  BY <1>8, <1>2 DEF RotateRetire, Stage
<1>9. ASSUME NEW p \in Requests, RotateCreate(p) PROVE TypeOK'
  BY <1>9, <1>4 DEF RotateCreate, Stage
<1>10. ASSUME NEW p \in Requests, Abort(p) PROVE TypeOK'
  BY <1>10 DEF Abort, Stage, Times
<1>11. CASE Tick
  BY <1>11 DEF Tick, Times
<1>12. CASE UNCHANGED vars
  BY <1>12 DEF vars
<1>13. QED
  BY <1>1, <1>3, <1>5, <1>6, <1>7, <1>8, <1>9, <1>10, <1>11, <1>12 DEF Next

-----------------------------------------------------------------------------
LEMMA SignersHoldStep == TypeOK /\ SignersHold /\ [Next]_vars => SignersHold'
<1> SUFFICES ASSUME TypeOK, SignersHold, [Next]_vars PROVE SignersHold'
  OBVIOUS
<1> USE DEF TypeOK, SignersHold
<1>1. ASSUME NEW p \in Requests, IssueSelect(p) PROVE SignersHold'
  BY <1>1 DEF IssueSelect
<1>2. ASSUME NEW p \in Requests, IssueHeal(p) PROVE SignersHold'
  BY <1>2 DEF IssueHeal
<1>3. ASSUME NEW p \in Requests, IssueCreate(p) PROVE SignersHold'
  BY <1>3 DEF IssueCreate, Kids, NoKey
<1>4. ASSUME NEW p \in Requests, IssueSign(p) PROVE SignersHold'
  BY <1>4 DEF IssueSign
<1>5. ASSUME NEW p \in Requests,
             \/ RotateSelect(p) \/ RotateRetire(p) \/ RotateCreate(p) \/ Abort(p)
      PROVE  SignersHold'
  BY <1>5 DEF RotateSelect, RotateRetire, RotateCreate, Abort
<1>6. CASE Tick \/ UNCHANGED vars
  BY <1>6 DEF Tick, vars, locals
<1>7. QED
  BY <1>1, <1>2, <1>3, <1>4, <1>5, <1>6 DEF Next

(* The effect of committing a retirement on the two in-time invariants: the *)
(* stamp is recent, so whoever holds the key read it, and whoever signed    *)
(* with it signed, soon enough before now.                                  *)
LEMMA RetirementInTime ==
    ASSUME NEW p \in Requests, OverlapInv, CommitRetirement(p),
           UNCHANGED <<now, held, readAt, tokens>>
    PROVE  HoldersInTime' /\ StampsInTime' /\ TokensInTime'
<1> USE DEF OverlapInv, TypeOK, CommitRetirement
<1>1. HoldersInTime'
  BY DEF HoldersInTime, StampsInTime, Times, NoKey
<1>2. StampsInTime'
  BY DEF StampsInTime
<1>3. TokensInTime'
  <2> SUFFICES ASSUME NEW t \in tokens
               PROVE  /\ t.exp <= t.iat + MaxTtl
                      /\ t.iat <= now
                      /\ status'[t.kid] # "unborn"
                      /\ algorithm[t.kid] = "RS256"
                      /\ status'[t.kid] = "retired" =>
                             t.iat <= retiredAt'[t.kid] + StampToCommit + ReadToSign
    BY DEF TokensInTime
  <2>1. t.kid \in Kids /\ t.iat \in Nat
    BY DEF Token, Times
  <2>2. /\ t.exp <= t.iat + MaxTtl
        /\ t.iat <= now
        /\ status[t.kid] # "unborn"
        /\ algorithm[t.kid] = "RS256"
        /\ status[t.kid] = "retired" =>
               t.iat <= retiredAt[t.kid] + StampToCommit + ReadToSign
    BY DEF TokensInTime
  <2>3. CASE t.kid \in stale[p]
    <3>1. now <= stamp[p] + StampToCommit
      BY <2>3 DEF StampsInTime
    <3>2. status'[t.kid] = "retired" /\ retiredAt'[t.kid] = stamp[p]
      BY <2>1, <2>3
    <3>3. now \in Nat /\ stamp[p] \in Nat
      BY DEF Times
    <3>4. QED
      BY <2>1, <2>2, <3>1, <3>2, <3>3
  <2>4. CASE t.kid \notin stale[p]
    BY <2>1, <2>2, <2>4
  <2>5. QED
    BY <2>3, <2>4
<1>4. QED
  BY <1>1, <1>2, <1>3

LEMMA OverlapInit == Init => OverlapInv
<1> SUFFICES ASSUME Init PROVE OverlapInv
  OBVIOUS
<1>1. TypeOK
  BY TypeInit
<1>2. SignersHold /\ HoldersInTime /\ StampsInTime /\ TokensInTime
  BY DEF Init, SignersHold, HoldersInTime, StampsInTime, TokensInTime, NoKey
<1>3. QED
  BY <1>1, <1>2 DEF OverlapInv

LEMMA OverlapStep == OverlapInv /\ [Next]_vars => OverlapInv'
<1> SUFFICES ASSUME OverlapInv, [Next]_vars
             PROVE  HoldersInTime' /\ StampsInTime' /\ TokensInTime'
  BY TypeStep, SignersHoldStep DEF OverlapInv
<1> USE DEF OverlapInv, TypeOK, rows, locals
<1>1. ASSUME NEW p \in Requests, IssueSelect(p)
      PROVE  HoldersInTime' /\ StampsInTime' /\ TokensInTime'
  <2> PICK k \in Kids \cup {NoKey} :
        /\ IF Newest(ActiveKeys) = {} THEN k = NoKey ELSE k \in Newest(ActiveKeys)
        /\ held' = [held EXCEPT ![p] = k]
        /\ readAt' = [readAt EXCEPT ![p] = IF k = NoKey THEN 0 ELSE now]
        /\ stale' = [stale EXCEPT ![p] = ActiveKeys \ {k}]
        /\ stamp' = [stamp EXCEPT ![p] = IF ActiveKeys \ {k} = {} THEN 0 ELSE now]
    BY <1>1 DEF IssueSelect
  <2>1. UNCHANGED <<now, status, algorithm, retiredAt, tokens>>
    BY <1>1 DEF IssueSelect
  <2>2. k # NoKey => k \in Kids /\ status[k] = "active" /\ algorithm[k] = "RS256"
    BY DEF Newest, ActiveKeys
  <2>3. HoldersInTime'
    BY <2>1, <2>2 DEF HoldersInTime, Times, NoKey
  <2>4. StampsInTime'
    BY <2>1 DEF StampsInTime, ActiveKeys, Times
  <2>5. QED
    BY <2>1, <2>3, <2>4 DEF TokensInTime
<1>2. ASSUME NEW p \in Requests, IssueHeal(p)
      PROVE  HoldersInTime' /\ StampsInTime' /\ TokensInTime'
  BY <1>2, RetirementInTime DEF IssueHeal
<1>3. ASSUME NEW p \in Requests, IssueCreate(p)
      PROVE  HoldersInTime' /\ StampsInTime' /\ TokensInTime'
  <2> PICK k \in Kids : InsertKey(k) /\ held' = [held EXCEPT ![p] = k]
    BY <1>3 DEF IssueCreate
  <2>1. status[k] = "unborn"
    BY DEF InsertKey, IsNextKid, UnbornKeys
  <2>2. /\ status' = [status EXCEPT ![k] = "active"]
        /\ algorithm' = [algorithm EXCEPT ![k] = "RS256"]
        /\ retiredAt' = retiredAt
        /\ readAt' = [readAt EXCEPT ![p] = now]
        /\ UNCHANGED <<now, stale, stamp, tokens>>
    BY <1>3 DEF InsertKey, IssueCreate
  <2>3. HoldersInTime'
    BY <2>1, <2>2 DEF HoldersInTime, Times, NoKey
  <2>4. StampsInTime'
    BY <2>1, <2>2 DEF StampsInTime
  <2>5. \A t \in tokens : t.kid # k /\ t.kid \in Kids
    BY <2>1 DEF TokensInTime, Token
  <2>6. TokensInTime'
    BY <2>2, <2>5 DEF TokensInTime
  <2>7. QED
    BY <2>3, <2>4, <2>6
<1>4. ASSUME NEW p \in Requests, IssueSign(p)
      PROVE  HoldersInTime' /\ StampsInTime' /\ TokensInTime'
  <2>1. PICK ttl \in GrantedTtls :
          tokens' = tokens \cup {[kid |-> held[p], iat |-> now, exp |-> now + ttl]}
    BY <1>4 DEF IssueSign
  <2>2. ttl \in Nat /\ ttl <= MaxTtl
    BY DEF GrantedTtls
  <2>3. UNCHANGED <<now, status, algorithm, retiredAt, stale, stamp>>
    BY <1>4 DEF IssueSign
  <2>4. held[p] \in Kids /\ held[p] # NoKey
    BY <1>4 DEF IssueSign, SignersHold
  <2>5. /\ status[held[p]] # "unborn"
        /\ algorithm[held[p]] = "RS256"
        /\ status[held[p]] = "retired" =>
               now <= retiredAt[held[p]] + StampToCommit + ReadToSign
    BY <2>4 DEF HoldersInTime, Times
  <2>6. TokensInTime'
    BY <2>1, <2>2, <2>3, <2>5 DEF TokensInTime, Times
  <2>7. HoldersInTime'
    BY <1>4, <2>3 DEF HoldersInTime, IssueSign
  <2>8. StampsInTime'
    BY <2>3 DEF StampsInTime
  <2>9. QED
    BY <2>6, <2>7, <2>8
<1>5. ASSUME NEW p \in Requests, RotateSelect(p)
      PROVE  HoldersInTime' /\ StampsInTime' /\ TokensInTime'
  <2>1. UNCHANGED <<now, status, algorithm, retiredAt, held, readAt, tokens>>
    BY <1>5 DEF RotateSelect
  <2>2. StampsInTime'
    BY <1>5, <2>1 DEF StampsInTime, RotateSelect, ActiveKeys, Times
  <2>3. QED
    BY <2>1, <2>2 DEF HoldersInTime, TokensInTime
<1>6. ASSUME NEW p \in Requests, RotateRetire(p)
      PROVE  HoldersInTime' /\ StampsInTime' /\ TokensInTime'
  BY <1>6, RetirementInTime DEF RotateRetire
<1>7. ASSUME NEW p \in Requests, RotateCreate(p)
      PROVE  HoldersInTime' /\ StampsInTime' /\ TokensInTime'
  <2> PICK k \in Kids : InsertKey(k)
    BY <1>7 DEF RotateCreate
  <2>1. status[k] = "unborn"
    BY DEF InsertKey, IsNextKid, UnbornKeys
  <2>2. /\ status' = [status EXCEPT ![k] = "active"]
        /\ algorithm' = [algorithm EXCEPT ![k] = "RS256"]
        /\ retiredAt' = retiredAt
        /\ UNCHANGED <<now, held, readAt, stale, stamp, tokens>>
    BY <1>7 DEF InsertKey, RotateCreate
  <2>3. HoldersInTime'
    BY <2>1, <2>2 DEF HoldersInTime, NoKey
  <2>4. StampsInTime'
    BY <2>1, <2>2 DEF StampsInTime
  <2>5. \A t \in tokens : t.kid # k /\ t.kid \in Kids
    BY <2>1 DEF TokensInTime, Token
  <2>6. TokensInTime'
    BY <2>2, <2>5 DEF TokensInTime
  <2>7. QED
    BY <2>3, <2>4, <2>6
<1>8. ASSUME NEW p \in Requests, Abort(p)
      PROVE  HoldersInTime' /\ StampsInTime' /\ TokensInTime'
  BY <1>8 DEF Abort, HoldersInTime, StampsInTime, TokensInTime
<1>9. CASE Tick
  <2>1. HoldersInTime'
    BY <1>9 DEF Tick, HoldersInTime, Times
  <2>2. StampsInTime'
    BY <1>9 DEF Tick, StampsInTime, Times
  <2>3. TokensInTime'
    BY <1>9 DEF Tick, TokensInTime, Times, Token
  <2>4. QED
    BY <2>1, <2>2, <2>3
<1>10. CASE UNCHANGED vars
  BY <1>10 DEF vars, HoldersInTime, StampsInTime, TokensInTime
<1>11. QED
  BY <1>1, <1>2, <1>3, <1>4, <1>5, <1>6, <1>7, <1>8, <1>9, <1>10 DEF Next

LEMMA OverlapPublishes == OverlapInv => PublishedUntilExpiry
<1> SUFFICES ASSUME OverlapInv, NEW t \in tokens, now < t.exp
             PROVE  t.kid \in PublishedKeys
  BY DEF PublishedUntilExpiry
<1>1. /\ t.kid \in Kids /\ t.iat \in Nat /\ t.exp \in Nat
      /\ now \in Nat /\ retiredAt[t.kid] \in Nat
  BY DEF OverlapInv, TypeOK, Token, Times
<1>2. /\ t.exp <= t.iat + MaxTtl
      /\ status[t.kid] # "unborn"
      /\ algorithm[t.kid] = "RS256"
      /\ status[t.kid] = "retired" =>
             t.iat <= retiredAt[t.kid] + StampToCommit + ReadToSign
  BY DEF OverlapInv, TokensInTime
<1>3. ASSUME status[t.kid] = "retired"
      PROVE  ~(retiredAt[t.kid] + MaxTtl + Grace <= now)
  BY <1>1, <1>2, <1>3
<1>4. QED
  BY <1>1, <1>2, <1>3 DEF PublishedKeys

(* The state of every tenant's keys, requests and tokens keeps its shape. *)
THEOREM TypeCorrect == Spec => []TypeOK
<1>1. OverlapInv => TypeOK
  BY DEF OverlapInv
<1>2. QED
  BY <1>1, OverlapInit, OverlapStep, PTL DEF Spec

(* Rotation never strands a token: however rotations, heals and issuances   *)
(* interleave, the JWKS lists the key of every unexpired token, provided    *)
(* requests are quick enough for the grace period.                          *)
THEOREM RotationNeverStrandsAToken == Spec => []PublishedUntilExpiry
  BY OverlapInit, OverlapStep, OverlapPublishes, PTL DEF Spec

-----------------------------------------------------------------------------
(* KeylessOnlyMidRotation, strengthened to be inductive: an active key, or  *)
(* someone about to create one, is found above every key in the table.      *)
Replacing ==
    \/ \E p \in Requests : pc[p] \in {"create", "replace"}
    \/ interrupted

ActiveAbove(k) == \E j \in Kids : k <= j /\ status[j] = "active"

NewestCovered ==
    \A k \in Kids : status[k] # "unborn" => ActiveAbove(k) \/ Replacing

(* Kids are handed out in order. *)
BornInOrder ==
    \A j, k \in Kids : j < k /\ status[k] # "unborn" => status[j] # "unborn"

(* Only the first key can be of the earlier algorithm. *)
LegacyIsFirst == \A k \in Kids : algorithm[k] = "legacy" => k = 1

(* A heal that keeps a key retires only keys older than the one it keeps;   *)
(* a request past its SELECT without a key creates one.                     *)
HealsRetireOlder ==
    \A p \in Requests :
        /\ held[p] # NoKey => status[held[p]] # "unborn"
        /\ \A k \in stale[p] : status[k] # "unborn"
        /\ pc[p] = "heal" /\ held[p] # NoKey => \A k \in stale[p] : k < held[p]

CoverInv ==
    /\ TypeOK
    /\ SignersHold
    /\ BornInOrder
    /\ LegacyIsFirst
    /\ HealsRetireOlder
    /\ NewestCovered

LEMMA CoverInit == Init => CoverInv
<1> SUFFICES ASSUME Init PROVE CoverInv
  OBVIOUS
<1>1. TypeOK
  BY TypeInit
<1>2. SignersHold /\ HealsRetireOlder
  BY DEF Init, SignersHold, HealsRetireOlder
<1>3. PICK legacy \in SUBSET {1} :
        /\ status = [k \in Kids |-> IF k \in legacy THEN "active" ELSE "unborn"]
        /\ algorithm = [k \in Kids |-> IF k \in legacy THEN "legacy" ELSE "RS256"]
  BY DEF Init
<1>4. BornInOrder
  BY <1>3 DEF BornInOrder, Kids
<1>5. LegacyIsFirst
  BY <1>3 DEF LegacyIsFirst
<1>6. NewestCovered
  BY <1>3 DEF NewestCovered, ActiveAbove, Kids
<1>7. QED
  BY <1>1, <1>2, <1>4, <1>5, <1>6 DEF CoverInv

(* Inserting a key puts an active key above every other. *)
LEMMA InsertCovers ==
    ASSUME CoverInv, NEW k \in Kids, InsertKey(k)
    PROVE  /\ BornInOrder' /\ LegacyIsFirst' /\ NewestCovered'
           /\ \A j \in Kids : status[j] # "unborn" => status'[j] # "unborn"
           /\ status'[k] # "unborn"
<1> USE DEF CoverInv, TypeOK
<1>1. /\ status[k] = "unborn"
      /\ \A j \in Kids : j < k => status[j] # "unborn"
      /\ status' = [status EXCEPT ![k] = "active"]
      /\ algorithm' = [algorithm EXCEPT ![k] = "RS256"]
  BY DEF InsertKey, IsNextKid, UnbornKeys
<1>2. BornInOrder'
  BY <1>1 DEF BornInOrder, Kids
<1>3. LegacyIsFirst'
  BY <1>1 DEF LegacyIsFirst
<1>4. \A j \in Kids : status'[j] # "unborn" => j <= k
  BY <1>1 DEF BornInOrder, Kids
<1>5. status'[k] = "active"
  BY <1>1
<1>6. NewestCovered'
  BY <1>4, <1>5 DEF NewestCovered, ActiveAbove
<1>7. QED
  BY <1>1, <1>2, <1>3, <1>6

LEMMA CoverStep == CoverInv /\ [Next]_vars => CoverInv'
<1> SUFFICES ASSUME CoverInv, [Next]_vars
             PROVE  BornInOrder' /\ LegacyIsFirst' /\ HealsRetireOlder' /\ NewestCovered'
  BY TypeStep, SignersHoldStep DEF CoverInv
<1> USE DEF CoverInv, TypeOK, rows, locals
<1> DEFINE Goal == BornInOrder' /\ LegacyIsFirst' /\ HealsRetireOlder' /\ NewestCovered'
<1>1. ASSUME NEW p \in Requests, IssueSelect(p) PROVE Goal
  <2> PICK k \in Kids \cup {NoKey} :
        /\ IF Newest(ActiveKeys) = {} THEN k = NoKey ELSE k \in Newest(ActiveKeys)
        /\ held' = [held EXCEPT ![p] = k]
        /\ stale' = [stale EXCEPT ![p] = ActiveKeys \ {k}]
        /\ pc' = [pc EXCEPT ![p] = IF ActiveKeys \ {k} # {} THEN "heal"
                                   ELSE IF k = NoKey THEN "create" ELSE "sign"]
    BY <1>1 DEF IssueSelect
  <2>1. UNCHANGED <<status, algorithm, interrupted>> /\ pc[p] = "idle"
    BY <1>1 DEF IssueSelect
  <2>2. ASSUME k # NoKey
        PROVE  /\ k \in Kids /\ status[k] # "unborn"
               /\ \A j \in ActiveKeys \ {k} : j < k
    <3>1. /\ k \in ActiveKeys /\ algorithm[k] = "RS256"
          /\ \A j \in ActiveKeys : algorithm[j] = "RS256" => j <= k
      BY <2>2 DEF Newest
    <3>2. k \in Kids /\ status[k] # "unborn"
      BY <3>1 DEF ActiveKeys
    <3>3. ASSUME NEW j \in ActiveKeys \ {k} PROVE j < k
      <4>1. j \in Kids /\ algorithm[j] \in {"RS256", "legacy"}
        BY DEF ActiveKeys, Algorithm
      <4>2. CASE algorithm[j] = "RS256"
        BY <3>1, <3>2, <4>1, <4>2 DEF Kids
      <4>3. CASE algorithm[j] = "legacy"
        BY <3>2, <4>1, <4>3 DEF LegacyIsFirst, Kids
      <4>4. QED
        BY <4>1, <4>2, <4>3
    <3>4. QED
      BY <3>2, <3>3
  <2>3. HealsRetireOlder'
    BY <2>1, <2>2 DEF HealsRetireOlder, ActiveKeys
  <2>4. Replacing => Replacing'
    BY <2>1 DEF Replacing
  <2>5. NewestCovered'
    BY <2>1, <2>4 DEF NewestCovered, ActiveAbove
  <2>6. QED
    BY <2>1, <2>3, <2>5 DEF BornInOrder, LegacyIsFirst
<1>2. ASSUME NEW p \in Requests, CommitRetirement(p), UNCHANGED held,
             pc'[p] # "heal", \A q \in Requests : q # p => pc'[q] = pc[q]
      PROVE  BornInOrder' /\ LegacyIsFirst' /\ HealsRetireOlder'
  <2>1. \A k \in Kids : status'[k] = "unborn" <=> status[k] = "unborn"
    BY <1>2 DEF CommitRetirement, HealsRetireOlder
  <2>2. BornInOrder' /\ LegacyIsFirst'
    BY <1>2, <2>1 DEF BornInOrder, LegacyIsFirst, CommitRetirement
  <2>3. \A q \in Requests : stale'[q] \subseteq stale[q]
    BY <1>2 DEF CommitRetirement
  <2>4. HealsRetireOlder'
    BY <1>2, <2>1, <2>3 DEF HealsRetireOlder
  <2>5. QED
    BY <2>2, <2>4
<1>3. ASSUME NEW p \in Requests, IssueHeal(p) PROVE Goal
  <2>1. /\ CommitRetirement(p)
        /\ UNCHANGED <<held, interrupted>>
        /\ pc[p] = "heal"
        /\ pc' = [pc EXCEPT ![p] = IF held[p] = NoKey THEN "create" ELSE "sign"]
    BY <1>3 DEF IssueHeal
  <2>2. BornInOrder' /\ LegacyIsFirst' /\ HealsRetireOlder'
    BY <1>2, <2>1
  <2>3. NewestCovered'
    <3>1. CASE held[p] = NoKey
      <4>1. Replacing'
        BY <2>1, <3>1 DEF Replacing
      <4>2. QED
        BY <4>1 DEF NewestCovered
    <3>2. CASE held[p] # NoKey
      <4>1. Replacing => Replacing'
        BY <2>1 DEF Replacing
      <4>2. ASSUME NEW k \in Kids, status[k] # "unborn"
            PROVE  ActiveAbove(k)' \/ Replacing'
        <5> DEFINE m == IF k < held[p] THEN held[p] ELSE k
        <5>1. m \in Kids /\ k <= m /\ held[p] <= m /\ status[m] # "unborn"
          BY <3>2, <4>2 DEF HealsRetireOlder, Kids, NoKey
        <5>2. ActiveAbove(m) \/ Replacing
          BY <5>1 DEF NewestCovered
        <5>3. ASSUME NEW j \in Kids, m <= j, status[j] = "active"
              PROVE  ActiveAbove(k)'
          <6>1. k <= j /\ held[p] <= j
            BY <5>1, <5>3 DEF Kids, NoKey
          <6>2. j \notin stale[p]
            BY <2>1, <3>2, <6>1 DEF HealsRetireOlder, Kids, NoKey
          <6>3. status'[j] = "active"
            BY <2>1, <5>3, <6>2 DEF CommitRetirement
          <6>4. QED
            BY <6>1, <6>3 DEF ActiveAbove
        <5>4. QED
          BY <4>1, <5>2, <5>3 DEF ActiveAbove
      <4>3. \A k \in Kids : status'[k] # "unborn" => status[k] # "unborn"
        BY <2>1 DEF CommitRetirement, HealsRetireOlder
      <4>4. QED
        BY <4>2, <4>3 DEF NewestCovered
    <3>3. QED
      BY <3>1, <3>2
  <2>4. QED
    BY <2>2, <2>3
<1>4. ASSUME NEW p \in Requests, IssueCreate(p) PROVE Goal
  <2>1. PICK k \in Kids : InsertKey(k) /\ held' = [held EXCEPT ![p] = k]
    BY <1>4 DEF IssueCreate
  <2>2. stale' = stale /\ pc' = [pc EXCEPT ![p] = "sign"]
    BY <1>4 DEF IssueCreate
  <2>3. HealsRetireOlder'
    BY <2>1, <2>2, InsertCovers DEF HealsRetireOlder, NoKey
  <2>4. QED
    BY <2>1, <2>3, InsertCovers
<1>5. ASSUME NEW p \in Requests, IssueSign(p) PROVE Goal
  BY <1>5 DEF IssueSign, BornInOrder, LegacyIsFirst, HealsRetireOlder,
              NewestCovered, ActiveAbove, Replacing
<1>6. ASSUME NEW p \in Requests, RotateSelect(p) PROVE Goal
  <2>1. UNCHANGED <<status, algorithm, held, interrupted>> /\ pc[p] = "idle"
    BY <1>6 DEF RotateSelect
  <2>2. /\ \A q \in Requests : q # p => pc'[q] = pc[q] /\ stale'[q] = stale[q]
        /\ pc'[p] # "heal"
        /\ stale'[p] \subseteq stale[p] \cup ActiveKeys
    BY <1>6 DEF RotateSelect
  <2>3. HealsRetireOlder'
    BY <2>1, <2>2 DEF HealsRetireOlder, ActiveKeys
  <2>4. Replacing => Replacing'
    BY <2>1, <2>2 DEF Replacing
  <2>5. QED
    BY <2>1, <2>3, <2>4 DEF BornInOrder, LegacyIsFirst, NewestCovered, ActiveAbove
<1>7. ASSUME NEW p \in Requests, RotateRetire(p) PROVE Goal
  <2>1. /\ CommitRetirement(p)
        /\ UNCHANGED held
        /\ pc' = [pc EXCEPT ![p] = "replace"]
    BY <1>7 DEF RotateRetire
  <2>2. BornInOrder' /\ LegacyIsFirst' /\ HealsRetireOlder'
    BY <1>2, <2>1
  <2>3. Replacing'
    BY <2>1 DEF Replacing
  <2>4. QED
    BY <2>2, <2>3 DEF NewestCovered
<1>8. ASSUME NEW p \in Requests, RotateCreate(p) PROVE Goal
  <2>1. PICK k \in Kids : InsertKey(k)
    BY <1>8 DEF RotateCreate
  <2>2. UNCHANGED <<held, stale>> /\ pc' = [pc EXCEPT ![p] = "idle"]
    BY <1>8 DEF RotateCreate
  <2>3. HealsRetireOlder'
    BY <2>1, <2>2, InsertCovers DEF HealsRetireOlder, NoKey
  <2>4. QED
    BY <2>1, <2>3, InsertCovers
<1>9. ASSUME NEW p \in Requests, Abort(p) PROVE Goal
  <2>1. /\ UNCHANGED <<status, algorithm>>
        /\ interrupted' = (interrupted \/ pc[p] \in {"create", "replace"})
        /\ pc' = [pc EXCEPT ![p] = "idle"]
        /\ held' = [held EXCEPT ![p] = NoKey]
        /\ stale' = [stale EXCEPT ![p] = {}]
    BY <1>9 DEF Abort
  <2>2. Replacing => Replacing'
    <3>1. CASE interrupted'
      BY <3>1 DEF Replacing
    <3>2. CASE ~interrupted'
      BY <2>1, <3>2 DEF Replacing
    <3>3. QED
      BY <3>1, <3>2
  <2>3. HealsRetireOlder'
    BY <2>1 DEF HealsRetireOlder
  <2>4. QED
    BY <2>1, <2>2, <2>3 DEF BornInOrder, LegacyIsFirst, NewestCovered, ActiveAbove
<1>10. CASE Tick \/ UNCHANGED vars
  BY <1>10 DEF Tick, vars, BornInOrder, LegacyIsFirst, HealsRetireOlder,
               NewestCovered, ActiveAbove, Replacing
<1>11. QED
  BY <1>1, <1>3, <1>4, <1>5, <1>6, <1>7, <1>8, <1>9, <1>10 DEF Next

(* Racing rotations and heals never leave a tenant without a signing key    *)
(* unless a request is about to create one or died before it could.         *)
THEOREM NeverStrandsATenant == Spec => []KeylessOnlyMidRotation
<1>1. CoverInv => KeylessOnlyMidRotation
  <2> SUFFICES ASSUME CoverInv, ActiveKeys = {}, UnbornKeys # Kids, ~Replacing
               PROVE  FALSE
    BY DEF KeylessOnlyMidRotation, Replacing
  <2>1. PICK k \in Kids : status[k] # "unborn"
    BY DEF UnbornKeys
  <2>2. ActiveAbove(k)
    BY <2>1 DEF CoverInv, NewestCovered
  <2>3. QED
    BY <2>2 DEF ActiveAbove, ActiveKeys
<1>2. QED
  BY <1>1, CoverInit, CoverStep, PTL DEF Spec

(* A heal has marked every active key older than the one it keeps.          *)
HealsMissNone ==
    \A p \in Requests : pc[p] = "heal" =>
        \A k \in ActiveKeys : k < held[p] => k \in stale[p]

HealInv == CoverInv /\ HealsMissNone

LEMMA MissNoneStep ==
    ASSUME HealInv, [Next]_vars
    PROVE  HealsMissNone'
<1> USE DEF HealInv, CoverInv, TypeOK, rows, locals
<1> SUFFICES ASSUME NEW q \in Requests, pc'[q] = "heal",
                    NEW k \in Kids, status'[k] = "active", k < held'[q]
             PROVE  k \in stale'[q]
  BY DEF HealsMissNone, ActiveKeys
<1> DEFINE Before == /\ pc[q] = "heal" /\ held[q] = held'[q] /\ stale[q] = stale'[q]
                     /\ status[k] = "active"
<1>1. CASE Before
  BY <1>1 DEF HealsMissNone, ActiveKeys
<1>2. ASSUME NEW p \in Requests, IssueSelect(p) PROVE k \in stale'[q]
  <2>1. CASE p = q
    <3>1. /\ held'[q] \in Kids \cup {NoKey} /\ status' = status
          /\ stale'[q] = ActiveKeys \ {held'[q]}
      BY <1>2, <2>1 DEF IssueSelect
    <3> QED BY <3>1 DEF ActiveKeys, Kids, NoKey
  <2>2. CASE p # q
    BY <1>1, <1>2, <2>2 DEF IssueSelect
  <2> QED BY <2>1, <2>2
<1>3. ASSUME NEW j \in Kids, InsertKey(j), pc[q] = "heal", held'[q] = held[q], stale'[q] = stale[q]
      PROVE  k \in stale'[q]
  <2>1. k # j
    <3> SUFFICES ASSUME k = j PROVE FALSE
      OBVIOUS
    <3>1. held[q] \in Kids /\ status[held[q]] # "unborn"
      BY <1>3 DEF HealsRetireOlder, Kids, NoKey
    <3>2. status[k] # "unborn"
      BY <1>3, <3>1 DEF BornInOrder
    <3> QED BY <1>3, <3>2 DEF InsertKey, IsNextKid, UnbornKeys
  <2>2. status[k] = "active"
    BY <1>3, <2>1 DEF InsertKey
  <2> QED BY <1>1, <1>3, <2>2
<1>4. ASSUME NEW p \in Requests, IssueCreate(p) \/ RotateCreate(p) PROVE k \in stale'[q]
  <2>1. p # q /\ pc[q] = "heal" /\ held'[q] = held[q] /\ stale'[q] = stale[q]
    BY <1>4 DEF IssueCreate, RotateCreate
  <2>2. PICK j \in Kids : InsertKey(j)
    BY <1>4 DEF IssueCreate, RotateCreate
  <2> QED BY <1>3, <2>1, <2>2
<1>5. ASSUME NEW p \in Requests, IssueHeal(p) \/ RotateRetire(p) PROVE k \in stale'[q]
  <2>1. p # q /\ CommitRetirement(p) /\ pc[q] = "heal" /\ held'[q] = held[q]
    BY <1>5 DEF IssueHeal, RotateRetire
  <2>2. stale'[q] = stale[q] /\ status[k] = "active"
    BY <2>1 DEF CommitRetirement
  <2> QED BY <1>1, <2>1, <2>2
<1>6. ASSUME NEW p \in Requests, IssueSign(p) \/ RotateSelect(p) \/ Abort(p)
      PROVE  k \in stale'[q]
  <2>1. p # q /\ status' = status
    BY <1>6 DEF IssueSign, RotateSelect, Abort
  <2> QED BY <1>1, <1>6, <2>1 DEF IssueSign, RotateSelect, Abort
<1>7. CASE Tick \/ UNCHANGED vars
  BY <1>1, <1>7 DEF Tick, vars
<1> QED BY <1>2, <1>4, <1>5, <1>6, <1>7 DEF Next

(* A heal leaves the newest key it found and keys created since, and no     *)
(* request brings a retired key back.                                       *)
THEOREM HealedToNewest == Spec => HealsToNewest
<1>1. ASSUME HealInv, [Next]_vars, NEW k \in Kids, status[k] = "retired"
      PROVE  status'[k] = "retired"
  <2> USE DEF HealInv, CoverInv, TypeOK, rows
  <2>1. ASSUME NEW p \in Requests, CommitRetirement(p) PROVE status'[k] = "retired"
    BY <1>1, <2>1 DEF CommitRetirement
  <2>2. ASSUME NEW j \in Kids, InsertKey(j) PROVE status'[k] = "retired"
    BY <1>1, <2>2 DEF InsertKey, IsNextKid, UnbornKeys
  <2>3. ASSUME NEW p \in Requests,
               \/ IssueSelect(p) \/ IssueSign(p) \/ RotateSelect(p) \/ Abort(p)
        PROVE  status'[k] = "retired"
    BY <1>1, <2>3 DEF IssueSelect, IssueSign, RotateSelect, Abort
  <2>4. ASSUME NEW p \in Requests, IssueHeal(p) \/ RotateRetire(p)
        PROVE  status'[k] = "retired"
    BY <2>1, <2>4 DEF IssueHeal, RotateRetire
  <2>5. ASSUME NEW p \in Requests, IssueCreate(p) \/ RotateCreate(p)
        PROVE  status'[k] = "retired"
    BY <2>2, <2>5 DEF IssueCreate, RotateCreate
  <2>6. CASE Tick \/ UNCHANGED vars
    BY <1>1, <2>6 DEF Tick, vars
  <2>7. QED
    BY <1>1, <2>3, <2>4, <2>5, <2>6 DEF Next
<1>2. ASSUME HealInv, [Next]_vars, NEW p \in Requests, pc[p] = "heal",
             pc'[p] \in {"create", "sign"}, NEW k \in ActiveKeys'
      PROVE  k >= held[p]
  <2> USE DEF HealInv, CoverInv, TypeOK, rows, locals
  <2>1. IssueHeal(p)
    <3>1. ASSUME NEW q \in Requests, Next, q # p,
                 \/ IssueSelect(q) \/ IssueHeal(q) \/ IssueCreate(q) \/ IssueSign(q)
                 \/ RotateSelect(q) \/ RotateRetire(q) \/ RotateCreate(q) \/ Abort(q)
          PROVE  FALSE
      BY <1>2, <3>1 DEF IssueSelect, IssueHeal, IssueCreate, IssueSign,
                        RotateSelect, RotateRetire, RotateCreate, Abort
    <3>2. ~(Tick \/ UNCHANGED vars)
      BY <1>2 DEF Tick, vars
    <3>3. ~\/ IssueSelect(p) \/ IssueCreate(p) \/ IssueSign(p)
           \/ RotateSelect(p) \/ RotateRetire(p) \/ RotateCreate(p) \/ Abort(p)
      BY <1>2 DEF IssueSelect, IssueCreate, IssueSign, RotateSelect, RotateRetire,
                  RotateCreate, Abort
    <3> QED BY <1>2, <3>1, <3>2, <3>3 DEF Next
  <2>2. k \in Kids /\ status'[k] = "active"
    BY <1>2 DEF ActiveKeys
  <2>3. status[k] = "active" /\ k \notin stale[p]
    BY <2>1, <2>2 DEF IssueHeal, CommitRetirement
  <2>4. ~(k < held[p])
    BY <1>2, <2>2, <2>3 DEF HealsMissNone, ActiveKeys
  <2>5. held[p] \in Kids \cup {NoKey}
    BY <1>2 DEF TypeOK
  <2>6. Kids \subseteq Nat /\ NoKey \in Nat
    BY DEF Kids, NoKey
  <2> QED
    <3> HIDE DEF HealInv, CoverInv, TypeOK
    <3>1. held[p] \in Nat /\ k \in Nat
      BY <2>2, <2>5, <2>6
    <3> QED BY <2>4, <3>1
<1>3. HealInv /\ [Next]_vars => HealInv'
  BY CoverStep, MissNoneStep DEF HealInv
<1>4. Init => HealInv
  BY CoverInit DEF HealInv, HealsMissNone, Init
<1>5. HealInv /\ [Next]_vars =>
        [/\ \A p \in Requests :
               (pc[p] = "heal" /\ pc'[p] \in {"create", "sign"})
                   => \A k \in ActiveKeys' : k >= held[p]
         /\ \A k \in Kids : status[k] = "retired" => status'[k] = "retired"]_vars
  BY <1>1, <1>2
<1>6. QED
  BY <1>3, <1>4, <1>5, PTL DEF Spec, HealsToNewest
-----------------------------------------------------------------------------
(* SigningKeys implements TrustStore.  Requests that mark one key overlap:  *)
(* the stamps they write into its row lie within StampToCommit.             *)
RemarksInTime ==
    \A p \in Requests : \A k \in stale[p] :
        status[k] = "retired" => stamp[p] <= retiredAt[k] + StampToCommit

TrustInv == OverlapInv /\ RemarksInTime

Born == Kids \ UnbornKeys
Gone == Born \ PublishedKeys
Live == {<<t.kid, t>> : t \in {u \in tokens : now < u.exp}}

LEMMA RemarksStep ==
    ASSUME TrustInv, [Next]_vars
    PROVE  RemarksInTime'
<1> USE DEF TrustInv, OverlapInv, TypeOK, rows, locals
<1>1. ASSUME NEW p \in Requests, CommitRetirement(p), now' = now
      PROVE  RemarksInTime'
  <2> SUFFICES ASSUME NEW o \in Requests, NEW k \in stale'[o], status'[k] = "retired"
               PROVE  stamp'[o] <= retiredAt'[k] + StampToCommit
    BY DEF RemarksInTime
  <2>1. o # p /\ k \in stale[o] /\ stamp'[o] = stamp[o]
    BY <1>1 DEF CommitRetirement
  <2>2. k \in Kids /\ stamp[o] \in Nat /\ stamp[p] \in Nat /\ now \in Nat
    BY <2>1 DEF Times
  <2>3. CASE k \in stale[p]
    <3>1. stamp[o] <= now /\ now <= stamp[p] + StampToCommit
      BY <2>1, <2>3 DEF StampsInTime
    <3>2. retiredAt'[k] = stamp[p]
      BY <1>1, <2>2, <2>3 DEF CommitRetirement
    <3>3. QED
      BY <2>1, <2>2, <3>1, <3>2
  <2>4. CASE k \notin stale[p]
    BY <1>1, <2>1, <2>2, <2>4 DEF CommitRetirement, RemarksInTime
  <2>5. QED
    BY <2>3, <2>4
<1>2. ASSUME NEW k \in Kids, InsertKey(k), UNCHANGED <<stale, stamp>>
      PROVE  RemarksInTime'
  BY <1>2 DEF InsertKey, RemarksInTime
<1>3. ASSUME NEW p \in Requests, IssueSelect(p) \/ RotateSelect(p)
      PROVE  RemarksInTime'
  <2>1. UNCHANGED <<status, retiredAt>>
    BY <1>3 DEF IssueSelect, RotateSelect
  <2>2. \A o \in Requests \ {p} : stale'[o] = stale[o] /\ stamp'[o] = stamp[o]
    BY <1>3 DEF IssueSelect, RotateSelect
  <2>3. stale'[p] \subseteq ActiveKeys \/ (stale'[p] = stale[p] /\ stamp'[p] = stamp[p])
    BY <1>3 DEF IssueSelect, RotateSelect
  <2>4. QED
    BY <2>1, <2>2, <2>3 DEF RemarksInTime, ActiveKeys
<1>4. ASSUME NEW p \in Requests, IssueHeal(p) \/ RotateRetire(p)
      PROVE  RemarksInTime'
  BY <1>1, <1>4 DEF IssueHeal, RotateRetire
<1>5. ASSUME NEW p \in Requests, IssueCreate(p) \/ RotateCreate(p)
      PROVE  RemarksInTime'
  BY <1>2, <1>5 DEF IssueCreate, RotateCreate
<1>6. ASSUME NEW p \in Requests, IssueSign(p) \/ Abort(p)
      PROVE  RemarksInTime'
  BY <1>6 DEF IssueSign, Abort, RemarksInTime
<1>7. CASE Tick \/ UNCHANGED vars
  BY <1>7 DEF Tick, vars, RemarksInTime
<1>8. QED
  BY <1>3, <1>4, <1>5, <1>6, <1>7 DEF Next

(* What a step does when it only takes keys and credentials away.           *)
LEMMA Withdraws ==
    ASSUME OverlapInv', Born' = Born, PublishedKeys' \subseteq PublishedKeys, Live' \subseteq Live
    PROVE  Trust!Withdraw
<1>1. Gone' = Gone \cup (PublishedKeys \ PublishedKeys')
  <2>1. PublishedKeys \subseteq Born
    BY DEF PublishedKeys, Born, UnbornKeys
  <2>2. QED
    BY <2>1 DEF Gone
<1>2. \A c \in Live' : c[1] \in PublishedKeys'
  <2>1. PublishedUntilExpiry'
    BY OverlapPublishes, PTL
  <2>2. QED
    BY <2>1 DEF PublishedUntilExpiry, Live
<1>3. QED
  BY <1>1, <1>2 DEF Trust!Withdraw, Gone, Born, Live

(* A commit that retires keys, for the first time or again, publishes none. *)
LEMMA RetirementWithdraws ==
    ASSUME TrustInv, OverlapInv', NEW p \in Requests, CommitRetirement(p), UNCHANGED <<now, tokens>>
    PROVE  Trust!Withdraw
<1> USE DEF TrustInv, OverlapInv, TypeOK, CommitRetirement
<1>1. Born' = Born
  BY DEF Born, UnbornKeys, StampsInTime
<1>2. ASSUME NEW k \in PublishedKeys' PROVE k \in PublishedKeys
  <2>1. k \in Kids /\ algorithm[k] = "RS256" /\ status[k] # "unborn"
    BY <1>1 DEF PublishedKeys, Born, UnbornKeys
  <2>2. CASE k \notin stale[p]
    BY <2>1, <2>2 DEF PublishedKeys
  <2>3. CASE k \in stale[p]
    <3>1. now <= stamp[p] + StampToCommit /\ now \in Nat /\ stamp[p] \in Nat
      BY <2>3 DEF StampsInTime, Times
    <3>2. status[k] = "retired" =>
            stamp[p] <= retiredAt[k] + StampToCommit /\ retiredAt[k] \in Nat
      BY <2>1, <2>3 DEF RemarksInTime, Times
    <3>3. status[k] = "retired" => ~(retiredAt[k] + MaxTtl + Grace <= now)
      BY <3>1, <3>2, WithdrawalAssumption
    <3>4. QED
      BY <2>1, <3>3 DEF PublishedKeys
  <2>4. QED
    BY <2>2, <2>3
<1>3. Live' = Live
  BY DEF Live
<1>4. QED
  BY <1>1, <1>2, <1>3, Withdraws

LEMMA InsertIntroduces ==
    ASSUME TypeOK, NEW k \in Kids, InsertKey(k), UNCHANGED <<now, tokens>>
    PROVE  Trust!Introduce
<1> USE DEF TypeOK
<1>1. /\ status[k] = "unborn"
      /\ status' = [status EXCEPT ![k] = "active"]
      /\ algorithm' = [algorithm EXCEPT ![k] = "RS256"]
      /\ UNCHANGED retiredAt
  BY DEF InsertKey, IsNextKid, UnbornKeys
<1>2. k \notin Born /\ k \notin PublishedKeys
  BY <1>1 DEF Born, UnbornKeys, PublishedKeys
<1>3. PublishedKeys' = PublishedKeys \cup {k}
  BY <1>1 DEF PublishedKeys
<1>4. Gone' = Gone
  BY <1>1, <1>2, <1>3 DEF Gone, Born, UnbornKeys
<1>5. Live' = Live
  BY DEF Live
<1>6. QED
  BY <1>2, <1>3, <1>4, <1>5 DEF Trust!Introduce, Gone, Born, Live

(* The key a request signs with may have been retired since it was read.    *)
LEMMA SigningIssues ==
    ASSUME OverlapInv, OverlapInv', NEW p \in Requests, IssueSign(p)
    PROVE  Trust!Issue \/ UNCHANGED Trust!vars
<1>1. PICK ttl \in GrantedTtls :
        tokens' = tokens \cup {[kid |-> held[p], iat |-> now, exp |-> now + ttl]}
  BY DEF IssueSign
<1> DEFINE token == [kid |-> held[p], iat |-> now, exp |-> now + ttl]
<1>2. UNCHANGED <<now, status, algorithm, retiredAt>>
  BY DEF IssueSign, rows
<1>3. Born' = Born /\ PublishedKeys' = PublishedKeys /\ Gone' = Gone
  BY <1>2 DEF Gone, Born, UnbornKeys, PublishedKeys
<1>4. CASE now < token.exp
  <2>1. Live' = Live \cup {<<token.kid, token>>}
    BY <1>1, <1>2, <1>4 DEF Live
  <2>2. token.kid \in PublishedKeys'
    <3>1. PublishedUntilExpiry'
      BY OverlapPublishes, PTL
    <3>2. token \in tokens' /\ now' < token.exp
      BY <1>1, <1>2, <1>4
    <3>3. QED
      BY <3>1, <3>2 DEF PublishedUntilExpiry
  <2> HIDE DEF token
  <2>3. <<token.kid, token>> \in Live' /\ <<token.kid, token>>[1] \in PublishedKeys
    BY <1>3, <2>1, <2>2
  <2>4. QED
    BY <1>3, <2>1, <2>3 DEF Trust!Issue, Gone, Born, Live
<1>5. CASE ~(now < token.exp)
  <2>1. Live' = Live
    BY <1>1, <1>2, <1>5 DEF Live
  <2>2. QED
    BY <1>3, <2>1 DEF Trust!vars, Gone, Born, Live
<1>6. QED
  BY <1>4, <1>5

LEMMA TickWithdraws ==
    ASSUME OverlapInv, OverlapInv', Tick
    PROVE  Trust!Withdraw
<1> USE DEF OverlapInv, TypeOK
<1>1. UNCHANGED <<status, algorithm, retiredAt, tokens>> /\ now' = now + 1 /\ now \in Nat
  BY DEF Tick, rows, Times
<1>2. Born' = Born
  BY <1>1 DEF Born, UnbornKeys
<1>3. PublishedKeys' \subseteq PublishedKeys
  BY <1>1 DEF PublishedKeys, Times
<1>4. Live' \subseteq Live
  <2>1. \A t \in tokens : t.exp \in Nat
    BY DEF Token
  <2>2. QED
    BY <1>1, <2>1 DEF Live
<1>5. QED
  BY <1>2, <1>3, <1>4, Withdraws

(* The JWKS implements TrustStore: a token is only signed under a published *)
(* key, the key outlasts it there, and a withdrawn key never comes back,    *)
(* however rotations, heals and issuances interleave.                       *)
THEOREM JwksKeepsTrust == Spec => KeepsTrust
<1>1. Init => TrustInv /\ Trust!Init
  <2> SUFFICES ASSUME Init PROVE TrustInv /\ Trust!Init
    OBVIOUS
  <2>1. RemarksInTime /\ tokens = {}
    BY DEF Init, RemarksInTime
  <2>2. PublishedKeys \subseteq Kids /\ Gone \subseteq Kids \ PublishedKeys /\ Live = {}
    BY <2>1 DEF PublishedKeys, Gone, Born, Live
  <2>3. QED
    BY <2>1, <2>2, OverlapInit DEF TrustInv, Trust!Init, Gone, Born, Live
<1>2. TrustInv /\ [Next]_vars => TrustInv'
  BY OverlapStep, RemarksStep DEF TrustInv
<1>3. TrustInv /\ TrustInv' /\ [Next]_vars => [Trust!Next]_Trust!vars
  <2> SUFFICES ASSUME TrustInv, OverlapInv', [Next]_vars
               PROVE  Trust!Next \/ UNCHANGED Trust!vars
    BY DEF TrustInv
  <2> USE DEF Trust!Next
  <2>1. ASSUME UNCHANGED <<status, algorithm, retiredAt, now, tokens>>
        PROVE  UNCHANGED Trust!vars
    BY <2>1 DEF Trust!vars, PublishedKeys, UnbornKeys
  <2>2. ASSUME NEW p \in Requests, IssueSelect(p) \/ RotateSelect(p) \/ Abort(p)
        PROVE  UNCHANGED Trust!vars
    BY <2>1, <2>2 DEF IssueSelect, RotateSelect, Abort, rows
  <2>3. ASSUME NEW p \in Requests, IssueHeal(p) \/ RotateRetire(p)
        PROVE  Trust!Next
    BY <2>3, RetirementWithdraws DEF IssueHeal, RotateRetire
  <2>4. ASSUME NEW p \in Requests, IssueCreate(p) \/ RotateCreate(p)
        PROVE  Trust!Next
    BY <2>4, InsertIntroduces DEF IssueCreate, RotateCreate, TrustInv, OverlapInv
  <2>5. ASSUME NEW p \in Requests, IssueSign(p)
        PROVE  Trust!Next \/ UNCHANGED Trust!vars
    BY <2>5, SigningIssues DEF TrustInv
  <2>6. CASE Tick
    BY <2>6, TickWithdraws DEF TrustInv
  <2>7. CASE UNCHANGED vars
    BY <2>1, <2>7 DEF vars, rows
  <2>8. QED
    BY <2>2, <2>3, <2>4, <2>5, <2>6, <2>7 DEF Next
<1>4. QED
  BY <1>1, <1>2, <1>3, PTL DEF Spec, KeepsTrust, Trust!Spec

(* What TrustStore gives its readers: every live credential verifies, and   *)
(* what has been withdrawn stays so.                                        *)
THEOREM TrustIsSound == Trust!Spec => []Trust!Verifiable /\ Trust!WithdrawnForGood
<1> DEFINE Apart == Gone \subseteq Kids /\ Gone \cap PublishedKeys = {}
           Sound == Apart /\ Trust!Verifiable
<1>1. Trust!Init => Sound
  BY DEF Trust!Init, Trust!Verifiable, Gone, Born
<1>2. Sound /\ [Trust!Next]_Trust!vars => Sound'
  BY DEF Trust!Next, Trust!vars, Trust!Introduce, Trust!Issue, Trust!Withdraw,
         Trust!Verifiable, Gone, Born, Live
<1>3. Sound /\ [Trust!Next]_Trust!vars =>
        [\A k \in Gone : k \in Gone' /\ k \notin PublishedKeys']_Trust!vars
  BY DEF Trust!Next, Trust!vars, Trust!Introduce, Trust!Issue, Trust!Withdraw, Gone, Born
<1>4. QED
  BY <1>1, <1>2, <1>3, PTL DEF Trust!Spec, Trust!WithdrawnForGood, Gone, Born

(* So every unexpired token verifies against the JWKS, and verifiers that   *)
(* have seen a key leave it never see it come back, whatever retirements of *)
(* one key overlap.                                                         *)
COROLLARY JwksIsTrustworthy == Spec => []Trust!Verifiable /\ Trust!WithdrawnForGood
BY JwksKeepsTrust, TrustIsSound, PTL DEF KeepsTrust
=============================================================================
