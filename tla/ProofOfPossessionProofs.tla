----------------------- MODULE ProofOfPossessionProofs -----------------------
(***************************************************************************)
(* Proofs about ProofOfPossession for any requests, challenges, calls and  *)
(* proofs.  ServiceInv ties a challenge's row to the requests that claimed *)
(* or consumed it; CacheInv says what the cache cannot have forgotten.     *)
(***************************************************************************)
EXTENDS ProofOfPossession, TLAPS

USE PopAssumption

(* A request under way presents a challenge that was issued, and read the    *)
(* clock not later than now.                                                 *)
UnderWay ==
    \A p \in Requests :
        /\ began[p] <= now
        /\ pc[p] # "idle" => nonce[p] \in Challenges /\ row[nonce[p]] # "none"

(* A claimed row is open and has one claimant. *)
OneClaimant ==
    \A p \in Requests : pc[p] = "claimed" =>
        /\ row[nonce[p]] = "open"
        /\ \A q \in Requests \ {p} : pc[q] = "claimed" => nonce[q] # nonce[p]

(* What a row says about its challenge. *)
RowsTell ==
    \A c \in Challenges :
        /\ row[c] \in {"none", "open"} => wins[c] = 0
        /\ row[c] = "used" => wins[c] > 0
        /\ row[c] = "pruned" => expiresAt[c] <= now

ServiceInv == UnderWay /\ OneClaimant /\ RowsTell /\ ChallengeServesOne /\ RefusedForCause

(* An accepted proof is in the cache while its window lasts. *)
CacheInv ==
    /\ \A d \in Calls : /\ clock[d] <= now
                        /\ at[d] # "idle" => shown[d] \in Proofs
    /\ \A x \in Proofs : accepts[x] > 0 /\ now < iat[x] + MaxAge => x \in seen
    /\ ReplayOnlyAtWindowsEnd

PopInv == TypeOK /\ ServiceInv /\ CacheInv

-----------------------------------------------------------------------------
LEMMA PopInit == Init => PopInv
<1> SUFFICES ASSUME Init PROVE PopInv
  OBVIOUS
<1>1. TypeOK
  BY DEF Init, TypeOK, Times, Rows, RequestStages, CallStages
<1>2. ServiceInv
  BY DEF Init, ServiceInv, UnderWay, OneClaimant, RowsTell, ChallengeServesOne, RefusedForCause
<1>3. CacheInv
  BY DEF Init, CacheInv, ReplayOnlyAtWindowsEnd
<1>4. QED
  BY <1>1, <1>2, <1>3 DEF PopInv

(* Steps of the identity service do not touch the tool server, and vice      *)
(* versa.                                                                    *)
LEMMA CacheFrame ==
    ASSUME CacheInv, UNCHANGED <<now, iat, guard>> PROVE CacheInv'
BY DEF CacheInv, guard, ReplayOnlyAtWindowsEnd

LEMMA ServiceFrame ==
    ASSUME ServiceInv, UNCHANGED <<now, service>> PROVE ServiceInv'
BY DEF ServiceInv, service, UnderWay, OneClaimant, RowsTell, ChallengeServesOne, RefusedForCause

LEMMA PopStep == PopInv /\ [Next]_vars => PopInv'
<1> SUFFICES ASSUME PopInv, [Next]_vars PROVE PopInv'
  OBVIOUS
<1> USE DEF PopInv, Goto
<1> DEFINE All == UnderWay' /\ OneClaimant' /\ RowsTell' /\ ChallengeServesOne' /\ RefusedForCause'
<1>0. now \in Nat /\ \A c \in Challenges : expiresAt[c] \in Nat /\ wins[c] \in Nat
  BY DEF TypeOK, Times
<1>1. ASSUME NEW c \in Challenges, IssueChallenge(c) PROVE PopInv'
  <2>1. TypeOK'
    BY <1>1 DEF IssueChallenge, guard, TypeOK, Rows, Times
  <2>2. All
    <3>1. \A p \in Requests : pc[p] = "refused" => nonce[p] # c
      BY <1>1 DEF IssueChallenge, ServiceInv, UnderWay
    <3>2. QED
      BY <1>0, <1>1, <3>1 DEF IssueChallenge, TypeOK, ServiceInv, UnderWay, OneClaimant,
         RowsTell, ChallengeServesOne, RefusedForCause
  <2>3. CacheInv'
    BY <1>1, CacheFrame DEF IssueChallenge
  <2>4. QED
    BY <2>1, <2>2, <2>3 DEF ServiceInv
<1>2. ASSUME NEW p \in Requests, NEW c \in Challenges, Arrive(p, c) PROVE PopInv'
  <2>1. TypeOK'
    BY <1>2 DEF Arrive, guard, TypeOK, RequestStages
  <2>2. All
    BY <1>0, <1>2 DEF Arrive, TypeOK, ServiceInv, UnderWay, OneClaimant, RowsTell,
       ChallengeServesOne, RefusedForCause
  <2>3. CacheInv'
    BY <1>2, CacheFrame DEF Arrive
  <2>4. QED
    BY <2>1, <2>2, <2>3 DEF ServiceInv
<1>3. ASSUME NEW p \in Requests, Claim(p) PROVE PopInv'
  <2> DEFINE c == nonce[p]
  <2>1. TypeOK'
    BY <1>3 DEF Claim, guard, TypeOK, RequestStages
  <2>2. /\ c \in Challenges /\ row[c] \in Rows \ {"none"} /\ ~Locked(c) /\ began[p] \in Nat
        /\ began[p] <= now
    BY <1>3 DEF Claim, ServiceInv, UnderWay, TypeOK, Times
  <2>3. UnderWay' /\ RowsTell' /\ ChallengeServesOne'
    BY <1>3, <2>2 DEF Claim, TypeOK, ServiceInv, UnderWay, RowsTell, ChallengeServesOne
  <2>4. OneClaimant'
    BY <1>3, <2>2 DEF Claim, Locked, TypeOK, ServiceInv, OneClaimant
  <2>5. (row[c] = "open" /\ expiresAt[c] > began[p]) \/ wins[c] > 0 \/ expiresAt[c] <= now
    BY <1>0, <2>2 DEF Rows, ServiceInv, RowsTell
  <2>6. RefusedForCause'
    BY <1>3, <2>5 DEF Claim, TypeOK, ServiceInv, RefusedForCause
  <2>7. CacheInv'
    BY <1>3, CacheFrame DEF Claim
  <2>8. QED
    BY <2>1, <2>3, <2>4, <2>6, <2>7 DEF ServiceInv
<1>4. ASSUME NEW p \in Requests, CommitClaim(p) PROVE PopInv'
  <2> DEFINE c == nonce[p]
  <2>1. c \in Challenges /\ row[c] = "open" /\ wins[c] = 0
    BY <1>4 DEF CommitClaim, ServiceInv, UnderWay, OneClaimant, RowsTell
  <2>2. TypeOK'
    <3>1. wins' \in [Challenges -> Nat] /\ row' \in [Challenges -> Rows]
      BY <1>4, <2>1 DEF CommitClaim, TypeOK, Rows
    <3>2. pc' \in [Requests -> RequestStages]
      BY <1>4 DEF CommitClaim, TypeOK, RequestStages
    <3>3. QED
      BY <1>4, <3>1, <3>2 DEF CommitClaim, guard, TypeOK
  <2>3. All
    <3>1. UnderWay' /\ RowsTell' /\ ChallengeServesOne'
      BY <1>0, <1>4, <2>1 DEF CommitClaim, TypeOK, ServiceInv, UnderWay, RowsTell,
         ChallengeServesOne
    <3>2. \A q \in Requests \ {p} : pc[q] = "claimed" => nonce[q] # c
      BY <1>4 DEF CommitClaim, ServiceInv, OneClaimant
    <3>3. OneClaimant'
      BY <1>4, <3>2 DEF CommitClaim, TypeOK, ServiceInv, OneClaimant
    <3>4. \A e \in Challenges : wins[e] > 0 => wins'[e] > 0
      BY <1>0, <1>4 DEF CommitClaim, TypeOK
    <3>5. RefusedForCause'
      BY <1>4, <3>4 DEF CommitClaim, TypeOK, ServiceInv, UnderWay, RefusedForCause
    <3>6. QED
      BY <3>1, <3>3, <3>5
  <2>4. CacheInv'
    BY <1>4, CacheFrame DEF CommitClaim
  <2>5. QED
    BY <2>2, <2>3, <2>4 DEF ServiceInv
<1>5. ASSUME NEW p \in Requests, Serve(p) PROVE PopInv'
  <2>1. TypeOK'
    BY <1>5 DEF Serve, guard, TypeOK, RequestStages
  <2>2. All
    BY <1>0, <1>5 DEF Serve, TypeOK, ServiceInv, UnderWay, OneClaimant, RowsTell,
       ChallengeServesOne, RefusedForCause
  <2>3. CacheInv'
    BY <1>5, CacheFrame DEF Serve
  <2>4. QED
    BY <2>1, <2>2, <2>3 DEF ServiceInv
<1>6. ASSUME NEW p \in Requests, End(p) PROVE PopInv'
  <2>1. TypeOK'
    BY <1>6 DEF End, guard, TypeOK, RequestStages, Times
  <2>2. All
    BY <1>0, <1>6 DEF End, TypeOK, ServiceInv, UnderWay, OneClaimant, RowsTell,
       ChallengeServesOne, RefusedForCause
  <2>3. CacheInv'
    BY <1>6, CacheFrame DEF End
  <2>4. QED
    BY <2>1, <2>2, <2>3 DEF ServiceInv
<1>7. CASE Prune
  <2>1. TypeOK'
    BY <1>7 DEF Prune, guard, TypeOK, Rows
  <2>2. \A p \in Requests : pc[p] = "claimed" => ~Lapsed(nonce[p])
    BY <1>7 DEF Prune, Locked, ServiceInv, UnderWay
  <2>3. All
    BY <1>0, <1>7, <2>2 DEF Prune, Lapsed, TypeOK, ServiceInv, UnderWay, OneClaimant,
       RowsTell, ChallengeServesOne, RefusedForCause
  <2>4. CacheInv'
    BY <1>7, CacheFrame DEF Prune
  <2>5. QED
    BY <2>1, <2>3, <2>4 DEF ServiceInv
<1>8. ASSUME NEW d \in Calls, NEW x \in Proofs, Check(d, x) PROVE PopInv'
  <2>1. TypeOK' /\ CacheInv'
    BY <1>8 DEF Check, service, TypeOK, CallStages, CacheInv, ReplayOnlyAtWindowsEnd
  <2>2. QED
    BY <1>8, <2>1, ServiceFrame DEF Check
<1>9. ASSUME NEW d \in Calls, ReadClock(d) PROVE PopInv'
  <2>1. TypeOK' /\ CacheInv'
    BY <1>0, <1>9 DEF ReadClock, service, TypeOK, CallStages, CacheInv, ReplayOnlyAtWindowsEnd
  <2>2. QED
    BY <1>9, <2>1, ServiceFrame DEF ReadClock
<1>10. ASSUME NEW d \in Calls, Store(d) PROVE PopInv'
  <2> DEFINE y == shown[d]
             kept == seen \ Forgotten(clock[d])
  <2>1. /\ y \in Proofs /\ clock[d] \in Nat /\ clock[d] <= now
        /\ \A x \in Proofs : iat[x] \in Nat /\ accepts[x] \in 0..2
    BY <1>10 DEF Store, CacheInv, TypeOK, Times, Iats
  <2>2. \A x \in Proofs : accepts[x] > 0 /\ now < iat[x] + MaxAge => x \in kept
    BY <1>0, <2>1 DEF CacheInv, Forgotten
  <2>3. /\ seen' = kept \cup {y}
        /\ accepts' = IF y \in kept \/ accepts[y] = 2 THEN accepts
                      ELSE [accepts EXCEPT ![y] = accepts[y] + 1]
        /\ now' = now /\ iat' = iat
    BY <1>10 DEF Store
  <2>4. accepts' \in [Proofs -> 0..2] /\ seen' \subseteq Proofs
    BY <2>1, <2>3 DEF TypeOK
  <2>5. TypeOK'
    BY <1>10, <2>3, <2>4 DEF Store, service, TypeOK, CallStages, Times
  <2>6. \A x \in Proofs : accepts'[x] > 0 /\ now < iat[x] + MaxAge => x \in seen'
    BY <2>1, <2>2, <2>3 DEF TypeOK
  <2>7. \A x \in Proofs : accepts'[x] > 1 => iat[x] + MaxAge <= now
    BY <1>0, <2>1, <2>2, <2>3 DEF TypeOK, CacheInv, ReplayOnlyAtWindowsEnd
  <2>8. \A e \in Calls : clock'[e] <= now /\ (at'[e] # "idle" => shown'[e] \in Proofs)
    BY <1>0, <1>10 DEF Store, TypeOK, CacheInv
  <2>9. CacheInv'
    BY <2>3, <2>6, <2>7, <2>8 DEF CacheInv, ReplayOnlyAtWindowsEnd
  <2>10. QED
    BY <1>10, <2>3, <2>5, <2>9, ServiceFrame DEF Store
<1>11. CASE Tick
  <2>1. TypeOK'
    BY <1>11 DEF Tick, service, guard, TypeOK, Times
  <2>2. All
    BY <1>0, <1>11 DEF Tick, service, TypeOK, Times, ServiceInv, UnderWay, OneClaimant,
       RowsTell, ChallengeServesOne, RefusedForCause
  <2>3. CacheInv'
    BY <1>0, <1>11 DEF Tick, guard, TypeOK, Times, Iats, CacheInv, ReplayOnlyAtWindowsEnd
  <2>4. QED
    BY <2>1, <2>2, <2>3 DEF ServiceInv
<1>12. CASE UNCHANGED vars
  <2>1. TypeOK'
    BY <1>12 DEF vars, service, guard, TypeOK
  <2>2. QED
    BY <1>12, <2>1, ServiceFrame, CacheFrame DEF vars
<1>13. QED
  BY <1>1, <1>2, <1>3, <1>4, <1>5, <1>6, <1>7, <1>8, <1>9, <1>10, <1>11, <1>12 DEF Next

LEMMA PopInvariant == Spec => []PopInv
BY PopInit, PopStep, PTL DEF Spec

-----------------------------------------------------------------------------
(* Type correctness. *)
THEOREM TypeCorrect == Spec => []TypeOK
<1>1. PopInv => TypeOK
  BY DEF PopInv
<1>2. QED
  BY <1>1, PopInvariant, PTL

(* The conditional UPDATE of consume_server_challenge lets one request       *)
(* through for each challenge, whatever races, dies or is pruned.            *)
THEOREM ChallengesAreSingleUse == Spec => []ChallengeServesOne
<1>1. PopInv => ChallengeServesOne
  BY DEF PopInv, ServiceInv
<1>2. QED
  BY <1>1, PopInvariant, PTL

(* No request loses its challenge to one that died before its COMMIT, or to  *)
(* pruning.                                                                  *)
THEOREM RefusalsAreJustified == Spec => []RefusedForCause
<1>1. PopInv => RefusedForCause
  BY DEF PopInv, ServiceInv
<1>2. QED
  BY <1>1, PopInvariant, PTL

(* InMemoryReplayCache accepts a proof again at the earliest when the clock  *)
(* reaches the last second of its window, for any number of racing threads,  *)
(* each with a clock it may have read long before it gets the lock.          *)
THEOREM ReplayBound == Spec => []ReplayOnlyAtWindowsEnd
<1>1. PopInv => ReplayOnlyAtWindowsEnd
  BY DEF PopInv, CacheInv
<1>2. QED
  BY <1>1, PopInvariant, PTL
=============================================================================
