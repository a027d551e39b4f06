------------------------- MODULE RequestPathProofs -------------------------
(***************************************************************************)
(* Proofs about RequestPath, for every number of calls, retries,           *)
(* processes, connections and keys.                                        *)
(***************************************************************************)
EXTENDS RequestPath, FiniteSetTheorems, TLAPS

USE PoolAssumption, NoneAssumption, KeyAssumption, LimiterAssumption, WorkAssumption

(* The thread that takes a step was under way, and is or has answered.      *)
LEMMA ServeMoves ==
    ASSUME ThreadTypes, NEW r \in Requests, Serve(r)
    PROVE  /\ Live(r)
           /\ \E stage \in Stages \ {"unsent"} : pc' = [pc EXCEPT ![r] = stage]
<1> USE DEF Serve, Goto, Live, Stages, Answers, Querying
<1>1. CASE Authenticate(r)
  BY <1>1 DEF Authenticate, Lookup, Recheck, Candidates, FindLegacy, Upgrade, Refresh, Remember
<1>2. CASE Forbid(r) \/ Read(r) \/ Create(r) \/ RevokeMissing(r) \/ Revoke(r) \/ Reload(r)
  BY <1>2 DEF Forbid, Read, Create, RevokeMissing, Revoke, Reload, Handling, Commit
<1>3. CASE Audit(r)
  BY <1>3 DEF Audit, LockAudit, ConnectAudit, AppendEvent
<1>4. CASE TimeOut(r)
  BY <1>4 DEF TimeOut, Asking
<1> QED BY <1>1, <1>2, <1>3, <1>4

-----------------------------------------------------------------------------
LEMMA TypeInit == Init => TypeOK
<1> SUFFICES ASSUME Init PROVE TypeOK OBVIOUS
<1> USE DEF Init
<1>1. ThreadTypes /\ PoolOK
  BY DEF ThreadTypes, PoolOK, PoolInit, Stages, InAudit
<1>2. AuthTypes
  <2>1. AuthInit
    OBVIOUS
  <2>2. /\ [api_key |-> "lookup", hash |-> 1] \in Stored
        /\ Legacy \in Stored
        /\ [Legacy EXCEPT !.hash = 1] \in Stored
    BY DEF Stored, Legacy
  <2>3. customer \in Stored /\ modern \in BOOLEAN
    BY <2>1, <2>2 DEF AuthInit
  <2> QED BY <2>1, <2>3 DEF AuthTypes, AuthInit
<1>3. ClientTypes
  BY DEF ClientTypes
<1>4. LimiterTypes
  BY DEF LimiterTypes, LimiterInit, Times
<1> QED BY <1>1, <1>2, <1>3, <1>4 DEF TypeOK

(* A request and the call it belongs to. *)
LEMMA RequestCall ==
    ASSUME NEW r \in Requests
    PROVE  /\ r[1] \in Calls
           /\ r[2] \in 1 .. MaxRetries + 1
           /\ r = <<r[1], r[2]>>
BY DEF Requests

LEMMA KeyOfType ==
    ASSUME ClientTypes, NEW r \in Requests
    PROVE  /\ KeyOf(r) \in Secrets
           /\ job[r[1]] \in Jobs
BY RequestCall DEF ClientTypes, KeyOf, Jobs

(* What a step of a thread does to the pool, when it is not record_event or *)
(* a timeout.                                                               *)
LEMMA ServePool ==
    ASSUME TypeOK, NEW r \in Requests, Serve(r)
    PROVE  \/ LockAudit(r) \/ ConnectAudit(r) \/ AppendEvent(r) \/ TimeOut(r)
           \/ /\ pc[r] \notin InAudit /\ pc'[r] \notin InAudit
              /\ UNCHANGED <<proc, auditor, writing>>
              /\ \/ conn' = conn \ {r}
                 \/ pc'[r] \notin Answers \cup {"unsent"} /\ conn' \subseteq conn \cup {r}
<1> USE DEF Serve, TypeOK, ThreadTypes, Goto, Answers, InAudit, Query, Release, pool
<1>1. CASE Authenticate(r)
  BY <1>1 DEF Authenticate, Lookup, Recheck, Candidates, FindLegacy, Upgrade, Refresh, Remember
<1>2. CASE Forbid(r) \/ Read(r) \/ Create(r) \/ RevokeMissing(r) \/ Revoke(r) \/ Reload(r)
  BY <1>2 DEF Forbid, Read, Create, RevokeMissing, Revoke, Reload, Handling, Commit
<1> QED BY <1>1, <1>2 DEF Audit

LEMMA CacheEntry ==
    ASSUME NEW old \in [Processes -> [Secrets -> Nat]],
           NEW p \in Processes, NEW s \in Secrets, NEW hash \in Nat
    PROVE  /\ [old EXCEPT ![p][s] = hash] \in [Processes -> [Secrets -> Nat]]
           /\ Inserted(old[p], s, hash) \subseteq [Secrets -> Nat]
<1>1. [old EXCEPT ![p][s] = hash] \in [Processes -> [Secrets -> Nat]]
  OBVIOUS
<1>2. Inserted(old[p], s, hash) \subseteq [Secrets -> Nat]
  BY DEF Inserted
<1> QED BY <1>1, <1>2

LEMMA ServeAuth ==
    ASSUME TypeOK, NEW r \in Requests, Serve(r)
    PROVE  AuthTypes'
<1> USE KeyOfType
<1> USE DEF Serve, TypeOK, ThreadTypes, AuthTypes, keys, auth, Load
<1>0. /\ cache \in [Processes -> [Secrets -> Nat]]
      /\ proc[r] \in Processes
      /\ KeyOf(r) \in Secrets
      /\ verified[r] \in Nat
  BY ServeMoves DEF Live
<1>1. CASE Lookup(r)
  <2>1. cache' \in [Processes -> [Secrets -> Nat]]
    BY <1>0, <1>1, CacheEntry DEF Lookup
  <2>2. verified' \in [Requests -> Nat]
    BY <1>0, <1>1 DEF Lookup
  <2> QED BY <1>1, <2>1, <2>2 DEF Lookup
<1>2. CASE Recheck(r)
  <2>1. cache' \in [Processes -> [Secrets -> Nat]]
    <3>1. cache' = cache \/ cache' = [cache EXCEPT ![proc[r]][KeyOf(r)] = 0]
      BY <1>2 DEF Recheck
    <3>2. [cache EXCEPT ![proc[r]][KeyOf(r)] = 0] \in [Processes -> [Secrets -> Nat]]
      BY <1>0, CacheEntry
    <3> QED BY <1>0, <3>1, <3>2
  <2>2. verified' \in [Requests -> Nat]
    BY <1>0, <1>2 DEF Recheck, Stored
  <2> QED BY <1>2, <2>1, <2>2 DEF Recheck
<1>3. CASE Candidates(r) \/ FindLegacy(r) \/ Refresh(r)
  BY <1>3 DEF Candidates, FindLegacy, Refresh, Stored
<1>4. CASE Upgrade(r)
  BY <1>4 DEF Upgrade, Stored
<1>5. CASE Remember(r)
  <2>1. PICK entries \in Inserted(cache[proc[r]], KeyOf(r), verified[r]) :
            cache' = [cache EXCEPT ![proc[r]] = entries]
    BY <1>5 DEF Remember
  <2>2. entries \in [Secrets -> Nat]
    BY <1>0, CacheEntry
  <2> QED BY <1>0, <1>5, <2>1, <2>2 DEF Remember
<1>6. CASE Create(r) \/ Revoke(r)
  BY <1>6 DEF Create, Revoke, Commit, Jobs
<1>7. CASE UNCHANGED auth
  BY <1>7
<1> QED
  BY <1>1, <1>2, <1>3, <1>4, <1>5, <1>6, <1>7
     DEF Authenticate, Audit, Forbid, Read, RevokeMissing, Reload

(* The middleware keeps the limiter's types. *)
LEMMA ArriveTypes ==
    ASSUME TypeOK, NEW p \in Processes, NEW r \in Requests, Arrive(p, r)
    PROVE  LimiterTypes'
<1> USE DEF TypeOK, LimiterTypes
<1>1. CASE budget[Kind(r)] = 0
  BY <1>1 DEF Arrive, limiter
<1>2. CASE budget[Kind(r)] # 0
  <2>1. PICK time \in now .. MaxTime :
            LET ip == Count(buckets[p][IpBucket(r)], time)
                key == Count(buckets[p][KeyBucket(r)], time)
                ipOk == ip.count <= budget[Kind(r)]
                keyOk == ipOk /\ key.count <= budget[Kind(r)]
            IN /\ now' = time
               /\ buckets' = [buckets EXCEPT
                                 ![p][IpBucket(r)] = ip,
                                 ![p][KeyBucket(r)] = IF ipOk THEN key ELSE @]
               /\ hits' = hits \cup
                      {<<p, b, r, time>> : b \in {c \in {IpBucket(r), KeyBucket(r)} :
                                                    IF c = IpBucket(r) THEN ipOk ELSE keyOk}}
               /\ UNCHANGED budget
    BY <1>2 DEF Arrive
  <2>2. time \in Times
    BY DEF Times
  <2>3. IpBucket(r) \in Buckets /\ KeyBucket(r) \in Buckets /\ IpBucket(r) # KeyBucket(r)
    BY RequestCall, KeyOfType DEF IpBucket, KeyBucket, Buckets, Kind, Kinds
  <2> DEFINE Record == [start : Times, count : Nat]
  <2>4. \A record \in Record : Count(record, time) \in Record
    BY <2>2 DEF Count, Times
  <2>5. /\ buckets[p][IpBucket(r)] \in Record
        /\ buckets[p][KeyBucket(r)] \in Record
    BY <2>3
  <2>6. buckets' \in [Processes -> [Buckets -> Record]]
    <3>0. buckets \in [Processes -> [Buckets -> Record]]
      OBVIOUS
    <3> HIDE DEF Record
    <3>1. /\ Count(buckets[p][IpBucket(r)], time) \in Record
          /\ Count(buckets[p][KeyBucket(r)], time) \in Record
      BY <2>4, <2>5
    <3>2. \A old \in [Processes -> [Buckets -> Record]] : \A b \in Buckets : \A new \in Record :
              [old EXCEPT ![p][b] = new] \in [Processes -> [Buckets -> Record]]
      OBVIOUS
    <3>3. [buckets EXCEPT ![p][IpBucket(r)] = Count(buckets[p][IpBucket(r)], time)]
              \in [Processes -> [Buckets -> Record]]
      BY <2>3, <3>0, <3>1, <3>2
    <3> QED BY <2>1, <2>3, <2>5, <3>0, <3>1, <3>2, <3>3
  <2>7. hits' \subseteq Processes \X Buckets \X Requests \X Times
    BY <2>1, <2>2, <2>3
  <2> QED BY <2>1, <2>2, <2>6, <2>7
<1> QED BY <1>1, <1>2

(* The request a call is about to send has not been sent. *)
LEMMA SendFresh ==
    ASSUME TypeOK, NEW c \in Calls, Send(c)
    PROVE  <<c, tries[c] + 1>> \in Requests /\ pc[<<c, tries[c] + 1>>] = "unsent"
<1>1. tries[c] \in 0 .. MaxRetries /\ client[c] = "ready"
  BY DEF Send, Sendable, TypeOK, ClientTypes
<1>2. <<c, tries[c] + 1>> \in Requests
  BY <1>1 DEF Requests
<1> QED BY <1>1, <1>2 DEF TypeOK, ThreadTypes

LEMMA SendMoves ==
    ASSUME TypeOK, NEW c \in Calls, Send(c)
    PROVE  /\ pc'[<<c, tries[c] + 1>>] \in {"cache", "throttled"}
           /\ \A q \in Requests \ {<<c, tries[c] + 1>>} : pc'[q] = pc[q]
<1> DEFINE r == <<c, tries[c] + 1>>
<1>1. PICK p \in Processes : Arrive(p, r)
  BY DEF Send
<1>2. \E stage \in {"cache", "throttled"} : pc' = [pc EXCEPT ![r] = stage]
  BY <1>1 DEF Arrive, Goto
<1> QED BY <1>2, SendFresh DEF TypeOK, ThreadTypes

LEMMA TypeStep == TypeOK /\ [Next]_vars => TypeOK'
<1> SUFFICES ASSUME TypeOK, [Next]_vars PROVE TypeOK'
  OBVIOUS
<1> USE DEF TypeOK
<1>1. ASSUME NEW r \in Requests, Serve(r) PROVE TypeOK'
  <2> USE <1>1
  <2>1. ThreadTypes'
    <3>1. UNCHANGED proc
      BY ServePool DEF LockAudit, ConnectAudit, AppendEvent, TimeOut
    <3>2. UNCHANGED tries
      BY DEF Serve, calls
    <3> QED BY <3>1, <3>2, ServeMoves DEF ThreadTypes, Live
  <2>2. PoolOK'
    <3> USE DEF PoolOK, ThreadTypes, InAudit, Goto, Answers, Live
    <3>1. CASE LockAudit(r)
      BY <3>1 DEF LockAudit
    <3>2. CASE ConnectAudit(r)
      BY <3>2 DEF ConnectAudit
    <3>3. CASE AppendEvent(r)
      BY <3>3 DEF AppendEvent
    <3>4. CASE TimeOut(r)
      BY <3>4 DEF TimeOut, Asking, Querying
    <3>5. CASE /\ pc[r] \notin InAudit /\ pc'[r] \notin InAudit
               /\ UNCHANGED <<proc, auditor, writing>>
               /\ \/ conn' = conn \ {r}
                  \/ pc'[r] \notin Answers \cup {"unsent"} /\ conn' \subseteq conn \cup {r}
      BY <3>5, ServeMoves
    <3> QED BY <3>1, <3>2, <3>3, <3>4, <3>5, ServePool
  <2>3. AuthTypes'
    BY ServeAuth
  <2>4. ClientTypes'
    <3> USE RequestCall DEF ClientTypes, Serve, history, calls
    <3>1. CASE Create(r) \/ Revoke(r)
      BY <3>1 DEF Create, Revoke, Commit
    <3>2. CASE Audit(r)
      BY <3>2 DEF Audit
    <3>3. CASE UNCHANGED history
      BY <3>3
    <3> QED BY <3>1, <3>2, <3>3 DEF Forbid, Read, RevokeMissing, Reload
  <2>5. LimiterTypes'
    BY DEF Serve, LimiterTypes, limiter
  <2> QED BY <2>1, <2>2, <2>3, <2>4, <2>5
<1>2. ASSUME NEW c \in Calls, Send(c) PROVE TypeOK'
  <2> DEFINE r == <<c, tries[c] + 1>>
  <2>1. r \in Requests /\ pc[r] = "unsent"
    BY <1>2, SendFresh
  <2>2. PICK p \in Processes : proc' = [proc EXCEPT ![r] = p] /\ Arrive(p, r)
    BY <1>2 DEF Send
  <2>3. \E stage \in {"cache", "throttled"} : pc' = [pc EXCEPT ![r] = stage]
    BY <2>2 DEF Arrive, Goto
  <2>4. ThreadTypes'
    <3>1. pc' \in [Requests -> Stages] /\ proc' \in [Requests -> Processes \cup {None}]
      BY <2>1, <2>2, <2>3 DEF ThreadTypes, Stages, Answers
    <3>2. ASSUME NEW q \in Requests, pc'[q] # "unsent"
          PROVE  proc'[q] # None /\ q[2] <= tries'[q[1]]
      <4>1. tries' = [tries EXCEPT ![c] = @ + 1] /\ tries \in [Calls -> Nat]
        BY <1>2 DEF Send, ClientTypes
      <4>2. CASE q = r
        BY <2>1, <2>2, <4>1, <4>2 DEF ThreadTypes
      <4>3. CASE q # r
        <5>1. proc'[q] = proc[q] /\ pc'[q] = pc[q]
          BY <2>1, <2>2, <2>3, <4>3 DEF ThreadTypes
        <5>2. tries[q[1]] <= tries'[q[1]] /\ tries[q[1]] \in Nat /\ q[2] \in Nat
                /\ tries'[q[1]] \in Nat
          BY <4>1, RequestCall
        <5> QED BY <3>2, <5>1, <5>2 DEF ThreadTypes
      <4> QED BY <4>2, <4>3
    <3> QED BY <3>1, <3>2 DEF ThreadTypes
  <2>5. PoolOK'
    BY <1>2, <2>1, <2>2, <2>3 DEF Send, PoolOK, ThreadTypes, Live, Answers, InAudit
  <2>6. AuthTypes'
    BY <1>2 DEF Send, AuthTypes, auth, keys
  <2>7. ClientTypes'
    BY <1>2, <2>1 DEF Send, Sendable, Outcome, ClientTypes, history
  <2>8. LimiterTypes'
    BY <2>1, <2>2, ArriveTypes
  <2> QED BY <2>4, <2>5, <2>6, <2>7, <2>8
<1>3. ASSUME NEW c \in Calls, ConnectError(c) \/ Receive(c) \/ LoseAnswer(c) PROVE TypeOK'
  <2> USE <1>3 DEF ConnectError, Receive, LoseAnswer, Outcome, Again
  <2>1. UNCHANGED <<pc, pool, auth, limiter, job, history, late, crashes>>
    OBVIOUS
  <2>2. /\ client' \in [Calls -> {"ready", "waiting", "ok", "refused", "failed"}]
        /\ tries' \in [Calls -> 0 .. MaxRetries + 1]
        /\ \A d \in Calls : client'[d] = "ready" => tries'[d] <= MaxRetries
    BY DEF ClientTypes, Sendable
  <2>3. ClientTypes'
    BY <2>1, <2>2 DEF ClientTypes, history
  <2>4. ThreadTypes'
    <3>1. \A d \in Calls : tries[d] \in Nat /\ tries'[d] \in Nat /\ tries[d] <= tries'[d]
      BY DEF ClientTypes
    <3> QED BY <2>1, <3>1, RequestCall DEF ThreadTypes, pool
  <2> QED
    BY <2>1, <2>3, <2>4 DEF PoolOK, AuthTypes, LimiterTypes, Live, keys, pool, auth, limiter
<1>4. ASSUME NEW p \in Processes, Crash(p) PROVE TypeOK'
  <2> USE <1>4 DEF Crash, Live, Stages, Answers
  <2>1. ThreadTypes'
    BY DEF ThreadTypes, calls
  <2>2. PoolOK'
    BY DEF ThreadTypes, PoolOK, Serving, InAudit
  <2>3. AuthTypes'
    BY DEF AuthTypes, keys
  <2>4. ClientTypes'
    BY DEF ClientTypes, calls, history
  <2>5. LimiterTypes'
    BY DEF LimiterTypes, Times
  <2> QED BY <2>1, <2>2, <2>3, <2>4, <2>5
<1>5. CASE UNCHANGED vars
  BY <1>5 DEF vars, ThreadTypes, PoolOK, AuthTypes, ClientTypes, LimiterTypes, Live,
              keys, pool, auth, history, limiter, calls
<1> QED BY <1>1, <1>2, <1>3, <1>4, <1>5 DEF Next

(* The types, and who holds connections and the lock, are an invariant.     *)
THEOREM TypeCorrect == Spec => []TypeOK
<1>1. Init => TypeOK
  BY TypeInit
<1>2. TypeOK /\ [Next]_vars => TypeOK'
  BY TypeStep
<1> QED BY <1>1, <1>2, PTL DEF Spec

-----------------------------------------------------------------------------
(* Keys: where a request may be, given what its key's row holds.            *)

(* A request presents a key that was issued. *)
KeysIssued ==
    \A r \in Requests :
        pc[r] # "unsent" /\ KeyOf(r) \in ScopedKeys => keyStatus[KeyOf(r)] # "absent"

LateIsRevoked ==
    \A r \in late : KeyOf(r) \in ScopedKeys /\ keyStatus[KeyOf(r)] = "revoked"

(* What the upgrade leaves depends on the form of the key. *)
RowForm == customer.api_key \in {"plaintext", IF modern THEN "lookup" ELSE "id"}

(* A request that missed the first SELECT is found by the second, or will   *)
(* be refused for cause.                                                    *)
LegacyForCause ==
    \A r \in Requests :
        pc[r] = "legacy" =>
            \/ KeyOf(r) \in ScopedKeys /\ keyStatus[KeyOf(r)] = "revoked"
            \/ r \in overtaken
            \/ KeyOf(r) = Bootstrap /\ (customer.api_key = "plaintext" \/ ~modern)

KeyInv ==
    /\ KeysIssued
    /\ LateIsRevoked
    /\ RowForm
    /\ LegacyForCause
    /\ RevokedKeyIsRefused
    /\ KeyRefusedForCause

(* Rows only move forward. *)
Forward ==
    /\ \A s \in ScopedKeys : keyStatus[s] = "revoked" => keyStatus'[s] = "revoked"
    /\ \A s \in ScopedKeys : keyStatus[s] # "absent" => keyStatus'[s] # "absent"
    /\ overtaken \subseteq overtaken'
    /\ UNCHANGED <<modern, job>>
    /\ ~modern /\ customer.api_key = "id" => customer'.api_key = "id"
    /\ customer'.api_key \in {customer.api_key, IF modern THEN "lookup" ELSE "id"}
    /\ customer.api_key = "plaintext" /\ customer'.api_key # "plaintext" =>
           \A q \in Requests : pc[q] = "legacy" /\ KeyOf(q) = Bootstrap => q \in overtaken'

LEMMA ServeForward ==
    ASSUME TypeOK, NEW r \in Requests, Serve(r)
    PROVE  Forward
<1> USE DEF Serve, Forward, TypeOK, AuthTypes, auth, keys
<1>1. CASE Upgrade(r)
  BY <1>1 DEF Upgrade, Stored
<1>2. CASE Create(r) \/ Revoke(r)
  BY <1>2 DEF Create, Revoke, Commit
<1>3. CASE UNCHANGED <<keys, overtaken>>
  BY <1>3
<1> QED
  BY <1>1, <1>2, <1>3
     DEF Authenticate, Lookup, Recheck, Candidates, FindLegacy, Refresh, Remember,
         Audit, Forbid, Read, RevokeMissing, Reload

(* The stages of authentication a step of a thread can lead to. *)
LEMMA ServeStages ==
    ASSUME TypeOK, NEW r \in Requests, Serve(r)
    PROVE  /\ pc[r] = "cache" => pc'[r] \in {"recheck", "candidates"}
           /\ pc[r] = "recheck" => pc'[r] \in {"candidates", "error"} \/ Vouched(r)
           /\ pc[r] = "candidates" => pc'[r] \in {"legacy", "error"} \/ Candidate(r)
           /\ pc[r] = "legacy" => \/ pc'[r] = "unknown"
                                 \/ KeyOf(r) = Bootstrap
           /\ pc'[r] = "legacy" => pc[r] = "candidates" /\ ~Candidate(r) /\ UNCHANGED keys
           /\ pc'[r] = "unknown" => /\ pc[r] = "legacy"
                                    /\ KeyOf(r) # Bootstrap \/ customer.api_key # "plaintext"
<1> USE DEF Serve, TypeOK, ThreadTypes, Goto, keys
<1>1. CASE Authenticate(r)
  BY <1>1 DEF Authenticate, Lookup, Recheck, Candidates, FindLegacy, Upgrade, Refresh, Remember
<1>2. CASE Forbid(r) \/ Read(r) \/ Create(r) \/ RevokeMissing(r) \/ Revoke(r) \/ Reload(r)
  BY <1>2 DEF Forbid, Read, Create, RevokeMissing, Revoke, Reload, Handling, Commit
<1>3. CASE Audit(r)
  BY <1>3 DEF Audit, LockAudit, ConnectAudit, AppendEvent
<1>4. CASE TimeOut(r)
  BY <1>4 DEF TimeOut, Asking, Querying
<1> QED BY <1>1, <1>2, <1>3, <1>4

LEMMA KeyInit == Init => KeyInv
BY DEF Init, PoolInit, AuthInit, Legacy, KeyInv, KeysIssued, LateIsRevoked, RowForm, LegacyForCause,
       RevokedKeyIsRefused, KeyRefusedForCause

(* Steps that leave the rows and the stages alone, or end what is live.     *)
LEMMA KeyFrame ==
    ASSUME KeyInv, late \subseteq Requests,
           UNCHANGED <<modern, customer, keyStatus, overtaken, job, late>>,
           \A r \in Requests : pc'[r] = pc[r] \/ (Live(r) /\ pc'[r] = "error")
    PROVE  KeyInv'
<1> USE DEF KeyInv, KeyOf
<1>1. KeysIssued' /\ LegacyForCause' /\ KeyRefusedForCause'
  BY DEF KeysIssued, LegacyForCause, KeyRefusedForCause, Live
<1>2. LateIsRevoked' /\ RowForm'
  BY DEF LateIsRevoked, RowForm
<1>3. RevokedKeyIsRefused'
  BY DEF RevokedKeyIsRefused, Answers
<1> QED BY <1>1, <1>2, <1>3

LEMMA KeyStep == TypeOK /\ KeyInv /\ [Next]_vars => KeyInv'
<1> SUFFICES ASSUME TypeOK, KeyInv, [Next]_vars PROVE KeyInv'
  OBVIOUS
<1>1. ASSUME NEW r \in Requests, Serve(r) PROVE KeyInv'
  <2>1. Forward /\ UNCHANGED late /\ \A q \in Requests : KeyOf(q)' = KeyOf(q)
    BY <1>1, ServeForward DEF Serve, Forward, KeyOf
  <2>2. Live(r) /\ \A q \in Requests \ {r} : pc'[q] = pc[q]
    BY <1>1, ServeMoves DEF TypeOK, ThreadTypes
  <2>3. KeyOf(r) \in Secrets
    BY KeyOfType DEF TypeOK
  <2>4. KeysIssued'
    BY <2>1, <2>2 DEF KeyInv, KeysIssued, Forward, Live
  <2>5. LateIsRevoked'
    BY <2>1 DEF KeyInv, LateIsRevoked, Forward, TypeOK, ClientTypes
  <2>6. RowForm'
    BY <2>1 DEF KeyInv, RowForm, Forward
  <2>7. LegacyForCause'
    <3> SUFFICES ASSUME NEW q \in Requests, pc'[q] = "legacy"
                 PROVE  \/ KeyOf(q) \in ScopedKeys /\ keyStatus'[KeyOf(q)] = "revoked"
                        \/ q \in overtaken'
                        \/ KeyOf(q) = Bootstrap /\ (customer'.api_key = "plaintext" \/ ~modern')
      BY <2>1 DEF LegacyForCause
    <3>1. CASE q # r
      BY <2>1, <2>2, <3>1 DEF KeyInv, LegacyForCause, Forward
    <3>2. CASE q = r
      <4>1. pc[r] = "candidates" /\ ~Candidate(r) /\ UNCHANGED keys
        BY <1>1, <3>2, ServeStages
      <4>2. keyStatus \in [ScopedKeys -> {"absent", "active", "revoked"}]
        BY DEF TypeOK, AuthTypes
      <4> QED BY <2>3, <3>2, <4>1, <4>2 DEF KeyInv, KeysIssued, RowForm, Candidate, keys, Secrets
    <3> QED BY <3>1, <3>2
  <2>8. RevokedKeyIsRefused'
    <3> SUFFICES ASSUME NEW q \in late, q = r
                 PROVE  \/ pc'[q] \in Answers \ {"ok", "forbidden", "missing"}
                        \/ pc'[q] \in {"cache", "recheck", "candidates", "legacy"}
      BY <2>1, <2>2 DEF KeyInv, RevokedKeyIsRefused, TypeOK, ClientTypes
    <3>1. KeyOf(r) \in ScopedKeys /\ keyStatus[KeyOf(r)] = "revoked"
      BY DEF KeyInv, LateIsRevoked
    <3>2. ~Vouched(r) /\ ~Candidate(r) /\ KeyOf(r) # Bootstrap
      BY <3>1 DEF Vouched, Candidate
    <3> QED BY <1>1, <2>2, <3>2, ServeStages DEF KeyInv, RevokedKeyIsRefused, Live, Answers
  <2>9. KeyRefusedForCause'
    <3> SUFFICES ASSUME NEW q \in Requests, pc'[q] = "unknown"
                 PROVE  \/ KeyOf(q) \in ScopedKeys /\ keyStatus'[KeyOf(q)] = "revoked"
                        \/ q \in overtaken'
                        \/ KeyOf(q) = Bootstrap /\ ~modern' /\ customer'.api_key = "id"
      BY <2>1 DEF KeyRefusedForCause
    <3>1. CASE q # r
      BY <2>1, <2>2, <3>1 DEF KeyInv, KeyRefusedForCause, Forward
    <3>2. CASE q = r
      <4>1. pc[r] = "legacy" /\ (KeyOf(r) # Bootstrap \/ customer.api_key # "plaintext")
        BY <1>1, <3>2, ServeStages
      <4> QED BY <2>1, <3>2, <4>1 DEF KeyInv, LegacyForCause, RowForm, Forward
    <3> QED BY <3>1, <3>2
  <2> QED BY <2>4, <2>5, <2>6, <2>7, <2>8, <2>9 DEF KeyInv
<1>2. ASSUME NEW c \in Calls, Send(c) PROVE KeyInv'
  <2> DEFINE r == <<c, tries[c] + 1>>
  <2>1. r \in Requests /\ KeyOf(r) = job[c].key /\ pc[r] = "unsent"
    BY <1>2, SendFresh DEF KeyOf
  <2>2. /\ UNCHANGED <<modern, customer, keyStatus, overtaken, job>>
        /\ Known(KeyOf(r))
        /\ late' = IF KeyOf(r) \in ScopedKeys /\ keyStatus[KeyOf(r)] = "revoked"
                   THEN late \cup {r} ELSE late
    BY <1>2, <2>1 DEF Send, Sendable, auth, keys
  <2>3. /\ pc'[r] \in {"cache", "throttled"}
        /\ \A q \in Requests \ {r} : pc'[q] = pc[q]
    BY <1>2, SendMoves
  <2>4. late \subseteq Requests /\ \A q \in Requests : KeyOf(q)' = KeyOf(q)
    BY <2>2 DEF TypeOK, ClientTypes, KeyOf
  <2>5. KeysIssued' /\ LegacyForCause' /\ KeyRefusedForCause'
    BY <2>1, <2>2, <2>3, <2>4 DEF KeyInv, KeysIssued, LegacyForCause, KeyRefusedForCause, Known
  <2>6. LateIsRevoked' /\ RowForm'
    BY <2>1, <2>2, <2>4 DEF KeyInv, LateIsRevoked, RowForm
  <2>7. RevokedKeyIsRefused'
    BY <2>1, <2>2, <2>3, <2>4 DEF KeyInv, RevokedKeyIsRefused, Answers
  <2> QED BY <2>5, <2>6, <2>7 DEF KeyInv
<1>3. ASSUME NEW c \in Calls, ConnectError(c) \/ Receive(c) \/ LoseAnswer(c) PROVE KeyInv'
  BY <1>3, KeyFrame DEF ConnectError, Receive, LoseAnswer, auth, keys, TypeOK, ClientTypes
<1>4. ASSUME NEW p \in Processes, Crash(p) PROVE KeyInv'
  BY <1>4, KeyFrame DEF Crash, keys, TypeOK, ThreadTypes, ClientTypes
<1>5. CASE UNCHANGED vars
  BY <1>5, KeyFrame DEF vars, auth, keys, TypeOK, ClientTypes
<1> QED BY <1>1, <1>2, <1>3, <1>4, <1>5 DEF Next

LEMMA KeyInvariant == Spec => []KeyInv
<1>1. Init => KeyInv
  BY KeyInit
<1>2. TypeOK /\ KeyInv /\ [Next]_vars => KeyInv'
  BY KeyStep
<1> QED BY <1>1, <1>2, TypeCorrect, PTL DEF Spec

(* No request sent after the revocation of its key passes authentication,   *)
(* whatever any process has cached.                                         *)
THEOREM RevokedKeysRefused == Spec => []RevokedKeyIsRefused
<1>1. KeyInv => RevokedKeyIsRefused
  BY DEF KeyInv
<1> QED BY <1>1, KeyInvariant, PTL

(* An issued key is refused only for one of the three causes. *)
THEOREM KeysRefusedForCause == Spec => []KeyRefusedForCause
<1>1. KeyInv => KeyRefusedForCause
  BY DEF KeyInv
<1> QED BY <1>1, KeyInvariant, PTL

-----------------------------------------------------------------------------
(* Effects: a call that changes something is sent to a server at most once, *)
(* and how much of it is done follows from where its one request is.        *)

OneRequest ==
    /\ \A r \in Requests : ~Reads(r[1]) /\ pc[r] # "unsent" =>
           r[2] = tries[r[1]] /\ client[r[1]] # "ready"
    /\ \A c \in Calls : client[c] \in {"waiting", "ok", "refused"} => tries[c] >= 1

Uncommitted == {"cache", "recheck", "candidates", "legacy", "upgrade", "refresh", "remember",
                "handle", "unknown", "forbidden", "missing", "throttled"}
Unaudited == {"reload", "lock", "connect", "append"}

Progress ==
    /\ \A r \in Requests : ~Reads(r[1]) =>
           /\ pc[r] \in Uncommitted => effects[r[1]] = 0 /\ events[r[1]] = 0
           /\ pc[r] \in Unaudited => effects[r[1]] = 1 /\ events[r[1]] = 0
           /\ pc[r] = "ok" => effects[r[1]] = 1 /\ events[r[1]] = 1
           /\ pc[r] = "error" => effects[r[1]] <= 1
    /\ \A r \in Requests : Reads(r[1]) => pc[r] \notin Unaudited
    /\ \A c \in Calls :
           Reads(c) \/ (\A r \in Requests : r[1] = c => pc[r] = "unsent")
               => effects[c] = 0 /\ events[c] = 0

(* What the client was told is what its request answered. *)
Told ==
    \A c \in Calls : ~Reads(c) =>
        /\ client[c] = "ok" => pc[Current(c)] = "ok"
        /\ client[c] = "refused" => pc[Current(c)] \in {"unknown", "forbidden", "missing", "throttled"}

EffectInv == OneRequest /\ Progress /\ Told

LEMMA EffectInit == Init => EffectInv
BY DEF Init, EffectInv, OneRequest, Progress, Told, Uncommitted, Unaudited

(* What a step of a thread does to the effects of its call. *)
LEMMA ServeEffects ==
    ASSUME TypeOK, NEW r \in Requests, Serve(r)
    PROVE  \/ /\ pc[r] \in Uncommitted /\ pc'[r] \in Uncommitted \cup {"error"}
              /\ UNCHANGED history
           \/ pc[r] = "handle" /\ pc'[r] = "ok" /\ Reads(r[1]) /\ UNCHANGED history
           \/ /\ pc[r] = "handle" /\ pc'[r] = "reload" /\ ~Reads(r[1])
              /\ effects' = [effects EXCEPT ![r[1]] = @ + 1] /\ UNCHANGED events
           \/ /\ pc[r] \in Unaudited /\ pc'[r] \in Unaudited \cup {"error"}
              /\ UNCHANGED history
           \/ /\ pc[r] = "append" /\ pc'[r] = "ok"
              /\ events' = [events EXCEPT ![r[1]] = @ + 1] /\ UNCHANGED effects
<1> USE DEF Serve, TypeOK, ThreadTypes, Goto, Uncommitted, Unaudited, history
<1>1. CASE Authenticate(r) /\ UNCHANGED history
  BY <1>1 DEF Authenticate, Lookup, Recheck, Candidates, FindLegacy, Upgrade, Refresh, Remember
<1>2. CASE Forbid(r) \/ Read(r) \/ RevokeMissing(r) \/ Reload(r)
  BY <1>2 DEF Forbid, Read, RevokeMissing, Reload, Handling, Op, Reads
<1>3. CASE Create(r) \/ Revoke(r)
  BY <1>3 DEF Create, Revoke, Commit, Handling, Op, Reads
<1>4. CASE Audit(r)
  BY <1>4 DEF Audit, LockAudit, ConnectAudit, AppendEvent
<1>5. CASE TimeOut(r) /\ UNCHANGED <<auth, history>>
  BY <1>5 DEF TimeOut, Asking, Querying
<1> QED BY <1>1, <1>2, <1>3, <1>4, <1>5

LEMMA EffectStep == TypeOK /\ EffectInv /\ [Next]_vars => EffectInv'
<1> SUFFICES ASSUME TypeOK, EffectInv, [Next]_vars PROVE EffectInv'
  OBVIOUS
<1> USE RequestCall DEF EffectInv
<1>0. /\ pc \in [Requests -> Stages]
      /\ tries \in [Calls -> 0 .. MaxRetries + 1]
      /\ client \in [Calls -> {"ready", "waiting", "ok", "refused", "failed"}]
      /\ effects \in [Calls -> Nat] /\ events \in [Calls -> Nat]
  BY DEF TypeOK, ThreadTypes, ClientTypes
<1>1. ASSUME NEW r \in Requests, Serve(r) PROVE EffectInv'
  <2>1. UNCHANGED <<job, client, tries>>
    BY <1>1 DEF Serve, calls
  <2>2. /\ Live(r) /\ pc'[r] # "unsent"
        /\ \A q \in Requests \ {r} : pc'[q] = pc[q]
    BY <1>1, ServeMoves DEF TypeOK, ThreadTypes
  <2>3. OneRequest'
    BY <2>1, <2>2 DEF OneRequest, Live, Reads
  <2>4. Told'
    <3>1. \A c \in Calls : client[c] \in {"ok", "refused"} => Current(c) \in Requests
      BY <1>0 DEF OneRequest, Current, Requests
    <3>2. \A q \in Requests : pc[q] \in Answers => pc'[q] = pc[q]
      BY <2>2 DEF Live
    <3>3. \A c \in Calls : Current(c)' = Current(c)
      BY <2>1 DEF Current
    <3> QED BY <2>1, <3>1, <3>2, <3>3 DEF Told, Answers, Reads
  <2>5. \A q \in Requests \ {r} : ~Reads(r[1]) /\ q[1] = r[1] => pc[q] = "unsent"
    BY <2>2 DEF OneRequest, Live
  <2>6. Progress'
    <3>1. \A c \in Calls \ {r[1]} : effects'[c] = effects[c] /\ events'[c] = events[c]
      BY <1>0, <1>1, ServeEffects DEF history
    <3>2. /\ Reads(r[1]) => /\ effects'[r[1]] = effects[r[1]] /\ events'[r[1]] = events[r[1]]
                            /\ pc'[r] \notin Unaudited
          /\ ~Reads(r[1]) =>
               /\ pc'[r] \in Uncommitted => effects'[r[1]] = 0 /\ events'[r[1]] = 0
               /\ pc'[r] \in Unaudited => effects'[r[1]] = 1 /\ events'[r[1]] = 0
               /\ pc'[r] = "ok" => effects'[r[1]] = 1 /\ events'[r[1]] = 1
               /\ pc'[r] = "error" => effects'[r[1]] <= 1
      BY <1>0, <1>1, ServeEffects DEF Progress, Uncommitted, Unaudited, history
    <3> QED
      BY <2>1, <2>2, <2>5, <3>1, <3>2 DEF Progress, Reads, Uncommitted, Unaudited, Live
  <2> QED BY <2>3, <2>4, <2>6
<1>2. ASSUME NEW c \in Calls, Send(c) PROVE EffectInv'
  <2> DEFINE r == <<c, tries[c] + 1>>
  <2>1. r \in Requests /\ pc[r] = "unsent" /\ r[1] = c /\ r[2] = tries[c] + 1
    BY <1>2, SendFresh
  <2>2. /\ client[c] = "ready" /\ client' = [client EXCEPT ![c] = "waiting"]
        /\ tries' = [tries EXCEPT ![c] = @ + 1]
        /\ UNCHANGED <<job, effects, events>>
    BY <1>2 DEF Send, Sendable, Outcome, history
  <2>3. /\ pc'[r] \in {"cache", "throttled"}
        /\ \A q \in Requests \ {r} : pc'[q] = pc[q]
    BY <1>2, SendMoves
  <2>4. ~Reads(c) => \A q \in Requests : q[1] = c => pc[q] = "unsent"
    BY <2>2 DEF OneRequest
  <2>5. OneRequest'
    BY <1>0, <2>1, <2>2, <2>3, <2>4 DEF OneRequest, Reads
  <2>6. Progress'
    <3>1. effects[c] = 0 /\ events[c] = 0
      BY <2>4 DEF Progress
    <3>2. \A q \in Requests : Reads(q[1])' = Reads(q[1])
      BY <2>2 DEF Reads
    <3>3. \A d \in Calls : Reads(d)' = Reads(d)
      BY <2>2 DEF Reads
    <3>4. \A d \in Calls : (\A q \in Requests : q[1] = d => pc'[q] = "unsent")
                         => (\A q \in Requests : q[1] = d => pc[q] = "unsent")
      BY <2>1, <2>3
    <3> QED
      BY <2>1, <2>2, <2>3, <3>1, <3>2, <3>3, <3>4 DEF Progress, Uncommitted, Unaudited
  <2>7. Told'
    <3> SUFFICES ASSUME NEW d \in Calls, ~Reads(d), client'[d] \in {"ok", "refused"}
                 PROVE  client'[d] = client[d] /\ pc'[Current(d)'] = pc[Current(d)]
      BY <2>2 DEF Told, Reads
    <3>1. d # c
      BY <1>0, <2>2
    <3>2. Current(d) \in Requests /\ Current(d)' = Current(d) /\ Current(d) # r
      BY <1>0, <2>2, <3>1 DEF OneRequest, Current, Requests
    <3> QED BY <1>0, <2>2, <2>3, <3>1, <3>2
  <2> QED BY <2>5, <2>6, <2>7
<1>3. ASSUME NEW c \in Calls, ConnectError(c) PROVE EffectInv'
  <2> USE <1>3 DEF ConnectError, Sendable, Outcome, history
  <2>1. OneRequest'
    BY <1>0 DEF OneRequest, Reads
  <2>2. Progress'
    BY DEF Progress, Reads
  <2>3. Told'
    BY <1>0 DEF Told, Reads, Current
  <2> QED BY <2>1, <2>2, <2>3
<1>4. ASSUME NEW c \in Calls, Receive(c) \/ LoseAnswer(c) PROVE EffectInv'
  <2> USE <1>4 DEF Receive, LoseAnswer, Outcome, Again, history
  <2>1. OneRequest'
    BY <1>0 DEF OneRequest, Reads
  <2>2. Progress'
    BY DEF Progress, Reads
  <2>3. Told'
    BY <1>0 DEF Told, Reads, Current, Answers
  <2> QED BY <2>1, <2>2, <2>3
<1>5. ASSUME NEW p \in Processes, Crash(p) PROVE EffectInv'
  <2>1. /\ UNCHANGED <<job, client, tries, effects, events>>
        /\ \A r \in Requests : pc'[r] = pc[r] \/ (Live(r) /\ pc'[r] = "error")
    BY <1>5 DEF Crash, calls, history
  <2>2. OneRequest'
    BY <2>1 DEF OneRequest, Reads, Live
  <2>3. Progress'
    <3>1. \A r \in Requests : Live(r) => pc[r] \in Uncommitted \cup Unaudited
      BY <1>0 DEF Live, Stages, Answers, Querying, Uncommitted, Unaudited
    <3> QED BY <2>1, <3>1 DEF Progress, Reads, Live, Uncommitted, Unaudited
  <2>4. Told'
    <3>1. \A c \in Calls : client[c] \in {"ok", "refused"} => Current(c) \in Requests
      BY <1>0 DEF OneRequest, Current, Requests
    <3> QED BY <2>1, <3>1 DEF Told, Reads, Current, Live, Answers
  <2> QED BY <2>2, <2>3, <2>4
<1>6. CASE UNCHANGED vars
  BY <1>6 DEF vars, calls, history, OneRequest, Progress, Told, Reads, Current
<1> QED BY <1>1, <1>2, <1>3, <1>4, <1>5, <1>6 DEF Next

LEMMA EffectInvariant == Spec => []EffectInv
<1>1. Init => EffectInv
  BY EffectInit
<1>2. TypeOK /\ EffectInv /\ [Next]_vars => EffectInv'
  BY EffectStep
<1> QED BY <1>1, <1>2, TypeCorrect, PTL DEF Spec

(* Retries, lost answers and crashes never make an operation happen twice. *)
THEOREM EffectsAtMostOnce == Spec => []EffectAtMostOnce
<1>1. TypeOK /\ EffectInv => EffectAtMostOnce
  <2> SUFFICES ASSUME TypeOK, EffectInv, NEW c \in Calls PROVE effects[c] <= 1
    BY DEF EffectAtMostOnce
  <2>1. CASE Reads(c) \/ \A r \in Requests : r[1] = c => pc[r] = "unsent"
    BY <2>1 DEF EffectInv, Progress
  <2>2. CASE ~Reads(c) /\ \E r \in Requests : r[1] = c /\ pc[r] # "unsent"
    BY <2>2 DEF EffectInv, Progress, TypeOK, ThreadTypes, Stages, Answers, Querying,
                Uncommitted, Unaudited
  <2> QED BY <2>1, <2>2
<1> QED BY <1>1, TypeCorrect, EffectInvariant, PTL

(* Success means committed and audited, a refusal means nothing happened. *)
THEOREM AnswersAreTrue == Spec => []AnswerTellsTheTruth
<1>1. TypeOK /\ EffectInv => AnswerTellsTheTruth
  <2> SUFFICES ASSUME TypeOK, EffectInv, NEW c \in Calls
               PROVE  /\ client[c] = "ok" /\ ~Reads(c) => effects[c] = 1 /\ events[c] = 1
                      /\ client[c] = "refused" => effects[c] = 0 /\ events[c] = 0
    BY DEF AnswerTellsTheTruth
  <2>1. client[c] \in {"ok", "refused"} => Current(c) \in Requests /\ Current(c)[1] = c
    BY DEF EffectInv, OneRequest, TypeOK, ClientTypes, Current, Requests
  <2> QED BY <2>1 DEF EffectInv, Progress, Told, Uncommitted
<1> QED BY <1>1, TypeCorrect, EffectInvariant, PTL

-----------------------------------------------------------------------------
(* The stall.  Of a process whose threads are all blocked, the holder of    *)
(* the lock waits for a connection, so none is free; each is held by a      *)
(* session, and the sessions that hold one are those at record_event.       *)
THEOREM StallsNeedFullHouse == Spec => []StallNeedsFullHouse
<1>1. TypeOK => StallNeedsFullHouse
  <2> SUFFICES ASSUME TypeOK, NEW p \in Processes,
                      {r \in Serving(p) : Live(r)} # {},
                      \A r \in {q \in Serving(p) : Live(q)} : Blocked(r)
               PROVE  Cardinality({r \in {q \in Serving(p) : Live(q)} :
                                      pc[r] \in {"lock", "connect"}}) >= Capacity
    BY DEF StallNeedsFullHouse
  <2> DEFINE House == {r \in {q \in Serving(p) : Live(q)} : pc[r] \in {"lock", "connect"}}
             Held == conn \cap Serving(p)
  <2>1. IsFiniteSet(Requests)
    OBVIOUS
  <2>2. IsFiniteSet(House) /\ House \subseteq Requests
    BY <2>1, FS_Subset DEF Serving
  <2>3. Held \subseteq House
    BY DEF TypeOK, PoolOK, Serving, Blocked, Asking, Live
  <2>4. p \notin writing
    <3> SUFFICES ASSUME p \in writing PROVE FALSE
      OBVIOUS
    <3>1. /\ auditor[p] \in Requests /\ proc[auditor[p]] = p
          /\ pc[auditor[p]] = "append"
      BY DEF TypeOK, PoolOK
    <3>2. auditor[p] \in Serving(p) /\ Live(auditor[p])
      BY <3>1 DEF Serving, Live, Answers
    <3> QED BY <3>1, <3>2 DEF Blocked, Asking, Querying
  <2>5. Free(p) = 0
    <3>1. PICK r \in Serving(p) : Live(r) /\ Blocked(r)
      OBVIOUS
    <3>2. proc[r] = p /\ r \in Requests
      BY <3>1 DEF Serving
    <3>3. CASE Asking(r) /\ Free(proc[r]) = 0
      BY <3>2, <3>3
    <3>4. CASE pc[r] = "lock" /\ auditor[proc[r]] # None
      <4> DEFINE a == auditor[p]
      <4>1. a \in Requests /\ proc[a] = p /\ pc[a] \in InAudit
        BY <3>2, <3>4 DEF TypeOK, PoolOK
      <4>2. a \in Serving(p) /\ Live(a)
        BY <4>1 DEF Serving, Live, Answers, InAudit
      <4>3. Blocked(a)
        BY <4>2
      <4> QED BY <4>1, <4>3 DEF Blocked, InAudit
    <3> QED BY <3>1, <3>3, <3>4 DEF Blocked
  <2>6. Cardinality(writing \cap {p}) = 0
    <3>1. writing \cap {p} = {}
      BY <2>4
    <3> QED BY <3>1, FS_EmptySet
  <2>7. Cardinality(Held) = Capacity
    <3>1. IsFiniteSet(Held)
      BY <2>2, <2>3, FS_Subset
    <3>2. Cardinality(Held) \in Nat
      BY <3>1, FS_CardinalityType
    <3> QED BY <2>5, <2>6, <3>2 DEF Free
  <2>8. Cardinality(Held) <= Cardinality(House)
    BY <2>2, <2>3, FS_Subset
  <2>9. Cardinality(House) \in Nat
    BY <2>2, FS_CardinalityType
  <2> QED BY <2>7, <2>8, <2>9
<1> QED BY <1>1, TypeCorrect, PTL

-----------------------------------------------------------------------------
(* Nobody waits forever.  The pool is never overdrawn, and a session has its *)
(* connection from its first statement to its commit and again from the     *)
(* reload on.                                                               *)
Holding == {"legacy", "upgrade", "remember", "handle", "lock"} \cup InAudit

WithinCapacity == \A p \in Processes : Free(p) \in Nat

SessionOpen == \A r \in Requests : pc[r] \in Holding => r \in conn

WaitInv == WithinCapacity /\ SessionOpen

(* The connections of one process, counted. *)
LEMMA Counts ==
    ASSUME NEW H \in SUBSET Requests, NEW W, NEW p
    PROVE  /\ IsFiniteSet(H) /\ Cardinality(H) \in Nat
           /\ Cardinality(W \cap {p}) = IF p \in W THEN 1 ELSE 0
<1>1. IsFiniteSet(H) /\ Cardinality(H) \in Nat
  BY FS_Subset, FS_CardinalityType
<1>2. CASE p \in W
  <2>1. W \cap {p} = {p}
    BY <1>2
  <2> QED BY <1>1, <1>2, <2>1, FS_Singleton
<1>3. CASE p \notin W
  <2>1. W \cap {p} = {}
    BY <1>3
  <2> QED BY <1>1, <1>3, <2>1, FS_EmptySet
<1> QED BY <1>2, <1>3

(* A process that gives connections back, or takes none, has as many free.  *)
LEMMA GivingBack ==
    ASSUME NEW p \in Processes, Free(p) \in Nat, conn \subseteq Requests,
           conn' \cap Serving(p)' \subseteq conn \cap Serving(p),
           p \in writing' => p \in writing
    PROVE  Free(p)' \in Nat
<1> DEFINE H == conn \cap Serving(p)
           G == conn' \cap Serving(p)'
<1>1. /\ IsFiniteSet(H) /\ Cardinality(H) \in Nat
      /\ Cardinality(writing \cap {p}) = IF p \in writing THEN 1 ELSE 0
  BY Counts DEF Serving
<1>2. /\ IsFiniteSet(G) /\ Cardinality(G) \in Nat
      /\ Cardinality(writing' \cap {p}) = IF p \in writing' THEN 1 ELSE 0
  BY Counts DEF Serving
<1>3. Cardinality(G) <= Cardinality(H)
  BY <1>1, FS_Subset
<1> HIDE DEF H, G
<1>4. Free(p) = Capacity - Cardinality(H) - (IF p \in writing THEN 1 ELSE 0)
  BY <1>1 DEF Free, H
<1>5. Free(p)' = Capacity - Cardinality(G) - (IF p \in writing' THEN 1 ELSE 0)
  BY <1>2 DEF Free, G
<1> QED BY <1>1, <1>2, <1>3, <1>4, <1>5

(* One that has a connection free can take it. *)
LEMMA TakingOne ==
    ASSUME NEW p \in Processes, Free(p) \in Nat, conn \subseteq Requests,
           NEW r \in Requests, UNCHANGED proc,
           \/ r \in conn \/ proc[r] # p \/ Free(p) > 0,
           conn' = conn \cup {r},
           UNCHANGED writing
    PROVE  Free(p)' \in Nat
<1>1. CASE r \in conn \/ proc[r] # p
  BY <1>1, GivingBack DEF Serving
<1>2. CASE r \notin conn /\ proc[r] = p
  <2> DEFINE H == conn \cap Serving(p)
  <2>1. /\ IsFiniteSet(H) /\ Cardinality(H) \in Nat
        /\ Cardinality(writing \cap {p}) = IF p \in writing THEN 1 ELSE 0
    BY Counts DEF Serving
  <2>2. conn' \cap Serving(p)' = H \cup {r} /\ r \notin H
    BY <1>2 DEF Serving
  <2>3. Cardinality(H \cup {r}) = Cardinality(H) + 1
    BY <2>1, <2>2, FS_AddElement
  <2> HIDE DEF H
  <2>4. Free(p) = Capacity - Cardinality(H) - (IF p \in writing THEN 1 ELSE 0)
    BY <2>1 DEF Free, H
  <2>5. Free(p)' = Capacity - (Cardinality(H) + 1) - (IF p \in writing THEN 1 ELSE 0)
    BY <2>1, <2>2, <2>3 DEF Free
  <2> QED BY <1>2, <2>1, <2>4, <2>5
<1> QED BY <1>1, <1>2

(* What a step of a thread does to the connections, with the guard of what  *)
(* takes one.                                                               *)
LEMMA ServeConnections ==
    ASSUME TypeOK, SessionOpen, NEW r \in Requests, Serve(r)
    PROVE  /\ UNCHANGED proc
           /\ conn \ {r} \subseteq conn'
           /\ \/ conn' \subseteq conn /\ writing' \subseteq writing
              \/ Connected(r) /\ conn' = conn \cup {r} /\ UNCHANGED writing
              \/ Free(proc[r]) > 0 /\ writing' = writing \cup {proc[r]} /\ UNCHANGED conn
           /\ pc'[r] \in Holding => r \in conn'
<1> USE DEF Serve, TypeOK, ThreadTypes, Goto, InAudit, Query, Release, pool, Connected,
            Holding, SessionOpen, Querying
<1>1. CASE Lookup(r) \/ Recheck(r) \/ Candidates(r)
  BY <1>1 DEF Lookup, Recheck, Candidates
<1>2. CASE FindLegacy(r) \/ Upgrade(r) \/ Refresh(r) \/ Remember(r)
  BY <1>2 DEF FindLegacy, Upgrade, Refresh, Remember
<1>3. CASE Forbid(r) \/ Read(r) \/ Create(r) \/ RevokeMissing(r) \/ Revoke(r) \/ Reload(r)
  BY <1>3 DEF Forbid, Read, Create, RevokeMissing, Revoke, Reload, Handling, Commit
<1>4. CASE Audit(r)
  BY <1>4 DEF Audit, LockAudit, ConnectAudit, AppendEvent
<1>5. CASE TimeOut(r)
  BY <1>5 DEF TimeOut, Asking
<1> QED BY <1>1, <1>2, <1>3, <1>4, <1>5 DEF Authenticate

LEMMA WaitInit == Init => WaitInv
<1> SUFFICES ASSUME Init PROVE WaitInv
  OBVIOUS
<1> USE DEF Init
<1>1. WithinCapacity
  <2> SUFFICES ASSUME NEW p \in Processes PROVE Free(p) \in Nat
    BY DEF WithinCapacity
  <2>1. conn \cap Serving(p) = {} /\ writing \cap {p} = {}
    BY DEF PoolInit
  <2>2. Cardinality(conn \cap Serving(p)) = 0 /\ Cardinality(writing \cap {p}) = 0
    BY <2>1, FS_EmptySet
  <2>3. Free(p) = Capacity - 0 - 0
    BY <2>2 DEF Free
  <2> QED BY <2>3
<1>2. SessionOpen
  BY DEF SessionOpen, Holding, InAudit
<1> QED BY <1>1, <1>2 DEF WaitInv

LEMMA WaitStep == TypeOK /\ WaitInv /\ [Next]_vars => WaitInv'
<1> SUFFICES ASSUME TypeOK, WaitInv, [Next]_vars PROVE WaitInv'
  OBVIOUS
<1>0. /\ pc \in [Requests -> Stages]
      /\ conn \subseteq Requests
      /\ \A r \in conn : Live(r)
      /\ keyStatus \in [ScopedKeys -> {"absent", "active", "revoked"}]
      /\ effects \in [Calls -> Nat]
      /\ \A p \in Processes : Free(p) \in Nat
  BY DEF TypeOK, ThreadTypes, PoolOK, AuthTypes, ClientTypes, WaitInv, WithinCapacity
<1>1. ASSUME NEW r \in Requests, Serve(r) PROVE WaitInv'
  <2>1. /\ Live(r) /\ pc'[r] # "unsent" /\ UNCHANGED job
        /\ \A q \in Requests \ {r} : pc'[q] = pc[q]
    BY <1>1, ServeMoves DEF TypeOK, ThreadTypes, Serve
  <2>2. WithinCapacity'
    <3> SUFFICES ASSUME NEW p \in Processes PROVE Free(p)' \in Nat
      BY DEF WithinCapacity
    <3>1. UNCHANGED proc
      BY <1>1, ServeConnections DEF WaitInv
    <3>2. CASE conn' \subseteq conn /\ writing' \subseteq writing
      BY <1>0, <3>1, <3>2, GivingBack DEF Serving
    <3>3. CASE Connected(r) /\ conn' = conn \cup {r} /\ UNCHANGED writing
      BY <1>0, <3>1, <3>3, TakingOne DEF Connected
    <3>4. CASE Free(proc[r]) > 0 /\ writing' = writing \cup {proc[r]} /\ UNCHANGED conn
      <4>1. CASE p # proc[r] \/ p \in writing
        BY <1>0, <3>1, <3>4, <4>1, GivingBack DEF Serving
      <4>2. CASE p = proc[r] /\ p \notin writing
        <5> DEFINE n == Cardinality(conn \cap Serving(p))
        <5>1. n \in Nat /\ Serving(p)' = Serving(p)
          BY <1>0, <3>1, Counts DEF Serving
        <5>2. /\ Cardinality(writing \cap {p}) = 0
              /\ Cardinality(writing' \cap {p}) = 1
          BY <3>4, <4>2, Counts
        <5>3. Free(p) = Capacity - n - 0 /\ Free(p)' = Capacity - n - 1
          BY <3>4, <5>1, <5>2 DEF Free
        <5> HIDE DEF n
        <5> QED BY <3>4, <4>2, <5>1, <5>3
      <4> QED BY <4>1, <4>2
    <3> QED BY <1>1, <3>2, <3>3, <3>4, ServeConnections DEF WaitInv
  <2>3. SessionOpen'
    BY <1>1, <2>1, ServeConnections DEF WaitInv, SessionOpen, Holding, InAudit
  <2> QED BY <2>2, <2>3 DEF WaitInv
<1>2. ASSUME NEW c \in Calls, Send(c) PROVE WaitInv'
  <2> DEFINE r == <<c, tries[c] + 1>>
  <2>1. r \in Requests /\ pc[r] = "unsent" /\ r[1] = c
    BY <1>2, SendFresh
  <2>2. /\ pc'[r] \in {"cache", "throttled"}
        /\ \A q \in Requests \ {r} : pc'[q] = pc[q]
    BY <1>2, SendMoves
  <2>3. /\ UNCHANGED <<job, effects, keyStatus, conn, writing>>
        /\ \A q \in Requests \ {r} : proc'[q] = proc[q]
    BY <1>2, <2>1 DEF Send, history, auth, keys, TypeOK, ThreadTypes
  <2>4. WithinCapacity'
    BY <1>0, <2>1, <2>3, GivingBack DEF WithinCapacity, Serving, Live
  <2>5. SessionOpen'
    BY <2>1, <2>2, <2>3 DEF WaitInv, SessionOpen, Holding, InAudit
  <2> QED BY <2>4, <2>5 DEF WaitInv
<1>3. ASSUME NEW c \in Calls, ConnectError(c) \/ Receive(c) \/ LoseAnswer(c) PROVE WaitInv'
  <2>1. UNCHANGED <<pc, proc, conn, writing, job, effects, keyStatus>>
    BY <1>3 DEF ConnectError, Receive, LoseAnswer, pool, auth, keys, history
  <2> QED
    BY <1>0, <2>1, GivingBack
       DEF WaitInv, WithinCapacity, SessionOpen, Serving
<1>4. ASSUME NEW p \in Processes, Crash(p) PROVE WaitInv'
  <2>1. /\ UNCHANGED <<proc, job, effects, keyStatus>>
        /\ \A q \in Requests : pc'[q] = IF q \in Serving(p) /\ Live(q) THEN "error" ELSE pc[q]
        /\ conn' = conn \ Serving(p) /\ writing' \subseteq writing
    BY <1>4 DEF Crash, keys, history
  <2>2. WithinCapacity'
    BY <1>0, <2>1, GivingBack DEF WithinCapacity, Serving
  <2>3. SessionOpen'
    BY <1>0, <2>1 DEF WaitInv, SessionOpen, Holding, InAudit
  <2> QED BY <2>2, <2>3 DEF WaitInv
<1>5. CASE UNCHANGED vars
  BY <1>5, <1>0, GivingBack
     DEF vars, pool, auth, keys, history, WaitInv, WithinCapacity, SessionOpen,
         Serving
<1> QED BY <1>1, <1>2, <1>3, <1>4, <1>5 DEF Next

LEMMA WaitInvariant == Spec => []WaitInv
<1>1. Init => WaitInv
  BY WaitInit
<1>2. TypeOK /\ WaitInv /\ [Next]_vars => WaitInv'
  BY WaitStep
<1> QED BY <1>1, <1>2, TypeCorrect, PTL DEF Spec

(* An insertion into a cache of at least one entry always finds one to drop. *)
LEMMA InsertedSome ==
    ASSUME NEW entries, NEW s, NEW hash
    PROVE  Inserted(entries, s, hash) # {}
<1> DEFINE full == [entries EXCEPT ![s] = hash]
           present == {t \in Secrets : full[t] # 0}
<1>1. CASE Cardinality(present) <= CacheSize
  BY <1>1 DEF Inserted
<1>2. CASE ~(Cardinality(present) <= CacheSize)
  <2>1. present \ {s} # {}
    <3> SUFFICES ASSUME present \subseteq {s} PROVE FALSE
      OBVIOUS
    <3> HIDE DEF present
    <3>1. present = {} \/ present = {s}
      OBVIOUS
    <3>2. Cardinality(present) \in {0, 1}
      BY <3>1, FS_EmptySet, FS_Singleton
    <3> QED BY <1>2, <3>2
  <2>2. Inserted(entries, s, hash) = {[full EXCEPT ![t] = 0] : t \in present \ {s}}
    BY <1>2 DEF Inserted
  <2>3. PICK t \in present \ {s} : TRUE
    BY <2>1
  <2>4. [full EXCEPT ![t] = 0] \in Inserted(entries, s, hash)
    BY <2>2, <2>3
  <2> QED BY <2>4
<1> QED BY <1>1, <1>2

(* Nothing is ever stuck: neither the pool, nor the lock, nor a row can keep *)
(* a request waiting for something that does not come.                      *)
THEOREM NoRequestIsStuck == Spec => []NeverStuck
<1>1. TypeOK /\ WaitInv => NeverStuck
  <2> SUFFICES ASSUME TypeOK, WaitInv, NEW r \in Requests, Live(r)
               PROVE  \/ Ready(r)
                      \/ /\ pc[r] = "lock" /\ auditor[proc[r]] \in Requests
                         /\ Ready(auditor[proc[r]])
    BY DEF NeverStuck
  <2>0. /\ pc[r] \in Stages /\ proc[r] \in Processes
        /\ Free(proc[r]) = 0 \/ Free(proc[r]) > 0
    BY DEF TypeOK, ThreadTypes, Live, WaitInv, WithinCapacity
  <2>1. CASE pc[r] \in {"cache", "append"}
    BY <2>1 DEF Ready
  <2>2. CASE pc[r] \in Querying
    BY <2>0, <2>2 DEF Ready, Connected, Asking
  <2>3. CASE pc[r] \in {"legacy", "upgrade"}
    BY <2>3 DEF Ready, Connected, WaitInv, SessionOpen, Holding
  <2>4. CASE pc[r] = "remember"
    BY <2>4, InsertedSome DEF Ready
  <2>5. CASE pc[r] = "handle"
    <3>1. Connected(r)
      BY <2>5 DEF Connected, WaitInv, SessionOpen, Holding
    <3> QED BY <2>5, <3>1 DEF Ready
  <2>6. CASE pc[r] = "connect"
    BY <2>0, <2>6 DEF Ready, Asking
  <2>7. CASE pc[r] = "lock"
    <3> DEFINE a == auditor[proc[r]]
    <3>1. CASE a = None
      BY <2>7, <3>1 DEF Ready
    <3>2. CASE a # None
      <4>1. a \in Requests /\ proc[a] = proc[r] /\ pc[a] \in {"connect", "append"}
        BY <2>0, <3>2 DEF TypeOK, PoolOK, InAudit
      <4>2. Ready(a)
        BY <2>0, <4>1 DEF Ready, Asking
      <4> QED BY <2>7, <4>1, <4>2
    <3> QED BY <3>1, <3>2
  <2> QED
    BY <2>0, <2>1, <2>2, <2>3, <2>4, <2>5, <2>6, <2>7 DEF Live, Stages, Answers
<1> QED BY <1>1, TypeCorrect, WaitInvariant, PTL

(* The sessions of a process never hold more connections than its pool has. *)
THEOREM PoolIsNeverOverdrawn == Spec => []WithinCapacity
<1>1. WaitInv => WithinCapacity
  BY DEF WaitInv
<1> QED BY <1>1, WaitInvariant, PTL

(* How many steps a thread has before it at most. *)
Stage(s) == [unsent |-> 13, cache |-> 12, recheck |-> 11, candidates |-> 10, legacy |-> 9,
             upgrade |-> 8, refresh |-> 7, remember |-> 6, handle |-> 5, reload |-> 4,
             lock |-> 3, connect |-> 2, append |-> 1][s]
StepsLeft(s) == IF s \in Answers THEN 0 ELSE Stage(s)

LEMMA ServeDescends ==
    ASSUME TypeOK, NEW r \in Requests, Serve(r)
    PROVE  StepsLeft(pc'[r]) < StepsLeft(pc[r])
<1> USE DEF Serve, TypeOK, ThreadTypes, Goto, Answers, StepsLeft, Stage
<1>1. CASE Lookup(r) \/ Recheck(r) \/ Candidates(r)
  BY <1>1 DEF Lookup, Recheck, Candidates
<1>2. CASE FindLegacy(r) \/ Upgrade(r) \/ Refresh(r) \/ Remember(r)
  BY <1>2 DEF FindLegacy, Upgrade, Refresh, Remember
<1>3. CASE Forbid(r) \/ Read(r) \/ Create(r) \/ RevokeMissing(r) \/ Revoke(r) \/ Reload(r)
  BY <1>3 DEF Forbid, Read, Create, RevokeMissing, Revoke, Reload, Handling, Commit
<1>4. CASE Audit(r)
  BY <1>4 DEF Audit, LockAudit, ConnectAudit, AppendEvent
<1>5. CASE TimeOut(r)
  BY <1>5 DEF TimeOut, Asking, Querying
<1> QED BY <1>1, <1>2, <1>3, <1>4, <1>5 DEF Authenticate

(* A thread takes at most a dozen steps: each brings it nearer to its       *)
(* answer, no other actor ever sets it back, and an answer is final.  With  *)
(* NoRequestIsStuck and the fairness of Spec this is why every request ends. *)
Descends ==
    \A r \in Requests :
        /\ StepsLeft(pc'[r]) <= StepsLeft(pc[r])
        /\ Serve(r) => StepsLeft(pc'[r]) < StepsLeft(pc[r])
        /\ pc[r] \in Answers => pc'[r] = pc[r]

THEOREM EveryStepIsProgress == Spec => [][Descends]_vars
<1>1. TypeOK /\ [Next]_vars => [Descends]_vars
  <2> SUFFICES ASSUME TypeOK, Next, NEW r \in Requests
               PROVE  /\ StepsLeft(pc'[r]) <= StepsLeft(pc[r])
                      /\ Serve(r) => StepsLeft(pc'[r]) < StepsLeft(pc[r])
                      /\ pc[r] \in Answers => pc'[r] = pc[r]
    BY DEF Descends
  <2>0. pc[r] \in Stages /\ StepsLeft(pc[r]) \in Nat
    BY DEF TypeOK, ThreadTypes, Stages, Querying, Answers, StepsLeft, Stage
  <2>1. CASE Serve(r)
    BY <2>0, <2>1, ServeDescends, ServeMoves, TypeStep
       DEF Live, TypeOK, ThreadTypes, Stages, Querying, Answers, StepsLeft, Stage
  <2>2. ASSUME pc'[r] = pc[r] \/ (Live(r) /\ pc'[r] = "error")
                \/ (pc[r] = "unsent" /\ pc'[r] \in {"cache", "throttled"}),
               ~Serve(r)
        PROVE  /\ StepsLeft(pc'[r]) <= StepsLeft(pc[r])
               /\ pc[r] \in Answers => pc'[r] = pc[r]
    BY <2>0, <2>2 DEF Live, Answers, StepsLeft, Stage
  <2>3. ASSUME NEW q \in Requests, q # r, Serve(q) PROVE pc'[r] = pc[r]
    BY <2>3, ServeMoves DEF TypeOK, ThreadTypes
  <2>4. ASSUME NEW c \in Calls, Send(c)
        PROVE  pc'[r] = pc[r] \/ (pc[r] = "unsent" /\ pc'[r] \in {"cache", "throttled"})
    BY <2>4, SendFresh, SendMoves
  <2>5. ASSUME NEW c \in Calls, ConnectError(c) \/ Receive(c) \/ LoseAnswer(c)
        PROVE  pc'[r] = pc[r]
    BY <2>5 DEF ConnectError, Receive, LoseAnswer
  <2>6. ASSUME NEW p \in Processes, Crash(p)
        PROVE  pc'[r] = pc[r] \/ (Live(r) /\ pc'[r] = "error")
    BY <2>6 DEF Crash
  <2> QED BY <2>1, <2>2, <2>3, <2>4, <2>5, <2>6 DEF Next
<1> QED BY <1>1, TypeCorrect, PTL DEF Spec

-----------------------------------------------------------------------------
(* The rate limiter.  Of one bucket: its admitted hits, those in its        *)
(* current window, those less than Window before that, those of any Window. *)
(* The hit that starts a window is admitted, and no hit of the next window  *)
(* is less than Window away from it: hence the one less in the bounds.      *)
Admitted(p, b) == {h \in hits : h[1] = p /\ h[2] = b}
Since(H, start) == {h \in H : h[4] >= start}
Before(H, start) == {h \in H : h[4] < start /\ start < h[4] + Window}
During(H, from) == {h \in H : h[4] \in from .. from + Window - 1}

Bounded(H, w, t, limit) ==
    /\ IsFiniteSet(H)
    /\ \A h \in H : h[4] \in Nat /\ h[4] <= t
    /\ w.start <= t
    /\ w.count = 0 => H = {}
    /\ w.count > 0 => /\ \A h \in H : h[4] < w.start + Window
                      /\ \E h \in H : h[4] = w.start
    /\ Cardinality(Since(H, w.start)) <= w.count
    /\ limit > 0 => /\ Cardinality(Since(H, w.start)) <= limit
                    /\ Cardinality(Before(H, w.start)) < limit
                    /\ \A from \in Nat : Cardinality(During(H, from)) < 2 * limit

LEMMA Sizes ==
    ASSUME NEW H, IsFiniteSet(H)
    PROVE  /\ \A S \in SUBSET H : IsFiniteSet(S) /\ Cardinality(S) \in Nat
           /\ \A S \in SUBSET H, T \in SUBSET H : S \subseteq T => Cardinality(S) <= Cardinality(T)
           /\ \A S \in SUBSET H, T \in SUBSET H :
                Cardinality(S \cup T) <= Cardinality(S) + Cardinality(T)
           /\ \A S \in SUBSET H : \A x : /\ IsFiniteSet(S \cup {x})
                                         /\ Cardinality(S \cup {x}) <= Cardinality(S) + 1
           /\ Cardinality({}) = 0
<1>1. \A S \in SUBSET H : IsFiniteSet(S) /\ Cardinality(S) \in Nat
  BY FS_Subset, FS_CardinalityType
<1>2. \A S \in SUBSET H, T \in SUBSET H : S \subseteq T => Cardinality(S) <= Cardinality(T)
  BY <1>1, FS_Subset
<1>3. ASSUME NEW S \in SUBSET H, NEW T \in SUBSET H
      PROVE  Cardinality(S \cup T) <= Cardinality(S) + Cardinality(T)
  <2>1. Cardinality(S \cup T) = Cardinality(S) + Cardinality(T) - Cardinality(S \cap T)
    BY <1>1, FS_Union
  <2>2. Cardinality(S \cap T) \in Nat /\ Cardinality(S) \in Nat /\ Cardinality(T) \in Nat
    BY <1>1
  <2> QED BY <2>1, <2>2
<1>4. ASSUME NEW S \in SUBSET H, NEW x
      PROVE  IsFiniteSet(S \cup {x}) /\ Cardinality(S \cup {x}) <= Cardinality(S) + 1
  <2>1. IsFiniteSet(S) /\ Cardinality(S) \in Nat
    BY <1>1
  <2>2. /\ IsFiniteSet(S \cup {x})
        /\ Cardinality(S \cup {x}) = IF x \in S THEN Cardinality(S) ELSE Cardinality(S) + 1
    BY <2>1, FS_AddElement
  <2> QED BY <2>1, <2>2
<1> QED BY <1>1, <1>2, <1>3, <1>4, FS_EmptySet

(* Counting a hit, admitted or not, keeps a bucket bounded.                 *)
LEMMA HitStep ==
    ASSUME NEW H, NEW w \in [start : Nat, count : Nat], NEW t \in Nat, NEW time \in Nat, t <= time,
           NEW limit \in Nat, limit >= 1, Bounded(H, w, t, limit),
           NEW x, x[4] = time, NEW G,
           \/ G = H /\ Count(w, time).count > limit
           \/ G = H \cup {x} /\ Count(w, time).count <= limit
    PROVE  Bounded(G, Count(w, time), time, limit)
<1> DEFINE v == Count(w, time)
<1>0. Window \in Nat \ {0} /\ w.start \in Nat /\ w.count \in Nat
  BY LimiterAssumption
<1>1. /\ IsFiniteSet(H)
      /\ \A h \in H : h[4] \in Nat /\ h[4] <= t
      /\ w.start <= t
      /\ w.count = 0 => H = {}
      /\ w.count > 0 => \A h \in H : h[4] < w.start + Window
      /\ w.count > 0 => \E h \in H : h[4] = w.start
      /\ Cardinality(Since(H, w.start)) <= w.count
      /\ Cardinality(Since(H, w.start)) <= limit
      /\ Cardinality(Before(H, w.start)) < limit
      /\ \A from \in Nat : Cardinality(During(H, from)) < 2 * limit
  BY DEF Bounded
<1>2. /\ \A s : Since(H, s) \in SUBSET H /\ Before(H, s) \in SUBSET H /\ During(H, s) \in SUBSET H
      /\ H \in SUBSET H
  BY DEF Since, Before, During
<1>3. G \subseteq H \cup {x} /\ H \subseteq G
  OBVIOUS
<1>4. IsFiniteSet(H \cup {x}) /\ IsFiniteSet(G)
  <2>1. IsFiniteSet(H \cup {x})
    BY <1>1, <1>2, Sizes
  <2> QED BY <1>1, <2>1
<1>5. \A h \in G : h[4] \in Nat /\ h[4] <= time
  BY <1>1, <1>3
<1>6. \A S \in SUBSET H : Cardinality(S) \in Nat
  BY <1>1, Sizes
<1>7. ASSUME NEW S \in SUBSET G, NEW T \in SUBSET H, S \subseteq T \cup {x}
      PROVE  /\ Cardinality(S) \in Nat
             /\ Cardinality(S) <= Cardinality(T) + 1
             /\ x \notin S => Cardinality(S) <= Cardinality(T)
  <2>1. Cardinality(S) \in Nat
    BY <1>4, Sizes
  <2>2. T \cup {x} \in SUBSET (H \cup {x}) /\ S \in SUBSET (H \cup {x}) /\ T \in SUBSET (H \cup {x})
    BY <1>3
  <2>3. Cardinality(S) <= Cardinality(T \cup {x})
    BY <1>4, <1>7, <2>2, Sizes
  <2>4. Cardinality(T \cup {x}) <= Cardinality(T) + 1 /\ Cardinality(T) \in Nat
        /\ Cardinality(T \cup {x}) \in Nat
    <3>1. Cardinality(T \cup {x}) <= Cardinality(T) + 1 /\ Cardinality(T) \in Nat
      BY <1>1, Sizes
    <3>2. Cardinality(T \cup {x}) \in Nat
      BY <1>4, <2>2, Sizes
    <3> QED BY <3>1, <3>2
  <2>5. x \notin S => S \subseteq T
    BY <1>7
  <2>6. x \notin S => Cardinality(S) <= Cardinality(T)
    BY <1>4, <2>2, <2>5, Sizes
  <2> QED BY <2>1, <2>3, <2>4, <2>6
<1>8. CASE w.count = 0 \/ time - w.start >= Window
  <2>1. v = [start |-> time, count |-> 1]
    BY <1>8 DEF Count
  <2>2. G = H \cup {x}
    BY <2>1
  <2>3. \A h \in H : h[4] < time
    BY <1>0, <1>1, <1>8
  <2>4. Since(G, time) = {x}
    BY <1>1, <1>5, <2>2, <2>3 DEF Since
  <2>5. Cardinality({x}) = 1
    BY FS_Singleton
  <2>6. Before(G, time) = Before(H, time) /\ x \notin Before(G, time)
        /\ Before(H, time) \subseteq Since(H, w.start)
    BY <1>0, <1>1, <1>8, <2>2 DEF Before, Since
  <2>7. Cardinality(Before(H, time)) < limit /\ Cardinality(Before(H, time)) \in Nat
    <3>0. Cardinality(Before(H, time)) \in Nat
      BY <1>2, <1>6
    <3>1. CASE H = {}
      <4>1. Before(H, time) = {}
        BY <3>1 DEF Before
      <4> QED BY <3>0, <4>1, FS_EmptySet
    <3>2. CASE H # {}
      <4>1. PICK first \in H : first[4] = w.start
        BY <1>0, <1>1, <3>2
      <4>2. first \in Since(H, w.start) /\ first \notin Before(H, time)
        BY <1>0, <1>1, <1>8, <3>2, <4>1 DEF Since, Before
      <4>3. Before(H, time) \subseteq Since(H, w.start) \ {first}
        BY <2>6, <4>2
      <4>4. /\ IsFiniteSet(Since(H, w.start) \ {first})
            /\ Cardinality(Since(H, w.start) \ {first}) = Cardinality(Since(H, w.start)) - 1
        <5>1. IsFiniteSet(Since(H, w.start))
          BY <1>1, <1>2, Sizes
        <5>2. ASSUME NEW S, IsFiniteSet(S), NEW y \in S
              PROVE  IsFiniteSet(S \ {y}) /\ Cardinality(S \ {y}) = Cardinality(S) - 1
          BY <5>2, FS_RemoveElement
        <5> QED BY <4>2, <5>1, <5>2
      <4>5. Cardinality(Before(H, time)) <= Cardinality(Since(H, w.start) \ {first})
        BY <4>3, <4>4, FS_Subset
      <4> QED BY <1>1, <1>2, <1>6, <3>0, <4>4, <4>5
    <3> QED BY <3>1, <3>2
  <2>8. ASSUME NEW from \in Nat PROVE Cardinality(During(G, from)) < 2 * limit
    <3>0. During(G, from) \in SUBSET G
      BY DEF During
    <3>1. CASE x \in During(G, from)
      <4>1. from > time - Window
        BY <1>0, <3>1 DEF During
      <4>2. During(G, from) \subseteq Before(H, time) \cup {x}
        BY <1>0, <1>1, <2>2, <2>3, <4>1 DEF During, Before
      <4>3. /\ Cardinality(During(G, from)) <= Cardinality(Before(H, time)) + 1
            /\ Cardinality(During(G, from)) \in Nat
        BY <1>2, <1>7, <3>0, <4>2
      <4> QED BY <2>7, <4>3
    <3>2. CASE x \notin During(G, from)
      <4>1. During(G, from) \subseteq During(H, from) \cup {x}
        BY <2>2 DEF During
      <4>2. Cardinality(During(G, from)) <= Cardinality(During(H, from))
            /\ Cardinality(During(G, from)) \in Nat /\ Cardinality(During(H, from)) \in Nat
        BY <1>2, <1>6, <1>7, <3>0, <3>2, <4>1
      <4> QED BY <1>1, <4>2
    <3> QED BY <3>1, <3>2
  <2>9. (\A h \in G : h[4] < time + Window) /\ \E h \in G : h[4] = time
    BY <1>0, <1>5, <2>2
  <2>10. v.start = time /\ v.count = 1
    BY <2>1
  <2>11. Cardinality(Since(G, v.start)) = 1 /\ Cardinality(Before(G, v.start)) < limit
    BY <2>4, <2>5, <2>6, <2>7, <2>10
  <2> HIDE DEF v
  <2> QED BY <1>4, <1>5, <2>8, <2>9, <2>10, <2>11 DEF Bounded, v
<1>9. CASE w.count > 0 /\ time - w.start < Window
  <2>1. v.start = w.start /\ v.count = w.count + 1
    BY <1>0, <1>9 DEF Count
  <2>2. Since(G, w.start) \in SUBSET G /\ Since(G, w.start) \subseteq Since(H, w.start) \cup {x}
    BY <1>3 DEF Since
  <2>3. /\ Cardinality(Since(G, w.start)) <= Cardinality(Since(H, w.start)) + 1
        /\ Cardinality(Since(G, w.start)) \in Nat /\ Cardinality(Since(H, w.start)) \in Nat
    BY <1>2, <1>6, <1>7, <2>2
  <2>4. Cardinality(Since(G, w.start)) <= v.count
    BY <1>1, <2>1, <2>3
  <2>5. Cardinality(Since(G, w.start)) <= limit
    BY <1>0, <1>1, <2>1, <2>3, <2>4
  <2>6. Before(G, w.start) = Before(H, w.start)
    BY <1>0, <1>1, <1>3 DEF Before
  <2>7. ASSUME NEW from \in Nat PROVE Cardinality(During(G, from)) < 2 * limit
    <3>0. During(G, from) \in SUBSET G
      BY DEF During
    <3>1. CASE x \in During(G, from)
      <4>1. from > time - Window
        BY <1>0, <3>1 DEF During
      <4>2. During(G, from) \subseteq Since(G, w.start) \cup Before(H, w.start)
        BY <1>0, <1>1, <1>3, <4>1 DEF During, Since, Before
      <4>3. Since(G, w.start) \cup Before(H, w.start) \in SUBSET G
            /\ Before(H, w.start) \in SUBSET G
        BY <1>2, <1>3, <2>2
      <4>4. Cardinality(During(G, from)) <= Cardinality(Since(G, w.start) \cup Before(H, w.start))
        BY <1>4, <3>0, <4>2, <4>3, Sizes
      <4>5. Cardinality(Since(G, w.start) \cup Before(H, w.start))
              <= Cardinality(Since(G, w.start)) + Cardinality(Before(H, w.start))
        BY <1>4, <2>2, <4>3, Sizes
      <4>6. /\ Cardinality(During(G, from)) \in Nat
            /\ Cardinality(Since(G, w.start) \cup Before(H, w.start)) \in Nat
            /\ Cardinality(Before(H, w.start)) \in Nat
        BY <1>4, <3>0, <4>3, Sizes
      <4> QED BY <1>1, <2>3, <2>5, <4>4, <4>5, <4>6
    <3>2. CASE x \notin During(G, from)
      <4>1. During(G, from) \subseteq During(H, from) \cup {x}
        BY <1>3 DEF During
      <4>2. Cardinality(During(G, from)) <= Cardinality(During(H, from))
            /\ Cardinality(During(G, from)) \in Nat /\ Cardinality(During(H, from)) \in Nat
        BY <1>2, <1>6, <1>7, <3>0, <3>2, <4>1
      <4> QED BY <1>1, <4>2
    <3> QED BY <3>1, <3>2
  <2>8. (\A h \in G : h[4] < w.start + Window) /\ \E h \in G : h[4] = w.start
    BY <1>0, <1>1, <1>3, <1>9
  <2>9. v.start <= time /\ v.count > 0
    BY <1>0, <1>1, <2>1
  <2> QED BY <1>1, <1>4, <1>5, <2>1, <2>4, <2>5, <2>6, <2>7, <2>8, <2>9 DEF Bounded
<1> QED BY <1>0, <1>8, <1>9

BurstInv ==
    \A p \in Processes, b \in Buckets :
        Bounded(Admitted(p, b), buckets[p][b], now, budget[b[2]])

LEMMA EmptyBounded ==
    ASSUME NEW t \in Nat, NEW limit \in Nat
    PROVE  Bounded({}, [start |-> 0, count |-> 0], t, limit)
<1>1. IsFiniteSet({}) /\ Cardinality({}) = 0
  BY FS_EmptySet
<1>2. \A s : Since({}, s) = {} /\ Before({}, s) = {} /\ During({}, s) = {}
  BY DEF Since, Before, During
<1> DEFINE w == [start |-> 0, count |-> 0]
<1>3. w.start = 0 /\ w.count = 0
  OBVIOUS
<1> HIDE DEF w
<1>4. Cardinality(Since({}, w.start)) = 0 /\ Cardinality(Before({}, w.start)) = 0
      /\ \A from : Cardinality(During({}, from)) = 0
  BY <1>1, <1>2
<1>5. (limit > 0 => 0 < 2 * limit) /\ 0 <= limit /\ w.start <= t /\ Cardinality(Since({}, w.start)) <= w.count
  BY <1>3, <1>4
<1>6. Bounded({}, w, t, limit)
  BY <1>1, <1>3, <1>4, <1>5 DEF Bounded
<1> QED BY <1>6 DEF w

LEMMA LaterBounded ==
    ASSUME NEW H, NEW w \in [start : Nat, count : Nat], NEW t \in Nat, NEW time \in Nat, t <= time,
           NEW limit, Bounded(H, w, t, limit)
    PROVE  Bounded(H, w, time, limit)
BY DEF Bounded

LEMMA ArriveBurst ==
    ASSUME TypeOK, BurstInv, NEW p \in Processes, NEW r \in Requests, Arrive(p, r)
    PROVE  BurstInv'
<1>1. CASE budget[Kind(r)] = 0
  <2>1. UNCHANGED <<now, budget, buckets, hits>>
    BY <1>1 DEF Arrive, limiter
  <2> QED BY <2>1 DEF BurstInv, Admitted
<1>2. CASE budget[Kind(r)] # 0
  <2> DEFINE i == IpBucket(r)
             k == KeyBucket(r)
  <2>1. PICK time \in now .. MaxTime :
            LET ip == Count(buckets[p][IpBucket(r)], time)
                key == Count(buckets[p][KeyBucket(r)], time)
                ipOk == ip.count <= budget[Kind(r)]
                keyOk == ipOk /\ key.count <= budget[Kind(r)]
            IN /\ now' = time
               /\ buckets' = [buckets EXCEPT
                                 ![p][IpBucket(r)] = ip,
                                 ![p][KeyBucket(r)] = IF ipOk THEN key ELSE @]
               /\ hits' = hits \cup
                      {<<p, b, r, time>> : b \in {c \in {IpBucket(r), KeyBucket(r)} :
                                                    IF c = IpBucket(r) THEN ipOk ELSE keyOk}}
               /\ UNCHANGED budget
    BY <1>2 DEF Arrive
  <2> DEFINE ip == Count(buckets[p][i], time)
             key == Count(buckets[p][k], time)
             limit == budget[Kind(r)]
             new == {c \in {i, k} : ip.count <= limit /\ (c = i \/ key.count <= limit)}
  <2>2. now \in Nat /\ time \in Nat /\ now <= time
    BY DEF TypeOK, LimiterTypes, Times
  <2>3. i \in Buckets /\ k \in Buckets /\ i # k /\ i[2] = Kind(r) /\ k[2] = Kind(r)
    <3>1. i \in Buckets /\ k \in Buckets /\ i # k
      BY RequestCall, KeyOfType
         DEF IpBucket, KeyBucket, Buckets, Kind, Kinds, TypeOK, LimiterTypes
    <3>2. i[2] = Kind(r) /\ k[2] = Kind(r)
      BY DEF IpBucket, KeyBucket
    <3> QED BY <3>1, <3>2
  <2>4. limit \in Nat /\ limit >= 1
    BY <1>2 DEF TypeOK, LimiterTypes, Kind, Kinds
  <2>5. \A q \in Processes, b \in Buckets : buckets[q][b] \in [start : Nat, count : Nat]
    BY DEF TypeOK, LimiterTypes, Times
  <2>6. hits' = hits \cup {<<p, b, r, time>> : b \in new} /\ now' = time /\ budget' = budget
    BY <2>1
  <2>7. buckets' = [buckets EXCEPT ![p][i] = ip,
                                   ![p][k] = IF ip.count <= limit THEN key ELSE @]
    BY <2>1
  <2>8. /\ \A q \in Processes \ {p} : buckets'[q] = buckets[q]
        /\ \A b \in Buckets \ {i, k} : buckets'[p][b] = buckets[p][b]
        /\ buckets'[p][i] = ip
        /\ buckets'[p][k] = IF ip.count <= limit THEN key ELSE buckets[p][k]
    <3>1. buckets \in [Processes -> [Buckets -> [start : Times, count : Nat]]]
      BY DEF TypeOK, LimiterTypes
    <3> HIDE DEF i, k, ip, key, limit, new
    <3> QED BY <2>3, <2>7, <3>1
  <2> HIDE DEF ip, key, i, k, limit, new
  <2>9. ASSUME NEW q \in Processes, NEW b \in Buckets
        PROVE  Admitted(q, b)' = Admitted(q, b) \cup
                 (IF q = p /\ b \in new THEN {<<p, b, r, time>>} ELSE {})
    BY <2>6 DEF Admitted
  <2>10. ASSUME NEW q \in Processes, NEW b \in Buckets
         PROVE  Bounded(Admitted(q, b)', buckets'[q][b], now', budget'[b[2]])
    <3>1. Bounded(Admitted(q, b), buckets[q][b], now, budget[b[2]])
      BY DEF BurstInv
    <3>2. <<p, b, r, time>>[4] = time
      OBVIOUS
    <3>3. CASE buckets'[q][b] = buckets[q][b] /\ ~(q = p /\ b \in new)
      <4>1. Admitted(q, b)' = Admitted(q, b)
        BY <2>9, <3>3
      <4> QED BY <2>2, <2>5, <2>6, <3>1, <3>3, <4>1, LaterBounded
    <3>4. CASE q = p /\ b = i
      <4>1. Bounded(Admitted(q, b), buckets[q][b], now, limit) /\ ip = Count(buckets[q][b], time)
        BY <2>3, <3>1, <3>4 DEF limit, ip
      <4>2. \/ Admitted(q, b)' = Admitted(q, b) /\ ip.count > limit
            \/ Admitted(q, b)' = Admitted(q, b) \cup {<<p, b, r, time>>} /\ ip.count <= limit
        <5>1. b \in new <=> ip.count <= limit
          BY <2>3, <3>4 DEF new
        <5>2. ip.count \in Nat
          BY <2>5, <4>1 DEF Count
        <5>3. CASE b \in new
          <6>1. Admitted(q, b)' = Admitted(q, b) \cup {<<p, b, r, time>>}
            BY <2>9, <3>4, <5>3
          <6> QED BY <5>1, <5>3, <6>1
        <5>4. CASE b \notin new
          <6>1. Admitted(q, b)' = Admitted(q, b)
            BY <2>9, <5>4
          <6>2. ip.count > limit
            BY <2>4, <5>1, <5>2, <5>4
          <6> QED BY <6>1, <6>2
        <5> QED BY <5>3, <5>4
      <4>3. Bounded(Admitted(q, b)', ip, time, limit)
        BY <2>2, <2>4, <2>5, <3>2, <4>1, <4>2, HitStep
      <4> QED BY <2>3, <2>6, <2>8, <3>4, <4>3 DEF limit
    <3>5. CASE q = p /\ b = k /\ ip.count <= limit
      <4>1. Bounded(Admitted(q, b), buckets[q][b], now, limit) /\ key = Count(buckets[q][b], time)
        BY <2>3, <3>1, <3>5 DEF limit, key
      <4>2. \/ Admitted(q, b)' = Admitted(q, b) /\ key.count > limit
            \/ Admitted(q, b)' = Admitted(q, b) \cup {<<p, b, r, time>>} /\ key.count <= limit
        <5>1. b \in new <=> key.count <= limit
          BY <2>3, <3>5 DEF new
        <5>2. key.count \in Nat
          BY <2>5, <4>1 DEF Count
        <5>3. CASE b \in new
          <6>1. Admitted(q, b)' = Admitted(q, b) \cup {<<p, b, r, time>>}
            BY <2>9, <3>5, <5>3
          <6> QED BY <5>1, <5>3, <6>1
        <5>4. CASE b \notin new
          <6>1. Admitted(q, b)' = Admitted(q, b)
            BY <2>9, <5>4
          <6>2. key.count > limit
            BY <2>4, <5>1, <5>2, <5>4
          <6> QED BY <6>1, <6>2
        <5> QED BY <5>3, <5>4
      <4>3. Bounded(Admitted(q, b)', key, time, limit)
        BY <2>2, <2>4, <2>5, <3>2, <4>1, <4>2, HitStep
      <4> QED BY <2>3, <2>6, <2>8, <3>5, <4>3 DEF limit
    <3>6. CASE q = p /\ b = k /\ ~(ip.count <= limit)
      BY <2>3, <2>8, <3>3, <3>6 DEF new
    <3>7. CASE q # p \/ b \notin {i, k}
      BY <2>8, <3>3, <3>7 DEF new
    <3> QED BY <3>4, <3>5, <3>6, <3>7
  <2> QED BY <2>10 DEF BurstInv
<1> QED BY <1>1, <1>2

LEMMA BurstStep ==
    ASSUME TypeOK, BurstInv, [Next]_vars
    PROVE  BurstInv'
<1>1. CASE UNCHANGED limiter
  BY <1>1 DEF limiter, BurstInv, Admitted
<1>2. ASSUME NEW c \in Calls, Send(c) PROVE BurstInv'
  BY <1>2, SendFresh, ArriveBurst DEF Send
<1>3. ASSUME NEW p \in Processes, Crash(p) PROVE BurstInv'
  <2>1. /\ hits' = {h \in hits : h[1] # p} /\ UNCHANGED <<now, budget>>
        /\ buckets' = [buckets EXCEPT ![p] = [b \in Buckets |-> [start |-> 0, count |-> 0]]]
    BY <1>3 DEF Crash
  <2> SUFFICES ASSUME NEW q \in Processes, NEW b \in Buckets
               PROVE  Bounded(Admitted(q, b)', buckets'[q][b], now', budget'[b[2]])
    BY DEF BurstInv
  <2>2. CASE q = p
    <3>1. Admitted(q, b)' = {}
      BY <2>1, <2>2 DEF Admitted
    <3>2. buckets'[q][b] = [start |-> 0, count |-> 0]
      BY <2>1, <2>2 DEF TypeOK, LimiterTypes
    <3>3. now \in Nat /\ budget[b[2]] \in Nat
      BY DEF TypeOK, LimiterTypes, Times, Buckets
    <3> QED BY <2>1, <3>1, <3>2, <3>3, EmptyBounded
  <2>3. CASE q # p
    <3>1. Admitted(q, b)' = Admitted(q, b)
      BY <2>1, <2>3 DEF Admitted
    <3>2. buckets'[q][b] = buckets[q][b]
      BY <2>1, <2>3 DEF TypeOK, LimiterTypes
    <3> QED BY <2>1, <3>1, <3>2 DEF BurstInv
  <2> QED BY <2>2, <2>3
<1> QED BY <1>1, <1>2, <1>3 DEF Next, vars, ConnectError, Receive, LoseAnswer, Serve

(* However arrivals are spread over the windows, a bucket admits less than  *)
(* twice its limit within the length of a window.                           *)
THEOREM BurstsAreBounded == Spec => []BurstBound
<1>1. Init => BurstInv
  <2> SUFFICES ASSUME Init, NEW p \in Processes, NEW b \in Buckets
               PROVE  Bounded(Admitted(p, b), buckets[p][b], now, budget[b[2]])
    BY DEF BurstInv
  <2>1. Admitted(p, b) = {} /\ buckets[p][b] = [start |-> 0, count |-> 0] /\ now = 0
    BY DEF Init, LimiterInit, Admitted
  <2>2. budget[b[2]] \in Nat
    <3>1. b[2] \in Kinds
      BY DEF Buckets
    <3>2. budget \in [Kinds -> Nat]
      BY DEF Init, LimiterInit
    <3> QED BY <3>1, <3>2
  <2> QED BY <2>1, <2>2, EmptyBounded
<1>2. TypeOK /\ BurstInv /\ [Next]_vars => BurstInv'
  BY BurstStep
<1>3. TypeOK /\ BurstInv => BurstBound
  <2> SUFFICES ASSUME BurstInv, NEW p \in Processes, NEW b \in Buckets, NEW from \in Times,
                      budget[b[2]] > 0
               PROVE  Cardinality({h \in hits : h[1] = p /\ h[2] = b
                                                /\ h[4] \in from .. from + Window - 1})
                        < 2 * budget[b[2]]
    BY DEF BurstBound
  <2>1. {h \in hits : h[1] = p /\ h[2] = b /\ h[4] \in from .. from + Window - 1}
        = During(Admitted(p, b), from)
    BY DEF During, Admitted
  <2>2. Bounded(Admitted(p, b), buckets[p][b], now, budget[b[2]]) /\ from \in Nat
    BY DEF BurstInv, Times
  <2> QED BY <2>1, <2>2 DEF Bounded
<1> QED BY <1>1, <1>2, <1>3, TypeCorrect, PTL DEF Spec
=============================================================================
