------------------------ MODULE AgentLifecycleProofs ------------------------
(***************************************************************************)
(* Proofs about AgentLifecycle for every set of requests and agents.       *)
(*                                                                         *)
(* A revoked status does not last: a validation that read the row while it *)
(* was active may write "expired" over it.  What lasts is that the agent   *)
(* is dead: never active again, not marked expired before its tokens are,  *)
(* and on the deny-list if it has a Biscuit.                               *)
(***************************************************************************)
EXTENDS AgentLifecycle, TLAPS

USE LifecycleAssumption

Dead == {"revoked", "expired", "pruned"}

(* A request that is under way names an agent that was issued. *)
TargetsIssued ==
    \A p \in Requests :
        pc[p] # "idle" => target[p] \in Agents /\ status[target[p]] # "none"

(* A validation that found its token expired still does. *)
LapsedForGood ==
    \A p \in Requests : pc[p] \in {"lapsed", "expiring"} => ~JwtValid(target[p])

(* Nothing but expiry marks an agent expired. *)
ExpiredIsExpired ==
    \A a \in Agents : status[a] \in {"expired", "pruned"} => ~JwtValid(a)

(* What a revoke saw, and what it will insert, remains right enough. *)
RevokeKnows ==
    \A p \in Requests :
        /\ pc[p] \in {"ids", "write"} /\ seen[p] = "revoked" => status[target[p]] \in Dead
        /\ pc[p] = "write" /\ target[p] \in WithBiscuit => target[p] \in missing[p] \cup denied

AckedIsDead ==
    \A a \in acked :
        /\ status[a] \in Dead
        /\ a \in WithBiscuit => a \in denied

LateIsAcked == \A p \in Requests : late[p] => target[p] \in acked

(* A late validation that found the token valid still sees the revocation:  *)
(* whoever is about to overwrite it read the row after that.                *)
LateSeesRevoked ==
    \A p \in Requests :
        pc[p] = "jwt" /\ late[p] =>
            /\ status[target[p]] = "revoked"
            /\ \A q \in Requests : pc[q] = "expiring" => target[q] # target[p]

(* A late authorization does not get past the deny-list. *)
LateIsDenied ==
    \A p \in Requests :
        /\ pc[p] = "denylist" => target[p] \in WithBiscuit
        /\ pc[p] \in {"agent", "authorizer", "accepted"} => ~late[p]

LifecycleInv ==
    /\ TypeOK
    /\ TargetsIssued
    /\ LapsedForGood
    /\ ExpiredIsExpired
    /\ RevokeKnows
    /\ AckedIsDead
    /\ LateIsAcked
    /\ LateSeesRevoked
    /\ LateIsDenied

-----------------------------------------------------------------------------
LEMMA LifecycleInit == Init => LifecycleInv
BY DEF Init, LifecycleInv, TypeOK, Times, Status, Stages, InTable, JwtValid, Dead,
       TargetsIssued, LapsedForGood, ExpiredIsExpired, RevokeKnows, AckedIsDead, LateIsAcked, LateSeesRevoked, LateIsDenied

LEMMA LifecycleStep == LifecycleInv /\ [Next]_vars => LifecycleInv'
<1> SUFFICES ASSUME LifecycleInv, [Next]_vars PROVE LifecycleInv'
  OBVIOUS
<1> USE DEF LifecycleInv
<1>1. ASSUME NEW p \in Requests, NEW a \in Agents, Validate(p, a) PROVE LifecycleInv'
  <2>1. TypeOK'
    BY <1>1 DEF Validate, Begin, Goto, tables, TypeOK, Stages
  <2>2. TargetsIssued'
    BY <1>1 DEF Validate, Begin, Goto, tables, TypeOK, TargetsIssued
  <2>3. LapsedForGood'
    BY <1>1 DEF Validate, Begin, Goto, tables, TypeOK, LapsedForGood, JwtValid
  <2>4. ExpiredIsExpired' /\ AckedIsDead'
    BY <1>1 DEF Validate, Begin, Goto, tables, TypeOK, ExpiredIsExpired,
       AckedIsDead, JwtValid
  <2>5. RevokeKnows'
    BY <1>1 DEF Validate, Begin, Goto, tables, TypeOK, RevokeKnows
  <2>6. LateIsAcked'
    BY <1>1 DEF Validate, Begin, Goto, tables, TypeOK, LateIsAcked
  <2>7. LateSeesRevoked'
    BY <1>1 DEF Validate, Begin, Goto, tables, TypeOK, LateSeesRevoked,
       AckedIsDead, ExpiredIsExpired, LapsedForGood, JwtValid, Dead
  <2>8. LateIsDenied'
    BY <1>1 DEF Validate, Begin, Goto, tables, TypeOK, LateIsDenied
  <2>9. QED
    BY <2>1, <2>2, <2>3, <2>4, <2>5, <2>6, <2>7, <2>8
<1>2. ASSUME NEW p \in Requests, ValidateAgent(p) PROVE LifecycleInv'
  <2>1. TypeOK'
    BY <1>2 DEF ValidateAgent, Goto, tables, locals, InTable, TypeOK, Stages
  <2>2. TargetsIssued'
    BY <1>2 DEF ValidateAgent, Goto, tables, locals, InTable, TypeOK,
       TargetsIssued
  <2>3. LapsedForGood'
    BY <1>2 DEF ValidateAgent, Goto, tables, locals, InTable, TypeOK,
       LapsedForGood, JwtValid
  <2>4. ExpiredIsExpired' /\ AckedIsDead'
    BY <1>2 DEF ValidateAgent, Goto, tables, locals, InTable, TypeOK,
       ExpiredIsExpired, AckedIsDead, JwtValid
  <2>5. RevokeKnows'
    BY <1>2 DEF ValidateAgent, Goto, tables, locals, InTable, TypeOK,
       RevokeKnows
  <2>6. LateIsAcked'
    BY <1>2 DEF ValidateAgent, Goto, tables, locals, InTable, TypeOK,
       LateIsAcked
  <2>7. LateSeesRevoked'
    BY <1>2 DEF ValidateAgent, Goto, tables, locals, InTable, TypeOK,
       LateSeesRevoked
  <2>8. LateIsDenied'
    BY <1>2 DEF ValidateAgent, Goto, tables, locals, InTable, TypeOK,
       LateIsDenied, LateSeesRevoked
  <2>9. QED
    BY <2>1, <2>2, <2>3, <2>4, <2>5, <2>6, <2>7, <2>8
<1>3. ASSUME NEW p \in Requests, ReadLapsed(p) PROVE LifecycleInv'
  <2>1. TypeOK'
    BY <1>3 DEF ReadLapsed, Goto, tables, locals, TypeOK, Stages
  <2>2. TargetsIssued'
    BY <1>3 DEF ReadLapsed, Goto, tables, locals, TypeOK, TargetsIssued
  <2>3. LapsedForGood'
    BY <1>3 DEF ReadLapsed, Goto, tables, locals, TypeOK, LapsedForGood,
       JwtValid
  <2>4. ExpiredIsExpired' /\ AckedIsDead'
    BY <1>3 DEF ReadLapsed, Goto, tables, locals, TypeOK, ExpiredIsExpired,
       AckedIsDead, JwtValid
  <2>5. RevokeKnows'
    BY <1>3 DEF ReadLapsed, Goto, tables, locals, TypeOK, RevokeKnows
  <2>6. LateIsAcked'
    BY <1>3 DEF ReadLapsed, Goto, tables, locals, TypeOK, LateIsAcked
  <2>7. LateSeesRevoked'
    BY <1>3 DEF ReadLapsed, Goto, tables, locals, TypeOK, LateSeesRevoked
  <2>8. LateIsDenied'
    BY <1>3 DEF ReadLapsed, Goto, tables, locals, TypeOK, LateIsDenied
  <2>9. QED
    BY <2>1, <2>2, <2>3, <2>4, <2>5, <2>6, <2>7, <2>8
<1>4. ASSUME NEW p \in Requests, MarkExpired(p) PROVE LifecycleInv'
  <2>1. TypeOK'
    BY <1>4 DEF MarkExpired, Goto, InTable, locals, TypeOK, Stages, Status
  <2>2. TargetsIssued'
    BY <1>4 DEF MarkExpired, Goto, InTable, locals, TypeOK, TargetsIssued
  <2>3. LapsedForGood'
    BY <1>4 DEF MarkExpired, Goto, InTable, locals, TypeOK, LapsedForGood,
       JwtValid
  <2>4. ExpiredIsExpired'
    BY <1>4 DEF MarkExpired, Goto, InTable, locals, TypeOK, ExpiredIsExpired,
       JwtValid, LapsedForGood, TargetsIssued
  <2>5. RevokeKnows'
    BY <1>4 DEF MarkExpired, Goto, InTable, locals, TypeOK, RevokeKnows, Dead,
       TargetsIssued
  <2>6. AckedIsDead'
    BY <1>4 DEF MarkExpired, Goto, InTable, locals, TypeOK, AckedIsDead, Dead
  <2>7. LateIsAcked'
    BY <1>4 DEF MarkExpired, Goto, InTable, locals, TypeOK, LateIsAcked
  <2>8. LateSeesRevoked'
    BY <1>4 DEF MarkExpired, Goto, InTable, locals, TypeOK, LateSeesRevoked
  <2>9. LateIsDenied'
    BY <1>4 DEF MarkExpired, Goto, InTable, locals, TypeOK, LateIsDenied
  <2>10. QED
    BY <2>1, <2>2, <2>3, <2>4, <2>5, <2>6, <2>7, <2>8, <2>9
<1>5. ASSUME NEW p \in Requests, NEW a \in Agents, Authorize(p, a) PROVE LifecycleInv'
  <2>1. TypeOK'
    BY <1>5 DEF Authorize, Begin, Goto, tables, TypeOK, Stages
  <2>2. TargetsIssued'
    BY <1>5 DEF Authorize, Begin, Goto, tables, TypeOK, TargetsIssued
  <2>3. LapsedForGood'
    BY <1>5 DEF Authorize, Begin, Goto, tables, TypeOK, LapsedForGood,
       JwtValid
  <2>4. ExpiredIsExpired' /\ AckedIsDead'
    BY <1>5 DEF Authorize, Begin, Goto, tables, TypeOK, ExpiredIsExpired,
       AckedIsDead, JwtValid
  <2>5. RevokeKnows'
    BY <1>5 DEF Authorize, Begin, Goto, tables, TypeOK, RevokeKnows
  <2>6. LateIsAcked'
    BY <1>5 DEF Authorize, Begin, Goto, tables, TypeOK, LateIsAcked
  <2>7. LateSeesRevoked'
    BY <1>5 DEF Authorize, Begin, Goto, tables, TypeOK, LateSeesRevoked
  <2>8. LateIsDenied'
    BY <1>5 DEF Authorize, Begin, Goto, tables, TypeOK, LateIsDenied
  <2>9. QED
    BY <2>1, <2>2, <2>3, <2>4, <2>5, <2>6, <2>7, <2>8
<1>6. ASSUME NEW p \in Requests, CheckDenyList(p) PROVE LifecycleInv'
  <2>1. TypeOK'
    BY <1>6 DEF CheckDenyList, Goto, tables, locals, TypeOK, Stages
  <2>2. TargetsIssued'
    BY <1>6 DEF CheckDenyList, Goto, tables, locals, TypeOK, TargetsIssued
  <2>3. LapsedForGood'
    BY <1>6 DEF CheckDenyList, Goto, tables, locals, TypeOK, LapsedForGood,
       JwtValid
  <2>4. ExpiredIsExpired' /\ AckedIsDead'
    BY <1>6 DEF CheckDenyList, Goto, tables, locals, TypeOK, ExpiredIsExpired,
       AckedIsDead, JwtValid
  <2>5. RevokeKnows'
    BY <1>6 DEF CheckDenyList, Goto, tables, locals, TypeOK, RevokeKnows
  <2>6. LateIsAcked'
    BY <1>6 DEF CheckDenyList, Goto, tables, locals, TypeOK, LateIsAcked
  <2>7. LateSeesRevoked'
    BY <1>6 DEF CheckDenyList, Goto, tables, locals, TypeOK, LateSeesRevoked
  <2>8. LateIsDenied'
    BY <1>6 DEF CheckDenyList, Goto, tables, locals, TypeOK, LateIsDenied,
       AckedIsDead, LateIsAcked
  <2>9. QED
    BY <2>1, <2>2, <2>3, <2>4, <2>5, <2>6, <2>7, <2>8
<1>7. ASSUME NEW p \in Requests, CheckAgent(p) PROVE LifecycleInv'
  <2>1. TypeOK'
    BY <1>7 DEF CheckAgent, Goto, tables, locals, TypeOK, Stages
  <2>2. TargetsIssued'
    BY <1>7 DEF CheckAgent, Goto, tables, locals, TypeOK, TargetsIssued
  <2>3. LapsedForGood'
    BY <1>7 DEF CheckAgent, Goto, tables, locals, TypeOK, LapsedForGood,
       JwtValid
  <2>4. ExpiredIsExpired' /\ AckedIsDead'
    BY <1>7 DEF CheckAgent, Goto, tables, locals, TypeOK, ExpiredIsExpired,
       AckedIsDead, JwtValid
  <2>5. RevokeKnows'
    BY <1>7 DEF CheckAgent, Goto, tables, locals, TypeOK, RevokeKnows
  <2>6. LateIsAcked'
    BY <1>7 DEF CheckAgent, Goto, tables, locals, TypeOK, LateIsAcked
  <2>7. LateSeesRevoked'
    BY <1>7 DEF CheckAgent, Goto, tables, locals, TypeOK, LateSeesRevoked
  <2>8. LateIsDenied'
    BY <1>7 DEF CheckAgent, Goto, tables, locals, TypeOK, LateIsDenied
  <2>9. QED
    BY <2>1, <2>2, <2>3, <2>4, <2>5, <2>6, <2>7, <2>8
<1>8. ASSUME NEW p \in Requests, RunAuthorizer(p) PROVE LifecycleInv'
  <2>1. TypeOK'
    BY <1>8 DEF RunAuthorizer, Goto, tables, locals, TypeOK, Stages
  <2>2. TargetsIssued'
    BY <1>8 DEF RunAuthorizer, Goto, tables, locals, TypeOK, TargetsIssued
  <2>3. LapsedForGood'
    BY <1>8 DEF RunAuthorizer, Goto, tables, locals, TypeOK, LapsedForGood,
       JwtValid
  <2>4. ExpiredIsExpired' /\ AckedIsDead'
    BY <1>8 DEF RunAuthorizer, Goto, tables, locals, TypeOK, ExpiredIsExpired,
       AckedIsDead, JwtValid
  <2>5. RevokeKnows'
    BY <1>8 DEF RunAuthorizer, Goto, tables, locals, TypeOK, RevokeKnows
  <2>6. LateIsAcked'
    BY <1>8 DEF RunAuthorizer, Goto, tables, locals, TypeOK, LateIsAcked
  <2>7. LateSeesRevoked'
    BY <1>8 DEF RunAuthorizer, Goto, tables, locals, TypeOK, LateSeesRevoked
  <2>8. LateIsDenied'
    BY <1>8 DEF RunAuthorizer, Goto, tables, locals, TypeOK, LateIsDenied
  <2>9. QED
    BY <2>1, <2>2, <2>3, <2>4, <2>5, <2>6, <2>7, <2>8
<1>9. ASSUME NEW p \in Requests, NEW a \in Agents, Revoke(p, a) PROVE LifecycleInv'
  <2>1. TypeOK'
    BY <1>9 DEF Revoke, Begin, Goto, tables, TypeOK, Stages
  <2>2. TargetsIssued'
    BY <1>9 DEF Revoke, Begin, Goto, tables, TypeOK, TargetsIssued
  <2>3. LapsedForGood'
    BY <1>9 DEF Revoke, Begin, Goto, tables, TypeOK, LapsedForGood, JwtValid
  <2>4. ExpiredIsExpired' /\ AckedIsDead'
    BY <1>9 DEF Revoke, Begin, Goto, tables, TypeOK, ExpiredIsExpired,
       AckedIsDead, JwtValid
  <2>5. RevokeKnows'
    BY <1>9 DEF Revoke, Begin, Goto, tables, TypeOK, RevokeKnows
  <2>6. LateIsAcked'
    BY <1>9 DEF Revoke, Begin, Goto, tables, TypeOK, LateIsAcked
  <2>7. LateSeesRevoked'
    BY <1>9 DEF Revoke, Begin, Goto, tables, TypeOK, LateSeesRevoked
  <2>8. LateIsDenied'
    BY <1>9 DEF Revoke, Begin, Goto, tables, TypeOK, LateIsDenied
  <2>9. QED
    BY <2>1, <2>2, <2>3, <2>4, <2>5, <2>6, <2>7, <2>8
<1>10. ASSUME NEW p \in Requests, ReadRow(p) PROVE LifecycleInv'
  <2>1. TypeOK'
    BY <1>10 DEF ReadRow, Goto, tables, InTable, TypeOK, Stages, Status,
       TargetsIssued
  <2>2. TargetsIssued'
    BY <1>10 DEF ReadRow, Goto, tables, InTable, TypeOK, TargetsIssued
  <2>3. LapsedForGood'
    BY <1>10 DEF ReadRow, Goto, tables, InTable, TypeOK, LapsedForGood,
       JwtValid
  <2>4. ExpiredIsExpired' /\ AckedIsDead'
    BY <1>10 DEF ReadRow, Goto, tables, InTable, TypeOK, ExpiredIsExpired,
       AckedIsDead, JwtValid
  <2>5. RevokeKnows'
    BY <1>10 DEF ReadRow, Goto, tables, InTable, TypeOK, RevokeKnows, Dead
  <2>6. LateIsAcked'
    BY <1>10 DEF ReadRow, Goto, tables, InTable, TypeOK, LateIsAcked
  <2>7. LateSeesRevoked'
    BY <1>10 DEF ReadRow, Goto, tables, InTable, TypeOK, LateSeesRevoked
  <2>8. LateIsDenied'
    BY <1>10 DEF ReadRow, Goto, tables, InTable, TypeOK, LateIsDenied
  <2>9. QED
    BY <2>1, <2>2, <2>3, <2>4, <2>5, <2>6, <2>7, <2>8
<1>11. ASSUME NEW p \in Requests, ReadIds(p) PROVE LifecycleInv'
  <2>1. TypeOK'
    BY <1>11 DEF ReadIds, Goto, tables, TypeOK, Stages, Status
  <2>2. TargetsIssued'
    BY <1>11 DEF ReadIds, Goto, tables, TypeOK, TargetsIssued
  <2>3. LapsedForGood'
    BY <1>11 DEF ReadIds, Goto, tables, TypeOK, LapsedForGood, JwtValid
  <2>4. ExpiredIsExpired' /\ AckedIsDead'
    BY <1>11 DEF ReadIds, Goto, tables, TypeOK, ExpiredIsExpired, AckedIsDead,
       JwtValid
  <2>5. RevokeKnows'
    BY <1>11 DEF ReadIds, Goto, tables, TypeOK, RevokeKnows
  <2>6. LateIsAcked'
    BY <1>11 DEF ReadIds, Goto, tables, TypeOK, LateIsAcked
  <2>7. LateSeesRevoked'
    BY <1>11 DEF ReadIds, Goto, tables, TypeOK, LateSeesRevoked
  <2>8. LateIsDenied'
    BY <1>11 DEF ReadIds, Goto, tables, TypeOK, LateIsDenied
  <2>9. QED
    BY <2>1, <2>2, <2>3, <2>4, <2>5, <2>6, <2>7, <2>8
<1>12. ASSUME NEW p \in Requests, WriteRevocation(p) PROVE LifecycleInv'
  <2>1. TypeOK'
    BY <1>12 DEF WriteRevocation, Goto, InTable, locals, TypeOK, Stages,
       Status, TargetsIssued
  <2>2. TargetsIssued'
    BY <1>12 DEF WriteRevocation, Goto, InTable, locals, TypeOK, TargetsIssued
  <2>3. LapsedForGood'
    BY <1>12 DEF WriteRevocation, Goto, InTable, locals, TypeOK,
       LapsedForGood, JwtValid
  <2>4. ExpiredIsExpired'
    BY <1>12 DEF WriteRevocation, Goto, InTable, locals, TypeOK,
       ExpiredIsExpired, JwtValid, RevokeKnows, Dead, TargetsIssued
  <2>5. RevokeKnows'
    BY <1>12 DEF WriteRevocation, Goto, InTable, locals, TypeOK, RevokeKnows,
       Dead, TargetsIssued
  <2>6. AckedIsDead'
    BY <1>12 DEF WriteRevocation, Goto, InTable, locals, TypeOK, AckedIsDead,
       Dead, RevokeKnows, TargetsIssued
  <2>7. LateIsAcked'
    BY <1>12 DEF WriteRevocation, Goto, InTable, locals, TypeOK, LateIsAcked
  <2>8. LateSeesRevoked'
    BY <1>12 DEF WriteRevocation, Goto, InTable, locals, TypeOK,
       LateSeesRevoked, TargetsIssued
  <2>9. LateIsDenied'
    BY <1>12 DEF WriteRevocation, Goto, InTable, locals, TypeOK, LateIsDenied
  <2>10. QED
    BY <2>1, <2>2, <2>3, <2>4, <2>5, <2>6, <2>7, <2>8, <2>9
<1>13. ASSUME NEW p \in Requests, End(p) PROVE LifecycleInv'
  <2>1. TypeOK'
    BY <1>13 DEF End, Goto, tables, TypeOK, Stages, Status
  <2>2. TargetsIssued'
    BY <1>13 DEF End, Goto, tables, TypeOK, TargetsIssued
  <2>3. LapsedForGood'
    BY <1>13 DEF End, Goto, tables, TypeOK, LapsedForGood, JwtValid
  <2>4. ExpiredIsExpired' /\ AckedIsDead'
    BY <1>13 DEF End, Goto, tables, TypeOK, ExpiredIsExpired, AckedIsDead,
       JwtValid
  <2>5. RevokeKnows'
    BY <1>13 DEF End, Goto, tables, TypeOK, RevokeKnows
  <2>6. LateIsAcked'
    BY <1>13 DEF End, Goto, tables, TypeOK, LateIsAcked
  <2>7. LateSeesRevoked'
    BY <1>13 DEF End, Goto, tables, TypeOK, LateSeesRevoked
  <2>8. LateIsDenied'
    BY <1>13 DEF End, Goto, tables, TypeOK, LateIsDenied
  <2>9. QED
    BY <2>1, <2>2, <2>3, <2>4, <2>5, <2>6, <2>7, <2>8
<1>14. ASSUME NEW a \in Agents, Issue(a) PROVE LifecycleInv'
  <2>1. TypeOK'
    BY <1>14 DEF Issue, locals, TypeOK, Status, Times
  <2>2. TargetsIssued'
    BY <1>14 DEF Issue, locals, TypeOK, TargetsIssued
  <2>3. LapsedForGood'
    BY <1>14 DEF Issue, locals, TypeOK, LapsedForGood, JwtValid, TargetsIssued
  <2>4. ExpiredIsExpired'
    BY <1>14 DEF Issue, locals, TypeOK, ExpiredIsExpired, JwtValid
  <2>5. RevokeKnows'
    BY <1>14 DEF Issue, locals, TypeOK, RevokeKnows, Dead
  <2>6. AckedIsDead'
    BY <1>14 DEF Issue, locals, TypeOK, AckedIsDead, Dead
  <2>7. LateIsAcked'
    BY <1>14 DEF Issue, locals, TypeOK, LateIsAcked
  <2>8. LateSeesRevoked'
    BY <1>14 DEF Issue, locals, TypeOK, LateSeesRevoked, TargetsIssued
  <2>9. LateIsDenied'
    BY <1>14 DEF Issue, locals, TypeOK, LateIsDenied
  <2>10. QED
    BY <2>1, <2>2, <2>3, <2>4, <2>5, <2>6, <2>7, <2>8, <2>9
<1>15. ASSUME Prune PROVE LifecycleInv'
  <2>1. TypeOK'
    BY <1>15 DEF Prune, Prunable, locals, TypeOK, Status
  <2>2. TargetsIssued'
    BY <1>15 DEF Prune, Prunable, locals, TypeOK, TargetsIssued
  <2>3. LapsedForGood'
    BY <1>15 DEF Prune, Prunable, locals, TypeOK, LapsedForGood, JwtValid
  <2>4. ExpiredIsExpired'
    BY <1>15 DEF Prune, Prunable, locals, TypeOK, ExpiredIsExpired, JwtValid
  <2>5. RevokeKnows'
    BY <1>15 DEF Prune, Prunable, locals, TypeOK, RevokeKnows, Dead,
       TargetsIssued
  <2>6. AckedIsDead'
    BY <1>15 DEF Prune, Prunable, locals, TypeOK, AckedIsDead, Dead
  <2>7. LateIsAcked'
    BY <1>15 DEF Prune, Prunable, locals, TypeOK, LateIsAcked
  <2>8. LateSeesRevoked'
    BY <1>15 DEF Prune, Prunable, locals, TypeOK, LateSeesRevoked,
       TargetsIssued
  <2>9. LateIsDenied'
    BY <1>15 DEF Prune, Prunable, locals, TypeOK, LateIsDenied
  <2>10. QED
    BY <2>1, <2>2, <2>3, <2>4, <2>5, <2>6, <2>7, <2>8, <2>9
<1>16. ASSUME Tick PROVE LifecycleInv'
  <2>1. TypeOK'
    BY <1>16 DEF Tick, tables, locals, TypeOK, Times
  <2>2. LapsedForGood' /\ ExpiredIsExpired'
    BY <1>16 DEF Tick, tables, locals, TypeOK, LapsedForGood,
       ExpiredIsExpired, JwtValid, TargetsIssued, Times
  <2>3. TargetsIssued' /\ RevokeKnows' /\ AckedIsDead' /\ LateIsAcked' /\ LateSeesRevoked' /\ LateIsDenied'
    BY <1>16 DEF Tick, tables, locals, TypeOK, TargetsIssued, RevokeKnows,
       AckedIsDead, LateIsAcked, LateSeesRevoked, LateIsDenied
  <2>4. QED
    BY <2>1, <2>2, <2>3
<1>17. CASE UNCHANGED vars
  BY <1>17 DEF vars, tables, locals, TypeOK, JwtValid, TargetsIssued,
     LapsedForGood, ExpiredIsExpired, RevokeKnows, AckedIsDead, LateIsAcked,
     LateSeesRevoked, LateIsDenied
<1>18. QED
  BY <1>1, <1>2, <1>3, <1>4, <1>5, <1>6, <1>7, <1>8, <1>9, <1>10, <1>11, <1>12, <1>13, <1>14, <1>15, <1>16, <1>17 DEF Next, Step

-----------------------------------------------------------------------------
LEMMA LifecycleInvariant == Spec => []LifecycleInv
BY LifecycleInit, LifecycleStep, PTL DEF Spec

(* Type correctness, with what the database's columns may hold. *)
THEOREM TypeCorrect == Spec => []TypeOK
<1>1. LifecycleInv => TypeOK
  BY DEF LifecycleInv
<1>2. QED
  BY <1>1, LifecycleInvariant, PTL

(* However the statements of revoke_agent, validate_token,                   *)
(* verify_capability and prune_expired interleave, a validation or           *)
(* authorization that begins after a revocation was acknowledged never       *)
(* accepts the credential.                                                   *)
THEOREM RevocationHolds == Spec => []RevokedStaysDead
<1>1. LifecycleInv => RevokedStaysDead
  BY DEF LifecycleInv, LateIsDenied, RevokedStaysDead
<1>2. QED
  BY <1>1, LifecycleInvariant, PTL

(* The row of an agent whose revocation was acknowledged says so as long as  *)
(* the credential has not expired: only a validation that found it expired   *)
(* writes another status over it.                                            *)
THEOREM RevocationShows == Spec => []RevokedShowsUntilExpiry
<1>1. LifecycleInv => RevokedShowsUntilExpiry
  BY DEF LifecycleInv, TypeOK, AckedIsDead, ExpiredIsExpired, Dead, RevokedShowsUntilExpiry
<1>2. QED
  BY <1>1, LifecycleInvariant, PTL

(* prune_expired deletes, and validate_token marks expired, no agent whose   *)
(* credential can still be validated.                                        *)
THEOREM ValidIsNeverPruned == Spec => []ValidIsKept
<1>1. LifecycleInv => ValidIsKept
  BY DEF LifecycleInv, ExpiredIsExpired, ValidIsKept
<1>2. QED
  BY <1>1, LifecycleInvariant, PTL
=============================================================================
