----------------------- MODULE NodeAttestationProofs -----------------------
(***************************************************************************)
(* Proofs about NodeAttestation for every set of calls and evidence.       *)
(*                                                                         *)
(* OneMintPerLapse is not inductive: a second mint is decided when its row *)
(* is inserted, and what stands in its way then is the row of the first,   *)
(* which may still be uncommitted, or the lapse.  LedgerInv says so of     *)
(* every call that has claimed its key, minted or not.                     *)
(***************************************************************************)
EXTENDS NodeAttestation, TLAPS

USE EvidenceAssumption, TimeAssumption

(* A call whose claim stands: it minted, or its transaction is open. *)
Claims(p) == InTransaction(p) \/ Minted(p)

ClaimsApart ==
    \A p, q \in Calls :
        (p # q /\ Claims(p) /\ Claims(q) /\ jti[p] = jti[q]) => Apart(p, q)

(* The claim is in the table, or on its way there, until it lapses. *)
ClaimsHeld ==
    \A p \in Calls :
        Claims(p) => p \in uses \/ Uncommitted(p) \/ lapse[p] <= now

(* A row was committed with a credential or by the making of a key. *)
RowsJustified == \A p \in uses : Minted(p) \/ early[p]

(* Only a call that has reached the tenant's key commits its row early. *)
EarlyIsKeyed == \A p \in Calls : early[p] => stage[p] \notin {"new", "verified", "claimed"}

(* What the row of evidence without a time bucket says, and how long one    *)
(* with an exp is remembered.                                               *)
RowsAsVerified ==
    \A p \in Calls :
        stage[p] \notin {"new", "denied"} =>
            /\ Kind[doc[p]] # "k8s_psat" => jti[p] = <<Name[doc[p]], 0>>
            /\ Kind[doc[p]] = "signed" => lapse[p] = Expiry[doc[p]]

LedgerInv ==
    /\ TypeOK
    /\ ClaimsApart
    /\ ClaimsHeld
    /\ RowsJustified
    /\ EarlyIsKeyed
    /\ RowsAsVerified

-----------------------------------------------------------------------------
LEMMA OneTimeKeyType ==
    ASSUME NEW e \in Evidence, NEW t \in Nat
    PROVE  /\ OneTimeKey(e, t) \in Keys
           /\ RememberedUntil(e, t) \in Nat
           /\ Kind[e] # "k8s_psat" => OneTimeKey(e, t) = <<Name[e], 0>>
           /\ Kind[e] = "signed" => RememberedUntil(e, t) = Expiry[e]
<1>1. t \div Window \in Nat
  OBVIOUS
<1>2. OneTimeKey(e, t) \in Keys
  BY <1>1 DEF OneTimeKey, Keys
<1>3. QED
  BY <1>2 DEF OneTimeKey, RememberedUntil, Kinds

LEMMA LedgerInit == Init => LedgerInv
BY DEF Init, LedgerInv, TypeOK, ClaimsApart, ClaimsHeld, RowsJustified,
       EarlyIsKeyed, RowsAsVerified, Claims, InTransaction, Minted, Times, Stages

LEMMA TypeStep == TypeOK /\ [Next]_vars => TypeOK'
<1> SUFFICES ASSUME TypeOK, [Next]_vars PROVE TypeOK'
  OBVIOUS
<1> USE DEF TypeOK, claims, Stages
<1>1. ASSUME NEW p \in Calls, Verify(p) PROVE TypeOK'
  <2>1. now \in Nat /\ doc[p] \in Evidence
    BY DEF Times
  <2>2. OneTimeKey(doc[p], now) \in Keys /\ RememberedUntil(doc[p], now) \in Nat
    BY <2>1, OneTimeKeyType
  <2>3. QED
    BY <1>1, <2>2 DEF Verify
<1>2. ASSUME NEW p \in Calls, Record(p) PROVE TypeOK'
  BY <1>2 DEF Record
<1>3. ASSUME NEW p \in Calls, Fail(p) PROVE TypeOK'
  BY <1>3 DEF Fail
<1>4. ASSUME NEW p \in Calls, ProvisionKey(p) PROVE TypeOK'
  BY <1>4 DEF ProvisionKey
<1>5. ASSUME NEW p \in Calls, Mint(p) PROVE TypeOK'
  BY <1>5 DEF Mint
<1>6. CASE Prune
  BY <1>6 DEF Prune
<1>7. CASE Tick
  BY <1>7 DEF Tick, Times
<1>8. CASE UNCHANGED vars
  BY <1>8 DEF vars
<1>9. QED
  BY <1>1, <1>2, <1>3, <1>4, <1>5, <1>6, <1>7, <1>8 DEF Next, Step

(* A step of one call that leaves its claim as it was, or drops it, changes *)
(* no other call and takes no row away, keeps the ledger in order.          *)
LEMMA QuietStep ==
    ASSUME LedgerInv, NEW p \in Calls,
           \A q \in Calls \ {p} : /\ stage'[q] = stage[q] /\ jti'[q] = jti[q]
                                  /\ lapse'[q] = lapse[q] /\ claimedAt'[q] = claimedAt[q]
                                  /\ early'[q] = early[q],
           Claims(p)' => /\ Claims(p) /\ jti'[p] = jti[p] /\ lapse'[p] = lapse[p]
                         /\ claimedAt'[p] = claimedAt[p]
                         /\ Uncommitted(p) => Uncommitted(p)' \/ p \in uses',
           uses \subseteq uses', now' = now
    PROVE  ClaimsApart' /\ ClaimsHeld'
<1>1. \A q \in Calls : Claims(q)' => /\ Claims(q) /\ jti'[q] = jti[q] /\ lapse'[q] = lapse[q]
                                     /\ claimedAt'[q] = claimedAt[q]
  BY DEF Claims, InTransaction, Minted
<1>2. \A q \in Calls : Claims(q)' /\ Uncommitted(q) => Uncommitted(q)' \/ q \in uses'
  BY DEF Uncommitted, InTransaction
<1>3. ClaimsApart'
  BY <1>1 DEF LedgerInv, ClaimsApart, Apart
<1>4. \A q \in Calls : Claims(q)' => q \in uses \/ Uncommitted(q) \/ lapse'[q] <= now'
  BY <1>1 DEF LedgerInv, ClaimsHeld
<1>5. ClaimsHeld'
  BY <1>2, <1>4 DEF ClaimsHeld
<1>6. QED
  BY <1>3, <1>5

LEMMA LedgerStep == LedgerInv /\ [Next]_vars => LedgerInv'
<1> SUFFICES ASSUME LedgerInv, [Next]_vars PROVE LedgerInv'
  OBVIOUS
<1>0. TypeOK /\ TypeOK'
  BY TypeStep DEF LedgerInv
<1> DEFINE Rest == ClaimsApart' /\ ClaimsHeld' /\ RowsJustified' /\ EarlyIsKeyed' /\ RowsAsVerified'
<1>1. ASSUME NEW p \in Calls, Verify(p) PROVE Rest
  <2>1. stage[p] = "new" /\ stage'[p] \in {"denied", "verified"}
    BY <1>0, <1>1 DEF Verify, TypeOK
  <2>2. \A q \in Calls \ {p} : stage'[q] = stage[q] /\ jti'[q] = jti[q] /\ lapse'[q] = lapse[q]
    BY <1>0, <1>1 DEF Verify, TypeOK
  <2>3. uses' = uses /\ now' = now /\ early' = early /\ claimedAt' = claimedAt /\ doc' = doc
    BY <1>1 DEF Verify, claims
  <2>4. ~Claims(p)'
    BY <2>1 DEF Claims, InTransaction, Minted
  <2>5. ClaimsApart' /\ ClaimsHeld'
    BY <2>2, <2>3, <2>4, QuietStep
  <2>6. RowsJustified' /\ EarlyIsKeyed'
    BY <1>0, <2>1, <2>2, <2>3 DEF TypeOK, LedgerInv, RowsJustified, EarlyIsKeyed, Minted
  <2>7. RowsAsVerified'
    <3>1. now \in Nat /\ doc[p] \in Evidence
      BY <1>0 DEF TypeOK, Times
    <3>2. stage'[p] # "denied" => /\ jti'[p] = OneTimeKey(doc[p], now)
                                  /\ lapse'[p] = RememberedUntil(doc[p], now)
      BY <1>0, <1>1 DEF Verify, TypeOK
    <3>3. /\ Kind[doc[p]] # "k8s_psat" => OneTimeKey(doc[p], now) = <<Name[doc[p]], 0>>
          /\ Kind[doc[p]] = "signed" => RememberedUntil(doc[p], now) = Expiry[doc[p]]
      BY <3>1, OneTimeKeyType
    <3>4. SUFFICES ASSUME NEW q \in Calls, stage'[q] \notin {"new", "denied"}
                   PROVE  /\ Kind[doc[q]] # "k8s_psat" => jti'[q] = <<Name[doc[q]], 0>>
                          /\ Kind[doc[q]] = "signed" => lapse'[q] = Expiry[doc[q]]
      BY <2>3 DEF RowsAsVerified
    <3>5. CASE q = p
      BY <3>2, <3>3, <3>4, <3>5
    <3>6. CASE q # p
      <4>1. /\ Kind[doc[q]] # "k8s_psat" => jti[q] = <<Name[doc[q]], 0>>
            /\ Kind[doc[q]] = "signed" => lapse[q] = Expiry[doc[q]]
        BY <2>2, <3>4, <3>6 DEF LedgerInv, RowsAsVerified
      <4>2. QED
        BY <2>2, <3>6, <4>1
    <3>7. QED
      BY <3>5, <3>6
  <2>8. QED
    BY <2>5, <2>6, <2>7
<1>2. ASSUME NEW p \in Calls, Record(p) PROVE Rest
  <2>1. uses' = uses /\ now' = now /\ early' = early /\ jti' = jti /\ lapse' = lapse /\ doc' = doc
    BY <1>2 DEF Record
  <2>2. \A q \in Calls \ {p} : stage'[q] = stage[q] /\ claimedAt'[q] = claimedAt[q]
    BY <1>0, <1>2 DEF Record, TypeOK
  <2>3. stage[p] = "verified" /\ stage'[p] \in {"denied", "claimed"}
    BY <1>0, <1>2 DEF Record, TypeOK
  <2>4. p \notin uses /\ ~early[p]
    BY <2>3 DEF LedgerInv, RowsJustified, EarlyIsKeyed, Minted
  <2>5. RowsJustified' /\ EarlyIsKeyed' /\ RowsAsVerified'
    BY <1>0, <2>1, <2>2, <2>3, <2>4
    DEF TypeOK, LedgerInv, RowsJustified, EarlyIsKeyed, RowsAsVerified, Minted
  <2>6. CASE \E q \in uses : jti[q] = jti[p]
    <3>1. stage'[p] = "denied"
      BY <1>0, <1>2, <2>6 DEF Record, TypeOK
    <3>2. ~Claims(p)'
      BY <3>1 DEF Claims, InTransaction, Minted
    <3>3. QED
      BY <2>1, <2>2, <2>5, <3>2, QuietStep
  <2>7. CASE \A q \in uses : jti[q] # jti[p]
    <3>1. stage'[p] = "claimed" /\ claimedAt'[p] = now
      BY <1>0, <1>2, <2>7 DEF Record, TypeOK
    <3>2. \A q \in Calls \ {p} : Claims(q) /\ jti[q] = jti[p] => lapse[q] <= now
      <4>1. \A q \in Calls \ {p} : Uncommitted(q) => jti[q] # jti[p]
        BY <1>2 DEF Record
      <4>2. QED
        BY <2>7, <4>1 DEF LedgerInv, ClaimsHeld
    <3>3. \A q \in Calls \ {p} : /\ Claims(q)' <=> Claims(q)
                                 /\ Uncommitted(q)' <=> Uncommitted(q)
      BY <2>1, <2>2 DEF Claims, InTransaction, Minted, Uncommitted
    <3>4. \A q \in Calls \ {p} : Claims(q)' /\ jti'[q] = jti'[p] => lapse'[q] <= claimedAt'[p]
      BY <2>1, <3>1, <3>2, <3>3
    <3>5. \A q, r \in Calls \ {p} :
              (q # r /\ Claims(q)' /\ Claims(r)' /\ jti'[q] = jti'[r]) => Apart(q, r)'
      BY <2>1, <2>2, <3>3 DEF LedgerInv, ClaimsApart, Apart
    <3>6. ClaimsApart'
      BY <3>4, <3>5 DEF ClaimsApart, Apart
    <3>7. Uncommitted(p)'
      BY <2>1, <2>4, <3>1 DEF Uncommitted, InTransaction
    <3>8. \A q \in Calls \ {p} : Claims(q)' => q \in uses' \/ Uncommitted(q)' \/ lapse'[q] <= now'
      BY <2>1, <3>3 DEF LedgerInv, ClaimsHeld
    <3>9. ClaimsHeld'
      BY <3>7, <3>8 DEF ClaimsHeld
    <3>10. QED
      BY <2>5, <3>6, <3>9
  <2>8. QED
    BY <2>6, <2>7
<1>3. ASSUME NEW p \in Calls, Fail(p) PROVE Rest
  <2>1. UNCHANGED <<uses, now, early, doc, jti, lapse, claimedAt>>
    BY <1>3 DEF Fail, claims
  <2>2. \A q \in Calls \ {p} : stage'[q] = stage[q]
    BY <1>0, <1>3 DEF Fail, TypeOK
  <2>3. stage[p] # "minted" /\ stage'[p] = "denied"
    BY <1>0, <1>3 DEF Fail, TypeOK
  <2>4. ClaimsApart' /\ ClaimsHeld'
    <3>1. ~Claims(p)'
      BY <2>3 DEF Claims, InTransaction, Minted
    <3>2. QED
      BY <2>1, <2>2, <3>1, QuietStep
  <2>5. RowsJustified' /\ EarlyIsKeyed' /\ RowsAsVerified'
    BY <1>0, <2>1, <2>2, <2>3
    DEF TypeOK, LedgerInv, RowsJustified, EarlyIsKeyed, RowsAsVerified, Minted
  <2>6. QED
    BY <2>4, <2>5
<1>4. ASSUME NEW p \in Calls, ProvisionKey(p) PROVE Rest
  <2>1. UNCHANGED <<now, doc, jti, lapse, claimedAt>>
    BY <1>4 DEF ProvisionKey, claims
  <2>2. \A q \in Calls \ {p} : stage'[q] = stage[q] /\ early'[q] = early[q]
    BY <1>0, <1>4 DEF ProvisionKey, TypeOK
  <2>3. stage[p] \in {"claimed", "keyed"} /\ stage'[p] = "keyed"
    BY <1>0, <1>4 DEF ProvisionKey, TypeOK
  <2>4. \/ uses' = uses /\ early' = early
        \/ uses' = uses \cup {p} /\ early'[p]
    BY <1>0, <1>4 DEF ProvisionKey, TypeOK
  <2>5. ClaimsApart' /\ ClaimsHeld'
    <3>1. Claims(p)
      BY <2>3 DEF Claims, InTransaction
    <3>2. Uncommitted(p) => Uncommitted(p)' \/ p \in uses'
      BY <2>3, <2>4 DEF Uncommitted, InTransaction
    <3>3. QED
      BY <2>1, <2>2, <2>4, <3>1, <3>2, QuietStep
  <2>6. RowsJustified' /\ EarlyIsKeyed' /\ RowsAsVerified'
    BY <1>0, <2>1, <2>2, <2>3, <2>4
    DEF LedgerInv, RowsJustified, EarlyIsKeyed, RowsAsVerified, Minted, TypeOK
  <2>7. QED
    BY <2>5, <2>6
<1>5. ASSUME NEW p \in Calls, Mint(p) PROVE Rest
  <2>1. UNCHANGED <<now, doc, jti, lapse, claimedAt, early>>
    BY <1>5 DEF Mint, claims
  <2>2. \A q \in Calls \ {p} : stage'[q] = stage[q]
    BY <1>0, <1>5 DEF Mint, TypeOK
  <2>3. stage[p] = "keyed" /\ stage'[p] = "minted"
    BY <1>0, <1>5 DEF Mint, TypeOK
  <2>4. uses' = IF early[p] THEN uses ELSE uses \cup {p}
    BY <1>5 DEF Mint
  <2>5. ClaimsApart' /\ ClaimsHeld'
    <3>1. Claims(p)
      BY <2>3 DEF Claims, InTransaction
    <3>2. Uncommitted(p) => p \in uses'
      BY <2>4 DEF Uncommitted
    <3>3. QED
      BY <2>1, <2>2, <2>4, <3>1, <3>2, QuietStep
  <2>6. RowsJustified' /\ EarlyIsKeyed' /\ RowsAsVerified'
    BY <1>0, <2>1, <2>2, <2>3, <2>4
    DEF TypeOK, LedgerInv, RowsJustified, EarlyIsKeyed, RowsAsVerified, Minted
  <2>7. QED
    BY <2>5, <2>6
<1>6. ASSUME Prune PROVE Rest
  <2>1. UNCHANGED <<now, stage, doc, jti, lapse, claimedAt, early>>
    BY <1>6 DEF Prune, claims
  <2>2. PICK cutoff \in Times : cutoff <= now /\ uses' = {p \in uses : lapse[p] > cutoff}
    BY <1>6 DEF Prune
  <2>3. \A p \in uses : p \in uses' \/ lapse[p] <= now
    BY <1>0, <2>2 DEF TypeOK, Times
  <2>4. ClaimsHeld'
    BY <2>1, <2>3 DEF LedgerInv, ClaimsHeld, Claims, InTransaction, Minted, Uncommitted
  <2>5. ClaimsApart' /\ RowsJustified' /\ EarlyIsKeyed' /\ RowsAsVerified'
    BY <2>1, <2>2 DEF LedgerInv, ClaimsApart, RowsJustified, EarlyIsKeyed, RowsAsVerified,
       Claims, InTransaction, Minted, Apart
  <2>6. QED
    BY <2>4, <2>5
<1>7. ASSUME Tick PROVE Rest
  <2>1. UNCHANGED <<uses, stage, doc, jti, lapse, claimedAt, early>> /\ now' = now + 1
    BY <1>7 DEF Tick, claims
  <2>2. \A p \in Calls : lapse[p] <= now => lapse[p] <= now'
    BY <1>0, <2>1 DEF TypeOK, Times
  <2>3. ClaimsHeld'
    BY <2>1, <2>2 DEF LedgerInv, ClaimsHeld, Claims, InTransaction, Minted, Uncommitted
  <2>4. ClaimsApart' /\ RowsJustified' /\ EarlyIsKeyed' /\ RowsAsVerified'
    BY <2>1 DEF LedgerInv, ClaimsApart, RowsJustified, EarlyIsKeyed, RowsAsVerified,
       Claims, InTransaction, Minted, Apart
  <2>5. QED
    BY <2>3, <2>4
<1>8. CASE UNCHANGED vars
  BY <1>0, <1>8 DEF vars, claims, LedgerInv, ClaimsApart, ClaimsHeld, RowsJustified,
     EarlyIsKeyed, RowsAsVerified, Claims, InTransaction, Minted, Uncommitted, Apart
<1>9. CASE Next
  BY <1>0, <1>1, <1>2, <1>3, <1>4, <1>5, <1>6, <1>7, <1>9 DEF Next, Step, LedgerInv
<1>10. QED
  BY <1>8, <1>9

-----------------------------------------------------------------------------
(* Every reachable state of the one-time ledger has its declared shape.     *)
THEOREM TypeCorrect == Spec => []TypeOK
<1>1. Init => TypeOK
  BY LedgerInit DEF LedgerInv
<1>2. QED
  BY <1>1, TypeStep, PTL DEF Spec

LEMMA LedgerInvariant == Spec => []LedgerInv
BY LedgerInit, LedgerStep, PTL DEF Spec

(* Two credentials for one one-time key are a lapse apart, for any number   *)
(* of concurrent calls, early commits, failures and prunings, and so are    *)
(* two for the same evidence, unless a bucket boundary lies between them.   *)
THEOREM OneTimeLedger == Spec => []OneMintPerLapse
<1>1. ASSUME LedgerInv PROVE OneMintPerLapse
  <2>1. SUFFICES ASSUME NEW p \in Calls, NEW q \in Calls, p # q, Minted(p), Minted(q)
                 PROVE  /\ jti[p] = jti[q] => Apart(p, q)
                        /\ doc[p] = doc[q] =>
                             Apart(p, q) \/ (Kind[doc[p]] = "k8s_psat" /\ jti[p] # jti[q])
    BY DEF OneMintPerLapse
  <2>2. jti[p] = jti[q] => Apart(p, q)
    BY <1>1, <2>1 DEF LedgerInv, ClaimsApart, Claims
  <2>3. doc[p] = doc[q] /\ Kind[doc[p]] # "k8s_psat" => jti[p] = jti[q]
    BY <1>1, <2>1 DEF LedgerInv, RowsAsVerified, Minted
  <2> QED BY <2>2, <2>3
<1>2. QED
  BY <1>1, LedgerInvariant, PTL

(* A document with an exp is good for one credential until it expires.      *)
THEOREM DocumentIsSpent == Spec => []SecondMintOnlyAfterExpiry
<1>1. ASSUME LedgerInv PROVE SecondMintOnlyAfterExpiry
  <2>1. SUFFICES ASSUME NEW p \in Calls, NEW q \in Calls, p # q, Minted(p), Minted(q),
                        doc[p] = doc[q], Kind[doc[p]] = "signed"
                 PROVE  claimedAt[p] >= Expiry[doc[p]] \/ claimedAt[q] >= Expiry[doc[p]]
    BY DEF SecondMintOnlyAfterExpiry
  <2>2. jti[p] = jti[q] /\ lapse[p] = Expiry[doc[p]] /\ lapse[q] = Expiry[doc[p]]
    BY <1>1, <2>1 DEF LedgerInv, RowsAsVerified, Minted, Kinds
  <2>3. Apart(p, q)
    BY <1>1, <2>1, <2>2 DEF LedgerInv, ClaimsApart, Claims
  <2>4. Expiry[doc[p]] \in Nat /\ claimedAt[p] \in Nat /\ claimedAt[q] \in Nat
    BY <1>1 DEF LedgerInv, TypeOK, Times
  <2>5. QED
    BY <2>2, <2>3, <2>4 DEF Apart
<1>2. QED
  BY <1>1, LedgerInvariant, PTL

(* A failed call burns its evidence only by having made the tenant's key.   *)
THEOREM FailureKeepsEvidence == Spec => []BurntOnlyByMintOrKey
<1>1. LedgerInv => BurntOnlyByMintOrKey
  BY DEF LedgerInv, RowsJustified, BurntOnlyByMintOrKey, Minted
<1>2. QED
  BY <1>1, LedgerInvariant, PTL

-----------------------------------------------------------------------------
(* The steps a call has before it at most. *)
StepsLeft(s, committed) ==
    IF s = "keyed" /\ committed THEN 1
    ELSE [new |-> 5, verified |-> 4, claimed |-> 3, keyed |-> 2, denied |-> 0, minted |-> 0][s]

(* Every step of a call, its failure included, brings it nearer to its end, *)
(* and neither another call, nor pruning, nor time sets it back or changes  *)
(* its outcome.  The calls one waits for in Record hold an open transaction *)
(* and wait for nobody, so with the fairness of Spec every call ends.       *)
Descends ==
    \A p \in Calls :
        /\ StepsLeft(stage'[p], early'[p]) <= StepsLeft(stage[p], early[p])
        /\ Step(p) => StepsLeft(stage'[p], early'[p]) < StepsLeft(stage[p], early[p])
        /\ stage[p] \in {"denied", "minted"} => stage'[p] = stage[p]

THEOREM EveryStepIsProgress == Spec => [][Descends]_vars
<1>1. LedgerInv /\ [Next]_vars => [Descends]_vars
  <2> SUFFICES ASSUME LedgerInv, Next, NEW p \in Calls
               PROVE  /\ StepsLeft(stage'[p], early'[p]) <= StepsLeft(stage[p], early[p])
                      /\ Step(p) => StepsLeft(stage'[p], early'[p]) < StepsLeft(stage[p], early[p])
                      /\ stage[p] \in {"denied", "minted"} => stage'[p] = stage[p]
    BY DEF Descends
  <2>0. /\ stage \in [Calls -> Stages] /\ early \in [Calls -> BOOLEAN]
        /\ early[p] => stage[p] \notin {"new", "verified", "claimed"}
    BY DEF LedgerInv, TypeOK, EarlyIsKeyed
  <2>1. CASE Step(p)
    <3> USE DEF StepsLeft, Stages, claims
    <3>1. CASE Verify(p) \/ Record(p)
      BY <2>0, <3>1 DEF Verify, Record
    <3>2. CASE ProvisionKey(p)
      BY <2>0, <3>2 DEF ProvisionKey
    <3>3. CASE Mint(p) \/ Fail(p)
      BY <2>0, <3>3 DEF Mint, Fail
    <3> QED BY <2>1, <3>1, <3>2, <3>3 DEF Step
  <2>2. ASSUME NEW q \in Calls, q # p, Step(q)
        PROVE  stage'[p] = stage[p] /\ early'[p] = early[p]
    BY <2>0, <2>2 DEF Step, Verify, Record, ProvisionKey, Mint, Fail
  <2>3. Prune \/ Tick => stage'[p] = stage[p] /\ early'[p] = early[p]
    BY DEF Prune, Tick
  <2>4. StepsLeft(stage[p], early[p]) \in Nat
    BY <2>0 DEF StepsLeft, Stages
  <2>5. CASE stage'[p] = stage[p] /\ early'[p] = early[p] /\ ~Step(p)
    BY <2>4, <2>5
  <2> QED BY <2>1, <2>2, <2>3, <2>5 DEF Next
<1> QED BY <1>1, LedgerInvariant, PTL DEF Spec
=============================================================================
