-------------------------- MODULE X509BundleProofs --------------------------
(***************************************************************************)
(* Proofs about X509Bundle for any number of requests, CAs and leaves and  *)
(* all durations that satisfy the assumptions.                             *)
(*                                                                         *)
(* Whether a leaf outlives its CA in the bundle is decided when the CA is  *)
(* read and when its retirement is stamped, both before the steps that     *)
(* sign the leaf and commit the retirement.  BundleInv bounds, for every   *)
(* pair of these, how far apart they can be.                               *)
(***************************************************************************)
EXTENDS X509Bundle, TLAPS

USE BundleAssumption, SlackAssumption

SignersHold == \A p \in Requests : pc[p] = "sign" => held[p] \in Cas

(* A request that holds a CA read it in time, and not long after the stamp   *)
(* of a retirement that was committed since.                                 *)
HoldersInTime ==
    \A p \in Requests :
        held[p] # NoCa =>
            /\ readAt[p] <= now
            /\ now <= readAt[p] + ReadToSign
            /\ status[held[p]] # "unborn"
            /\ status[held[p]] = "retired" =>
                   readAt[p] <= retiredAt[held[p]] + StampToCommit

RetirersMarked == \A p \in Requests : pc[p] = "retire" => marked[p] \in Cas

MarksInTime ==
    \A p \in Requests :
        marked[p] # NoCa =>
            /\ now <= stamp[p] + StampToCommit
            /\ status[marked[p]] # "unborn"

LeavesInTime ==
    \A l \in leaves :
        /\ l.signed <= now
        /\ status[l.ca] # "unborn"
        /\ status[l.ca] = "retired" =>
               l.signed <= retiredAt[l.ca] + StampToCommit + ReadToSign

BundleInv ==
    /\ TypeOK
    /\ SignersHold
    /\ RetirersMarked
    /\ HoldersInTime
    /\ MarksInTime
    /\ LeavesInTime

-----------------------------------------------------------------------------
LEMMA LeafTtlsType == LeafTtls \subseteq Nat \ {0}
<1>1. \A t \in MinTtl..MaxTtl : t \in Nat \ {0} /\ t % Day \in Nat
  OBVIOUS
<1>2. QED
  BY <1>1 DEF LeafTtls

LEMMA BundleInit == Init => BundleInv
<1> SUFFICES ASSUME Init PROVE BundleInv
  OBVIOUS
<1>1. TypeOK
  <2>1. now \in Times /\ retiredAt \in [Cas -> Times] /\ status \in [Cas -> Status]
    BY DEF Init, Times, Status
  <2>2. /\ pc \in [Requests -> Stage] /\ held \in [Requests -> Cas \cup {NoCa}]
        /\ readAt \in [Requests -> Times] /\ stamp \in [Requests -> Times]
        /\ marked \in [Requests -> Cas \cup {NoCa}]
    BY DEF Init, Times, Stage
  <2>3. leaves \subseteq Leaf /\ interrupted \in BOOLEAN
    BY DEF Init
  <2>4. QED
    BY <2>1, <2>2, <2>3 DEF TypeOK
<1>2. SignersHold /\ RetirersMarked /\ HoldersInTime /\ MarksInTime /\ LeavesInTime
  BY DEF Init, SignersHold, RetirersMarked, HoldersInTime, MarksInTime, LeavesInTime
<1>3. QED
  BY <1>1, <1>2 DEF BundleInv

LEMMA BundleStep == BundleInv /\ [Next]_vars => BundleInv'
<1> SUFFICES ASSUME BundleInv, [Next]_vars PROVE BundleInv'
  OBVIOUS
<1> USE DEF BundleInv, NoCa
<1>0. NoCa \notin Cas /\ now \in Nat /\ (\A c \in Cas : c \in Nat)
  BY DEF Cas, TypeOK, Times
<1>1. ASSUME NEW p \in Requests, IssueSelect(p) PROVE BundleInv'
  <2>1. TypeOK'
    BY <1>1 DEF IssueSelect, Goto, table, Active, TypeOK, Stage, Status, Times
  <2>2. SignersHold' /\ RetirersMarked'
    BY <1>0, <1>1 DEF IssueSelect, Goto, table, Active, TypeOK, SignersHold, RetirersMarked
  <2>3. HoldersInTime'
    BY <1>0, <1>1 DEF IssueSelect, Goto, table, Active, TypeOK, Times, HoldersInTime, MarksInTime, RetirersMarked
  <2>4. MarksInTime'
    BY <1>0, <1>1 DEF IssueSelect, Goto, table, Active, TypeOK, Times, MarksInTime, RetirersMarked
  <2>5. LeavesInTime'
    BY <1>0, <1>1 DEF IssueSelect, Goto, table, Active, TypeOK, Times, Leaf, LeavesInTime, MarksInTime, RetirersMarked
  <2>6. QED
    BY <2>1, <2>2, <2>3, <2>4, <2>5
<1>2. ASSUME NEW p \in Requests, IssueCreate(p) PROVE BundleInv'
  <2>1. TypeOK'
    <3>1. status' \in [Cas -> Status] /\ interrupted' \in BOOLEAN
      BY <1>2 DEF IssueCreate, Insert, TypeOK, Status
    <3>2. held' \in [Requests -> Cas \cup {NoCa}] /\ readAt' \in [Requests -> Times]
      BY <1>2 DEF IssueCreate, TypeOK
    <3>3. pc' \in [Requests -> Stage]
      BY <1>2 DEF IssueCreate, Goto, TypeOK, Stage
    <3>4. QED
      BY <1>2, <3>1, <3>2, <3>3 DEF IssueCreate, Insert, TypeOK
  <2>2. SignersHold' /\ RetirersMarked'
    BY <1>0, <1>2 DEF IssueCreate, Goto, table, Insert, TypeOK, SignersHold, RetirersMarked
  <2>3. HoldersInTime'
    BY <1>0, <1>2 DEF IssueCreate, Goto, table, Insert, TypeOK, Times, HoldersInTime, MarksInTime, RetirersMarked
  <2>4. MarksInTime'
    BY <1>0, <1>2 DEF IssueCreate, Goto, table, Insert, TypeOK, Times, MarksInTime, RetirersMarked
  <2>5. LeavesInTime'
    BY <1>0, <1>2 DEF IssueCreate, Goto, table, Insert, TypeOK, Times, Leaf, LeavesInTime, MarksInTime, RetirersMarked
  <2>6. QED
    BY <2>1, <2>2, <2>3, <2>4, <2>5
<1>3. ASSUME NEW p \in Requests, Sign(p) PROVE BundleInv'
  <2>1. PICK ttl \in LeafTtls :
            leaves' = leaves \cup {[ca |-> held[p], signed |-> now, ttl |-> ttl]}
    BY <1>3 DEF Sign
  <2>2. /\ UNCHANGED <<now, status, retiredAt, marked, stamp>>
        /\ pc' = [pc EXCEPT ![p] = "idle"]
        /\ held' = [held EXCEPT ![p] = NoCa]
        /\ readAt' = [readAt EXCEPT ![p] = 0]
        /\ held[p] \in Cas
    BY <1>3 DEF Sign, Goto, table, SignersHold
  <2>3. TypeOK'
    <3>1. [ca |-> held[p], signed |-> now, ttl |-> ttl] \in Leaf
      BY <2>2, LeafTtlsType DEF TypeOK, Leaf
    <3>2. pc' \in [Requests -> Stage] /\ readAt' \in [Requests -> Times]
      BY <2>2 DEF TypeOK, Stage, Times
    <3>3. held' \in [Requests -> Cas \cup {NoCa}] /\ interrupted' = interrupted
      BY <1>3, <2>2 DEF Sign, TypeOK
    <3>4. QED
      BY <2>1, <2>2, <3>1, <3>2, <3>3 DEF TypeOK
  <2>4. SignersHold' /\ RetirersMarked'
    BY <2>2 DEF TypeOK, SignersHold, RetirersMarked
  <2>5. HoldersInTime' /\ MarksInTime'
    BY <1>0, <2>2 DEF TypeOK, HoldersInTime, MarksInTime
  <2>6. /\ status[held[p]] # "unborn"
        /\ status[held[p]] = "retired" =>
               now <= retiredAt[held[p]] + StampToCommit + ReadToSign
    BY <1>0, <2>2 DEF HoldersInTime, TypeOK, Times
  <2>7. LeavesInTime'
    BY <1>0, <2>1, <2>2, <2>6 DEF LeavesInTime
  <2>8. QED
    BY <2>3, <2>4, <2>5, <2>7
<1>4. ASSUME NEW p \in Requests, RotateSelect(p) PROVE BundleInv'
  <2>1. TypeOK'
    BY <1>4 DEF RotateSelect, Goto, table, Active, TypeOK, Stage, Status, Times
  <2>2. SignersHold' /\ RetirersMarked'
    BY <1>0, <1>4 DEF RotateSelect, Goto, table, Active, TypeOK, SignersHold, RetirersMarked
  <2>3. HoldersInTime'
    BY <1>0, <1>4 DEF RotateSelect, Goto, table, Active, TypeOK, Times, HoldersInTime, MarksInTime, RetirersMarked
  <2>4. MarksInTime'
    BY <1>0, <1>4 DEF RotateSelect, Goto, table, Active, TypeOK, Times, MarksInTime, RetirersMarked
  <2>5. LeavesInTime'
    BY <1>0, <1>4 DEF RotateSelect, Goto, table, Active, TypeOK, Times, Leaf, LeavesInTime, MarksInTime, RetirersMarked
  <2>6. QED
    BY <2>1, <2>2, <2>3, <2>4, <2>5
<1>5. ASSUME NEW p \in Requests, RotateRetire(p) PROVE BundleInv'
  <2>1. TypeOK'
    <3>1. status' \in [Cas -> Status] /\ retiredAt' \in [Cas -> Times]
      BY <1>5 DEF RotateRetire, TypeOK, Status
    <3>2. marked' \in [Requests -> Cas \cup {NoCa}] /\ stamp' \in [Requests -> Times]
      BY <1>5 DEF RotateRetire, TypeOK, Times
    <3>3. pc' \in [Requests -> Stage]
      BY <1>5 DEF RotateRetire, Goto, TypeOK, Stage
    <3>4. QED
      BY <1>5, <3>1, <3>2, <3>3 DEF RotateRetire, TypeOK
  <2>2. SignersHold' /\ RetirersMarked'
    BY <1>0, <1>5 DEF RotateRetire, Goto, table, TypeOK, SignersHold, RetirersMarked
  <2>3. HoldersInTime'
    BY <1>0, <1>5 DEF RotateRetire, Goto, table, TypeOK, Times, HoldersInTime, MarksInTime, RetirersMarked
  <2>4. MarksInTime'
    BY <1>0, <1>5 DEF RotateRetire, Goto, table, TypeOK, Times, MarksInTime, RetirersMarked
  <2>5. LeavesInTime'
    BY <1>0, <1>5 DEF RotateRetire, Goto, table, TypeOK, Times, Leaf, LeavesInTime, MarksInTime, RetirersMarked
  <2>6. QED
    BY <2>1, <2>2, <2>3, <2>4, <2>5
<1>6. ASSUME NEW p \in Requests, RotateReselect(p) PROVE BundleInv'
  <2>1. TypeOK'
    BY <1>6 DEF RotateReselect, Goto, table, Active, TypeOK, Stage, Status, Times
  <2>2. SignersHold' /\ RetirersMarked'
    BY <1>0, <1>6 DEF RotateReselect, Goto, table, Active, TypeOK, SignersHold, RetirersMarked
  <2>3. HoldersInTime'
    BY <1>0, <1>6 DEF RotateReselect, Goto, table, Active, TypeOK, Times, HoldersInTime, MarksInTime, RetirersMarked
  <2>4. MarksInTime'
    BY <1>0, <1>6 DEF RotateReselect, Goto, table, Active, TypeOK, Times, MarksInTime, RetirersMarked
  <2>5. LeavesInTime'
    BY <1>0, <1>6 DEF RotateReselect, Goto, table, Active, TypeOK, Times, Leaf, LeavesInTime, MarksInTime, RetirersMarked
  <2>6. QED
    BY <2>1, <2>2, <2>3, <2>4, <2>5
<1>7. ASSUME NEW p \in Requests, RotateCreate(p) PROVE BundleInv'
  <2>1. TypeOK'
    BY <1>7 DEF RotateCreate, Goto, table, Insert, TypeOK, Stage, Status, Times
  <2>2. SignersHold' /\ RetirersMarked'
    BY <1>0, <1>7 DEF RotateCreate, Goto, table, Insert, TypeOK, SignersHold, RetirersMarked
  <2>3. HoldersInTime'
    BY <1>0, <1>7 DEF RotateCreate, Goto, table, Insert, TypeOK, Times, HoldersInTime, MarksInTime, RetirersMarked
  <2>4. MarksInTime'
    BY <1>0, <1>7 DEF RotateCreate, Goto, table, Insert, TypeOK, Times, MarksInTime, RetirersMarked
  <2>5. LeavesInTime'
    BY <1>0, <1>7 DEF RotateCreate, Goto, table, Insert, TypeOK, Times, Leaf, LeavesInTime, MarksInTime, RetirersMarked
  <2>6. QED
    BY <2>1, <2>2, <2>3, <2>4, <2>5
<1>8. ASSUME NEW p \in Requests, Abort(p) PROVE BundleInv'
  <2>1. TypeOK'
    BY <1>8 DEF Abort, Goto, table, TypeOK, Stage, Status, Times
  <2>2. SignersHold' /\ RetirersMarked'
    BY <1>0, <1>8 DEF Abort, Goto, table, TypeOK, SignersHold, RetirersMarked
  <2>3. HoldersInTime'
    BY <1>0, <1>8 DEF Abort, Goto, table, TypeOK, Times, HoldersInTime, MarksInTime, RetirersMarked
  <2>4. MarksInTime'
    BY <1>0, <1>8 DEF Abort, Goto, table, TypeOK, Times, MarksInTime, RetirersMarked
  <2>5. LeavesInTime'
    BY <1>0, <1>8 DEF Abort, Goto, table, TypeOK, Times, Leaf, LeavesInTime, MarksInTime, RetirersMarked
  <2>6. QED
    BY <2>1, <2>2, <2>3, <2>4, <2>5
<1>9. CASE Tick
  BY <1>0, <1>9 DEF Tick, table, locals, TypeOK, Times, Leaf, SignersHold,
     RetirersMarked, HoldersInTime, MarksInTime, LeavesInTime
<1>10. CASE UNCHANGED vars
  BY <1>10 DEF vars, table, locals, TypeOK, SignersHold, RetirersMarked,
     HoldersInTime, MarksInTime, LeavesInTime
<1>11. QED
  BY <1>1, <1>2, <1>3, <1>4, <1>5, <1>6, <1>7, <1>8, <1>9, <1>10 DEF Next

LEMMA BundleInvariant == Spec => []BundleInv
BY BundleInit, BundleStep, PTL DEF Spec

-----------------------------------------------------------------------------
(* Type correctness; in particular no leaf is signed with a lifetime of      *)
(* zero, although the lifetime of a whole day has no seconds left.           *)
THEOREM TypeCorrect == Spec => []TypeOK
<1>1. BundleInv => TypeOK
  BY DEF BundleInv
<1>2. QED
  BY <1>1, BundleInvariant, PTL

LEMMA ShortLeavesInBundle == BundleInv => ShortLeavesVerify
<1> SUFFICES ASSUME BundleInv, NEW l \in leaves, l.ttl <= SvidTtl, Unexpired(l)
             PROVE  l.ca \in Bundle
  BY DEF ShortLeavesVerify
<1>1. /\ l.ca \in Cas /\ l.signed \in Nat /\ l.ttl \in Nat
      /\ now \in Nat /\ retiredAt[l.ca] \in Nat
  BY DEF BundleInv, TypeOK, Leaf, Times
<1>2. /\ status[l.ca] # "unborn"
      /\ status[l.ca] = "retired" =>
             l.signed <= retiredAt[l.ca] + StampToCommit + ReadToSign
  BY DEF BundleInv, LeavesInTime
<1>3. now <= l.signed + SvidTtl
  BY <1>1 DEF Unexpired
<1>4. status[l.ca] = "retired" => retiredAt[l.ca] + SvidTtl + Slack > now
  BY <1>1, <1>2, <1>3
<1>5. QED
  BY <1>1, <1>2, <1>4 DEF Bundle

(* A leaf no longer-lived than DEFAULT_SVID_TTL_SECONDS is signed at most    *)
(* ReadToSign + StampToCommit after its CA's retirement was stamped, which   *)
(* is less than the slack of x509_trust_bundle.                              *)
THEOREM BundleServesShortLeaves == Spec => []ShortLeavesVerify
BY BundleInvariant, ShortLeavesInBundle, PTL

(* No interleaving of rotations and issuance leaves a tenant without an      *)
(* active CA and nobody about to create one, unless a request died.          *)
THEOREM CaIsReplaced == Spec => []CaLostOnlyMidRotation
<1>1. Init => CaLostOnlyMidRotation
  BY DEF Init, CaLostOnlyMidRotation
<1>2. TypeOK /\ CaLostOnlyMidRotation /\ [Next]_vars => CaLostOnlyMidRotation'
  <2> SUFFICES ASSUME TypeOK, CaLostOnlyMidRotation, [Next]_vars
               PROVE  CaLostOnlyMidRotation'
    OBVIOUS
  <2> USE DEF TypeOK, CaLostOnlyMidRotation, Active, Goto, table
  <2>1. ASSUME NEW p \in Requests, IssueSelect(p) PROVE CaLostOnlyMidRotation'
    BY <2>1 DEF IssueSelect
  <2>2. ASSUME NEW p \in Requests, IssueCreate(p) PROVE CaLostOnlyMidRotation'
    BY <2>2 DEF IssueCreate, Insert
  <2>3. ASSUME NEW p \in Requests, Sign(p) PROVE CaLostOnlyMidRotation'
    BY <2>3 DEF Sign
  <2>4. ASSUME NEW p \in Requests, RotateSelect(p) PROVE CaLostOnlyMidRotation'
    BY <2>4 DEF RotateSelect
  <2>5. ASSUME NEW p \in Requests, RotateRetire(p) PROVE CaLostOnlyMidRotation'
    BY <2>5 DEF RotateRetire
  <2>6. ASSUME NEW p \in Requests, RotateReselect(p) PROVE CaLostOnlyMidRotation'
    BY <2>6 DEF RotateReselect
  <2>7. ASSUME NEW p \in Requests, RotateCreate(p) PROVE CaLostOnlyMidRotation'
    BY <2>7 DEF RotateCreate, Insert
  <2>8. ASSUME NEW p \in Requests, Abort(p) PROVE CaLostOnlyMidRotation'
    BY <2>8 DEF Abort
  <2>9. CASE Tick \/ UNCHANGED vars
    BY <2>9 DEF Tick, vars, locals
  <2>10. QED
    BY <2>1, <2>2, <2>3, <2>4, <2>5, <2>6, <2>7, <2>8, <2>9 DEF Next
<1>3. QED
  BY <1>1, <1>2, TypeCorrect, PTL DEF Spec
-----------------------------------------------------------------------------
(* X509Bundle implements TrustStore.  Rotations that mark one CA overlap:    *)
(* the stamps they write into its row lie within StampToCommit.              *)
RemarksInTime ==
    \A p \in Requests :
        marked[p] # NoCa =>
            /\ stamp[p] <= now
            /\ status[marked[p]] = "retired" =>
                   stamp[p] <= retiredAt[marked[p]] + StampToCommit

TrustInv == BundleInv /\ RemarksInTime

Born == {c \in Cas : status[c] # "unborn"}
Gone == Born \ Bundle
Live == {<<l.ca, l>> : l \in {m \in leaves : m.ttl <= SvidTtl /\ Unexpired(m)}}

LEMMA RemarksStep ==
    ASSUME TrustInv, [Next]_vars
    PROVE  RemarksInTime'
<1> USE DEF TrustInv, BundleInv, TypeOK, table, locals
<1>0. NoCa \notin Cas /\ now \in Nat
  BY DEF Cas, NoCa, Times
<1>1. ASSUME NEW p \in Requests, RotateSelect(p) PROVE RemarksInTime'
  <2>1. UNCHANGED <<now, status, retiredAt>>
    BY <1>1 DEF RotateSelect
  <2>2. \A o \in Requests \ {p} : marked'[o] = marked[o] /\ stamp'[o] = stamp[o]
    BY <1>1 DEF RotateSelect
  <2>3. \/ marked'[p] \in Active /\ stamp'[p] = now
        \/ marked'[p] = marked[p] /\ stamp'[p] = stamp[p]
    BY <1>1 DEF RotateSelect
  <2>4. QED
    BY <1>0, <2>1, <2>2, <2>3 DEF RemarksInTime, Active
<1>2. ASSUME NEW p \in Requests, RotateRetire(p) PROVE RemarksInTime'
  <2> SUFFICES ASSUME NEW o \in Requests, marked'[o] # NoCa
               PROVE  /\ stamp'[o] <= now
                      /\ status'[marked'[o]] = "retired" =>
                             stamp'[o] <= retiredAt'[marked'[o]] + StampToCommit
    BY <1>2 DEF RemarksInTime, RotateRetire
  <2>1. marked[p] \in Cas /\ o # p /\ marked'[o] = marked[o] /\ stamp'[o] = stamp[o]
    BY <1>2 DEF RotateRetire, RetirersMarked
  <2>2. marked[o] \in Cas /\ stamp[o] \in Nat /\ stamp[p] \in Nat /\ stamp[o] <= now
    BY <2>1 DEF Times, RemarksInTime
  <2>3. CASE marked[o] = marked[p]
    <3>1. now <= stamp[p] + StampToCommit
      BY <1>0, <2>1 DEF MarksInTime
    <3>2. retiredAt'[marked[o]] = stamp[p]
      BY <1>2, <2>1, <2>3 DEF RotateRetire
    <3>3. QED
      BY <1>0, <2>1, <2>2, <3>1, <3>2
  <2>4. CASE marked[o] # marked[p]
    BY <1>2, <2>1, <2>2, <2>4 DEF RotateRetire, RemarksInTime
  <2>5. QED
    BY <2>3, <2>4
<1>3. ASSUME NEW c \in Cas, Insert(c) PROVE RemarksInTime'
  BY <1>3 DEF Insert, RemarksInTime
<1>4. ASSUME NEW p \in Requests, IssueCreate(p) \/ RotateCreate(p) PROVE RemarksInTime'
  BY <1>3, <1>4 DEF IssueCreate, RotateCreate
<1>5. ASSUME NEW p \in Requests,
             IssueSelect(p) \/ Sign(p) \/ RotateReselect(p) \/ Abort(p)
      PROVE  RemarksInTime'
  BY <1>5 DEF IssueSelect, Sign, RotateReselect, Abort, RemarksInTime
<1>6. CASE Tick
  BY <1>0, <1>6 DEF Tick, RemarksInTime, Times
<1>7. CASE UNCHANGED vars
  BY <1>7 DEF vars, RemarksInTime
<1>8. QED
  BY <1>1, <1>2, <1>4, <1>5, <1>6, <1>7 DEF Next

(* What a step does when it only takes CAs and leaves away.                  *)
LEMMA Withdraws ==
    ASSUME BundleInv', Born' = Born, Bundle' \subseteq Bundle, Live' \subseteq Live
    PROVE  Trust!Withdraw
<1>1. Gone' = Gone \cup (Bundle \ Bundle')
  <2>1. Bundle \subseteq Born
    BY DEF Bundle, Born
  <2>2. QED
    BY <2>1 DEF Gone
<1>2. \A l \in Live' : l[1] \in Bundle'
  <2>1. ShortLeavesVerify'
    BY ShortLeavesInBundle, PTL
  <2>2. QED
    BY <2>1 DEF ShortLeavesVerify, Live
<1>3. QED
  BY <1>1, <1>2 DEF Trust!Withdraw, Gone, Born, Live

LEMMA RetirementWithdraws ==
    ASSUME TrustInv, BundleInv', NEW p \in Requests, RotateRetire(p)
    PROVE  Trust!Withdraw
<1> USE DEF TrustInv, BundleInv, TypeOK
<1> DEFINE c == marked[p]
<1>1. /\ c \in Cas /\ c # NoCa
      /\ status' = [status EXCEPT ![c] = "retired"]
      /\ retiredAt' = [retiredAt EXCEPT ![c] = stamp[p]]
      /\ UNCHANGED <<now, leaves>>
  BY DEF RotateRetire, RetirersMarked, Cas, NoCa
<1>2. /\ now <= stamp[p] + StampToCommit /\ status[c] # "unborn"
      /\ status[c] = "retired" => stamp[p] <= retiredAt[c] + StampToCommit
      /\ now \in Nat /\ stamp[p] \in Nat /\ retiredAt[c] \in Nat
  BY <1>1 DEF MarksInTime, RemarksInTime, Times
<1> HIDE DEF c
<1>3. Born' = Born
  BY <1>1, <1>2 DEF Born
<1>4. c \in Bundle
  BY <1>1, <1>2, WithdrawalAssumption DEF Bundle
<1>5. Bundle' \subseteq Bundle
  BY <1>1, <1>4 DEF Bundle
<1>6. Live' = Live
  BY <1>1 DEF Live, Unexpired
<1>7. QED
  BY <1>3, <1>5, <1>6, Withdraws

LEMMA InsertIntroduces ==
    ASSUME TypeOK, NEW c \in Cas, Insert(c)
    PROVE  Trust!Introduce
<1>1. /\ status[c] = "unborn"
      /\ status' = [status EXCEPT ![c] = "active"]
      /\ UNCHANGED <<now, retiredAt, leaves>>
  BY DEF Insert
<1>2. c \notin Born /\ c \notin Bundle
  BY <1>1 DEF Born, Bundle
<1>3. Bundle' = Bundle \cup {c} /\ Born' = Born \cup {c}
  BY <1>1 DEF TypeOK, Bundle, Born
<1>4. Gone' = Gone /\ Live' = Live
  BY <1>1, <1>2, <1>3 DEF Gone, Live, Unexpired
<1>5. QED
  BY <1>2, <1>3, <1>4 DEF Trust!Introduce, Gone, Born, Live

(* The CA that signs may have been retired since it was read.                *)
LEMMA SigningIssues ==
    ASSUME BundleInv, BundleInv', NEW p \in Requests, Sign(p)
    PROVE  Trust!Issue \/ UNCHANGED Trust!vars
<1>1. PICK ttl \in LeafTtls :
          leaves' = leaves \cup {[ca |-> held[p], signed |-> now, ttl |-> ttl]}
  BY DEF Sign
<1> DEFINE leaf == [ca |-> held[p], signed |-> now, ttl |-> ttl]
           Short == leaf.ttl <= SvidTtl /\ now <= leaf.signed + leaf.ttl
<1>2. UNCHANGED <<now, status, retiredAt>>
  BY DEF Sign, table
<1>3. Born' = Born /\ Bundle' = Bundle /\ Gone' = Gone
  BY <1>2 DEF Gone, Born, Bundle
<1>4. CASE Short
  <2>1. Live' = Live \cup {<<leaf.ca, leaf>>}
    BY <1>1, <1>2, <1>4 DEF Live, Unexpired
  <2>2. leaf.ca \in Bundle'
    <3>1. ShortLeavesVerify'
      BY ShortLeavesInBundle, PTL
    <3>2. /\ leaf \in leaves' /\ leaf.ttl <= SvidTtl
          /\ now' <= leaf.signed + leaf.ttl
      BY <1>1, <1>2, <1>4
    <3> HIDE DEF leaf
    <3>3. QED
      BY <3>1, <3>2 DEF ShortLeavesVerify, Unexpired
  <2> HIDE DEF leaf
  <2>3. <<leaf.ca, leaf>> \in Live' /\ <<leaf.ca, leaf>>[1] \in Bundle
    BY <1>3, <2>1, <2>2
  <2>4. QED
    BY <1>3, <2>1, <2>3 DEF Trust!Issue, Gone, Born, Live
<1>5. CASE ~Short
  <2>1. Live' = Live
    BY <1>1, <1>2, <1>5 DEF Live, Unexpired
  <2>2. QED
    BY <1>3, <2>1 DEF Trust!vars, Gone, Born, Live
<1>6. QED
  BY <1>4, <1>5

LEMMA TickWithdraws ==
    ASSUME BundleInv, BundleInv', Tick
    PROVE  Trust!Withdraw
<1> USE DEF BundleInv, TypeOK
<1>1. UNCHANGED <<status, retiredAt, leaves>> /\ now' = now + 1 /\ now \in Nat
  BY DEF Tick, table, Times
<1>2. Born' = Born
  BY <1>1 DEF Born
<1>3. Bundle' \subseteq Bundle
  BY <1>1 DEF Bundle, Times
<1>4. Live' \subseteq Live
  <2>1. \A l \in leaves : l.signed \in Nat /\ l.ttl \in Nat
    BY DEF Leaf, Times
  <2>2. QED
    BY <1>1, <2>1 DEF Live, Unexpired
<1>5. QED
  BY <1>2, <1>3, <1>4, Withdraws

(* The trust bundle implements TrustStore for the leaves that live no longer *)
(* than DEFAULT_SVID_TTL_SECONDS: they are signed under CAs in the bundle,   *)
(* these stay in it until they expire, and no CA comes back to it.           *)
THEOREM BundleKeepsTrust == Spec => KeepsTrust
<1>1. Init => RemarksInTime /\ Trust!Init
  BY DEF Init, RemarksInTime, Trust!Init, Bundle
<1>2. TrustInv /\ [Next]_vars => RemarksInTime'
  BY RemarksStep
<1>3. TrustInv /\ BundleInv' /\ [Next]_vars => [Trust!Next]_Trust!vars
  <2> SUFFICES ASSUME TrustInv, BundleInv', [Next]_vars
               PROVE  Trust!Next \/ UNCHANGED Trust!vars
    OBVIOUS
  <2> USE DEF Trust!Next
  <2>1. ASSUME UNCHANGED <<status, retiredAt, now, leaves>>
        PROVE  UNCHANGED Trust!vars
    BY <2>1 DEF Trust!vars, Bundle, Unexpired
  <2>2. ASSUME NEW p \in Requests,
               IssueSelect(p) \/ RotateSelect(p) \/ RotateReselect(p) \/ Abort(p)
        PROVE  UNCHANGED Trust!vars
    BY <2>1, <2>2 DEF IssueSelect, RotateSelect, RotateReselect, Abort, table
  <2>3. ASSUME NEW p \in Requests, RotateRetire(p)
        PROVE  Trust!Next
    BY <2>3, RetirementWithdraws
  <2>4. ASSUME NEW p \in Requests, IssueCreate(p) \/ RotateCreate(p)
        PROVE  Trust!Next
    BY <2>4, InsertIntroduces DEF IssueCreate, RotateCreate, TrustInv, BundleInv
  <2>5. ASSUME NEW p \in Requests, Sign(p)
        PROVE  Trust!Next \/ UNCHANGED Trust!vars
    BY <2>5, SigningIssues DEF TrustInv
  <2>6. CASE Tick
    BY <2>6, TickWithdraws DEF TrustInv
  <2>7. CASE UNCHANGED vars
    BY <2>1, <2>7 DEF vars, table
  <2>8. QED
    BY <2>2, <2>3, <2>4, <2>5, <2>6, <2>7 DEF Next
<1>4. QED
  BY <1>1, <1>2, <1>3, BundleInvariant, PTL DEF Spec, KeepsTrust, Trust!Spec, TrustInv
=============================================================================
