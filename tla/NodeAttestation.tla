-------------------------- MODULE NodeAttestation --------------------------
(***************************************************************************)
(* POST /v1/identify for one tenant: attest() verifies a piece of evidence,*)
(* records its one-time key (UNIQUE (customer_id, jti)), matches it, and   *)
(* issue_credential() mints a credential and commits; prune_expired()      *)
(* deletes the records whose time has passed.  Each call is one request    *)
(* with one database transaction, and the calls interleave at its          *)
(* statements.  The record of a call is part of its open transaction until *)
(* that transaction commits, and get_active_key may commit it early.       *)
(*                                                                         *)
(* A row of attestation_uses is named by the call that inserted it.        *)
(***************************************************************************)
EXTENDS Naturals

CONSTANTS
    Calls,     \* the identify requests that are ever made
    Evidence,  \* attestation documents and cloud evidence bundles
    Kind,      \* Kind[e]: how e is verified
    Name,      \* Name[e]: what its one-time key is made of: the document's
               \* jti, the (sub, instance, iat) of a GCP token, the pod of a
               \* projected Kubernetes token, an EC2 instance's boot
    Expiry,    \* Expiry[e]: its exp claim (EC2 documents have none)
    Window,    \* settings.attestation_max_ttl_seconds
    MaxTime    \* bound on the clock

Kinds == {"signed", "k8s_psat", "aws_iid"}  \* signed: static anchor or gcp_iit

ASSUME EvidenceAssumption ==
    /\ Kind \in [Evidence -> Kinds]
    /\ Expiry \in [Evidence -> Nat]

ASSUME TimeAssumption ==
    /\ Window \in Nat \ {0}
    /\ MaxTime \in Nat

VARIABLES
    now,       \* the servers' clock
    uses,      \* the calls whose attestation_uses row is in the table
    stage,     \* where each call is, or how it ended
    doc,       \* the evidence it presents
    jti,       \* the one-time key of that evidence
    lapse,     \* the expires_at that goes with the key
    claimedAt, \* when it inserted its row
    early      \* its row was committed before its credential

claims == <<doc, jti, lapse, claimedAt>>
vars == <<now, uses, stage, claims, early>>

Times == 0..MaxTime
Keys == {Name[e] : e \in Evidence} \X Nat
NoKey == <<>>

Stages == {"new", "verified", "claimed", "keyed", "denied", "minted"}

(* The evidence is accepted at time t.  An EC2 document never expires; the  *)
(* cluster checks the expiry of a projected token.                          *)
Verifies(e, t) == Kind[e] = "aws_iid" \/ t < Expiry[e]

(* Mutant: the key is the bare name of the evidence. *)
BareKey(e, t) == Name[e]

(* The one-time key: the time bucket is part of it for Kubernetes.          *)
OneTimeKey(e, t) == <<Name[e], IF Kind[e] = "k8s_psat" THEN t \div Window ELSE 0>>

(* Mutant: forgotten just before the evidence expires. *)
ForgottenEarly(e, t) == IF Kind[e] = "signed" THEN Expiry[e] - 1 ELSE t + Window

(* How long the key is remembered: what prune_expired compares to the clock. *)
RememberedUntil(e, t) == IF Kind[e] = "signed" THEN Expiry[e] ELSE t + Window

InTransaction(p) == stage[p] \in {"claimed", "keyed"}
Minted(p) == stage[p] = "minted"

(* Mutant: the session of a failed request is never closed. *)
NeverRolledBack(p) ==
    stage[p] \in {"claimed", "keyed", "denied"} /\ ~early[p]

(* An inserted row the transaction of which is still open.                  *)
Uncommitted(p) == InTransaction(p) /\ ~early[p]

-----------------------------------------------------------------------------
Init ==
    /\ now = 0
    /\ uses = {}
    /\ stage = [p \in Calls |-> "new"]
    /\ doc \in [Calls -> Evidence]
    /\ jti = [p \in Calls |-> NoKey]
    /\ lapse = [p \in Calls |-> 0]
    /\ claimedAt = [p \in Calls |-> 0]
    /\ early = [p \in Calls |-> FALSE]

(* verify_node_attestation, verify_cloud_node_attestation: a bad signature, *)
(* an unknown anchor or a wrong audience ends the call, as expiry does.     *)
Verify(p) ==
    /\ stage[p] = "new"
    /\ \/ stage' = [stage EXCEPT ![p] = "denied"] /\ UNCHANGED <<jti, lapse>>
       \/ /\ Verifies(doc[p], now)
          /\ stage' = [stage EXCEPT ![p] = "verified"]
          /\ jti' = [jti EXCEPT ![p] = OneTimeKey(doc[p], now)]
          /\ lapse' = [lapse EXCEPT ![p] = RememberedUntil(doc[p], now)]
    /\ UNCHANGED <<now, uses, doc, claimedAt, early>>

(* Mutant: a SELECT for an earlier use instead of the UNIQUE constraint.     *)
RecordUnlessSeen(p) ==
    /\ stage[p] = "verified"
    /\ IF \E q \in uses : jti[q] = jti[p]
       THEN /\ stage' = [stage EXCEPT ![p] = "denied"]
            /\ UNCHANGED claimedAt
       ELSE /\ stage' = [stage EXCEPT ![p] = "claimed"]
            /\ claimedAt' = [claimedAt EXCEPT ![p] = now]
    /\ UNCHANGED <<now, uses, doc, jti, lapse, early>>

(* Mutant: the row is committed as soon as it is inserted. *)
RecordForGood(p) ==
    /\ stage[p] = "verified"
    /\ IF \E q \in uses : jti[q] = jti[p]
       THEN /\ stage' = [stage EXCEPT ![p] = "denied"]
            /\ UNCHANGED <<claimedAt, uses>>
       ELSE /\ stage' = [stage EXCEPT ![p] = "claimed"]
            /\ claimedAt' = [claimedAt EXCEPT ![p] = now]
            /\ uses' = uses \cup {p}
    /\ UNCHANGED <<now, doc, jti, lapse, early>>

(* record_attestation_use: the INSERT is refused by a committed row with    *)
(* the same key, and waits for a transaction that inserted it and is open.  *)
Record(p) ==
    /\ stage[p] = "verified"
    /\ \A q \in Calls \ {p} : Uncommitted(q) => jti[q] # jti[p]
    /\ IF \E q \in uses : jti[q] = jti[p]
       THEN /\ stage' = [stage EXCEPT ![p] = "denied"]
            /\ UNCHANGED claimedAt
       ELSE /\ stage' = [stage EXCEPT ![p] = "claimed"]
            /\ claimedAt' = [claimedAt EXCEPT ![p] = now]
    /\ UNCHANGED <<now, uses, doc, jti, lapse, early>>

(* The request ends with an error and get_db rolls its transaction back:    *)
(* no entry matches, or several do, the assurance is too low, the TTL or    *)
(* the token type is refused, the workload key is missing or not Ed25519,   *)
(* or the database or the process fails.                                    *)
Fail(p) ==
    /\ stage[p] \in {"verified", "claimed", "keyed"}
    /\ stage' = [stage EXCEPT ![p] = "denied"]
    /\ UNCHANGED <<now, uses, claims, early>>

(* get_active_key, once an entry has matched; get_active_root_key later.    *)
(* Both commit the session when they create, heal or re-encrypt a key, and  *)
(* the row is then in the table whatever becomes of the call.               *)
ProvisionKey(p) ==
    /\ stage[p] \in {"claimed", "keyed"}
    /\ stage' = [stage EXCEPT ![p] = "keyed"]
    /\ \/ stage[p] = "claimed" /\ UNCHANGED <<uses, early>>
       \/ /\ ~early[p]
          /\ uses' = uses \cup {p}
          /\ early' = [early EXCEPT ![p] = TRUE]
    /\ UNCHANGED <<now, claims>>

(* The COMMIT of issue_credential: the agent, and the row if it was not     *)
(* committed before.  What follows (audit events, the X.509-SVID) may still  *)
(* fail the request, and then the credential exists but nobody received it. *)
Mint(p) ==
    /\ stage[p] = "keyed"
    /\ stage' = [stage EXCEPT ![p] = "minted"]
    /\ uses' = IF early[p] THEN uses ELSE uses \cup {p}
    /\ UNCHANGED <<now, claims, early>>

(* prune_expired reads the clock before its DELETE runs.                    *)
Prune ==
    /\ \E cutoff \in Times :
         /\ cutoff <= now
         /\ uses' = {p \in uses : lapse[p] > cutoff}
    /\ uses' # uses
    /\ UNCHANGED <<now, stage, claims, early>>

Tick ==
    /\ now < MaxTime
    /\ now' = now + 1
    /\ UNCHANGED <<uses, stage, claims, early>>

Step(p) == Verify(p) \/ Record(p) \/ ProvisionKey(p) \/ Mint(p) \/ Fail(p)

Next == (\E p \in Calls : Step(p)) \/ Prune \/ Tick

(* A request that is running goes on, and one that waits for a row is woken  *)
(* when the transaction that holds it ends; no failure is ever certain.      *)
Fairness == \A p \in Calls : WF_vars(Record(p) \/ ProvisionKey(p) \/ Mint(p))

Spec == Init /\ [][Next]_vars /\ Fairness

-----------------------------------------------------------------------------
TypeOK ==
    /\ now \in Times
    /\ uses \subseteq Calls
    /\ stage \in [Calls -> Stages]
    /\ doc \in [Calls -> Evidence]
    /\ jti \in [Calls -> Keys \cup {NoKey}]
    /\ lapse \in [Calls -> Nat]
    /\ claimedAt \in [Calls -> Times]
    /\ early \in [Calls -> BOOLEAN]

(* Two calls do not overlap: one was claimed when the other had lapsed.     *)
Apart(p, q) == lapse[p] <= claimedAt[q] \/ lapse[q] <= claimedAt[p]

(* What the one-time table really guarantees: two credentials minted for    *)
(* the same one-time key are a lapse apart, whatever the calls, the early   *)
(* commits and the pruning do in between.  So are those minted for the same *)
(* evidence, but for the token of a pod: the key of a use on the other side *)
(* of a bucket boundary is another one, and it may mint at once.            *)
OneMintPerLapse ==
    \A p, q \in Calls :
        (p # q /\ Minted(p) /\ Minted(q)) =>
            /\ jti[p] = jti[q] => Apart(p, q)
            /\ doc[p] = doc[q] =>
                 Apart(p, q) \/ (Kind[doc[p]] = "k8s_psat" /\ jti[p] # jti[q])

(* A document with an exp mints again only for a call that inserted its row *)
(* when the document had expired, having verified it just before: there is  *)
(* no check of exp after the row of an earlier use could be pruned.         *)
SecondMintOnlyAfterExpiry ==
    \A p, q \in Calls :
        (p # q /\ Minted(p) /\ Minted(q) /\ doc[p] = doc[q] /\ Kind[doc[p]] = "signed")
            => claimedAt[p] >= Expiry[doc[p]] \/ claimedAt[q] >= Expiry[doc[p]]

(* A call that fails before it mints leaves its evidence usable, unless it  *)
(* was the call that made the tenant's key (and committed the row with it). *)
BurntOnlyByMintOrKey ==
    \A p \in uses : stage[p] = "denied" => early[p]

(* Calls that wait for each other's rows all come to an end.                *)
EveryCallEnds ==
    \A p \in Calls : stage[p] = "verified" ~> stage[p] \in {"denied", "minted"}

(* node_attestors.py: "the issuance flow's one-time table still prevents    *)
(* the same document minting twice".                                        *)
OneMintPerDocument ==
    \A p, q \in Calls :
        (p # q /\ Minted(p) /\ Minted(q)) => doc[p] # doc[q]
=============================================================================
