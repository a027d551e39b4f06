----------------------------- MODULE X509Bundle -----------------------------
(***************************************************************************)
(* One tenant's X.509 certificate authorities: the x509_ca_keys table, the *)
(* identify requests that sign a leaf certificate with the active CA       *)
(* (issue_x509_svid), rotate_ca, and the trust bundle that peers verify    *)
(* leaves against.  Unlike get_active_key, get_or_create_ca neither orders *)
(* the active rows nor retires surplus ones.  Every SELECT sees what is    *)
(* committed then, and every COMMIT is a step of its own.                  *)
(***************************************************************************)
EXTENDS Naturals, FiniteSets

CONSTANTS
    Requests,       \* requests and rotations at the same time
    MaxCas,         \* bound on the CAs ever created
    MaxLeaves,      \* bound on the leaves ever signed
    MaxTime,        \* bound on the clock
    MinTtl, MaxTtl, \* what _clamp_ttl lets a caller request
    Day,            \* timedelta.seconds is what is left of whole days
    SvidTtl,        \* DEFAULT_SVID_TTL_SECONDS
    Slack,          \* the 300 s the bundle adds to it
    ReadToSign,     \* longest time from reading the CA to signing with it
    StampToCommit   \* longest time from stamping retired_at to its commit

ASSUME BundleAssumption ==
    /\ MaxCas \in Nat \ {0} /\ MaxLeaves \in Nat /\ MaxTime \in Nat
    /\ MinTtl \in Nat \ {0} /\ MaxTtl \in Nat /\ Day \in Nat \ {0}
    /\ SvidTtl \in Nat \ {0}
    /\ Slack \in Nat /\ ReadToSign \in Nat /\ StampToCommit \in Nat

(* The slack only serves requests that are quick enough. *)
ASSUME SlackAssumption == ReadToSign + StampToCommit < Slack

(* Rotations that retire one CA in turn commit before peers drop it. *)
ASSUME WithdrawalAssumption == 2 * StampToCommit < SvidTtl + Slack

VARIABLES
    now,         \* the servers' clock
    status,      \* X509CaKey.status
    retiredAt,   \* X509CaKey.retired_at (0 until set)
    leaves,      \* the certificates signed so far
    pc,          \* where each request is
    held,        \* the CA an issuing request signs with (0: none)
    readAt,      \* when it read that CA as active (0: none)
    marked,      \* the CA a rotation marked retired but did not commit (0: none)
    stamp,       \* the retired_at it wrote into it (0: none)
    interrupted  \* a request died before it replaced a CA (history)

table == <<status, retiredAt>>
locals == <<pc, held, readAt, marked, stamp>>
vars == <<now, table, leaves, locals, interrupted>>

Cas == 1..MaxCas
NoCa == 0
Times == 0..MaxTime
Status == {"unborn", "active", "retired"}
Stage == {"idle", "create", "sign", "retire", "reselect", "replace"}
Leaf == [ca : Cas, signed : Times, ttl : Nat \ {0}]

Active == {c \in Cas : status[c] = "active"}

(* Mutant: a lifetime of whole days has no seconds left. *)
LeafTtlsOfWholeDays ==
    LET granted == MinTtl..MaxTtl IN granted \cup {t % Day : t \in granted}

(* What identify passes on: the requested TTL, or else the seconds of the    *)
(* credential's lifetime that are left of whole days, or else the default.  *)
LeafTtls ==
    LET granted == MinTtl..MaxTtl
        rest == {t % Day : t \in granted}
    IN  granted \cup {IF r = 0 THEN SvidTtl ELSE r : r \in rest}

(* Mutant: without the slack. *)
BundleWithoutSlack ==
    {c \in Cas : /\ status[c] # "unborn"
                 /\ status[c] = "retired" => retiredAt[c] + SvidTtl > now}

(* x509_trust_bundle: all but the CAs retired at or before the cutoff. *)
Bundle ==
    {c \in Cas : /\ status[c] # "unborn"
                 /\ status[c] = "retired" => retiredAt[c] + SvidTtl + Slack > now}

-----------------------------------------------------------------------------
Init ==
    /\ now = 0
    /\ status = [c \in Cas |-> "unborn"]
    /\ retiredAt = [c \in Cas |-> 0]
    /\ leaves = {}
    /\ pc = [p \in Requests |-> "idle"]
    /\ held = [p \in Requests |-> NoCa]
    /\ readAt = [p \in Requests |-> 0]
    /\ marked = [p \in Requests |-> NoCa]
    /\ stamp = [p \in Requests |-> 0]
    /\ interrupted = FALSE

Goto(p, stage) == pc' = [pc EXCEPT ![p] = stage]

(* get_or_create_ca inserts the next row and commits. *)
Insert(c) ==
    /\ status[c] = "unborn"
    /\ \A b \in Cas : b < c => status[b] # "unborn"
    /\ status' = [status EXCEPT ![c] = "active"]
    /\ interrupted' = FALSE
    /\ UNCHANGED <<now, retiredAt, leaves, marked, stamp>>

(* Issuing: get_or_create_ca takes any active row, or creates one. *)
IssueSelect(p) ==
    /\ pc[p] = "idle"
    /\ \/ /\ Active = {}
          /\ Goto(p, "create")
          /\ UNCHANGED <<held, readAt>>
       \/ \E c \in Active :
            /\ held' = [held EXCEPT ![p] = c]
            /\ readAt' = [readAt EXCEPT ![p] = now]
            /\ Goto(p, "sign")
    /\ UNCHANGED <<now, table, leaves, marked, stamp, interrupted>>

IssueCreate(p) ==
    /\ pc[p] = "create"
    /\ \E c \in Cas : Insert(c) /\ held' = [held EXCEPT ![p] = c]
    /\ readAt' = [readAt EXCEPT ![p] = now]
    /\ Goto(p, "sign")

(* The leaf's lifetime counts from its signing, by a CA retired since or not. *)
Sign(p) ==
    /\ pc[p] = "sign"
    /\ Cardinality(leaves) < MaxLeaves
    /\ \E ttl \in LeafTtls :
         leaves' = leaves \cup {[ca |-> held[p], signed |-> now, ttl |-> ttl]}
    /\ Goto(p, "idle")
    /\ held' = [held EXCEPT ![p] = NoCa]
    /\ readAt' = [readAt EXCEPT ![p] = 0]
    /\ UNCHANGED <<now, table, marked, stamp, interrupted>>

-----------------------------------------------------------------------------
(* rotate_ca marks one active CA retired and commits; then get_or_create_ca, *)
(* which is content with another CA that is active.                          *)
RotateSelect(p) ==
    /\ pc[p] = "idle"
    /\ \/ Active = {} /\ Goto(p, "reselect") /\ UNCHANGED <<marked, stamp>>
       \/ \E c \in Active :
            /\ marked' = [marked EXCEPT ![p] = c]
            /\ stamp' = [stamp EXCEPT ![p] = now]
            /\ Goto(p, "retire")
    /\ UNCHANGED <<now, table, leaves, held, readAt, interrupted>>

RotateRetire(p) ==
    /\ pc[p] = "retire"
    /\ status' = [status EXCEPT ![marked[p]] = "retired"]
    /\ retiredAt' = [retiredAt EXCEPT ![marked[p]] = stamp[p]]
    /\ marked' = [marked EXCEPT ![p] = NoCa]
    /\ stamp' = [stamp EXCEPT ![p] = 0]
    /\ Goto(p, "reselect")
    /\ UNCHANGED <<now, leaves, held, readAt, interrupted>>

(* Mutant: only a tenant that never had a CA gets one. *)
ReselectAny(p) ==
    /\ pc[p] = "reselect"
    /\ Goto(p, IF \A c \in Cas : status[c] = "unborn" THEN "replace" ELSE "idle")
    /\ UNCHANGED <<now, table, leaves, held, readAt, marked, stamp, interrupted>>

RotateReselect(p) ==
    /\ pc[p] = "reselect"
    /\ Goto(p, IF Active = {} THEN "replace" ELSE "idle")
    /\ UNCHANGED <<now, table, leaves, held, readAt, marked, stamp, interrupted>>

RotateCreate(p) ==
    /\ pc[p] = "replace"
    /\ \E c \in Cas : Insert(c)
    /\ Goto(p, "idle")
    /\ UNCHANGED <<held, readAt>>

(* An error or the death of the process rolls back what is not committed. *)
Abort(p) ==
    /\ pc[p] # "idle"
    /\ interrupted' = (interrupted \/ pc[p] \in {"create", "reselect", "replace"})
    /\ Goto(p, "idle")
    /\ held' = [held EXCEPT ![p] = NoCa]
    /\ readAt' = [readAt EXCEPT ![p] = 0]
    /\ marked' = [marked EXCEPT ![p] = NoCa]
    /\ stamp' = [stamp EXCEPT ![p] = 0]
    /\ UNCHANGED <<now, table, leaves>>

(* Time passes, as long as every request still meets its deadlines. *)
Tick ==
    /\ now < MaxTime
    /\ \A p \in Requests :
         /\ held[p] # NoCa => now < readAt[p] + ReadToSign
         /\ marked[p] # NoCa => now < stamp[p] + StampToCommit
    /\ now' = now + 1
    /\ UNCHANGED <<table, leaves, locals, interrupted>>

Next ==
    \/ \E p \in Requests :
         \/ IssueSelect(p) \/ IssueCreate(p) \/ Sign(p)
         \/ RotateSelect(p) \/ RotateRetire(p) \/ RotateReselect(p) \/ RotateCreate(p)
         \/ Abort(p)
    \/ Tick

Spec == Init /\ [][Next]_vars

-----------------------------------------------------------------------------
(* The shape of the state. *)
TypeOK ==
    /\ now \in Times
    /\ status \in [Cas -> Status]
    /\ retiredAt \in [Cas -> Times]
    /\ leaves \subseteq Leaf
    /\ pc \in [Requests -> Stage]
    /\ held \in [Requests -> Cas \cup {NoCa}]
    /\ readAt \in [Requests -> Times]
    /\ marked \in [Requests -> Cas \cup {NoCa}]
    /\ stamp \in [Requests -> Times]
    /\ interrupted \in BOOLEAN

(* A certificate is valid up to and including its not_valid_after. *)
Unexpired(l) == now <= l.signed + l.ttl

(* A leaf that lives no longer than DEFAULT_SVID_TTL_SECONDS verifies against *)
(* the bundle to its last second, also if it was signed by a request that    *)
(* had read the CA just before a rotation retired it, or that two rotations  *)
(* retired in turn.                                                          *)
ShortLeavesVerify ==
    \A l \in leaves : l.ttl <= SvidTtl /\ Unexpired(l) => l.ca \in Bundle

(* The bundle keeps what TrustStore promises for these leaves: besides, a CA *)
(* that peers have dropped never returns, although a rotation that marked it *)
(* before may still write another retired_at into its row.                   *)
Trust == INSTANCE TrustStore
         WITH Signers <- Cas,
              published <- Bundle,
              void <- {c \in Cas : status[c] # "unborn"} \ Bundle,
              live <- {<<l.ca, l>> : l \in {m \in leaves : m.ttl <= SvidTtl /\ Unexpired(m)}}
KeepsTrust == Trust!Spec

(* However rotations race, a tenant that has had a CA is without an active   *)
(* one only while a request is about to create one, or after one died there. *)
CaLostOnlyMidRotation ==
    Active = {} =>
        \/ \A c \in Cas : status[c] = "unborn"
        \/ \E p \in Requests : pc[p] \in {"create", "reselect", "replace"}
        \/ interrupted

(* models.py, X509CaKey: "retired CAs stay in the bundle until their leaves  *)
(* expire".                                                                  *)
BundleOutlivesLeaves == \A l \in leaves : Unexpired(l) => l.ca \in Bundle
=============================================================================
