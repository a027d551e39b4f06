-------------------------- MODULE ProofOfPossession --------------------------
(***************************************************************************)
(* The two places that must accept a signed proof of possession only once. *)
(*                                                                         *)
(* The identity service (POST /v1/validate and /v1/authorize) consumes the *)
(* challenge in the proof, a row of capability_challenges, and then checks *)
(* that the proof is fresh.  A tool server (ToolGuard) checks that the     *)
(* proof is fresh and then records its jti in an in-memory cache, which    *)
(* forgets it when it considers the proof stale.                           *)
(*                                                                         *)
(* Signatures are not modelled: a proof here is genuine, and the question  *)
(* is how often it counts.  It may be presented any number of times.       *)
(***************************************************************************)
EXTENDS Integers

CONSTANTS
    Requests,     \* validate and authorize handlers at the same time
    Challenges,   \* challenges ever issued, each in one proof
    Calls,        \* tool calls at the same time, threads of one tool server
    Proofs,       \* proofs ever made for the tool server, each with its jti
    Nothing,      \* what an idle request or call presents
    MaxAge,       \* _POP_MAX_AGE_SECONDS, verify_request_pop's max_age_seconds
    Skew,         \* the seconds a proof may be ahead of the clock
    ChallengeTtl, \* SERVER_CHALLENGE_TTL_SECONDS
    MaxTime       \* bound on the clock

ASSUME PopAssumption ==
    /\ Nothing \notin Challenges \cup Proofs
    /\ MaxAge \in Nat /\ Skew \in Nat /\ ChallengeTtl \in Nat /\ MaxTime \in Nat

VARIABLES
    now,       \* the clock of both servers, in whole seconds
    iat,       \* the iat in each proof, as the workload's clock had it
    row,       \* the row of each challenge
    expiresAt, \* its expires_at
    pc,        \* where each request is
    nonce,     \* the challenge in the proof it presents
    began,     \* the time at which it read the clock for the UPDATE
    wins,      \* how often each challenge was consumed (history)
    at,        \* where each tool call is
    shown,     \* the proof it presents
    clock,     \* the time it read before taking the cache's lock
    seen,      \* the jtis in the cache
    accepts    \* how often each proof was accepted (history)

service == <<row, expiresAt, pc, nonce, began, wins>>
guard == <<at, shown, clock, seen, accepts>>
vars == <<now, iat, service, guard>>

Times == 0..MaxTime
Iats == 0..(MaxTime + Skew)
Rows == {"none", "open", "used", "pruned"}
RequestStages == {"idle", "arrived", "claimed", "consumed", "served", "refused", "denied"}
CallStages == {"idle", "checked", "waiting"}

(* verify_request_pop's freshness test. *)
Fresh(n) == iat[n] <= now + Skew /\ now <= iat[n] + MaxAge

Init ==
    /\ now = 0
    /\ iat \in [Challenges \cup Proofs -> Iats]
    /\ row = [c \in Challenges |-> "none"]
    /\ expiresAt = [c \in Challenges |-> 0]
    /\ pc = [p \in Requests |-> "idle"]
    /\ nonce = [p \in Requests |-> Nothing]
    /\ began = [p \in Requests |-> 0]
    /\ wins = [c \in Challenges |-> 0]
    /\ at = [d \in Calls |-> "idle"]
    /\ shown = [d \in Calls |-> Nothing]
    /\ clock = [d \in Calls |-> 0]
    /\ seen = {}
    /\ accepts = [x \in Proofs |-> 0]

-----------------------------------------------------------------------------
(* Mutant: the lifetime subtracted. *)
IssueExpired(c) ==
    /\ row[c] = "none"
    /\ row' = [row EXCEPT ![c] = "open"]
    /\ expiresAt' = [expiresAt EXCEPT ![c] = now - ChallengeTtl]
    /\ UNCHANGED <<now, iat, pc, nonce, began, wins, guard>>

(* issue_server_challenge. *)
IssueChallenge(c) ==
    /\ row[c] = "none"
    /\ row' = [row EXCEPT ![c] = "open"]
    /\ expiresAt' = [expiresAt EXCEPT ![c] = now + ChallengeTtl]
    /\ UNCHANGED <<now, iat, pc, nonce, began, wins, guard>>

Goto(p, stage) == pc' = [pc EXCEPT ![p] = stage]

(* A request with a proof; consume_server_challenge reads the clock.  Before  *)
(* the challenge is issued nobody knows it.                                  *)
Arrive(p, c) ==
    /\ pc[p] = "idle"
    /\ row[c] # "none"
    /\ Goto(p, "arrived")
    /\ nonce' = [nonce EXCEPT ![p] = c]
    /\ began' = [began EXCEPT ![p] = now]
    /\ UNCHANGED <<now, iat, row, expiresAt, wins, guard>>

(* The row of c is locked by an UPDATE that has not been committed. *)
Locked(c) == \E p \in Requests : pc[p] = "claimed" /\ nonce[p] = c

(* Mutant: refused while another request has claimed the row. *)
ClaimNoWait(p) ==
    LET c == nonce[p] IN
    /\ pc[p] = "arrived"
    /\ Goto(p, IF row[c] = "open" /\ expiresAt[c] > began[p] /\ ~Locked(c)
               THEN "claimed" ELSE "refused")
    /\ UNCHANGED <<now, iat, row, expiresAt, nonce, began, wins, guard>>

(* Mutant: a SELECT that takes no lock before the UPDATE. *)
ClaimUnlocked(p) ==
    LET c == nonce[p] IN
    /\ pc[p] = "arrived"
    /\ Goto(p, IF row[c] = "open" /\ expiresAt[c] > began[p] THEN "claimed" ELSE "refused")
    /\ UNCHANGED <<now, iat, row, expiresAt, nonce, began, wins, guard>>

(* UPDATE ... WHERE used_at IS NULL AND expires_at > now.  It waits for a    *)
(* row that another request has claimed and then evaluates WHERE again.      *)
Claim(p) ==
    LET c == nonce[p] IN
    /\ pc[p] = "arrived"
    /\ ~Locked(c)
    /\ Goto(p, IF row[c] = "open" /\ expiresAt[c] > began[p] THEN "claimed" ELSE "refused")
    /\ UNCHANGED <<now, iat, row, expiresAt, nonce, began, wins, guard>>

CommitClaim(p) ==
    /\ pc[p] = "claimed"
    /\ row' = [row EXCEPT ![nonce[p]] = "used"]
    /\ wins' = [wins EXCEPT ![nonce[p]] = @ + 1]
    /\ Goto(p, "consumed")
    /\ UNCHANGED <<now, iat, expiresAt, nonce, began, guard>>

(* The rest of the handler; with a proof that is stale the challenge is lost. *)
Serve(p) ==
    /\ pc[p] = "consumed"
    /\ Goto(p, IF Fresh(nonce[p]) THEN "served" ELSE "denied")
    /\ UNCHANGED <<now, iat, row, expiresAt, nonce, began, wins, guard>>

(* A request is answered, or dies: an UPDATE not committed is rolled back.   *)
End(p) ==
    /\ pc[p] # "idle"
    /\ Goto(p, "idle")
    /\ nonce' = [nonce EXCEPT ![p] = Nothing]
    /\ began' = [began EXCEPT ![p] = 0]
    /\ UNCHANGED <<now, iat, row, expiresAt, wins, guard>>

(* prune_expired deletes expired challenges; it, too, waits for row locks.   *)
Lapsed(c) == row[c] \in {"open", "used"} /\ expiresAt[c] <= now

Prune ==
    /\ \E c \in Challenges : Lapsed(c)
    /\ \A c \in Challenges : Lapsed(c) => ~Locked(c)
    /\ row' = [c \in Challenges |-> IF Lapsed(c) THEN "pruned" ELSE row[c]]
    /\ UNCHANGED <<now, iat, expiresAt, pc, nonce, began, wins, guard>>

-----------------------------------------------------------------------------
(* _authorize_operation: authorize_biscuit checks the proof's freshness.     *)
Check(d, x) ==
    /\ at[d] = "idle"
    /\ Fresh(x)
    /\ at' = [at EXCEPT ![d] = "checked"]
    /\ shown' = [shown EXCEPT ![d] = x]
    /\ UNCHANGED <<now, iat, service, clock, seen, accepts>>

(* store_if_new reads the clock again, outside the lock.                     *)
ReadClock(d) ==
    /\ at[d] = "checked"
    /\ at' = [at EXCEPT ![d] = "waiting"]
    /\ clock' = [clock EXCEPT ![d] = now]
    /\ UNCHANGED <<now, iat, service, shown, seen, accepts>>

(* Mutant: forgotten as soon as the iat has passed. *)
ForgottenAtIat(t) == {x \in seen : iat[x] <= t}

(* What store_if_new deletes: exp <= now, where exp is iat + MaxAge.         *)
Forgotten(t) == {x \in seen : iat[x] + MaxAge <= t}

(* Under the lock: drop stale jtis, then accept the proof if it is not there. *)
(* accepts counts to two.                                                     *)
Store(d) ==
    LET kept == seen \ Forgotten(clock[d]) IN
    /\ at[d] = "waiting"
    /\ seen' = kept \cup {shown[d]}
    /\ accepts' = IF shown[d] \in kept \/ accepts[shown[d]] = 2 THEN accepts
                  ELSE [accepts EXCEPT ![shown[d]] = @ + 1]
    /\ at' = [at EXCEPT ![d] = "idle"]
    /\ shown' = [shown EXCEPT ![d] = Nothing]
    /\ clock' = [clock EXCEPT ![d] = 0]
    /\ UNCHANGED <<now, iat, service>>

Tick ==
    /\ now < MaxTime
    /\ now' = now + 1
    /\ UNCHANGED <<iat, service, guard>>

Next ==
    \/ \E c \in Challenges : IssueChallenge(c)
    \/ \E p \in Requests :
         \/ \E c \in Challenges : Arrive(p, c)
         \/ Claim(p) \/ CommitClaim(p) \/ Serve(p) \/ End(p)
    \/ Prune
    \/ \E d \in Calls :
         \/ \E x \in Proofs : Check(d, x)
         \/ ReadClock(d) \/ Store(d)
    \/ Tick

Spec == Init /\ [][Next]_vars

-----------------------------------------------------------------------------
(* The shape of the state. *)
TypeOK ==
    /\ now \in Times
    /\ iat \in [Challenges \cup Proofs -> Iats]
    /\ row \in [Challenges -> Rows]
    /\ expiresAt \in [Challenges -> Nat]
    /\ pc \in [Requests -> RequestStages]
    /\ nonce \in [Requests -> Challenges \cup {Nothing}]
    /\ began \in [Requests -> Times]
    /\ wins \in [Challenges -> Nat]
    /\ at \in [Calls -> CallStages]
    /\ shown \in [Calls -> Proofs \cup {Nothing}]
    /\ clock \in [Calls -> Times]
    /\ seen \subseteq Proofs
    /\ accepts \in [Proofs -> 0..2]

(* Of requests that present one challenge at the same time, after a failed   *)
(* one, or after it was pruned, one at most gets past it.                    *)
ChallengeServesOne == \A c \in Challenges : wins[c] <= 1

(* A request is refused only if another one consumed its challenge or the    *)
(* challenge has expired: not because a request that was ahead of it died,   *)
(* nor because the row was pruned too early.                                 *)
RefusedForCause ==
    \A p \in Requests :
        pc[p] = "refused" => wins[nonce[p]] > 0 \/ expiresAt[nonce[p]] <= now

(* Whatever calls race, the tool server accepts a proof again only once its  *)
(* freshness window has run out but for the last second.  In that second it  *)
(* does, although InMemoryReplayCache promises "Each proof ``jti`` is        *)
(* accepted once within its freshness window".                               *)
ReplayOnlyAtWindowsEnd ==
    \A x \in Proofs : accepts[x] > 1 => iat[x] + MaxAge <= now
=============================================================================
