--------------------------- MODULE AgentLifecycle ---------------------------
(***************************************************************************)
(* The agents table and the Biscuit deny-list of one tenant: credentials   *)
(* are issued, validated (validate_token), used (verify_capability),       *)
(* revoked (revoke_agent), marked expired by a validation that came too    *)
(* late, and pruned (prune_expired).  A request is a sequence of           *)
(* statements; each SELECT sees what is committed then, and an UPDATE      *)
(* writes the columns the session changed in the row with that id,         *)
(* whatever the row holds by then.  A flush that waits for another         *)
(* session's row is the same step as the commit that follows it.           *)
(***************************************************************************)
EXTENDS Naturals

CONSTANTS
    Requests,    \* validate, authorize and revoke handlers at the same time
    Agents,      \* credentials ever issued
    WithBiscuit, \* those whose entry grants capabilities
    MaxTtl,      \* bound on the lifetime of a credential
    Nobody,      \* the target of a request that has none
    Grace,       \* agent_grace_days
    MaxTime      \* bound on the clock

ASSUME LifecycleAssumption ==
    /\ WithBiscuit \subseteq Agents
    /\ Nobody \notin Agents
    /\ MaxTtl \in Nat \ {0}
    /\ Grace \in Nat
    /\ MaxTime \in Nat

VARIABLES
    now,     \* the servers' clock, in seconds
    status,  \* Agent.status; "none" before issue, "pruned" after the DELETE
    expires, \* Agent.expires_at, which is also the exp of both its tokens
    denied,  \* the agents whose Biscuit is in biscuit_revocations
    pc,      \* where each request is
    target,  \* the agent its token or its path names
    seen,    \* the status it read of that agent
    missing, \* the deny-list rows it decided to insert
    acked,   \* the agents a revoke was acknowledged for (history)
    late     \* the request began after such an acknowledgement (history)

tables == <<status, expires, denied>>
locals == <<target, seen, missing, late>>
vars == <<now, tables, pc, locals, acked>>

Times == 0..MaxTime

Status == {"none", "active", "expired", "revoked", "pruned"}
Stages == {"idle", "jwt", "lapsed", "expiring",
           "denylist", "agent", "authorizer",
           "row", "ids", "write",
           "accepted", "done"}

InTable(a) == status[a] \notin {"none", "pruned"}

(* PyJWT refuses a token at its exp; the Datalog check still admits it.     *)
JwtValid(a) == now < expires[a]
BiscuitValid(a) == now <= expires[a]

-----------------------------------------------------------------------------
Init ==
    /\ now = 0
    /\ status = [a \in Agents |-> "none"]
    /\ expires = [a \in Agents |-> 0]
    /\ denied = {}
    /\ pc = [p \in Requests |-> "idle"]
    /\ target = [p \in Requests |-> Nobody]
    /\ seen = [p \in Requests |-> "none"]
    /\ missing = [p \in Requests |-> {}]
    /\ late = [p \in Requests |-> FALSE]
    /\ acked = {}

(* issue_credential commits the row of a new agent. *)
Issue(a) ==
    /\ status[a] = "none"
    /\ status' = [status EXCEPT ![a] = "active"]
    /\ \E ttl \in 1..MaxTtl : expires' = [expires EXCEPT ![a] = now + ttl]
    /\ UNCHANGED <<now, denied, pc, locals, acked>>

Goto(p, stage) == pc' = [pc EXCEPT ![p] = stage]

(* A request arrives; the tokens it may carry are those issued so far. *)
Begin(p, a, stage) ==
    /\ pc[p] = "idle"
    /\ status[a] # "none"
    /\ target' = [target EXCEPT ![p] = a]
    /\ late' = [late EXCEPT ![p] = a \in acked]
    /\ Goto(p, stage)
    /\ UNCHANGED <<now, tables, seen, missing, acked>>

-----------------------------------------------------------------------------
(* Mutant: the last second of a token counts as expired. *)
ValidateEarly(p, a) == Begin(p, a, IF now + 1 < expires[a] THEN "jwt" ELSE "lapsed")

(* validate_token: the signature and exp first, then the agent's row. *)
Validate(p, a) == Begin(p, a, IF JwtValid(a) THEN "jwt" ELSE "lapsed")

(* The agent must be in the table and not revoked, and the proof of         *)
(* possession must hold.                                                    *)
ValidateAgent(p) ==
    /\ pc[p] = "jwt"
    /\ \/ InTable(target[p]) /\ status[target[p]] # "revoked" /\ Goto(p, "accepted")
       \/ Goto(p, "done")
    /\ UNCHANGED <<now, tables, locals, acked>>

(* The token has expired: read the row, and go on if it is still active.    *)
ReadLapsed(p) ==
    /\ pc[p] = "lapsed"
    /\ Goto(p, IF status[target[p]] = "active" THEN "expiring" ELSE "done")
    /\ UNCHANGED <<now, tables, locals, acked>>

(* UPDATE agents SET status = 'expired' WHERE id = ...: nothing checks that  *)
(* the row is still active.  Of a row that is gone the error is swallowed.   *)
MarkExpired(p) ==
    /\ pc[p] = "expiring"
    /\ status' = IF InTable(target[p]) THEN [status EXCEPT ![target[p]] = "expired"] ELSE status
    /\ Goto(p, "done")
    /\ UNCHANGED <<now, expires, denied, locals, acked>>

-----------------------------------------------------------------------------
(* verify_capability: the deny-list, then the agent's row (which may be      *)
(* gone), then the authorizer, which looks at the clock and the proof.       *)
Authorize(p, a) == a \in WithBiscuit /\ Begin(p, a, "denylist")

CheckDenyList(p) ==
    /\ pc[p] = "denylist"
    /\ Goto(p, IF target[p] \in denied THEN "done" ELSE "agent")
    /\ UNCHANGED <<now, tables, locals, acked>>

CheckAgent(p) ==
    /\ pc[p] = "agent"
    /\ Goto(p, IF status[target[p]] = "revoked" THEN "done" ELSE "authorizer")
    /\ UNCHANGED <<now, tables, locals, acked>>

RunAuthorizer(p) ==
    /\ pc[p] = "authorizer"
    /\ \/ BiscuitValid(target[p]) /\ Goto(p, "accepted")
       \/ Goto(p, "done")
    /\ UNCHANGED <<now, tables, locals, acked>>

-----------------------------------------------------------------------------
(* revoke_agent reads the row, then which of the Biscuit's ids are missing   *)
(* from the deny-list, then writes both and commits.                         *)
Revoke(p, a) == Begin(p, a, "row")

ReadRow(p) ==
    /\ pc[p] = "row"
    /\ IF InTable(target[p])
       THEN Goto(p, "ids") /\ seen' = [seen EXCEPT ![p] = status[target[p]]]
       ELSE Goto(p, "done") /\ UNCHANGED seen
    /\ UNCHANGED <<now, tables, target, missing, late, acked>>


(* Mutant: the condition of the INSERT inverted. *)
ReadPresentIds(p) ==
    /\ pc[p] = "ids"
    /\ missing' = [missing EXCEPT ![p] = {target[p]} \cap denied]
    /\ Goto(p, "write")
    /\ UNCHANGED <<now, tables, target, seen, late, acked>>

(* Mutant: without asking whether the agent has a Biscuit. *)
ReadAnyIds(p) ==
    /\ pc[p] = "ids"
    /\ missing' = [missing EXCEPT ![p] = {target[p]} \ denied]
    /\ Goto(p, "write")
    /\ UNCHANGED <<now, tables, target, seen, late, acked>>

ReadIds(p) ==
    /\ pc[p] = "ids"
    /\ missing' = [missing EXCEPT ![p] = ({target[p]} \cap WithBiscuit) \ denied]
    /\ Goto(p, "write")
    /\ UNCHANGED <<now, tables, target, seen, late, acked>>

(* The row is written if the session changed it.  If it is gone, or another  *)
(* revoke inserted the ids first (IntegrityError), all is rolled back.  The  *)
(* refresh after the commit fails if the row is gone, and so does the call.  *)
WriteRevocation(p) ==
    /\ pc[p] = "write"
    /\ LET a == target[p]
           stale == seen[p] # "revoked" /\ ~InTable(a)
           duplicate == missing[p] \cap denied # {} IN
       IF stale \/ duplicate
       THEN UNCHANGED <<status, denied, acked>>
       ELSE /\ status' = IF seen[p] = "revoked" THEN status
                         ELSE [status EXCEPT ![a] = "revoked"]
            /\ denied' = denied \cup missing[p]
            /\ acked' = IF InTable(a) THEN acked \cup {a} ELSE acked
    /\ Goto(p, "done")
    /\ UNCHANGED <<now, expires, locals>>

(* A request is answered, or dies; either way its session is closed.         *)
End(p) ==
    /\ pc[p] # "idle"
    /\ Goto(p, "idle")
    /\ target' = [target EXCEPT ![p] = Nobody]
    /\ seen' = [seen EXCEPT ![p] = "none"]
    /\ missing' = [missing EXCEPT ![p] = {}]
    /\ late' = [late EXCEPT ![p] = FALSE]
    /\ UNCHANGED <<now, tables, acked>>

-----------------------------------------------------------------------------
(* Mutant: by status alone. *)
PrunableByStatus(a) == status[a] \in {"expired", "revoked"}

(* prune_expired: DELETE of the agents marked expired long enough ago.       *)
Prunable(a) == status[a] = "expired" /\ expires[a] + Grace <= now

Prune ==
    /\ \E a \in Agents : Prunable(a)
    /\ status' = [a \in Agents |-> IF Prunable(a) THEN "pruned" ELSE status[a]]
    /\ UNCHANGED <<now, expires, denied, pc, locals, acked>>

Tick ==
    /\ now < MaxTime
    /\ now' = now + 1
    /\ UNCHANGED <<tables, pc, locals, acked>>

Step(p) ==
    \/ \E a \in Agents : Validate(p, a) \/ Authorize(p, a) \/ Revoke(p, a)
    \/ ValidateAgent(p) \/ ReadLapsed(p) \/ MarkExpired(p)
    \/ CheckDenyList(p) \/ CheckAgent(p) \/ RunAuthorizer(p)
    \/ ReadRow(p) \/ ReadIds(p) \/ WriteRevocation(p)
    \/ End(p)

Next ==
    \/ \E p \in Requests : Step(p)
    \/ \E a \in Agents : Issue(a)
    \/ Prune
    \/ Tick

Spec == Init /\ [][Next]_vars

-----------------------------------------------------------------------------
TypeOK ==
    /\ now \in Times
    /\ status \in [Agents -> Status]
    /\ expires \in [Agents -> Nat]
    /\ denied \subseteq WithBiscuit
    /\ pc \in [Requests -> Stages]
    /\ target \in [Requests -> Agents \cup {Nobody}]
    /\ seen \in [Requests -> Status]
    /\ missing \in [Requests -> SUBSET WithBiscuit]
    /\ late \in [Requests -> BOOLEAN]
    /\ acked \subseteq Agents

(* Once a revoke is acknowledged, no validation and no authorization that    *)
(* begins later accepts the credential, even if a late validation overwrites *)
(* the status and the row is pruned: the JWT has expired by then and the     *)
(* Biscuit, which outlives it by a second, is still on the deny-list.        *)
RevokedStaysDead ==
    \A p \in Requests : pc[p] = "accepted" => ~late[p]

(* Until the credential expires the table shows an acknowledged revocation.  *)
RevokedShowsUntilExpiry ==
    \A a \in acked : JwtValid(a) => status[a] = "revoked"

(* Retention drops nothing that can still be validated, however the writes   *)
(* of requests and of earlier prunings interleave.                           *)
ValidIsKept ==
    \A a \in Agents : JwtValid(a) => status[a] \notin {"expired", "pruned"}

(* retention.py: "never ``revoked`` ones (kept for audit/revocation          *)
(* lookups)".                                                                *)
RevokedIsKept == \A a \in acked : status[a] # "pruned"
=============================================================================
