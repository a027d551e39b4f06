---------------------------- MODULE RequestPath ----------------------------
(***************************************************************************)
(* A request from the SDK's HttpClient through a server process: the rate  *)
(* limiter, authentication by API key, the scope check, the handler and    *)
(* its commit, the audit event, and the answer or its loss.  The handlers  *)
(* are a read, and the creation and revocation of a scoped API key, so the *)
(* keys that requests are checked against change under them.               *)
(*                                                                         *)
(* HttpClient sends again after a connection that could not be made, and,  *)
(* for a GET only, after a lost answer or a 5xx; a request whose answer is *)
(* lost goes on in its thread.  A process may crash: its threads, its      *)
(* caches and its counters are gone.                                       *)
(***************************************************************************)
EXTENDS RateLimiter

CONSTANTS
    Workloads,  \* what the calls may ask for
    MaxCrashes  \* bound on crashes of processes

Jobs == [op : {"read", "create", "revoke"}, key : Secrets, target : ScopedKeys \cup {None}]

ASSUME WorkAssumption ==
    /\ Workloads \subseteq [Calls -> Jobs]
    /\ None \notin ScopedKeys
    /\ MaxCrashes \in Nat

VARIABLES
    client,  \* each call: about to send, waiting, or its outcome
    tries,   \* requests of the call so far, those never sent included
    effects, \* commits of each call's handler (history)
    events,  \* audit events of each call (history)
    late,    \* the requests sent after their key was revoked (history)
    crashes  \* crashes so far

calls == <<client, tries>>
history == <<effects, events>>
auth == <<keys, cache, verified, overtaken>>
vars == <<pc, pool, auth, job, limiter, calls, history, late, crashes>>

Answers == {"ok", "unknown", "forbidden", "missing", "throttled", "error"}
Stages == Querying \cup Answers \cup
          {"unsent", "cache", "legacy", "upgrade", "remember", "handle",
           "lock", "connect", "append"}

Live(r) == pc[r] \notin Answers \cup {"unsent"}
Op(r) == job[r[1]].op
Reads(c) == job[c].op = "read"
Current(c) == <<c, tries[c]>>

Creates(c, s) == job[c].op = "create" /\ job[c].target = s

Init ==
    /\ PoolInit /\ AuthInit /\ LimiterInit
    /\ pc = [r \in Requests |-> "unsent"]
    /\ job \in Workloads
    /\ \A c, d \in Calls : \A s \in ScopedKeys :
           Creates(c, s) => keyStatus[s] = "absent" /\ (Creates(d, s) => d = c)
    /\ client = [c \in Calls |-> "ready"]
    /\ tries = [c \in Calls |-> 0]
    /\ effects = [c \in Calls |-> 0]
    /\ events = [c \in Calls |-> 0]
    /\ late = {}
    /\ crashes = 0

-----------------------------------------------------------------------------
(* The client.                                                              *)

(* A key that exists, and whose creation was answered. *)
Known(s) ==
    \/ s \in {Bootstrap, None}
    \/ s \in ScopedKeys /\ keyStatus[s] # "absent"
                        /\ \A c \in Calls : Creates(c, s) => client[c] = "ok"

Sendable(c) ==
    /\ client[c] = "ready"
    /\ Known(job[c].key)
    /\ job[c].op = "revoke" => Known(job[c].target)

Outcome(c, outcome) == client' = [client EXCEPT ![c] = outcome]
Again(c) == IF tries[c] <= MaxRetries THEN "ready" ELSE "failed"

(* The request never reached a server: any method is sent again. *)
ConnectError(c) ==
    /\ Sendable(c)
    /\ tries' = [tries EXCEPT ![c] = @ + 1]
    /\ Outcome(c, IF tries[c] < MaxRetries THEN "ready" ELSE "failed")
    /\ UNCHANGED <<pc, pool, auth, job, limiter, history, late, crashes>>

(* Some process takes the request. *)
Send(c) ==
    LET r == <<c, tries[c] + 1>> IN
    /\ Sendable(c)
    /\ tries' = [tries EXCEPT ![c] = @ + 1]
    /\ Outcome(c, "waiting")
    /\ \E p \in Processes : proc' = [proc EXCEPT ![r] = p] /\ Arrive(p, r)
    /\ late' = IF KeyOf(r) \in ScopedKeys /\ keyStatus[KeyOf(r)] = "revoked"
               THEN late \cup {r} ELSE late
    /\ UNCHANGED <<conn, auditor, writing, auth, job, history, crashes>>

(* The answer of the last request sent. *)
Receive(c) ==
    LET answer == pc[Current(c)] IN
    /\ client[c] = "waiting"
    /\ answer \in Answers
    /\ Outcome(c, IF answer = "ok" THEN "ok"
                  ELSE IF answer # "error" THEN "refused"
                  ELSE IF Reads(c) THEN Again(c) ELSE "failed")
    /\ UNCHANGED <<pc, pool, auth, job, limiter, tries, history, late, crashes>>

(* Mutant: every method is sent again after a read timeout. *)
ResendAny(c) ==
    /\ client[c] = "waiting"
    /\ Outcome(c, Again(c))
    /\ UNCHANGED <<pc, pool, auth, job, limiter, tries, history, late, crashes>>

(* A read timeout or a broken connection. *)
LoseAnswer(c) ==
    /\ client[c] = "waiting"
    /\ Outcome(c, IF Reads(c) THEN Again(c) ELSE "failed")
    /\ UNCHANGED <<pc, pool, auth, job, limiter, tries, history, late, crashes>>

-----------------------------------------------------------------------------
(* The server.                                                              *)

(* require_scope *)
Permitted(r) ==
    LET scope == IF Op(r) = "read" THEN "reader" ELSE "admin"
    IN {scope, "admin"} \cap Granted(KeyOf(r)) # {}

Handling(r, op) == pc[r] = "handle" /\ Op(r) = op /\ Permitted(r)

Forbid(r) ==
    /\ pc[r] = "handle" /\ ~Permitted(r)
    /\ Release(r)
    /\ Goto(r, "forbidden")
    /\ UNCHANGED <<auth, history>>

Read(r) ==
    /\ Handling(r, "read")
    /\ Release(r)
    /\ Goto(r, "ok")
    /\ UNCHANGED <<auth, history>>

Commit(r, statuses) ==
    /\ keyStatus' = statuses
    /\ effects' = [effects EXCEPT ![r[1]] = @ + 1]
    /\ Release(r)
    /\ Goto(r, "reload")
    /\ UNCHANGED <<modern, customer, cache, verified, overtaken, events>>

(* new_id and generate_api_key make another key each time: a second one for  *)
(* one call would be one that nobody was told of.                            *)
Create(r) ==
    LET new(s) == s = job[r[1]].target /\ keyStatus[s] = "absent" IN
    /\ Handling(r, "create")
    /\ Commit(r, [s \in ScopedKeys |-> IF new(s) THEN "active" ELSE keyStatus[s]])

(* None stands for an id that is not a key of the tenant. *)
RevokeMissing(r) ==
    /\ Handling(r, "revoke")
    /\ job[r[1]].target = None
    /\ Release(r)
    /\ Goto(r, "missing")
    /\ UNCHANGED <<auth, history>>

Revoke(r) ==
    /\ Handling(r, "revoke")
    /\ job[r[1]].target # None
    /\ Commit(r, [keyStatus EXCEPT ![job[r[1]].target] = "revoked"])

(* Mutant: the event is recorded before the commit it is about, or not. *)
SkipAudit(r) ==
    /\ pc[r] = "reload"
    /\ Release(r)
    /\ Goto(r, "ok")
    /\ UNCHANGED <<auth, history>>

(* db.refresh after the commit. *)
Reload(r) ==
    /\ pc[r] = "reload"
    /\ Query(r)
    /\ Goto(r, "lock")
    /\ UNCHANGED <<auth, history>>

Audit(r) ==
    \/ (LockAudit(r) \/ ConnectAudit(r)) /\ UNCHANGED <<auth, history>>
    \/ /\ AppendEvent(r)
       /\ events' = [events EXCEPT ![r[1]] = @ + 1]
       /\ UNCHANGED <<auth, effects>>

Serve(r) ==
    /\ \/ Authenticate(r) /\ UNCHANGED history
       \/ Forbid(r) \/ Read(r) \/ Create(r) \/ RevokeMissing(r) \/ Revoke(r)
       \/ Reload(r) \/ Audit(r)
       \/ TimeOut(r) /\ UNCHANGED <<auth, history>>
    /\ UNCHANGED <<job, limiter, calls, late, crashes>>

Crash(p) ==
    /\ crashes < MaxCrashes
    /\ crashes' = crashes + 1
    /\ pc' = [r \in Requests |-> IF r \in Serving(p) /\ Live(r) THEN "error" ELSE pc[r]]
    /\ conn' = conn \ Serving(p)
    /\ auditor' = [auditor EXCEPT ![p] = None]
    /\ writing' = writing \ {p}
    /\ cache' = [cache EXCEPT ![p] = [s \in Secrets |-> 0]]
    /\ buckets' = [buckets EXCEPT ![p] = [b \in Buckets |-> [start |-> 0, count |-> 0]]]
    /\ hits' = {h \in hits : h[1] # p}
    /\ UNCHANGED <<proc, keys, verified, overtaken, job, now, budget, calls, history, late>>

Next ==
    \/ \E c \in Calls : ConnectError(c) \/ Send(c) \/ Receive(c) \/ LoseAnswer(c)
    \/ \E r \in Requests : Serve(r)
    \/ \E p \in Processes : Crash(p)

(* Threads are scheduled, and the database answers. *)
Spec == Init /\ [][Next]_vars /\ \A r \in Requests : WF_vars(Serve(r))

-----------------------------------------------------------------------------
ThreadTypes ==
    /\ pc \in [Requests -> Stages]
    /\ proc \in [Requests -> Processes \cup {None}]
    /\ \A r \in Requests : pc[r] # "unsent" => proc[r] # None /\ r[2] <= tries[r[1]]

InAudit == {"connect", "append"}

PoolOK ==
    /\ conn \subseteq {r \in Requests : Live(r)}
    /\ auditor \in [Processes -> Requests \cup {None}]
    /\ writing \subseteq Processes
    /\ \A r \in Requests : pc[r] \in InAudit => auditor[proc[r]] = r
    /\ \A p \in Processes : auditor[p] # None =>
           proc[auditor[p]] = p /\ pc[auditor[p]] \in InAudit
    /\ \A p \in writing : auditor[p] # None /\ pc[auditor[p]] = "append"

AuthTypes ==
    /\ modern \in BOOLEAN
    /\ customer \in Stored
    /\ keyStatus \in [ScopedKeys -> {"absent", "active", "revoked"}]
    /\ cache \in [Processes -> [Secrets -> Nat]]
    /\ verified \in [Requests -> Nat]
    /\ overtaken \subseteq Requests

ClientTypes ==
    /\ job \in [Calls -> Jobs]
    /\ client \in [Calls -> {"ready", "waiting", "ok", "refused", "failed"}]
    /\ tries \in [Calls -> 0 .. MaxRetries + 1]
    /\ \A c \in Calls : client[c] = "ready" => tries[c] <= MaxRetries
    /\ effects \in [Calls -> Nat]
    /\ events \in [Calls -> Nat]
    /\ late \subseteq Requests
    /\ crashes \in 0 .. MaxCrashes

(* Types, and: a session holds a connection only while its request is       *)
(* under way, and the lock and the auditor's connection belong to the one   *)
(* request that is in record_event (get_db, record_event).                  *)
TypeOK == ThreadTypes /\ PoolOK /\ AuthTypes /\ ClientTypes /\ LimiterTypes

(* A request sent after its key was revoked gets no further than            *)
(* authentication, in whatever process and whatever that process has        *)
(* cached: get_current_auth checks the row again on every hit.              *)
RevokedKeyIsRefused ==
    \A r \in late : pc[r] \in Answers \ {"ok", "forbidden", "missing"}
                    \/ pc[r] \in {"cache", "recheck", "candidates", "legacy"}

(* A key that was issued is refused (401) only if it was revoked, if an     *)
(* upgrade of the tenant's row came between the two SELECTs, or if it is a  *)
(* plaintext key of the old form, whose upgrade leaves nothing that the     *)
(* next request could find it by (_authenticate_customer).                  *)
KeyRefusedForCause ==
    \A r \in Requests :
        pc[r] = "unknown" =>
            \/ KeyOf(r) \in ScopedKeys /\ keyStatus[KeyOf(r)] = "revoked"
            \/ r \in overtaken
            \/ KeyOf(r) = Bootstrap /\ ~modern /\ customer.api_key = "id"

(* However often HttpClient sends, whatever answer is lost and wherever the *)
(* server stops, the operation of one call is done at most once.            *)
EffectAtMostOnce == \A c \in Calls : effects[c] <= 1

(* Success is reported only of what is committed and audited, and a refusal *)
(* (4xx) only of what has left no trace.  A failure leaves it open.         *)
AnswerTellsTheTruth ==
    \A c \in Calls :
        /\ client[c] = "ok" /\ ~Reads(c) => effects[c] = 1 /\ events[c] = 1
        /\ client[c] = "refused" => effects[c] = 0 /\ events[c] = 0

(* A thread that cannot go on, but for giving up. *)
Blocked(r) ==
    \/ Asking(r) /\ Free(proc[r]) = 0
    \/ pc[r] = "lock" /\ auditor[proc[r]] # None

(* A thread that some action can take on, giving up included: the guards of *)
(* Serve.                                                                   *)
Connected(r) == r \in conn \/ Free(proc[r]) > 0

Ready(r) ==
    \/ pc[r] \in {"cache", "append"}
    \/ pc[r] \in Querying \cup {"legacy", "upgrade", "handle"} /\ Connected(r)
    \/ pc[r] = "remember" /\ Inserted(cache[proc[r]], KeyOf(r), verified[r]) # {}
    \/ pc[r] = "lock" /\ auditor[proc[r]] = None
    \/ pc[r] = "connect" /\ Free(proc[r]) > 0
    \/ Asking(r) /\ Free(proc[r]) = 0

(* No request hangs on what never comes: each can go on, or waits for a     *)
(* lock whose holder can (get_db, record_event).                            *)
NeverStuck ==
    \A r \in Requests :
        Live(r) => \/ Ready(r)
                   \/ /\ pc[r] = "lock"
                      /\ auditor[proc[r]] \in Requests
                      /\ Ready(auditor[proc[r]])

(* The threads of a process block each other for good (until pool_timeout)  *)
(* only when as many requests as the pool has connections are at            *)
(* record_event together, each with a connection and waiting for another.   *)
StallNeedsFullHouse ==
    \A p \in Processes :
        LET live == {r \in Serving(p) : Live(r)} IN
        live # {} /\ (\A r \in live : Blocked(r))
            => Cardinality({r \in live : pc[r] \in {"lock", "connect"}}) >= Capacity

(* Every request a server took ends: pool_timeout breaks the stall, and the *)
(* lock is passed on.  (Requests are finitely many, so it is the same to    *)
(* say that again and again none is under way.)                             *)
EveryRequestEnds == []<>(\A r \in Requests : ~Live(r))
=============================================================================
