--------------------------- MODULE ConnectionPool ---------------------------
(***************************************************************************)
(* The database connections of a server process.  The session of a request *)
(* takes one at its first statement, gives it back at a commit and takes   *)
(* one again for the statement after it (db.refresh), until get_db closes  *)
(* the session.  record_event opens a second session of its own, and does  *)
(* so under the process's lock: a request that has its first connection    *)
(* waits for the lock and for another connection.  A thread that waits for *)
(* a connection gives up after pool_timeout; one that waits for the lock   *)
(* does not.                                                               *)
(***************************************************************************)
EXTENDS Integers, FiniteSets

CONSTANTS
    Calls,      \* calls of the SDK's HTTP client
    MaxRetries, \* HttpClient's max_retries
    Processes,  \* server processes
    Capacity,   \* db_pool_size + db_max_overflow
    None        \* no process, or no thread

(* The n-th request a call sends. *)
Requests == Calls \X (1 .. MaxRetries + 1)

ASSUME PoolAssumption ==
    /\ MaxRetries \in Nat
    /\ Capacity \in Nat \ {0}
    /\ IsFiniteSet(Requests)

ASSUME NoneAssumption == None \notin Processes \cup Requests

VARIABLES
    pc,      \* where the thread of each request is
    proc,    \* the process that serves it
    conn,    \* the requests whose session holds a connection
    auditor, \* the holder of each process's _lock
    writing  \* the processes whose auditor has its own connection

pool == <<proc, conn, auditor, writing>>

Serving(p) == {r \in Requests : proc[r] = p}

Free(p) == Capacity - Cardinality(conn \cap Serving(p)) - Cardinality(writing \cap {p})

PoolInit ==
    /\ proc = [r \in Requests |-> None]
    /\ conn = {}
    /\ auditor = [p \in Processes |-> None]
    /\ writing = {}

Goto(r, stage) == pc' = [pc EXCEPT ![r] = stage]

(* A statement of the request's session. *)
Query(r) ==
    /\ r \in conn \/ Free(proc[r]) > 0
    /\ conn' = conn \cup {r}
    /\ UNCHANGED <<proc, auditor, writing>>

(* Mutant: the session is left open. *)
Leak(r) ==
    /\ r \in conn \/ Free(proc[r]) > 0
    /\ UNCHANGED pool

(* A statement and the commit after it, or the end of the session. *)
Release(r) ==
    /\ r \in conn \/ Free(proc[r]) > 0
    /\ conn' = conn \ {r}
    /\ UNCHANGED <<proc, auditor, writing>>

(* The stages at which a session without a connection asks for one. *)
Querying == {"recheck", "candidates", "refresh", "reload"}

Asking(r) == (pc[r] \in Querying /\ r \notin conn) \/ pc[r] = "connect"

-----------------------------------------------------------------------------
(* record_event: the lock, then a connection, then insert and commit. *)
LockAudit(r) ==
    /\ pc[r] = "lock"
    /\ auditor[proc[r]] = None
    /\ auditor' = [auditor EXCEPT ![proc[r]] = r]
    /\ Goto(r, "connect")
    /\ UNCHANGED <<proc, conn, writing>>

ConnectAudit(r) ==
    /\ pc[r] = "connect"
    /\ Free(proc[r]) > 0
    /\ writing' = writing \cup {proc[r]}
    /\ Goto(r, "append")
    /\ UNCHANGED <<proc, conn, auditor>>

(* The event is committed, the handler returns and get_db closes.  Appends  *)
(* that have to be repeated are in AuditLog.                                *)
AppendEvent(r) ==
    /\ pc[r] = "append"
    /\ writing' = writing \ {proc[r]}
    /\ auditor' = [auditor EXCEPT ![proc[r]] = None]
    /\ conn' = conn \ {r}
    /\ Goto(r, "ok")
    /\ UNCHANGED proc

(* Mutant: an unbounded wait, as without pool_timeout. *)
WaitForever(r) == FALSE /\ UNCHANGED <<pc, pool>>

(* QueuePool gives up: the handler fails, the lock and the session are       *)
(* released on the way out.                                                  *)
TimeOut(r) ==
    /\ Asking(r)
    /\ Free(proc[r]) = 0
    /\ auditor' = IF pc[r] = "connect" THEN [auditor EXCEPT ![proc[r]] = None] ELSE auditor
    /\ conn' = conn \ {r}
    /\ Goto(r, "error")
    /\ UNCHANGED <<proc, writing>>
=============================================================================
