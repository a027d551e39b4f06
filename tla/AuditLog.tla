------------------------------ MODULE AuditLog ------------------------------
(***************************************************************************)
(* record_event and verify_event_log: threads of several server processes  *)
(* append to one hash-chained table.  A call takes the lock of its process,*)
(* reads the last row, inserts the next one under its primary key, and     *)
(* starts over when the database refuses; nothing but the primary key      *)
(* orders two processes.                                                   *)
(*                                                                         *)
(* entry_hash is collision-free, so a hash stands for what was hashed: the *)
(* hash of a record is its predecessor's hash with its own material added. *)
(***************************************************************************)
EXTENDS Naturals, Sequences, FiniteSets

CONSTANTS
    Writers,  \* calls of record_event; each records an event of its own
    Process,  \* Process[w]: the server process w runs in
    Retries,  \* _APPEND_RETRIES
    MaxRows   \* bound on the table: at least Retries for each call

ASSUME AuditAssumption ==
    /\ Retries \in Nat \ {0}
    /\ MaxRows \in Nat

VARIABLES
    rows,     \* the audit_events table, by primary key
    pc,       \* where each call is
    attempt,  \* the attempts it has lost
    sequence, \* the next_sequence it computed
    prev,     \* the prev_hash it read
    begun,    \* how many rows there were when it began (history)
    refused   \* the database refused it for another reason (history)

locals == <<sequence, prev, begun, refused>>
vars == <<rows, pc, attempt, locals>>

Sequences1 == 1..MaxRows
Vacant == [prev |-> <<>>, event |-> "none", entry |-> <<>>]

Stages == {"new", "waiting", "locked", "ready", "returned", "raised"}

Filled == {i \in Sequences1 : rows[i] # Vacant}

(* SELECT ... ORDER BY sequence DESC LIMIT 1: 0 if there is none. *)
IsLast(n) ==
    /\ n \in Filled \cup {0}
    /\ \A i \in Filled : i <= n

RecordHash(seq, prevHash, event) == Append(prevHash, <<seq, event>>)

EntryHash(n) == IF n = 0 THEN <<>> ELSE rows[n].entry

-----------------------------------------------------------------------------
Init ==
    /\ rows = [i \in Sequences1 |-> Vacant]
    /\ pc = [w \in Writers |-> "new"]
    /\ attempt = [w \in Writers |-> 0]
    /\ sequence = [w \in Writers |-> 0]
    /\ prev = [w \in Writers |-> <<>>]
    /\ begun = [w \in Writers |-> 0]
    /\ refused = [w \in Writers |-> FALSE]

Goto(w, stage) == pc' = [pc EXCEPT ![w] = stage]

(* The operation has committed and reports its event. *)
Call(w) ==
    /\ pc[w] = "new"
    /\ Goto(w, "waiting")
    /\ begun' = [begun EXCEPT ![w] = Cardinality(Filled)]
    /\ UNCHANGED <<rows, attempt, sequence, prev, refused>>

HoldsLock(w) == pc[w] \in {"locked", "ready"}

Lock(w) ==
    /\ pc[w] = "waiting"
    /\ \A v \in Writers : HoldsLock(v) => Process[v] # Process[w]
    /\ Goto(w, "locked")
    /\ UNCHANGED <<rows, attempt, locals>>

(* Mutant: prev_hash is computed before the loop. *)
ReadSequenceOnly(w) ==
    /\ pc[w] = "locked"
    /\ \E n \in {0} \cup Sequences1 :
         /\ IsLast(n)
         /\ sequence' = [sequence EXCEPT ![w] = n + 1]
         /\ prev' = [prev EXCEPT ![w] = IF attempt[w] = 0 THEN EntryHash(n) ELSE @]
    /\ Goto(w, "ready")
    /\ UNCHANGED <<rows, attempt, begun, refused>>

ReadLast(w) ==
    /\ pc[w] = "locked"
    /\ \E n \in {0} \cup Sequences1 :
         /\ IsLast(n)
         /\ sequence' = [sequence EXCEPT ![w] = n + 1]
         /\ prev' = [prev EXCEPT ![w] = EntryHash(n)]
    /\ Goto(w, "ready")
    /\ UNCHANGED <<rows, attempt, begun, refused>>

(* Mutant: a merge instead of an INSERT. *)
Merge(w) ==
    /\ sequence[w] \in Sequences1
    /\ rows' = [rows EXCEPT ![sequence[w]] =
                    [prev  |-> prev[w],
                     event |-> w,
                     entry |-> RecordHash(sequence[w], prev[w], w)]]

(* INSERT and COMMIT: the primary key must be free. *)
Insert(w) ==
    /\ sequence[w] \in Sequences1 \ Filled
    /\ rows' = [rows EXCEPT ![sequence[w]] =
                    [prev  |-> prev[w],
                     event |-> w,
                     entry |-> RecordHash(sequence[w], prev[w], w)]]

Return(w) ==
    /\ pc[w] = "ready"
    /\ Insert(w)
    /\ Goto(w, "returned")
    /\ UNCHANGED <<attempt, locals>>

(* Mutant: one attempt too many. *)
RetryOnceMore(w) ==
    /\ attempt' = [attempt EXCEPT ![w] = @ + 1]
    /\ Goto(w, IF attempt[w] = Retries THEN "raised" ELSE "waiting")

(* Mutant: the last row is not read again. *)
RetryTheSame(w) ==
    /\ attempt' = [attempt EXCEPT ![w] = @ + 1]
    /\ Goto(w, IF attempt[w] + 1 = Retries THEN "raised" ELSE "ready")

(* Mutant: until it succeeds. *)
RetryForever(w) == Goto(w, "waiting") /\ UNCHANGED attempt

(* The lock is released, and the call tries again or raises. *)
Retry(w) ==
    /\ attempt' = [attempt EXCEPT ![w] = @ + 1]
    /\ Goto(w, IF attempt[w] + 1 = Retries THEN "raised" ELSE "waiting")

(* IntegrityError: another process has used the sequence number. *)
Conflict(w) ==
    /\ pc[w] = "ready"
    /\ sequence[w] \in Filled
    /\ Retry(w)
    /\ UNCHANGED <<rows, locals>>

(* OperationalError: the database is locked or gone, or goes away after it  *)
(* has committed the row and before it says so.                             *)
Refuse(w) ==
    /\ HoldsLock(w)
    /\ \/ UNCHANGED rows
       \/ pc[w] = "ready" /\ Insert(w)
    /\ Retry(w)
    /\ refused' = [refused EXCEPT ![w] = TRUE]
    /\ UNCHANGED <<sequence, prev, begun>>

(* A process dies, and with it its calls; transactions are rolled back.     *)
Crash(w) ==
    /\ HoldsLock(w) \/ pc[w] = "waiting"
    /\ LET dies(v) == Process[v] = Process[w] /\ pc[v] # "returned" IN
       /\ pc' = [v \in Writers |-> IF dies(v) THEN "raised" ELSE pc[v]]
       /\ refused' = [v \in Writers |-> refused[v] \/ dies(v)]
    /\ UNCHANGED <<rows, attempt, sequence, prev, begun>>

Step(w) == Lock(w) \/ ReadLast(w) \/ Return(w) \/ Conflict(w)

Next == \E w \in Writers : Call(w) \/ Step(w) \/ Refuse(w) \/ Crash(w)

(* A thread that can run does; a lock that stays free is taken. *)
Spec == Init /\ [][Next]_vars /\ \A w \in Writers : WF_vars(Step(w))

-----------------------------------------------------------------------------
Row == [prev : Seq(Sequences1 \X Writers), event : Writers, entry : Seq(Sequences1 \X Writers)]

TypeOK ==
    /\ rows \in [Sequences1 -> Row \cup {Vacant}]
    /\ pc \in [Writers -> Stages]
    /\ attempt \in [Writers -> 0..Retries]
    /\ sequence \in [Writers -> Nat]
    /\ prev \in [Writers -> Seq(Sequences1 \X Writers)]
    /\ begun \in [Writers -> Nat]
    /\ refused \in [Writers -> BOOLEAN]

(* verify_event_log: no gap in the sequence, each row linked to the one     *)
(* before it, each entry_hash that of its row.                              *)
Intact(i) ==
    /\ i > 1 => i - 1 \in Filled
    /\ rows[i].prev = EntryHash(i - 1)
    /\ rows[i].entry = RecordHash(i, rows[i].prev, rows[i].event)

(* The log verifies at every moment: appends of any number of threads and   *)
(* processes, their retries, hidden commits and crashes leave no gap, no    *)
(* fork and no mismatch in the chain.                                       *)
ChainIntact == \A i \in Filled : Intact(i)

(* A call gives up without a database error only if as many other events    *)
(* were recorded meanwhile as it had attempts: appenders never only block   *)
(* each other.                                                              *)
GivesUpOnlyToProgress ==
    \A w \in Writers :
        (pc[w] = "raised" /\ ~refused[w]) => Cardinality(Filled) >= begun[w] + Retries

(* Every call ends, contended or not.                                       *)
EveryCallEnds ==
    \A w \in Writers : pc[w] = "waiting" ~> pc[w] \in {"returned", "raised"}

(* What a call can tell of its event.                                       *)
Outcome ==
    [w \in Writers |-> IF pc[w] \in {"returned", "raised"} THEN pc[w]
                       ELSE IF refused[w] THEN "unsure" ELSE "open"]

(* The promise to the callers, AppendOnlyLog: no event is altered, removed, *)
(* inserted between others, or recorded when its call is over; a call that  *)
(* returns has recorded its event, and an event is recorded again only      *)
(* after a database error.                                                  *)
Promise == INSTANCE AppendOnlyLog WITH
    Events <- Writers,
    log <- [i \in 1..Cardinality(Filled) |-> rows[i].event],
    outcome <- Outcome

KeepsPromise == Promise!Spec
=============================================================================
