--------------------------- MODULE AuditLogProofs ---------------------------
(***************************************************************************)
(* Proofs about AuditLog for every number of calls, processes and retries. *)
(*                                                                         *)
(* The chain is intact because a row is only ever inserted right after the *)
(* last one, whose hash it carries: ReadyInv says what a call that has     *)
(* read the last row knows, and that no other call can make it wrong, only *)
(* out of date, which the primary key then catches.                        *)
(***************************************************************************)
EXTENDS AuditLog, FiniteSetTheorems, SequenceTheorems, TLAPS

USE AuditAssumption

Hash == Seq(Sequences1 \X Writers)

(* The table has no gap. *)
NoGap == \E n \in Nat : n <= MaxRows /\ Filled = 1..n

(* A call about to insert goes after a row it has read, and has its hash. *)
ReadyInv ==
    \A w \in Writers :
        pc[w] = "ready" =>
            /\ sequence[w] # 0
            /\ sequence[w] - 1 \in Filled \cup {0}
            /\ prev[w] = EntryHash(sequence[w] - 1)

(* A call that goes on has an attempt left. *)
AttemptsLeft ==
    \A w \in Writers : pc[w] \notin {"returned", "raised"} => attempt[w] < Retries

ChainInv ==
    /\ TypeOK
    /\ AttemptsLeft
    /\ NoGap
    /\ ReadyInv
    /\ ChainIntact

-----------------------------------------------------------------------------
LEMMA HashType ==
    ASSUME NEW n \in Sequences1, NEW h \in Hash, NEW w \in Writers
    PROVE  RecordHash(n, h, w) \in Hash
BY AppendProperties DEF RecordHash, Hash

LEMMA EntryHashType ==
    ASSUME TypeOK, NEW n \in Sequences1 \cup {0}
    PROVE  EntryHash(n) \in Hash
<1>1. Vacant.entry \in Hash /\ <<>> \in Hash
  BY EmptySeq DEF Vacant, Hash
<1>2. CASE n = 0
  BY <1>1, <1>2 DEF EntryHash
<1>3. CASE n # 0
  <2>1. rows[n] \in Row \cup {Vacant}
    BY <1>3 DEF TypeOK
  <2>2. rows[n].entry \in Hash
    BY <1>1, <2>1 DEF Row, Hash
  <2>3. QED
    BY <1>3, <2>2 DEF EntryHash
<1>4. QED
  BY <1>2, <1>3

(* An insertion fills its row and leaves the others. *)
LEMMA InsertEffect ==
    ASSUME TypeOK, NEW w \in Writers, Insert(w), ReadyInv, pc[w] = "ready"
    PROVE  /\ sequence[w] \in Sequences1 \ Filled
           /\ rows' \in [Sequences1 -> Row \cup {Vacant}]
           /\ \A i \in Sequences1 : i # sequence[w] => rows'[i] = rows[i]
           /\ rows'[sequence[w]].prev = prev[w]
           /\ rows'[sequence[w]].event = w
           /\ rows'[sequence[w]].entry = RecordHash(sequence[w], prev[w], w)
           /\ Filled' = Filled \cup {sequence[w]}
<1> DEFINE n == sequence[w]
           new == [prev |-> prev[w], event |-> w, entry |-> RecordHash(n, prev[w], w)]
<1>1. n \in Sequences1 \ Filled /\ rows' = [rows EXCEPT ![n] = new]
  BY DEF Insert
<1>2. prev[w] \in Hash
  BY DEF TypeOK, Hash
<1>3. RecordHash(n, prev[w], w) \in Hash
  BY <1>1, <1>2, HashType
<1>4. new \in Row
  BY <1>2, <1>3 DEF Row, Hash
<1>5. new # Vacant
  <2>1. Len(new.entry) = Len(prev[w]) + 1 /\ Len(prev[w]) \in Nat
    BY <1>2, AppendProperties DEF RecordHash, Hash
  <2>2. Len(Vacant.entry) = 0
    BY DEF Vacant
  <2>3. QED
    BY <2>1, <2>2
<1>6. /\ rows' \in [Sequences1 -> Row \cup {Vacant}]
      /\ rows'[n] = new
      /\ \A i \in Sequences1 : i # n => rows'[i] = rows[i]
  BY <1>1, <1>4 DEF TypeOK
<1>7. Filled' = Filled \cup {n}
  BY <1>1, <1>5, <1>6 DEF Filled
<1>8. QED
  BY <1>1, <1>6, <1>7

-----------------------------------------------------------------------------
LEMMA ChainInit == Init => ChainInv
<1> SUFFICES ASSUME Init PROVE ChainInv
  OBVIOUS
<1>1. Filled = {}
  BY DEF Init, Filled
<1>2. <<>> \in Seq(Sequences1 \X Writers)
  BY EmptySeq
<1>3. TypeOK
  BY <1>2 DEF Init, TypeOK, Stages
<1>4. NoGap
  BY <1>1 DEF NoGap
<1>5. ReadyInv /\ ChainIntact /\ AttemptsLeft
  BY <1>1 DEF Init, ReadyInv, ChainIntact, AttemptsLeft
<1>6. QED
  BY <1>3, <1>4, <1>5 DEF ChainInv

LEMMA TypeStep == TypeOK /\ AttemptsLeft /\ ReadyInv /\ [Next]_vars => TypeOK'
<1> SUFFICES ASSUME TypeOK, AttemptsLeft, ReadyInv, [Next]_vars PROVE TypeOK'
  OBVIOUS
<1> DEFINE Locals == /\ pc' \in [Writers -> Stages]
                     /\ attempt' \in [Writers -> 0..Retries]
                     /\ sequence' \in [Writers -> Nat]
                     /\ prev' \in [Writers -> Hash]
                     /\ begun' \in [Writers -> Nat]
                     /\ refused' \in [Writers -> BOOLEAN]
           Table == rows' \in [Sequences1 -> Row \cup {Vacant}]
<1>1. ASSUME NEW w \in Writers, Call(w) PROVE Locals /\ Table
  <2>1. Cardinality(Filled) \in Nat
    <3>1. IsFiniteSet(Sequences1)
      BY FS_Interval DEF Sequences1
    <3>2. Filled \subseteq Sequences1
      BY DEF Filled
    <3>3. QED
      BY <3>1, <3>2, FS_Subset, FS_CardinalityType
  <2>2. begun' \in [Writers -> Nat]
    BY <1>1, <2>1 DEF Call, TypeOK
  <2>3. QED
    BY <1>1, <2>2 DEF Call, Goto, TypeOK, Stages, Hash
<1>2. ASSUME NEW w \in Writers, Lock(w) PROVE Locals /\ Table
  BY <1>2 DEF Lock, Goto, TypeOK, Stages, Hash, locals
<1>3. ASSUME NEW w \in Writers, ReadLast(w) PROVE Locals /\ Table
  <2>1. PICK n \in {0} \cup Sequences1 :
            /\ sequence' = [sequence EXCEPT ![w] = n + 1]
            /\ prev' = [prev EXCEPT ![w] = EntryHash(n)]
    BY <1>3 DEF ReadLast
  <2>2. n + 1 \in Nat /\ EntryHash(n) \in Hash
    BY EntryHashType DEF Sequences1
  <2>3. sequence' \in [Writers -> Nat] /\ prev' \in [Writers -> Hash]
    BY <2>1, <2>2 DEF TypeOK, Hash
  <2>4. QED
    BY <1>3, <2>3 DEF ReadLast, Goto, TypeOK, Stages
<1>4. ASSUME NEW w \in Writers, Return(w) PROVE Locals /\ Table
  <2>1. Table
    BY <1>4, InsertEffect DEF Return
  <2>2. QED
    BY <1>4, <2>1 DEF Return, Goto, TypeOK, Stages, Hash, locals
<1>5. ASSUME NEW w \in Writers, Retry(w), pc[w] \in {"locked", "ready"}
      PROVE  attempt' \in [Writers -> 0..Retries] /\ pc' \in [Writers -> Stages]
  <2>1. attempt[w] \in 0..Retries /\ attempt[w] < Retries
    BY <1>5 DEF TypeOK, AttemptsLeft
  <2>2. attempt[w] + 1 \in 0..Retries
    BY <2>1
  <2>3. QED
    BY <1>5, <2>2 DEF Retry, Goto, TypeOK, Stages
<1>6. ASSUME NEW w \in Writers, Conflict(w) PROVE Locals /\ Table
  BY <1>5, <1>6 DEF Conflict, TypeOK, Hash, locals
<1>7. ASSUME NEW w \in Writers, Refuse(w) PROVE Locals /\ Table
  <2>1. Table
    BY <1>7, InsertEffect DEF Refuse, TypeOK
  <2>2. QED
    BY <1>5, <1>7, <2>1 DEF Refuse, HoldsLock, TypeOK, Hash
<1>8. ASSUME NEW w \in Writers, Crash(w) PROVE Locals /\ Table
  BY <1>8 DEF Crash, TypeOK, Stages, Hash
<1>9. CASE UNCHANGED vars
  BY <1>9 DEF vars, locals, TypeOK
<1>10. CASE Next
  BY <1>1, <1>2, <1>3, <1>4, <1>6, <1>7, <1>8, <1>10 DEF Next, Step, TypeOK, Hash
<1>11. QED
  BY <1>9, <1>10

LEMMA AttemptsStep == TypeOK /\ AttemptsLeft /\ [Next]_vars => AttemptsLeft'
<1> SUFFICES ASSUME TypeOK, AttemptsLeft, [Next]_vars PROVE AttemptsLeft'
  OBVIOUS
<1> USE DEF TypeOK, AttemptsLeft
<1>1. ASSUME NEW w \in Writers, Retry(w), pc[w] \in {"locked", "ready"} PROVE AttemptsLeft'
  <2>1. attempt[w] \in 0..Retries /\ attempt[w] < Retries
    BY <1>1
  <2>2. \A v \in Writers \ {w} : pc'[v] = pc[v] /\ attempt'[v] = attempt[v]
    BY <1>1 DEF Retry, Goto
  <2>3. /\ attempt'[w] = attempt[w] + 1
        /\ pc'[w] = IF attempt[w] + 1 = Retries THEN "raised" ELSE "waiting"
    BY <1>1 DEF Retry, Goto
  <2>4. pc'[w] # "raised" => attempt'[w] < Retries
    <3> HIDE DEF TypeOK, AttemptsLeft
    <3> QED
      BY <2>1, <2>3
  <2>5. QED
    BY <2>2, <2>4
<1>2. ASSUME NEW w \in Writers, Call(w) \/ Lock(w) \/ ReadLast(w) \/ Return(w)
      PROVE  AttemptsLeft'
  BY <1>2 DEF Call, Lock, ReadLast, Return, Goto, locals
<1>3. ASSUME NEW w \in Writers, Crash(w) PROVE AttemptsLeft'
  BY <1>3 DEF Crash
<1>4. CASE UNCHANGED vars
  BY <1>4 DEF vars
<1>5. CASE Next
  BY <1>1, <1>2, <1>3, <1>5 DEF Next, Step, Conflict, Refuse, HoldsLock
<1>6. QED
  BY <1>4, <1>5

-----------------------------------------------------------------------------
(* A step that leaves the table alone and gives no call a stale view.       *)
LEMMA QuietStep ==
    ASSUME ChainInv, rows' = rows,
           \A w \in Writers : pc'[w] = "ready" =>
               /\ sequence'[w] # 0
               /\ sequence'[w] - 1 \in Filled \cup {0}
               /\ prev'[w] = EntryHash(sequence'[w] - 1)
    PROVE  NoGap' /\ ReadyInv' /\ ChainIntact'
<1>1. Filled' = Filled /\ \A n : EntryHash(n)' = EntryHash(n)
  BY DEF Filled, EntryHash
<1>2. NoGap' /\ ReadyInv'
  BY <1>1 DEF ChainInv, NoGap, ReadyInv
<1>3. ChainIntact'
  BY <1>1 DEF ChainInv, ChainIntact, Intact
<1>4. QED
  BY <1>2, <1>3

(* An insertion extends the chain by one row, after which the call is over  *)
(* or starts again.                                                         *)
LEMMA InsertStep ==
    ASSUME ChainInv, NEW w \in Writers, Insert(w), pc[w] = "ready", pc'[w] # "ready",
           \A v \in Writers : pc'[v] = "ready" => pc[v] = "ready",
           sequence' = sequence, prev' = prev
    PROVE  NoGap' /\ ReadyInv' /\ ChainIntact' /\ (\E n \in Nat : Filled = 1..n /\ sequence[w] = n + 1)
<1> DEFINE n == sequence[w]
<1>1. TypeOK /\ NoGap /\ ReadyInv /\ ChainIntact
  BY DEF ChainInv
<1>2. /\ n \in Sequences1 \ Filled
      /\ \A i \in Sequences1 : i # n => rows'[i] = rows[i]
      /\ rows'[n].prev = prev[w]
      /\ rows'[n].event = w
      /\ rows'[n].entry = RecordHash(n, prev[w], w)
      /\ Filled' = Filled \cup {n}
  BY <1>1, InsertEffect
<1>3. PICK m \in Nat : m <= MaxRows /\ Filled = 1..m
  BY <1>1 DEF NoGap
<1>4. n = m + 1
  <2>1. n \in 1..MaxRows /\ n \notin 1..m /\ n - 1 \in (1..m) \cup {0}
    BY <1>1, <1>2, <1>3 DEF ReadyInv, Sequences1
  <2>2. QED
    BY <2>1
<1>5. NoGap'
  <2>1. Filled' = 1..(m + 1) /\ m + 1 <= MaxRows
    BY <1>2, <1>3, <1>4 DEF Sequences1
  <2>2. QED
    BY <2>1 DEF NoGap
<1>6. \A i \in Filled \cup {0} : EntryHash(i)' = EntryHash(i)
  <2>1. \A i \in Filled : i # 0 /\ i # n /\ i \in Sequences1
    BY <1>2, <1>3 DEF Filled
  <2>2. QED
    BY <1>2, <2>1 DEF EntryHash
<1>7. ReadyInv'
  BY <1>1, <1>2, <1>6 DEF ReadyInv
<1>8. ChainIntact'
  <2>1. SUFFICES ASSUME NEW i \in Filled' PROVE Intact(i)'
    BY DEF ChainIntact
  <2>2. CASE i = n
    <3>1. n > 1 => n - 1 \in Filled
      BY <1>3, <1>4
    <3>2. prev[w] = EntryHash(n - 1) /\ n - 1 \in Filled \cup {0}
      BY <1>1 DEF ReadyInv
    <3>3. prev[w] = EntryHash(n - 1)'
      BY <1>6, <3>2
    <3>4. QED
      BY <1>2, <2>2, <3>1, <3>3 DEF Intact, RecordHash
  <2>3. CASE i # n
    <3>1. i \in Filled /\ i \in Sequences1
      BY <1>2, <2>3 DEF Filled
    <3>2. Intact(i) /\ rows'[i] = rows[i]
      BY <1>1, <1>2, <2>3, <3>1 DEF ChainIntact
    <3>3. i - 1 \in Filled \cup {0}
      BY <1>3, <3>1
    <3>4. EntryHash(i - 1)' = EntryHash(i - 1)
      BY <1>6, <3>3
    <3>5. QED
      BY <1>2, <3>2, <3>4 DEF Intact, RecordHash
  <2>4. QED
    BY <2>2, <2>3
<1>9. QED
  BY <1>3, <1>4, <1>5, <1>7, <1>8

(* The read gives the last row of a table without gaps. *)
LEMMA ReadLastEffect ==
    ASSUME TypeOK, NoGap, NEW w \in Writers, ReadLast(w)
    PROVE  \E n \in Nat : /\ Filled = 1..n
                          /\ sequence' = [sequence EXCEPT ![w] = n + 1]
                          /\ prev' = [prev EXCEPT ![w] = EntryHash(n)]
<1>1. PICK n \in {0} \cup Sequences1 :
          /\ IsLast(n)
          /\ sequence' = [sequence EXCEPT ![w] = n + 1]
          /\ prev' = [prev EXCEPT ![w] = EntryHash(n)]
  BY DEF ReadLast
<1>2. PICK m \in Nat : Filled = 1..m
  BY DEF NoGap
<1>3. n \in Nat /\ n \in (1..m) \cup {0} /\ \A i \in 1..m : i <= n
  BY <1>1, <1>2 DEF IsLast, Sequences1
<1>4. n = m
  <2>1. CASE m = 0
    BY <1>3, <2>1
  <2>2. CASE m # 0
    <3>1. m \in 1..m
      BY <2>2
    <3>2. QED
      BY <1>3, <3>1
  <2>3. QED
    BY <2>1, <2>2
<1>5. QED
  BY <1>1, <1>2, <1>4

LEMMA ChainStep == ChainInv /\ [Next]_vars => ChainInv'
<1> SUFFICES ASSUME ChainInv, [Next]_vars PROVE ChainInv'
  OBVIOUS
<1>0. TypeOK /\ NoGap /\ ReadyInv /\ TypeOK' /\ AttemptsLeft'
  BY TypeStep, AttemptsStep DEF ChainInv
<1> DEFINE Rest == NoGap' /\ ReadyInv' /\ ChainIntact'
<1>1. ASSUME NEW w \in Writers, Call(w) \/ Lock(w) \/ Conflict(w) PROVE Rest
  <2>1. rows' = rows /\ sequence' = sequence /\ prev' = prev
    BY <1>1 DEF Call, Lock, Conflict, locals
  <2>2. \A v \in Writers : pc'[v] = "ready" => pc[v] = "ready"
    BY <1>0, <1>1 DEF Call, Lock, Conflict, Retry, Goto, TypeOK
  <2>3. QED
    BY <1>0, <2>1, <2>2, QuietStep DEF ReadyInv
<1>2. ASSUME NEW w \in Writers, ReadLast(w) PROVE Rest
  <2>1. PICK n \in Nat : /\ Filled = 1..n
                         /\ sequence' = [sequence EXCEPT ![w] = n + 1]
                         /\ prev' = [prev EXCEPT ![w] = EntryHash(n)]
    BY <1>0, <1>2, ReadLastEffect
  <2>2. sequence'[w] = n + 1 /\ prev'[w] = EntryHash(n) /\ rows' = rows
    BY <1>0, <1>2, <2>1 DEF TypeOK, ReadLast
  <2>3. \A v \in Writers \ {w} : /\ pc'[v] = pc[v]
                                 /\ sequence'[v] = sequence[v] /\ prev'[v] = prev[v]
    BY <1>0, <1>2, <2>1 DEF TypeOK, ReadLast, Goto
  <2>4. n + 1 # 0 /\ (n + 1) - 1 = n /\ n \in Filled \cup {0}
    BY <2>1
  <2>5. QED
    BY <1>0, <2>2, <2>3, <2>4, QuietStep DEF ReadyInv
<1>3. ASSUME NEW w \in Writers, Return(w) PROVE Rest
  <2>1. pc'[w] # "ready" /\ \A v \in Writers : pc'[v] = "ready" => pc[v] = "ready"
    BY <1>0, <1>3 DEF Return, Goto, TypeOK
  <2>2. QED
    BY <1>3, <2>1, InsertStep DEF Return, locals
<1>4. ASSUME NEW w \in Writers, Refuse(w) PROVE Rest
  <2>1. /\ pc'[w] # "ready"
        /\ \A v \in Writers : pc'[v] = "ready" => pc[v] = "ready"
        /\ sequence' = sequence /\ prev' = prev
    BY <1>0, <1>4 DEF Refuse, Retry, Goto, TypeOK
  <2>2. CASE rows' = rows
    BY <1>0, <2>1, <2>2, QuietStep DEF ReadyInv
  <2>3. CASE pc[w] = "ready" /\ Insert(w)
    BY <2>1, <2>3, InsertStep
  <2>4. QED
    BY <1>4, <2>2, <2>3 DEF Refuse
<1>5. ASSUME NEW w \in Writers, Crash(w) PROVE Rest
  <2>1. rows' = rows /\ sequence' = sequence /\ prev' = prev
    BY <1>5 DEF Crash
  <2>2. \A v \in Writers : pc'[v] = "ready" => pc[v] = "ready"
    BY <1>0, <1>5 DEF Crash, TypeOK
  <2>3. QED
    BY <1>0, <2>1, <2>2, QuietStep DEF ReadyInv
<1>6. ASSUME UNCHANGED vars PROVE Rest
  <2>1. rows' = rows /\ pc' = pc /\ sequence' = sequence /\ prev' = prev
    BY <1>6 DEF vars, locals
  <2>2. QED
    BY <1>0, <2>1, QuietStep DEF ReadyInv
<1>7. ASSUME Next PROVE Rest
  BY <1>1, <1>2, <1>3, <1>4, <1>5, <1>7 DEF Next, Step
<1>8. QED
  BY <1>0, <1>6, <1>7 DEF ChainInv

-----------------------------------------------------------------------------
LEMMA ChainInvariant == Spec => []ChainInv
BY ChainInit, ChainStep, PTL DEF Spec

(* Every reachable state of the audit log has its declared shape.           *)
THEOREM TypeCorrect == Spec => []TypeOK
<1>1. ChainInv => TypeOK
  BY DEF ChainInv
<1>2. QED
  BY <1>1, ChainInvariant, PTL

(* verify_event_log finds no issue, whatever appends, fails or crashes.     *)
THEOREM LogAlwaysVerifies == Spec => []ChainIntact
<1>1. ChainInv => ChainIntact
  BY DEF ChainInv
<1>2. QED
  BY <1>1, ChainInvariant, PTL

-----------------------------------------------------------------------------
(* Why giving up shows progress: each attempt lost without a database error *)
(* was lost to a row inserted since the call last read the table.           *)
ProgressInv ==
    \A w \in Writers :
        /\ pc[w] = "new" => attempt[w] = 0
        /\ (~refused[w] /\ pc[w] = "raised") => attempt[w] = Retries
        /\ (~refused[w] /\ pc[w] # "new") => begun[w] + attempt[w] <= Cardinality(Filled)
        /\ (~refused[w] /\ pc[w] = "ready") => begun[w] + attempt[w] < sequence[w]

LEMMA Size ==
    ASSUME NEW n \in Nat, Filled = 1..n
    PROVE  Cardinality(Filled) = n
BY FS_Interval

(* The table never shrinks. *)
LEMMA SizeStep ==
    ASSUME ChainInv, [Next]_vars
    PROVE  /\ Cardinality(Filled) \in Nat /\ Cardinality(Filled)' \in Nat
           /\ Cardinality(Filled) <= Cardinality(Filled)'
<1>1. PICK m \in Nat : Filled = 1..m
  BY DEF ChainInv, NoGap
<1>2. PICK n \in Nat : Filled' = 1..n
  BY ChainStep DEF ChainInv, NoGap
<1>3. Filled \subseteq Filled'
  <2>1. CASE rows' = rows
    BY <2>1 DEF Filled
  <2>2. CASE \E w \in Writers : pc[w] = "ready" /\ Insert(w)
    BY <2>2, InsertEffect DEF ChainInv
  <2>3. QED
    BY <2>1, <2>2 DEF Next, Step, Call, Lock, ReadLast, Return, Conflict, Refuse, Crash, vars
<1>4. m <= n
  <2>1. CASE m = 0
    BY <2>1
  <2>2. CASE m # 0
    <3>1. m \in 1..m
      BY <2>2
    <3>2. QED
      BY <1>1, <1>2, <1>3, <3>1
  <2>3. QED
    BY <2>1, <2>2
<1>5. Cardinality(Filled) = m
  BY <1>1, Size
<1>6. Cardinality(Filled)' = n
  BY <1>2, FS_Interval
<1>7. QED
  BY <1>4, <1>5, <1>6

LEMMA ProgressStep == ChainInv /\ ProgressInv /\ [Next]_vars => ProgressInv'
<1> SUFFICES ASSUME ChainInv, ProgressInv, [Next]_vars PROVE ProgressInv'
  OBVIOUS
<1> DEFINE size == Cardinality(Filled)
           Keeps(w) == /\ pc'[w] = pc[w] /\ attempt'[w] = attempt[w]
                       /\ begun'[w] = begun[w] /\ sequence'[w] = sequence[w]
                       /\ refused'[w] = refused[w]
           Good(w) == /\ pc'[w] = "new" => attempt'[w] = 0
                      /\ (~refused'[w] /\ pc'[w] = "raised") => attempt'[w] = Retries
                      /\ (~refused'[w] /\ pc'[w] # "new") => begun'[w] + attempt'[w] <= size'
                      /\ (~refused'[w] /\ pc'[w] = "ready") => begun'[w] + attempt'[w] < sequence'[w]
<1>0. TypeOK
  BY DEF ChainInv
<1>1. size \in Nat /\ size' \in Nat /\ size <= size'
  BY SizeStep
<1>2. \A w \in Writers : begun[w] \in Nat /\ attempt[w] \in Nat /\ sequence[w] \in Nat
  BY <1>0 DEF TypeOK
<1> HIDE DEF size
<1>3. ASSUME NEW w \in Writers, Keeps(w) PROVE Good(w)
  BY <1>1, <1>2, <1>3 DEF ProgressInv, size
<1>4. ASSUME NEW w \in Writers, Call(w) PROVE Good(w)
  <2>1. pc'[w] = "waiting" /\ begun'[w] = size /\ attempt'[w] = 0
    BY <1>0, <1>4 DEF Call, Goto, TypeOK, ProgressInv, size
  <2>2. QED
    BY <1>1, <2>1
<1>5. ASSUME NEW w \in Writers, Lock(w) PROVE Good(w)
  <2>1. /\ pc[w] = "waiting" /\ pc'[w] = "locked"
        /\ attempt' = attempt /\ begun' = begun /\ refused' = refused
    BY <1>0, <1>5 DEF Lock, Goto, TypeOK, locals
  <2>2. QED
    BY <1>1, <1>2, <2>1 DEF ProgressInv, size
<1>6. ASSUME NEW w \in Writers, ReadLast(w) PROVE Good(w)
  <2>1. PICK n \in Nat : Filled = 1..n /\ sequence' = [sequence EXCEPT ![w] = n + 1]
    BY <1>0, <1>6, ReadLastEffect DEF ChainInv
  <2>2. size = n
    BY <2>1, Size DEF size
  <2>3. /\ pc[w] = "locked" /\ pc'[w] = "ready" /\ sequence'[w] = n + 1
        /\ attempt' = attempt /\ begun' = begun /\ refused' = refused
    BY <1>0, <1>6, <2>1 DEF ReadLast, Goto, TypeOK
  <2>4. ~refused[w] => begun[w] + attempt[w] <= size
    BY <2>3 DEF ProgressInv, size
  <2>5. QED
    BY <1>1, <1>2, <2>2, <2>3, <2>4
<1>7. ASSUME NEW w \in Writers, Return(w) PROVE Good(w)
  <2>1. /\ pc[w] = "ready" /\ pc'[w] = "returned"
        /\ attempt' = attempt /\ begun' = begun /\ refused' = refused
    BY <1>0, <1>7 DEF Return, Goto, TypeOK, locals
  <2>2. ~refused[w] => begun[w] + attempt[w] <= size
    BY <2>1 DEF ProgressInv, size
  <2>3. QED
    BY <1>1, <1>2, <2>1, <2>2
<1>8. ASSUME NEW w \in Writers, Conflict(w) PROVE Good(w)
  <2>1. PICK n \in Nat : Filled = 1..n
    BY DEF ChainInv, NoGap
  <2>2. size = n /\ sequence[w] \in 1..n
    BY <1>8, <2>1, Size DEF Conflict, size
  <2>3. /\ pc[w] = "ready" /\ attempt'[w] = attempt[w] + 1
        /\ pc'[w] = IF attempt[w] + 1 = Retries THEN "raised" ELSE "waiting"
        /\ begun' = begun /\ refused' = refused
    BY <1>0, <1>8 DEF Conflict, Retry, Goto, TypeOK, locals
  <2>4. ~refused[w] => begun[w] + attempt[w] < sequence[w]
    BY <2>3 DEF ProgressInv
  <2>5. ~refused'[w] => begun'[w] + attempt'[w] <= size'
    BY <1>1, <1>2, <2>2, <2>3, <2>4
  <2>6. QED
    BY <2>3, <2>5
<1>9. ASSUME NEW w \in Writers, Refuse(w) PROVE Good(w)
  <2>1. refused'[w] /\ pc'[w] \in {"raised", "waiting"}
    BY <1>0, <1>9 DEF Refuse, Retry, Goto, TypeOK
  <2>2. QED
    BY <2>1
<1>10. ASSUME NEW w \in Writers, Crash(w), NEW v \in Writers PROVE Good(v)
  <2>1. /\ attempt' = attempt /\ begun' = begun /\ sequence' = sequence
        /\ \/ pc'[v] = pc[v] /\ refused'[v] = refused[v]
           \/ pc'[v] = "raised" /\ refused'[v]
    BY <1>0, <1>10, Zenon DEF Crash, TypeOK
  <2>2. QED
    BY <1>1, <1>2, <2>1 DEF ProgressInv, size
<1>11. ASSUME NEW w \in Writers, Call(w) \/ Step(w) \/ Refuse(w)
       PROVE  \A v \in Writers \ {w} : Keeps(v)
  BY <1>0, <1>11 DEF Call, Step, Lock, ReadLast, Return, Conflict, Refuse, Retry, Goto, locals, TypeOK
<1>12. CASE UNCHANGED vars
  <2>1. \A v \in Writers : Keeps(v)
    BY <1>12 DEF vars, locals
  <2>2. \A v \in Writers : Good(v)
    BY <1>3, <2>1
  <2>3. QED
    BY <2>2 DEF ProgressInv, size
<1>13. CASE Next
  <2>1. \A v \in Writers : Good(v)
    BY <1>3, <1>4, <1>5, <1>6, <1>7, <1>8, <1>9, <1>10, <1>11, <1>13 DEF Next, Step
  <2>2. QED
    BY <2>1 DEF ProgressInv, size
<1>14. QED
  BY <1>12, <1>13

(* Appenders never only block each other: a call that gives up without a    *)
(* database error has seen as many events recorded as it had attempts.      *)
THEOREM ContentionIsProgress == Spec => []GivesUpOnlyToProgress
<1>1. Init => ProgressInv
  BY DEF Init, ProgressInv
<1>2. Spec => []ProgressInv
  BY <1>1, ChainInvariant, ProgressStep, PTL DEF Spec
<1>3. ASSUME ProgressInv PROVE GivesUpOnlyToProgress
  BY <1>3 DEF ProgressInv, GivesUpOnlyToProgress
<1>4. QED
  BY <1>2, <1>3, PTL

-----------------------------------------------------------------------------
(* The log, as KeepsPromise reads it.                                       *)
Log == [i \in 1..Cardinality(Filled) |-> rows[i].event]

LEMMA IntervalLength ==
    ASSUME NEW m \in Nat, NEW n \in Nat, 1..m = 1..n
    PROVE  m = n
<1>1. Cardinality(1..m) = m /\ Cardinality(1..n) = n
  BY FS_Interval
<1>2. QED
  BY <1>1

LEMMA LogType ==
    ASSUME TypeOK, NEW n \in Nat, Filled = 1..n
    PROVE  /\ Log = [i \in 1..n |-> rows[i].event]
           /\ Log \in Seq(Writers)
           /\ Len(Log) = n
<1>1. Log = [i \in 1..n |-> rows[i].event]
  BY Size DEF Log
<1>2. ASSUME NEW i \in 1..n PROVE rows[i].event \in Writers
  <2>1. i \in Sequences1 /\ rows[i] # Vacant
    BY <1>2 DEF Filled
  <2>2. rows[i] \in Row
    BY <2>1 DEF TypeOK
  <2>3. QED
    BY <2>2 DEF Row
<1>3. Log \in [1..n -> Writers]
  BY <1>1, <1>2
<1>4. Log \in Seq(Writers)
  BY <1>3, SeqDef
<1>5. Len(Log) = n
  <2>1. Len(Log) \in Nat /\ DOMAIN Log = 1..Len(Log)
    BY <1>4, LenProperties
  <2>2. DOMAIN Log = 1..n
    BY <1>3
  <2>3. 1..Len(Log) = 1..n
    BY <2>1, <2>2
  <2>4. QED
    BY <2>1, <2>3, IntervalLength
<1>6. QED
  BY <1>1, <1>4, <1>5

(* An inserted row is an event at the end of the log. *)
LEMMA InsertAppends ==
    ASSUME ChainInv, ChainInv', NEW w \in Writers, Insert(w), pc[w] = "ready"
    PROVE  Log' = Append(Log, w)
<1>1. /\ sequence[w] \in Sequences1 \ Filled
      /\ \A i \in Sequences1 : i # sequence[w] => rows'[i] = rows[i]
      /\ rows'[sequence[w]].event = w
      /\ Filled' = Filled \cup {sequence[w]}
  BY InsertEffect DEF ChainInv
<1>2. PICK n \in Nat : Filled = 1..n
  BY DEF ChainInv, NoGap
<1>3. PICK m \in Nat : Filled' = 1..m
  BY DEF ChainInv, NoGap
<1>4. sequence[w] = n + 1
  <2>1. sequence[w] \in Nat /\ sequence[w] # 0 /\ sequence[w] - 1 \in (1..n) \cup {0}
    BY <1>1, <1>2 DEF ChainInv, ReadyInv, Sequences1
  <2>2. sequence[w] \notin 1..n
    BY <1>1, <1>2
  <2>3. QED
    BY <2>1, <2>2
<1>5. m = n + 1
  <2>1. 1..m = 1..(n + 1)
    BY <1>1, <1>2, <1>3, <1>4
  <2>2. QED
    BY <2>1
<1>6. Log = [i \in 1..n |-> rows[i].event] /\ Log \in Seq(Writers) /\ Len(Log) = n
  BY <1>2, LogType DEF ChainInv
<1>7. Log' = [i \in 1..(n + 1) |-> rows'[i].event]
  <2>1. Cardinality(Filled)' = n + 1
    BY <1>3, <1>5, FS_Interval
  <2>2. QED
    BY <2>1 DEF Log
<1>8. Log' \in Seq(Writers) /\ Len(Log') = n + 1
  <2>1. \A i \in 1..n : rows'[i].event = Log[i] /\ Log[i] \in Writers
    <3>1. \A i \in 1..n : i \in Sequences1 /\ i # sequence[w]
      BY <1>1, <1>2, <1>4 DEF Filled
    <3>2. QED
      BY <1>1, <1>6, <3>1, ElementOfSeq
  <2>2. rows'[n + 1].event \in Writers
    BY <1>1, <1>4
  <2>3. Log' \in [1..(n + 1) -> Writers]
    BY <1>7, <2>1, <2>2
  <2>4. Log' \in Seq(Writers) /\ n + 1 \in Nat
    BY <2>3, SeqDef
  <2>5. Len(Log') \in Nat /\ DOMAIN Log' = 1..Len(Log')
    BY <2>4, LenProperties
  <2>6. DOMAIN Log' = 1..(n + 1)
    BY <2>3
  <2>7. 1..Len(Log') = 1..(n + 1)
    BY <2>5, <2>6
  <2>8. QED
    BY <2>4, <2>5, <2>7, IntervalLength
<1>9. ASSUME NEW i \in 1..(n + 1) PROVE Log'[i] = Append(Log, w)[i]
  <2>1. CASE i = n + 1
    BY <1>1, <1>4, <1>6, <1>7, <2>1, AppendProperties
  <2>2. CASE i # n + 1
    <3>1. i \in 1..n /\ i \in Sequences1 /\ i # sequence[w]
      BY <1>2, <1>4, <1>9, <2>2 DEF Filled
    <3>2. Log'[i] = Log[i]
      BY <1>1, <1>6, <1>7, <3>1
    <3>3. Append(Log, w)[i] = Log[i]
      BY <1>6, <3>1, AppendProperties
    <3>4. QED
      BY <3>2, <3>3
  <2>3. QED
    BY <2>1, <2>2
<1>10. Append(Log, w) \in Seq(Writers) /\ Len(Append(Log, w)) = n + 1
  BY <1>6, AppendProperties
<1>11. QED
  BY <1>8, <1>9, <1>10, SeqEqual

LEMMA PromiseInit == Init => Promise!Init
<1> SUFFICES ASSUME Init PROVE Promise!Init
  OBVIOUS
<1>1. Filled = {}
  BY DEF Init, Filled
<1>2. Log = <<>>
  <2>1. Cardinality(Filled) = 0
    BY <1>1, FS_EmptySet
  <2>2. QED
    BY <2>1 DEF Log
<1>3. Outcome = [w \in Writers |-> "open"]
  BY DEF Init, Outcome
<1>4. QED
  BY <1>2, <1>3 DEF Promise!Init, Log, Outcome

LEMMA OutcomeType ==
    ASSUME TypeOK
    PROVE  /\ Outcome \in [Writers -> Promise!Outcomes]
           /\ \A w \in Writers : Promise!UnderWay(w) <=> pc[w] \notin {"returned", "raised"}
BY DEF Outcome, Promise!Outcomes, Promise!UnderWay, TypeOK, Stages

(* A step that records nothing, and may end calls that are under way. *)
LEMMA EndsCalls ==
    ASSUME TypeOK, TypeOK', rows' = rows,
           \A w \in Writers :
               \/ pc'[w] = pc[w] /\ refused'[w] = refused[w]
               \/ /\ pc[w] \notin {"returned", "raised"} /\ pc'[w] # "returned"
                  /\ refused[w] => refused'[w]
               \/ pc[w] = "raised" /\ pc'[w] = "raised"
    PROVE  Promise!Fail
<1>1. Log' = Log
  BY DEF Log, Filled
<1>2. Outcome' \in [Writers -> Promise!Outcomes]
  BY DEF Outcome, Promise!Outcomes, TypeOK, Stages
<1>3. ASSUME NEW w \in Writers
      PROVE  \/ Outcome'[w] = Outcome[w]
             \/ Promise!UnderWay(w) /\ Outcome'[w] \in {"unsure", "raised"}
  <2>0. pc[w] \in Stages /\ pc'[w] \in Stages /\ refused[w] \in BOOLEAN /\ refused'[w] \in BOOLEAN
    BY DEF TypeOK
  <2>1. CASE pc'[w] = pc[w] /\ refused'[w] = refused[w]
    BY <2>1 DEF Outcome
  <2>2. CASE /\ pc[w] \notin {"returned", "raised"} /\ pc'[w] # "returned"
             /\ refused[w] => refused'[w]
    <3>1. Outcome[w] = IF refused[w] THEN "unsure" ELSE "open"
      BY <2>2 DEF Outcome
    <3>2. Outcome'[w] = IF pc'[w] = "raised" THEN "raised"
                        ELSE IF refused'[w] THEN "unsure" ELSE "open"
      BY <2>2 DEF Outcome
    <3> QED BY <2>0, <2>2, <3>1, <3>2 DEF Promise!UnderWay
  <2>3. CASE pc[w] = "raised" /\ pc'[w] = "raised"
    BY <2>3 DEF Outcome
  <2> QED BY <1>3, <2>1, <2>2, <2>3
<1>4. QED
  BY <1>1, <1>2, <1>3 DEF Promise!Fail, Log

(* An insert, whether or not its call is told of it. *)
LEMMA RecordsEvent ==
    ASSUME ChainInv, ChainInv', NEW w \in Writers, pc[w] = "ready", Insert(w),
           NEW stage \in {"returned", "raised", "waiting"}, Goto(w, stage),
           \/ refused' = refused /\ stage = "returned"
           \/ refused' = [refused EXCEPT ![w] = TRUE]
    PROVE  Promise!Record(w)
<1>1. Log' = Append(Log, w)
  BY InsertAppends
<1>2. Promise!UnderWay(w)
  BY OutcomeType DEF ChainInv
<1>3. pc \in [Writers -> Stages] /\ refused \in [Writers -> BOOLEAN]
  BY DEF ChainInv, TypeOK
<1>4. \/ Outcome' = [Outcome EXCEPT ![w] = "returned"]
      \/ Outcome' = [Outcome EXCEPT ![w] = "raised"]
      \/ Outcome' = [Outcome EXCEPT ![w] = "unsure"]
  <2>1. CASE stage = "waiting"
    BY <1>3, <2>1 DEF Goto, Outcome
  <2>2. CASE stage = "returned"
    BY <1>3, <2>2 DEF Goto, Outcome
  <2>3. CASE stage = "raised"
    BY <1>3, <2>3 DEF Goto, Outcome
  <2>4. QED
    BY <2>1, <2>2, <2>3
<1>5. \E o \in Promise!Outcomes \ {"open"} : Outcome' = [Outcome EXCEPT ![w] = o]
  BY <1>4 DEF Promise!Outcomes
<1>6. QED
  BY <1>1, <1>2, <1>5 DEF Promise!Record, Log

LEMMA PromiseStep ==
    ChainInv /\ ChainInv' /\ [Next]_vars => [Promise!Next]_<<Log, Outcome>>
<1> SUFFICES ASSUME ChainInv, ChainInv', [Next]_vars PROVE [Promise!Next]_<<Log, Outcome>>
  OBVIOUS
<1>0. TypeOK /\ TypeOK'
  BY DEF ChainInv
<1>1. Promise!Fail => Promise!Next
  BY DEF Promise!Next
<1>2. ASSUME NEW w \in Writers, Promise!Record(w) PROVE Promise!Next
  BY <1>2 DEF Promise!Next
<1>3. ASSUME NEW w \in Writers, NEW stage \in {"waiting", "locked", "ready", "raised"},
             rows' = rows, pc[w] \notin {"returned", "raised"}, Goto(w, stage),
             refused' = refused \/ refused' = [refused EXCEPT ![w] = TRUE]
      PROVE  Promise!Fail
  <2>1. /\ pc'[w] # "returned" /\ (refused[w] => refused'[w])
        /\ \A v \in Writers : v # w => pc'[v] = pc[v] /\ refused'[v] = refused[v]
    BY <1>0, <1>3 DEF Goto, TypeOK
  <2> QED BY <1>0, <1>3, <2>1, EndsCalls
<1>4. ASSUME NEW w \in Writers, Call(w) PROVE Promise!Next
  BY <1>1, <1>3, <1>4 DEF Call, locals
<1>5. ASSUME NEW w \in Writers, Lock(w) PROVE Promise!Next
  BY <1>1, <1>3, <1>5 DEF Lock, locals
<1>6. ASSUME NEW w \in Writers, ReadLast(w) PROVE Promise!Next
  BY <1>1, <1>3, <1>6 DEF ReadLast, locals
<1>7. ASSUME NEW w \in Writers, Return(w) PROVE Promise!Next
  BY <1>2, <1>7, RecordsEvent DEF Return, locals
<1>8. ASSUME NEW w \in Writers, Conflict(w) PROVE Promise!Next
  BY <1>1, <1>3, <1>8 DEF Conflict, Retry, locals
<1>9. ASSUME NEW w \in Writers, Refuse(w) PROVE Promise!Next
  <2>1. CASE rows' = rows
    BY <1>1, <1>3, <1>9, <2>1 DEF Refuse, Retry, HoldsLock
  <2>2. CASE pc[w] = "ready" /\ Insert(w)
    BY <1>2, <1>9, <2>2, RecordsEvent DEF Refuse, Retry
  <2>3. QED
    BY <1>9, <2>1, <2>2 DEF Refuse
<1>10. ASSUME NEW w \in Writers, Crash(w) PROVE Promise!Next
  <2>1. \A v \in Writers : \/ pc'[v] = pc[v] /\ refused'[v] = refused[v]
                           \/ pc[v] # "returned" /\ pc'[v] = "raised" /\ refused'[v]
    BY <1>0, <1>10 DEF Crash, TypeOK
  <2>2. rows' = rows
    BY <1>10 DEF Crash
  <2>3. QED
    BY <1>0, <1>1, <2>1, <2>2, EndsCalls
<1>11. ASSUME UNCHANGED vars PROVE UNCHANGED <<Log, Outcome>>
  BY <1>11 DEF vars, locals, Log, Outcome, Filled
<1>12. QED
  BY <1>4, <1>5, <1>6, <1>7, <1>8, <1>9, <1>10, <1>11 DEF Next, Step

(* The audit trail implements AppendOnlyLog: record_event, with all its     *)
(* retries, hidden commits and crashes, only ever appends, returns only     *)
(* when the event is in the log, and leaves the log alone after that.       *)
THEOREM TrailIsAppendOnly == Spec => KeepsPromise
<1>1. [Promise!Next]_<<Log, Outcome>> => [Promise!Next]_<<[i \in 1..Cardinality(Filled) |-> rows[i].event],
         Outcome>>
  BY DEF Log
<1>2. QED
  BY <1>1, PromiseInit, PromiseStep, ChainInvariant, PTL DEF Spec, KeepsPromise, Promise!Spec

(* What AppendOnlyLog means to those who call and read it.                  *)
THEOREM LogIsSound == Promise!Spec => []Promise!ReturnedIsRecorded /\ Promise!OnlyGrows
<1> DEFINE Typed == /\ Log \in Seq(Writers)
                    /\ Outcome \in [Writers -> Promise!Outcomes]
           Recorded(l, o) == \A e \in Writers : o[e] = "returned" =>
                                 \E i \in 1..Len(l) : l[i] = e
           Fresh(l, o) == \A e \in Writers : o[e] = "open" => \A i \in 1..Len(l) : l[i] # e
           Grown(l, m, o) == /\ Len(l) <= Len(m) /\ Len(m) <= Len(l) + 1
                             /\ \A i \in 1..Len(l) : m[i] = l[i]
                             /\ \A i \in 1..Len(m) : i > Len(l) =>
                                    \/ o[m[i]] = "unsure"
                                    \/ /\ o[m[i]] = "open"
                                       /\ \A j \in 1..Len(l) : l[j] # m[i]
           Sound == Typed /\ Recorded(Log, Outcome) /\ Fresh(Log, Outcome)
<1>1. Promise!Init => Sound
  <2> SUFFICES ASSUME Promise!Init PROVE Sound
    OBVIOUS
  <2>1. Log = <<>> /\ Outcome = [e \in Writers |-> "open"]
    BY DEF Promise!Init, Log, Outcome
  <2> HIDE DEF Sound
  <2>2. Typed /\ Recorded(Log, Outcome) /\ Fresh(Log, Outcome)
    BY <2>1, EmptySeq DEF Promise!Outcomes
  <2> QED BY <2>2 DEF Sound
<1>2. ASSUME NEW l \in Seq(Writers), NEW e \in Writers, NEW o
      PROVE  /\ Append(l, e) \in Seq(Writers) /\ Len(Append(l, e)) = Len(l) + 1 /\ Len(l) \in Nat
             /\ \A i \in 1..Len(l) : Append(l, e)[i] = l[i]
             /\ Append(l, e)[Len(l) + 1] = e
             /\ (Fresh(l, o) /\ o[e] \in {"open", "unsure"}) => Grown(l, Append(l, e), o)
  <2>1. /\ Append(l, e) \in Seq(Writers) /\ Len(Append(l, e)) = Len(l) + 1 /\ Len(l) \in Nat
        /\ \A i \in 1..Len(l) : Append(l, e)[i] = l[i]
        /\ Append(l, e)[Len(l) + 1] = e
    BY AppendProperties, LenProperties
  <2>2. \A i \in 1..Len(l) + 1 : i > Len(l) => i = Len(l) + 1
    BY <2>1
  <2> QED BY <2>1, <2>2
<1>3. Sound /\ [Promise!Next]_<<Log, Outcome>> => Sound' /\ Grown(Log, Log', Outcome)
  <2> SUFFICES ASSUME Sound, [Promise!Next]_<<Log, Outcome>>
               PROVE  Sound' /\ Grown(Log, Log', Outcome)
    OBVIOUS
  <2>0. Len(Log) \in Nat
    BY LenProperties
  <2>1. ASSUME NEW e \in Writers, Promise!Record(e)
        PROVE  Sound' /\ Grown(Log, Log', Outcome)
    <3>1. /\ Outcome[e] \in {"open", "unsure"} /\ Log' = Append(Log, e)
          /\ \E o \in Promise!Outcomes \ {"open"} : Outcome' = [Outcome EXCEPT ![e] = o]
      BY <2>1 DEF Promise!Record, Promise!UnderWay, Log
    <3>2. /\ Log' \in Seq(Writers) /\ Len(Log') = Len(Log) + 1 /\ Grown(Log, Log', Outcome)
          /\ \A i \in 1..Len(Log) : Log'[i] = Log[i]
          /\ Log'[Len(Log) + 1] = e
      BY <1>2, <3>1
    <3>3. Outcome' \in [Writers -> Promise!Outcomes] /\ Outcome'[e] # "open"
      BY <3>1
    <3>4. Recorded(Log', Outcome')
      <4> SUFFICES ASSUME NEW d \in Writers, Outcome'[d] = "returned"
                   PROVE  \E i \in 1..Len(Log') : Log'[i] = d
        OBVIOUS
      <4>1. CASE d = e
        <5>1. Len(Log) + 1 \in 1..Len(Log')
          BY <2>0, <3>2
        <5> QED BY <3>2, <4>1, <5>1
      <4>2. CASE d # e
        <5>1. Outcome[d] = "returned"
          BY <3>1, <4>2
        <5>2. PICK i \in 1..Len(Log) : Log[i] = d
          BY <5>1
        <5>3. i \in 1..Len(Log') /\ Log'[i] = d
          BY <2>0, <3>2, <5>2
        <5> QED BY <5>3
      <4> QED BY <4>1, <4>2
    <3>5. Fresh(Log', Outcome')
      <4> SUFFICES ASSUME NEW d \in Writers, Outcome'[d] = "open", NEW i \in 1..Len(Log')
                   PROVE  Log'[i] # d
        OBVIOUS
      <4>1. d # e /\ Outcome[d] = "open"
        BY <3>1, <3>3
      <4>2. i \in 1..Len(Log) \/ i = Len(Log) + 1
        BY <2>0, <3>2
      <4> QED BY <3>2, <4>1, <4>2
    <3> QED BY <3>2, <3>3, <3>4, <3>5
  <2>2. ASSUME Log' = Log, Outcome' = Outcome \/ Promise!Fail
        PROVE  Sound' /\ Grown(Log, Log', Outcome)
    <3>1. /\ Outcome' \in [Writers -> Promise!Outcomes]
          /\ \A e \in Writers : Outcome'[e] \in {"open", "returned"} => Outcome[e] = Outcome'[e]
      BY <2>2 DEF Promise!Fail
    <3>2. Grown(Log, Log, Outcome)
      BY <2>0
    <3> QED BY <2>2, <3>1, <3>2
  <2>3. Promise!Fail => Log' = Log
    BY DEF Promise!Fail, Log
  <2> HIDE DEF Sound, Grown
  <2> QED BY <2>1, <2>2, <2>3 DEF Promise!Next
<1>4. Sound => Promise!ReturnedIsRecorded
  BY DEF Promise!ReturnedIsRecorded, Log
<1>5. Grown(Log, Log', Outcome) =>
        /\ Len(Log) <= Len(Log') /\ Len(Log') <= Len(Log) + 1
        /\ \A i \in 1..Len(Log) : Log'[i] = Log[i]
        /\ \A i \in 1..Len(Log') : i > Len(Log) =>
               \/ Outcome[Log'[i]] = "unsure"
               \/ /\ Outcome[Log'[i]] = "open"
                  /\ \A j \in 1..Len(Log) : Log[j] # Log'[i]
  OBVIOUS
<1> HIDE DEF Sound, Grown
<1>6. QED
  BY <1>1, <1>3, <1>4, <1>5, PTL DEF Promise!Spec, Promise!OnlyGrows, Log

(* So an event whose record_event returned is in the table, and nothing is  *)
(* ever changed in it, for all processes, retries and crashes.              *)
COROLLARY TrailKeepsEvents == Spec => []Promise!ReturnedIsRecorded /\ Promise!OnlyGrows
BY TrailIsAppendOnly, LogIsSound, PTL DEF KeepsPromise

-----------------------------------------------------------------------------
(* Nobody waits forever.  A call can go on: the lock is free, there is a    *)
(* last row to read, its number is free or taken.                           *)
CanGoOn(w) ==
    \/ pc[w] = "waiting" /\ \A v \in Writers : HoldsLock(v) => Process[v] # Process[w]
    \/ pc[w] = "locked" /\ \E n \in {0} \cup Sequences1 : IsLast(n)
    \/ pc[w] = "ready" /\ sequence[w] \in Sequences1

(* While the bound MaxRows leaves room, a call that was begun can go on, or *)
(* waits for a lock whose holder can.                                       *)
NeverStuck ==
    Filled # Sequences1 =>
        \A w \in Writers :
            pc[w] \in {"waiting", "locked", "ready"} =>
                \/ CanGoOn(w)
                \/ \E v \in Writers : HoldsLock(v) /\ Process[v] = Process[w] /\ CanGoOn(v)

THEOREM NoAppenderIsStuck == Spec => []NeverStuck
<1>1. ChainInv => NeverStuck
  <2> SUFFICES ASSUME ChainInv, Filled # Sequences1 PROVE
          \A w \in Writers :
            pc[w] \in {"waiting", "locked", "ready"} =>
                \/ CanGoOn(w)
                \/ \E v \in Writers : HoldsLock(v) /\ Process[v] = Process[w] /\ CanGoOn(v)
    BY DEF NeverStuck
  <2>1. PICK n \in Nat : n <= MaxRows /\ Filled = 1..n
    BY DEF ChainInv, NoGap
  <2>2. n < MaxRows
    BY <2>1 DEF Sequences1
  <2>3. IsLast(n) /\ n \in {0} \cup Sequences1
    BY <2>1 DEF IsLast, Sequences1
  <2>4. ASSUME NEW w \in Writers, pc[w] = "ready" PROVE sequence[w] \in Sequences1
    <3>1. sequence[w] \in Nat \ {0} /\ sequence[w] - 1 \in (1..n) \cup {0}
      BY <2>1, <2>4 DEF ChainInv, TypeOK, ReadyInv
    <3> QED BY <2>2, <3>1 DEF Sequences1
  <2>5. ASSUME NEW w \in Writers, HoldsLock(w) PROVE CanGoOn(w)
    BY <2>3, <2>4, <2>5 DEF HoldsLock, CanGoOn
  <2> QED BY <2>5 DEF HoldsLock, CanGoOn
<1> QED BY <1>1, ChainInvariant, PTL

(* The steps a call has before it at most: an attempt is three, and every   *)
(* attempt lost is one fewer.                                               *)
Rank(s) == [new |-> 4, waiting |-> 3, locked |-> 2, ready |-> 1, returned |-> 0, raised |-> 0][s]
StepsLeft(s, lost) == IF s \in {"returned", "raised"} THEN 0 ELSE 4 * (Retries - lost) + Rank(s)

(* Whatever the others do, a call never has more steps before it, and every *)
(* step of its own or refusal by the database brings it nearer to its end.  *)
Descends ==
    \A w \in Writers :
        /\ StepsLeft(pc'[w], attempt'[w]) <= StepsLeft(pc[w], attempt[w])
        /\ Step(w) \/ Refuse(w) =>
               StepsLeft(pc'[w], attempt'[w]) < StepsLeft(pc[w], attempt[w])

THEOREM EveryAttemptCounts == Spec => [][Descends]_vars
<1>1. ChainInv /\ [Next]_vars => [Descends]_vars
  <2> SUFFICES ASSUME ChainInv, Next, NEW w \in Writers
               PROVE  /\ StepsLeft(pc'[w], attempt'[w]) <= StepsLeft(pc[w], attempt[w])
                      /\ Step(w) \/ Refuse(w) =>
                            StepsLeft(pc'[w], attempt'[w]) < StepsLeft(pc[w], attempt[w])
    BY DEF Descends
  <2>0. /\ pc \in [Writers -> Stages] /\ attempt \in [Writers -> 0..Retries]
        /\ pc[w] \notin {"returned", "raised"} => attempt[w] < Retries
    BY DEF ChainInv, TypeOK, AttemptsLeft
  <2> USE DEF StepsLeft, Rank, Stages, Goto, locals
  <2>1. CASE Lock(w) \/ ReadLast(w) \/ Return(w)
    BY <2>0, <2>1 DEF Lock, ReadLast, Return
  <2>2. CASE Conflict(w) \/ Refuse(w)
    BY <2>0, <2>2 DEF Conflict, Refuse, Retry, HoldsLock
  <2>3. ASSUME ~Step(w), ~Refuse(w)
        PROVE  StepsLeft(pc'[w], attempt'[w]) <= StepsLeft(pc[w], attempt[w])
    <3>1. CASE Call(w)
      BY <2>0, <3>1 DEF Call
    <3>2. ASSUME NEW v \in Writers, v # w, Call(v) \/ Step(v) \/ Refuse(v)
          PROVE  pc'[w] = pc[w] /\ attempt'[w] = attempt[w]
      BY <2>0, <3>2 DEF Call, Step, Lock, ReadLast, Return, Conflict, Refuse, Retry
    <3>3. ASSUME NEW v \in Writers, Crash(v)
          PROVE  (pc'[w] = pc[w] \/ pc'[w] = "raised") /\ attempt'[w] = attempt[w]
      BY <3>3 DEF Crash
    <3> QED BY <2>0, <2>3, <3>1, <3>2, <3>3 DEF Next
  <2> QED BY <2>1, <2>2, <2>3 DEF Step
<1> QED BY <1>1, ChainInvariant, PTL DEF Spec
=============================================================================
