--------------------------- MODULE AppendOnlyLog ---------------------------
(***************************************************************************)
(* What the audit trail promises its callers: a log that only grows at its *)
(* end.  An event may enter it while its record_event call is under way;   *)
(* the call returns only if the event is in the log, and after it has      *)
(* returned or raised the event is not appended any more.  It is appended  *)
(* once, unless a database error left the call unsure whether it was: what *)
(* is committed then is appended again.                                    *)
(***************************************************************************)
EXTENDS Naturals, Sequences

CONSTANT Events

VARIABLES
    log,     \* the events recorded, oldest first
    outcome  \* what became of the call for each event

Outcomes == {"open", "unsure", "returned", "raised"}
UnderWay(e) == outcome[e] \in {"open", "unsure"}

Init ==
    /\ log = <<>>
    /\ outcome = [e \in Events |-> "open"]

(* The call returns, or does not learn of it. *)
Record(e) ==
    /\ UnderWay(e)
    /\ log' = Append(log, e)
    /\ \E o \in Outcomes \ {"open"} : outcome' = [outcome EXCEPT ![e] = o]

(* Calls meet an error or end without recording their event: one of them,   *)
(* or all those of a process that dies.                                     *)
Fail ==
    /\ outcome' \in [Events -> Outcomes]
    /\ \A e \in Events :
           \/ outcome'[e] = outcome[e]
           \/ UnderWay(e) /\ outcome'[e] \in {"unsure", "raised"}
    /\ UNCHANGED log

Next == (\E e \in Events : Record(e)) \/ Fail

Spec == Init /\ [][Next]_<<log, outcome>>

(* What a caller was told is recorded, is there.                            *)
ReturnedIsRecorded ==
    \A e \in Events : outcome[e] = "returned" => \E i \in 1..Len(log) : log[i] = e

(* Nothing recorded is altered or lost, one event at most is added at a     *)
(* time, none whose call is over, and none again without a database error.  *)
OnlyGrows ==
    [][/\ Len(log) <= Len(log') /\ Len(log') <= Len(log) + 1
       /\ \A i \in 1..Len(log) : log'[i] = log[i]
       /\ \A i \in 1..Len(log') : i > Len(log) =>
              \/ outcome[log'[i]] = "unsure"
              \/ /\ outcome[log'[i]] = "open"
                 /\ \A j \in 1..Len(log) : log[j] # log'[i]]_<<log, outcome>>
=============================================================================
