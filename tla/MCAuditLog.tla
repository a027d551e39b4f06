----------------------------- MODULE MCAuditLog -----------------------------
(* TLC instance of AuditLog: two threads of one process and one of another. *)
EXTENDS AuditLog

CONSTANTS thread1, thread2, other

MCProcess == [w \in Writers |-> IF w = other THEN "p2" ELSE "p1"]
=============================================================================
