--------------------------- MODULE LeastPrivilege ---------------------------
(***************************************************************************)
(* What capability tokens promise: rights come from what was approved, a   *)
(* holder that got its token from another has no right the other lacks,    *)
(* now or later, rights only lapse, and an operation is under way only if  *)
(* its holder had the right to it when it was checked.                     *)
(***************************************************************************)
CONSTANTS Holders, Operations, Nobody

VARIABLES
    approved, \* the operations some registration has ever allowed
    rights,   \* what the token of each holder allows now
    source,   \* whom a holder has its token from: itself if it was minted
    use       \* the operation under way, with its holder: a set of at most one

vars == <<approved, rights, source, use>>

Init ==
    /\ approved = {}
    /\ rights = [h \in Holders |-> {}]
    /\ source = [h \in Holders |-> Nobody]
    /\ use = {}

Approve ==
    /\ approved' \in SUBSET Operations
    /\ approved \subseteq approved'
    /\ UNCHANGED <<rights, source, use>>

Endow(h, granted) ==
    /\ source[h] = Nobody
    /\ granted \subseteq approved
    /\ rights' = [rights EXCEPT ![h] = granted]
    /\ source' = [source EXCEPT ![h] = h]
    /\ UNCHANGED <<approved, use>>

HandOver(h, g, granted) ==
    /\ source[h] # Nobody
    /\ source[g] = Nobody
    /\ granted \subseteq rights[h]
    /\ rights' = [rights EXCEPT ![g] = granted]
    /\ source' = [source EXCEPT ![g] = h]
    /\ UNCHANGED <<approved, use>>

Lapse ==
    /\ rights' \in [Holders -> SUBSET Operations]
    /\ \A h \in Holders :
         /\ rights'[h] \subseteq rights[h]
         /\ source[h] # Nobody => rights'[h] \subseteq rights'[source[h]]
    /\ UNCHANGED <<approved, source, use>>

Begin(h, operation) ==
    /\ operation \in rights[h]
    /\ use' = {<<h, operation>>}
    /\ UNCHANGED <<approved, rights, source>>

End == use' = {} /\ UNCHANGED <<approved, rights, source>>

Next ==
    \/ Approve \/ Lapse \/ End
    \/ \E h \in Holders :
         \/ \E granted \in SUBSET Operations :
              Endow(h, granted) \/ \E g \in Holders : HandOver(h, g, granted)
         \/ \E operation \in Operations : Begin(h, operation)

Spec == Init /\ [][Next]_vars

(* No holder has, or uses, a right that no registration allowed. *)
OnlyApproved ==
    /\ \A h \in Holders : rights[h] \subseteq approved
    /\ \A u \in use : u[2] \in approved

(* A holder that has its token gains no right and keeps the source it has.  *)
NoGain ==
    [][\A h \in Holders : source[h] # Nobody =>
         rights'[h] \subseteq rights[h] /\ source'[h] = source[h]]_vars
=============================================================================
