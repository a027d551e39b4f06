----------------------------- MODULE TrustStore -----------------------------
(***************************************************************************)
(* What publishing a tenant's public keys promises those who verify its    *)
(* credentials offline: a credential is issued under a published key, the  *)
(* key stays published until the credential has expired, and a key that is *)
(* withdrawn never comes back.                                             *)
(***************************************************************************)
CONSTANT Signers \* the keys that may sign

VARIABLES
    published, \* the keys verifiers are given
    void,      \* the keys that have been made and are not to be trusted again
    live       \* the unexpired credentials, each a pair: its key and itself

vars == <<published, void, live>>

Init ==
    /\ published \subseteq Signers
    /\ void \subseteq Signers \ published
    /\ live = {}

Introduce ==
    /\ \E k \in Signers \ (published \cup void) : published' = published \cup {k}
    /\ UNCHANGED <<void, live>>

Issue ==
    /\ \E c \in live' : c[1] \in published /\ live' = live \cup {c}
    /\ UNCHANGED <<published, void>>

(* Credentials expire, and keys are withdrawn that no live one needs. *)
Withdraw ==
    /\ published' \subseteq published
    /\ void' = void \cup (published \ published')
    /\ live' \subseteq live
    /\ \A c \in live' : c[1] \in published'

Next == Introduce \/ Issue \/ Withdraw

Spec == Init /\ [][Next]_vars

(* Every live credential verifies. *)
Verifiable == \A c \in live : c[1] \in published

(* Who has dropped a key for good is never given it again. *)
WithdrawnForGood == [][\A k \in void : k \in void' /\ k \notin published']_vars
=============================================================================
