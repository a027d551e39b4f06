------------------------- MODULE MCNodeAttestation -------------------------
(* TLC instance of NodeAttestation: a document signed by a static anchor,   *)
(* a projected token of a pod, and an EC2 identity document.                *)
EXTENDS NodeAttestation, TLC

CONSTANTS signedDoc, podToken, ec2Doc

MCKind == [e \in Evidence |-> CASE e = signedDoc -> "signed"
                                []  e = podToken -> "k8s_psat"
                                []  e = ec2Doc -> "aws_iid"]
MCName == [e \in Evidence |-> e]
MCExpiry == [e \in Evidence |-> CASE e = signedDoc -> 1
                                  []  e = podToken -> 3
                                  []  e = ec2Doc -> 0]

(* Calls (numbers here) are interchangeable, so it is enough to start with  *)
(* their evidence in order: unlike SYMMETRY this is sound for liveness too. *)
Rank == signedDoc :> 1 @@ podToken :> 2 @@ ec2Doc :> 3
Sorted == \A p, q \in Calls : p < q => Rank[doc[p]] <= Rank[doc[q]]

MCInit == Init /\ Sorted
MCSpec == MCInit /\ [][Next]_vars /\ Fairness
=============================================================================
