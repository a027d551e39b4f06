---------------------------- MODULE MCDelegation ----------------------------
(* TLC instance of Delegation.  Entries that tie, nest or repeat a          *)
(* selector; a table of budgets so that registrations, rotations and chains *)
(* of sessions are each explored against what they can meet.                *)
EXTENDS Delegation, TLC

CONSTANTS k, l, a1, weak, x, y, inner, outer, beside, db

Ns == <<"workload", "k8s_ns">>
Sa == <<"workload", "k8s_sa">>
Cluster == <<"k8s_psat", "cluster">>
Read == <<db, "read">>
Write == <<db, "write">>
Wild == <<db, Wildcard>>

(* Two patterns that a path apart each match, and one for both. *)
MCMatches == {<<x, inner>>, <<y, beside>>, <<x, outer>>, <<y, outer>>}
Apply(selectors, filled, capabilities, scopes, assurance) ==
    [selectors |-> selectors, filled |-> filled, capabilities |-> capabilities,
     constrained |-> FALSE, scopes |-> scopes, assurance |-> assurance]
MCApplications ==
    {Apply({Ns, Blank}, 1, {Wild}, {}, "low"),
     Apply({Sa}, 2, {<<db, Blank>>, Read}, {}, "standard"),
     Apply({Cluster, Ns}, 2, {}, {<<db, "read">>, <<db, "write">>}, "standard"),
     Apply({Sa}, 1, {}, {<<db, Bare>>}, "high"),
     Apply({Blank}, 0, {Read}, {}, "standard"),
     Apply({Sa, Ns}, 2, {}, {<<db, Blank>>}, "standard"),
     [Apply({Ns}, 1, {Read}, {}, "low") EXCEPT !.constrained = TRUE]}
Shows(signer, node, workload, key, assurance) ==
    [signer |-> signer, type |-> "k8s_psat", node |-> node, workload |-> workload,
     key |-> key, assurance |-> assurance]
MCEvidence ==
    {Shows(a1, {"cluster"}, {"k8s_ns"}, k, "high"),
     Shows(a1, {"cluster", "zone"}, {"k8s_ns", "k8s_sa"}, k, "low"),
     Shows(Provider, {}, {"k8s_sa"}, k, "high"),
     Shows(Provider, {}, {"k8s_ns"}, k, "low"),
     Shows(weak, {}, {"k8s_ns"}, k, "high"),
     Shows(Provider, {}, {"k8s_sa"}, NoKey, "high")}

Caveat(caps, allowed, denied, exp) ==
    [caps |-> caps, allowed |-> allowed, denied |-> denied, exp |-> exp]
MCNarrowing ==
    {Caveat({Read, <<db, Blank>>}, {}, {outer}, Forever),
     Caveat({Read, Write}, {inner}, {}, Forever),
     Caveat({}, {beside}, {}, 1)}

Budget(admin, rotate, mint, handover, use, ask, tick) ==
    [admin |-> admin, rotate |-> rotate, mint |-> mint, handover |-> handover,
     use |-> use, ask |-> ask, tick |-> tick]
MCBudgets ==
    {Budget(4, 0, 2, 0, 0, 0, 0), Budget(1, 2, 1, 0, 0, 0, 4),
     Budget(1, 0, 1, 2, 1, 0, 2), Budget(1, 0, 1, 1, 0, 1, 2)}

(* One session, attenuated twice, of which a path is asked. *)
MCWideningBudgets == {Budget(1, 0, 1, 2, 1, 0, 0)}

MCInit == Init /\ (left["ask"] = 0 => mtls = "off")
MCSpec == MCInit /\ [][Next]_vars
MCSymmetry == Permutations(Holders) \cup Permutations(EntryIds) \cup Permutations(Rotators)
=============================================================================
