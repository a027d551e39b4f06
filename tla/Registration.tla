---------------------------- MODULE Registration ----------------------------
(***************************************************************************)
(* What a tenant's administrator configures: the node attestors and the    *)
(* registration entries, with the linter that looks for entries that tie,  *)
(* and the match that attest makes of evidence with an entry.  A selector  *)
(* is a pair of the kind of evidence and the field that proves it, at one  *)
(* value per field.  Of a list of selectors only its members and its       *)
(* length matter, which repeated selectors make differ.                    *)
(***************************************************************************)
EXTENDS Capabilities, FiniteSets

CONSTANTS
    Provider,     \* signs cloud evidence: verified without a node attestor
    AnchorKeys,   \* public keys offered as trust anchors
    Strong,       \* those that are RSA keys of at least rsa_key_size bits
    EntryIds,     \* registration entries that exist at the same time
    Absent,       \* there is no such entry
    Applications, \* bodies of register requests; "filled" counts the
                  \* selectors given that are not blank
    Evidence      \* what workloads present

Fields ==
    [k8s_psat |-> {"cluster", "agent_ns", "agent_sa"},
     aws_iid  |-> {"account", "region", "instance_id"},
     gcp_iit  |-> {"project_id", "zone"}]
Types == DOMAIN Fields
WorkloadFields == {"k8s_ns", "k8s_sa", "pod_labels", "image_digest", "unix_uid"}

NodeSelectors(type, node) == {type} \X (node \cap Fields[type])
WorkloadSelectors(workload) == {"workload"} \X workload
Selectors == (UNION {NodeSelectors(t, Fields[t]) : t \in Types})
             \cup WorkloadSelectors(WorkloadFields)

Rank == [low |-> 0, standard |-> 1, high |-> 2]

ASSUME RegistrationAssumption ==
    /\ Strong \subseteq AnchorKeys
    /\ Provider \notin AnchorKeys
    /\ Applications \subseteq
           [selectors : SUBSET (Selectors \cup {Blank}), filled : Nat,
            capabilities : SUBSET Raw, constrained : BOOLEAN,
            scopes : SUBSET Scopes, assurance : DOMAIN Rank]
    /\ \A a \in Applications : Cardinality(a.selectors \ {Blank}) <= a.filled
    /\ Evidence \subseteq
           [signer : AnchorKeys \cup {Provider}, type : Types,
            node : SUBSET UNION {Fields[t] : t \in Types},
            workload : SUBSET WorkloadFields, key : Keys \cup {NoKey},
            assurance : DOMAIN Rank]

Entries ==
    [required : SUBSET Selectors, length : Nat, caps : SUBSET Raw, assurance : DOMAIN Rank]

ASSUME AbsentAssumption == Absent \notin Entries

VARIABLES
    anchors, \* node_attestors: pairs of a key and a type
    entries, \* registration_entries
    approved \* the operations an entry has ever granted (history)

tables == <<anchors, entries, approved>>

Granted(entry) == {right \in Rights : Covers(Normalize(entry.caps), right)}

-----------------------------------------------------------------------------
CreateAttestor(key, type) ==
    /\ key \in Strong
    /\ type \in Types
    /\ anchors' = anchors \cup {<<key, type>>}
    /\ UNCHANGED <<entries, approved>>

DeleteAttestor(anchor) ==
    /\ anchor \in anchors
    /\ anchors' = anchors \ {anchor}
    /\ UNCHANGED <<entries, approved>>

(* register_entry: blank selectors are dropped, repeated ones are not. *)
CreateEntry(id, application) ==
    LET entry == [required |-> application.selectors \ {Blank},
                  length |-> application.filled,
                  caps |-> Reconcile(application.capabilities, application.scopes),
                  assurance |-> application.assurance]
    IN  /\ entries[id] = Absent
        /\ entry.required # {}
        /\ ~(application.constrained /\ Normalize(application.capabilities) # {})
        /\ entries' = [entries EXCEPT ![id] = entry]
        /\ approved' = approved \cup Granted(entry)
        /\ UNCHANGED anchors

DeleteEntry(id) ==
    /\ entries[id] # Absent
    /\ entries' = [entries EXCEPT ![id] = Absent]
    /\ UNCHANGED <<anchors, approved>>

-----------------------------------------------------------------------------
Registered == {id \in EntryIds : entries[id] # Absent}

(* Mutant: only entries that require the same selectors. *)
SameSelectors(d, e) == d # e /\ entries[d].required = entries[e].required

(* lint_registration_entries *)
Conflict(d, e) ==
    d # e /\ Cardinality(entries[d].required) = Cardinality(entries[e].required)

Conflicts == {pair \in Registered \X Registered : Conflict(pair[1], pair[2])}

(* lint_registration_warnings *)
Warned(entry) ==
    \/ Cardinality(entry.required) = 1
    \/ \E c \in entry.caps : c[2] = Wildcard
    \/ entry.assurance = "low" /\ entry.caps # {}

-----------------------------------------------------------------------------
(* verify_node_attestation: an anchor of the declared type has the signer's *)
(* key.  Cloud evidence is in NodeAttestation.                              *)
Trusted(evidence) ==
    evidence.signer = Provider \/ <<evidence.signer, evidence.type>> \in anchors

Assurance(evidence) ==
    IF evidence.signer = Provider THEN evidence.assurance ELSE "standard"

Presented(evidence) ==
    NodeSelectors(evidence.type, evidence.node) \cup WorkloadSelectors(evidence.workload)

(* Mutant: one selector in common is enough. *)
Touches(entry, presented) == entry.required \cap presented # {}

Matched(entry, presented) == entry.required \subseteq presented

Candidates(presented) == {id \in Registered : Matched(entries[id], presented)}

(* _match_entry: the longest lists of selectors; two of them are a tie. *)
Best(presented) ==
    {id \in Candidates(presented) :
        \A d \in Candidates(presented) :
            entries[d].length <= entries[id].length}

(* attest issues for this entry, and for no other. *)
Chosen(id, evidence) ==
    /\ Best(Presented(evidence)) = {id}
    /\ Rank[Assurance(evidence)] >= Rank[entries[id].assurance]
    /\ evidence.key # NoKey

-----------------------------------------------------------------------------
Unrepeated(entry) == Cardinality(entry.required) = entry.length

(* The linter and the matcher, written apart, disagree on repeated           *)
(* selectors only.  In a table without conflicts no two entries tie unless   *)
(* one of them repeats a selector, and evidence gets the entry that proves   *)
(* most unless the one it gets repeats one.  Without warnings, what is       *)
(* granted besides takes two selectors and more than the lowest assurance.   *)
LintedTablesDecide ==
    Conflicts = {} =>
        \A evidence \in Evidence :
            LET presented == Presented(evidence)
                plain == {id \in Registered : Unrepeated(entries[id])}
            IN
            /\ Candidates(presented) # {} /\ Candidates(presented) \subseteq plain
                 => Cardinality(Best(presented)) = 1
            /\ \A d, e \in Best(presented) \cap plain : d = e
            /\ \A id \in Registered : Chosen(id, evidence) =>
                 /\ id \in plain =>
                      \A d \in Candidates(presented) \ {id} :
                        Cardinality(entries[d].required) < Cardinality(entries[id].required)
                 /\ (~Warned(entries[id]) /\ Granted(entries[id]) # {}) =>
                      /\ Cardinality(presented) >= 2
                      /\ Assurance(evidence) # "low"
=============================================================================
