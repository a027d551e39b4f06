---------------------------- MODULE Capabilities ----------------------------
(***************************************************************************)
(* The algebra of capability tokens, which the server and the SDK compute  *)
(* alike: what raw capabilities and scopes are normalised to, what a token *)
(* grants, what a caveat block takes away, and which operations and file   *)
(* paths the authorizer admits.  A right is a pair of a resource and an    *)
(* action; a token is an authority block and the blocks appended to it.    *)
(***************************************************************************)
EXTENDS Naturals, Sequences

CONSTANTS
    Resources, \* names of resources
    Actions,   \* names of actions, the wildcard included
    Wildcard,  \* the action "*"
    Blank,     \* the empty string
    Bare,      \* the action of a scope without a colon
    Paths,     \* normalised file paths
    NoPath,    \* no path is presented
    Escaping,  \* the paths that are absolute or climb above the root
    Patterns,  \* path patterns
    Matches,   \* fnmatch: pairs of a path and a pattern
    Keys,      \* workload keys
    NoKey      \* none is there

ASSUME VocabularyAssumption ==
    /\ Wildcard \in Actions
    /\ Blank \notin Resources \cup Actions
    /\ NoPath \notin Paths
    /\ NoKey \notin Keys

Rights == Resources \X Actions
Raw == (Resources \cup {Blank}) \X (Actions \cup {Blank})
Scopes == (Resources \cup {Blank}) \X (Actions \cup {Blank, Bare})

(* normalize_capabilities *)
Normalize(capabilities) == capabilities \cap Rights

(* scopes_to_capabilities: a scope without a colon means every action, and  *)
(* the empty string nothing.                                                *)
FromScopes(scopes) ==
    {<<s[1], IF s[2] = Bare THEN Wildcard ELSE s[2]>> : s \in scopes \ {<<Blank, Bare>>}}

(* reconcile_capabilities *)
Reconcile(capabilities, scopes) ==
    IF Normalize(capabilities) # {} THEN Normalize(capabilities) ELSE FromScopes(scopes)

-----------------------------------------------------------------------------
Caveats == [caps : SUBSET Rights, allowed : SUBSET Patterns,
            denied : SUBSET Patterns, exp : Nat]

(* A minted token, and what attenuate_biscuit makes of one. *)
Biscuit(root, capabilities, key, exp) ==
    [root |-> root, caps |-> Normalize(capabilities), key |-> key, exp |-> exp,
     blocks |-> <<>>]

(* Mutant: pairs with an empty part are kept. *)
AttenuateRaw(token, caveat) == [token EXCEPT !.blocks = Append(@, caveat)]

Attenuate(token, caveat) ==
    [token EXCEPT !.blocks = Append(@, [caveat EXCEPT !.caps = Normalize(@)])]

(* allow if capability($r, $a) or capability($r, "*") *)
Covers(capabilities, right) ==
    right \in capabilities \/ <<right[1], Wildcard>> \in capabilities

(* The checks of a block; one without capabilities has no check on them. *)
Admits(caveat, right, t) ==
    /\ caveat.caps # {} => right \in caveat.caps
    /\ t <= caveat.exp

(* Mutant: the last block stands for those before it. *)
LastGrants(token, right, t) ==
    /\ Covers(token.caps, right)
    /\ t <= token.exp
    /\ token.blocks # <<>> => Admits(token.blocks[Len(token.blocks)], right, t)

(* The Datalog decision, given a valid proof of possession. *)
Grants(token, right, t) ==
    /\ Covers(token.caps, right)
    /\ t <= token.exp
    /\ \A i \in DOMAIN token.blocks : Admits(token.blocks[i], right, t)

(* Mutant: one block too few is searched. *)
AllButLastFacts(token) ==
    LET blocks == {token.blocks[i] : i \in DOMAIN token.blocks \ {Len(token.blocks)}}
    IN [allowed |-> UNION {b.allowed : b \in blocks},
        denied  |-> UNION {b.denied : b \in blocks}]

(* path_patterns_from_biscuit_blocks: the facts of every block together. *)
PathFacts(token) ==
    LET blocks == {token.blocks[i] : i \in DOMAIN token.blocks}
    IN [allowed |-> UNION {b.allowed : b \in blocks},
        denied  |-> UNION {b.denied : b \in blocks}]

MatchesAny(path, patterns) == \E p \in patterns : <<path, p>> \in Matches

(* evaluate_path_scope; without a path there is nothing to check. *)
InScope(path, facts) ==
    \/ path = NoPath
    \/ facts.allowed \cup facts.denied = {}
    \/ /\ path \notin Escaping
       /\ ~MatchesAny(path, facts.denied)
       /\ facts.allowed # {} => MatchesAny(path, facts.allowed)

(* Mutant: any signature that verifies under its own key will do. *)
ProvesAny(token, key) == key # NoKey

(* The proof is made with the key the token is bound to. *)
Proves(token, key) == key # NoKey /\ key = token.key

(* authorize_biscuit *)
Authorizes(token, right, path, key, t) ==
    /\ InScope(path, PathFacts(token))
    /\ Proves(token, key)
    /\ Grants(token, right, t)
=============================================================================
