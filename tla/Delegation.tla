----------------------------- MODULE Delegation -----------------------------
(***************************************************************************)
(* Rights from a registration entry to a tool call.  An identify request   *)
(* (attest, issue_credential) verifies evidence, matches it with an entry  *)
(* and mints a token under a root key, in steps between which the tables   *)
(* and the root keys change.  The session of the SDK that receives it is   *)
(* attenuated and handed to sub-agents offline; protected tools check it   *)
(* before they run, and the server checks it for clients that ask.         *)
(*                                                                         *)
(* The signing key, the agents table and its revocations, challenges and   *)
(* the one-time use of evidence are in modules of their own; here a server *)
(* may refuse on their account.                                            *)
(***************************************************************************)
EXTENDS RootKeys

CONSTANTS
    Issuers,  \* identify handlers that may run at the same time
    Holders,  \* sessions that exist at the same time
    Nobody,   \* no session
    Narrowing, \* the caveats that may be asked for, pairs with blanks included
    Budgets   \* bounds on operations of each kind

Kinds == {"admin", "rotate", "mint", "handover", "use", "ask", "tick"}

ASSUME DelegationAssumption ==
    /\ Nobody \notin Holders
    /\ Narrowing \subseteq [caps : SUBSET Raw, allowed : SUBSET Patterns,
                            denied : SUBSET Patterns, exp : Nat]
    /\ Budgets \subseteq [Kinds -> Nat]

VARIABLES
    request, \* each identify request
    window,  \* the entries there since its evidence was verified (history)
    session, \* each session: its token and the workload key it signs with
    source,  \* the session it was derived from (itself if minted; history)
    proven,  \* the key attested for it or for its source (history)
    mtls,    \* settings.mtls_enabled and settings.mtls_strict
    call,    \* the tool call or server check under way
    left     \* what remains of the bounds

issuing == <<request, window>>
holding == <<session, source, proven>>
vars == <<tables, now, roots, rotation, issuing, holding, mtls, call, left>>

NoToken == [root |-> NoRoot]
NoSession == [token |-> NoToken, key |-> NoKey]
NoRequest ==
    [stage |-> "idle", evidence |-> Absent, caps |-> {}, root |-> NoRoot, exp |-> 0]
NoCall ==
    [stage |-> "idle", holder |-> Nobody, right |-> <<>>, path |-> NoPath,
     key |-> NoKey, cert |-> NoKey, at |-> 0]

Init ==
    /\ anchors = {}
    /\ entries = [id \in EntryIds |-> Absent]
    /\ approved = {}
    /\ RootInit
    /\ request = [r \in Issuers |-> NoRequest]
    /\ window = [r \in Issuers |-> {}]
    /\ session = [h \in Holders |-> NoSession]
    /\ source = [h \in Holders |-> Nobody]
    /\ proven = [h \in Holders |-> NoKey]
    /\ mtls \in {"off", "lenient", "strict"}
    /\ call = NoCall
    /\ left \in Budgets

Spend(kind) == left[kind] > 0 /\ left' = [left EXCEPT ![kind] = @ - 1]

-----------------------------------------------------------------------------
(* The administrator; a request that runs meanwhile may see the new table.  *)
InTable == {entries[id] : id \in Registered}

Administer ==
    /\ Spend("admin")
    /\ \/ \E key \in AnchorKeys, type \in Types : CreateAttestor(key, type)
       \/ \E anchor \in anchors : DeleteAttestor(anchor)
       \/ \E id \in EntryIds : \E application \in Applications : CreateEntry(id, application)
       \/ \E id \in EntryIds : DeleteEntry(id)
    /\ window' = [r \in Issuers |->
           IF request[r].stage = "match" THEN window[r] \cup InTable' ELSE window[r]]
    /\ UNCHANGED <<now, roots, rotation, request, holding, mtls, call>>

Rotate(p) ==
    /\ \/ Spend("rotate") /\ RotateSelect(p)
       \/ /\ RotateRetire(p) \/ RotateCreate(p) \/ RotateAbort(p)
          /\ UNCHANGED left
    /\ UNCHANGED <<tables, now, issuing, holding, mtls, call>>

-----------------------------------------------------------------------------
(* An identify request: the evidence is verified and matched by statements  *)
(* of their own, the lifetime is counted from then, and the root key is     *)
(* read, or created, before the row of the agent is committed.              *)
Become(r, q) == request' = [request EXCEPT ![r] = q]

Step(r, stage) == request[r].stage = stage /\ UNCHANGED <<tables, now, rotation, mtls, call>>

Attest(r) ==
    /\ Step(r, "idle")
    /\ Spend("mint")
    /\ \E evidence \in Evidence :
         /\ Trusted(evidence)
         /\ Become(r, [request[r] EXCEPT !.stage = "match", !.evidence = evidence])
    /\ window' = [window EXCEPT ![r] = InTable]
    /\ UNCHANGED <<roots, holding>>

Match(r) ==
    /\ Step(r, "match")
    /\ \E id \in Registered :
         /\ Chosen(id, request[r].evidence)
         /\ Become(r, [request[r] EXCEPT !.stage = "stamp",
                                         !.caps = Normalize(entries[id].caps)])
    /\ UNCHANGED <<roots, window, holding, left>>

Stamp(r) ==
    /\ Step(r, "stamp")
    /\ \E ttl \in 1 .. MaxTtl :
         Become(r, [request[r] EXCEPT !.stage = IF request[r].caps = {} THEN "commit" ELSE "root",
                                      !.exp = now + ttl])
    /\ UNCHANGED <<roots, window, holding, left>>

(* get_active_root_key *)
ReadRoot(r) ==
    /\ Step(r, "root")
    /\ \/ \E k \in ActiveRoots :
            Become(r, [request[r] EXCEPT !.stage = "commit", !.root = k])
       \/ ActiveRoots = {} /\ Become(r, [request[r] EXCEPT !.stage = "create"])
    /\ UNCHANGED <<roots, window, holding, left>>

CreateRoot(r) ==
    /\ Step(r, "create")
    /\ \E k \in Roots :
         /\ InsertRoot(k)
         /\ Become(r, [request[r] EXCEPT !.stage = "commit", !.root = k])
    /\ UNCHANGED <<window, holding, left>>

(* Without rights no token is minted.  The client may not have the key.     *)
Mint(r, h) ==
    LET q == request[r] IN
    /\ Step(r, "commit")
    /\ source[h] = Nobody
    /\ \E key \in {q.evidence.key, NoKey} :
         session' = [session EXCEPT ![h] =
             [token |-> IF q.caps = {} THEN NoToken
                        ELSE Biscuit(q.root, q.caps, q.evidence.key, q.exp),
              key |-> key]]
    /\ source' = [source EXCEPT ![h] = h]
    /\ proven' = [proven EXCEPT ![h] = q.evidence.key]
    /\ Become(r, NoRequest)
    /\ window' = [window EXCEPT ![r] = {}]
    /\ UNCHANGED <<roots, left>>

(* No entry is chosen, or the request fails. *)
Deny(r) ==
    /\ request[r].stage # "idle"
    /\ Become(r, NoRequest)
    /\ window' = [window EXCEPT ![r] = {}]
    /\ UNCHANGED <<tables, now, roots, rotation, holding, mtls, call, left>>

-----------------------------------------------------------------------------
(* The SDK.  A new session is derived from one that has a token.            *)
Derive(h, g, caveat, key) ==
    /\ Spend("handover")
    /\ session[h].token # NoToken
    /\ source[g] = Nobody
    /\ session' = [session EXCEPT ![g] =
           [token |-> Attenuate(session[h].token, caveat), key |-> key]]
    /\ source' = [source EXCEPT ![g] = h]
    /\ proven' = [proven EXCEPT ![g] = proven[h]]
    /\ UNCHANGED <<tables, now, roots, rotation, issuing, mtls, call>>

(* AgentSession.attenuate *)
Narrow(h, g) == \E caveat \in Narrowing : Derive(h, g, caveat, session[h].key)

(* AgentSession.delegate, and session_from_token by who gets the token. *)
Forever == MaxTime + 1
Delegate(h, g) ==
    \E caveat \in Narrowing, key \in Keys \cup {NoKey} :
        Derive(h, g, [caps |-> caveat.caps, allowed |-> {}, denied |-> {}, exp |-> Forever], key)

(* verify_mtls_binding, of a request with the certificate of a key. *)
MtlsAccepts(cert, key) ==
    \/ mtls = "off"
    \/ cert = NoKey /\ mtls = "lenient"
    \/ cert # NoKey /\ cert = key

Decide(h, right, path, cert, stages) ==
    /\ call = NoCall
    /\ source[h] # Nobody
    /\ \E stage \in stages :
         call' = [stage |-> stage, holder |-> h, right |-> right, path |-> path,
                  key |-> session[h].key, cert |-> cert, at |-> now]
    /\ UNCHANGED <<tables, now, roots, rotation, issuing, holding, mtls>>

Allowed(h, right, path) ==
    /\ session[h].token # NoToken
    /\ Authorizes(session[h].token, right, path, session[h].key, now)

(* ProtectedTool._before: enforce, which raises, and the callback. *)
CheckTool(h, right, path) ==
    /\ Spend("use")
    /\ Decide(h, right, path, NoKey, IF Allowed(h, right, path) THEN {"cleared"} ELSE {"refused"})

(* The tool runs once the callback has returned; if it raises, it does not. *)
RunTool ==
    /\ call.stage = "cleared"
    /\ call' = [call EXCEPT !.stage = "running"]
    /\ UNCHANGED <<tables, now, roots, rotation, issuing, holding, mtls, left>>

(* POST /v1/authorize passes no path. *)
CheckServer(h, right, cert) ==
    /\ Spend("ask")
    /\ Decide(h, right, NoPath, cert,
           IF Allowed(h, right, NoPath) /\ MtlsAccepts(cert, session[h].key)
           THEN {"accepted", "refused"} ELSE {"refused"})

EndCall ==
    /\ call # NoCall
    /\ call' = NoCall
    /\ UNCHANGED <<tables, now, roots, rotation, issuing, holding, mtls, left>>

Tick ==
    /\ Spend("tick")
    /\ now < MaxTime
    /\ RotationsInTime
    /\ now' = now + 1
    /\ UNCHANGED <<tables, roots, rotation, issuing, holding, mtls, call>>

Next ==
    \/ Administer
    \/ \E p \in Rotators : Rotate(p)
    \/ \E r \in Issuers :
         \/ Attest(r) \/ Match(r) \/ Stamp(r) \/ ReadRoot(r) \/ CreateRoot(r)
         \/ (\E h \in Holders : Mint(r, h)) \/ Deny(r)
    \/ \E h, g \in Holders : Narrow(h, g) \/ Delegate(h, g)
    \/ \E h \in Holders, right \in Rights :
         \/ \E path \in Paths \cup {NoPath} : CheckTool(h, right, path)
         \/ \E cert \in Keys \cup {NoKey} : CheckServer(h, right, cert)
    \/ RunTool \/ EndCall \/ Tick

Spec == Init /\ [][Next]_vars

-----------------------------------------------------------------------------
Tokens ==
    [root : Roots, caps : SUBSET Rights, key : Keys, exp : Nat, blocks : Seq(Caveats)]
Requests ==
    [stage : {"idle", "match", "stamp", "root", "create", "commit"},
     evidence : Evidence \cup {Absent}, caps : SUBSET Rights, root : Roots \cup {NoRoot},
     exp : Nat]
CallRecords ==
    [stage : {"idle", "cleared", "running", "accepted", "refused"},
     holder : Holders \cup {Nobody}, right : Rights \cup {<<>>},
     path : Paths \cup {NoPath}, key : Keys \cup {NoKey}, cert : Keys \cup {NoKey},
     at : Times]

TablesOK ==
    /\ anchors \subseteq Strong \X Types
    /\ entries \in [EntryIds -> Entries \cup {Absent}]
    /\ approved \subseteq Rights
    /\ window \in [Issuers -> SUBSET Entries]

RootsOK ==
    /\ now \in Times
    /\ root \in [Roots -> {"unborn", "active", "retired"}]
    /\ retiredAt \in [Roots -> Times]
    /\ rotation \in [Rotators -> [stage : {"idle", "retire", "replace"},
                                  kid : Roots \cup {NoRoot}, stamp : Times]]

SessionsOK ==
    /\ session \in [Holders -> [token : Tokens \cup {NoToken}, key : Keys \cup {NoKey}]]
    /\ source \in [Holders -> Holders \cup {Nobody}]
    /\ proven \in [Holders -> Keys \cup {NoKey}]

(* The shape of the state. *)
TypeOK ==
    /\ TablesOK
    /\ RootsOK
    /\ request \in [Issuers -> Requests]
    /\ SessionsOK
    /\ call \in CallRecords
    /\ mtls \in {"off", "lenient", "strict"}
    /\ left \in [Kinds -> Nat]

(* What identify grants is what one entry grants that was registered while  *)
(* the request ran, all of whose selectors and whose assurance the evidence *)
(* proves, although an administrator changes the table under it.            *)
MintsWereApproved ==
    \A r \in Issuers :
        LET q == request[r] IN
        q.stage \in {"stamp", "root", "create", "commit"} =>
            \E entry \in window[r] :
                /\ q.caps = Normalize(entry.caps)
                /\ entry.required \subseteq Presented(q.evidence)
                /\ Rank[Assurance(q.evidence)] >= Rank[entry.assurance]

(* Offline verifiers are given the root of every unexpired token, also of   *)
(* one minted under a root that a rotation was retiring.                    *)
PublishedUntilExpiry ==
    \A h \in Holders :
        LET token == session[h].token IN
        (token # NoToken /\ now <= token.exp) => token.root \in PublishedRoots

(* They are given what TrustStore promises: besides, a root that has left   *)
(* build_biscuit_jwks never returns, although a rotation that selected it   *)
(* before may still write another retired_at into its row.                  *)
LiveTokens ==
    {token \in {session[h].token : h \in Holders} \ {NoToken} : now <= token.exp}
Trust == INSTANCE TrustStore
         WITH Signers <- Roots,
              published <- PublishedRoots,
              void <- {k \in Roots : root[k] # "unborn"} \ PublishedRoots,
              live <- {<<token.root, token>> : token \in LiveTokens}
KeepsTrust == Trust!Spec

(* "Biscuit blocks only restrict": the rights of a session are among those  *)
(* approved and among those of the session it was derived from, at any time *)
(* after, and a tool or a server only goes ahead with one of them.          *)
InUse == call.stage \in {"cleared", "running", "accepted"}
RightsOf(token) == IF token = NoToken THEN {} ELSE {right \in Rights : Grants(token, right, now)}
Ideal == INSTANCE LeastPrivilege
         WITH Operations <- Rights,
              rights <- [h \in Holders |-> RightsOf(session[h].token)],
              use <- IF InUse THEN {<<call.holder, call.right>>} ELSE {}
RightsOnlyShrink == Ideal!Spec

(* A session goes ahead only with the workload key that was attested, long  *)
(* before and for another session perhaps, within the lifetime of every     *)
(* token it stems from; the server besides wants that key's certificate.    *)
Stemming(S) == \A g \in S : source[g] \in S \cup {Nobody}
Lineage(h) == {g \in Holders : \A S \in SUBSET Holders : h \in S /\ Stemming(S) => g \in S}
UsesAreBound ==
    InUse =>
        /\ call.key = proven[call.holder]
        /\ \A h \in Lineage(call.holder) :
             LET token == session[h].token IN
             call.at <= token.exp /\ \A i \in DOMAIN token.blocks : call.at <= token.blocks[i].exp
        /\ call.stage = "accepted" =>
             \/ mtls = "off" \/ call.cert = proven[call.holder]
             \/ mtls = "lenient" /\ call.cert = NoKey

(* A denial survives a chain of sessions: no tool is cleared for a path that *)
(* a token its session stems from denies, nor, where one of them limits     *)
(* paths at all, for one that escapes the root, although a later holder may *)
(* allow other patterns.  Of paths that are only not allowed it says nothing.*)
DeniedStaysDenied ==
    (InUse /\ call.path # NoPath) =>
        \A h \in Lineage(call.holder) :
            LET token == session[h].token IN
            \A i \in DOMAIN token.blocks :
                /\ ~MatchesAny(call.path, token.blocks[i].denied)
                /\ token.blocks[i].allowed \cup token.blocks[i].denied # {} =>
                     call.path \notin Escaping

(* capabilities.py: "Cannot widen anything -- Biscuit blocks only restrict". *)
(* A path for which a tool is cleared lies in the scope of every token its   *)
(* session stems from.                                                      *)
PathsOnlyNarrow ==
    (InUse /\ call.path # NoPath) =>
        \A h \in Lineage(call.holder) : InScope(call.path, PathFacts(session[h].token))
=============================================================================
