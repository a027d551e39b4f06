-------------------------- MODULE DelegationProofs --------------------------
(***************************************************************************)
(* Proofs about Delegation, for any registrations, root keys, issuers,     *)
(* sessions and caveats.                                                   *)
(***************************************************************************)
EXTENDS Delegation, FiniteSetTheorems, WellFoundedInduction, TLAPS

(* A set of numbers below a bound has a greatest.                           *)
LEMMA Greatest ==
    ASSUME NEW S \in SUBSET Nat, S # {}, NEW bound \in Nat, \A n \in S : n <= bound
    PROVE  \E g \in S : \A n \in S : n <= g
<1> DEFINE T == {bound - n : n \in S}
<1>1. T \subseteq Nat /\ T # {}
  <2>1. \A n \in S : bound - n \in Nat
    OBVIOUS
  <2> QED BY <2>1
<1>2. PICK t \in T : \A u \in T : <<u, t>> \notin OpToRel(<, Nat)
  BY <1>1, NatLessThanWellFounded, WFMin
<1>3. \A u \in T : ~(u < t)
  BY <1>1, <1>2 DEF OpToRel
<1>4. PICK g \in S : t = bound - g
  OBVIOUS
<1>5. \A n \in S : ~(bound - n < t)
  BY <1>3
<1> QED BY <1>4, <1>5

USE VocabularyAssumption, RootAssumption, DelegationAssumption

RawCaveats == [caps : SUBSET Raw, allowed : SUBSET Patterns,
               denied : SUBSET Patterns, exp : Nat]

-----------------------------------------------------------------------------
(* Which steps change what.                                                 *)
Requesting(r) ==
    \/ Attest(r) \/ Match(r) \/ Stamp(r) \/ ReadRoot(r) \/ CreateRoot(r)
    \/ (\E h \in Holders : Mint(r, h)) \/ Deny(r)
Deriving(h, g) ==
    \E caveat \in RawCaveats, key \in Keys \cup {NoKey} : Derive(h, g, caveat, key)
Calling ==
    \/ \E h \in Holders, right \in Rights :
         \/ \E path \in Paths \cup {NoPath} : CheckTool(h, right, path)
         \/ \E cert \in Keys \cup {NoKey} : CheckServer(h, right, cert)
    \/ RunTool \/ EndCall

LEMMA Derivations ==
    ASSUME SessionsOK, NEW h \in Holders, NEW g \in Holders,
           Narrow(h, g) \/ Delegate(h, g)
    PROVE  Deriving(h, g)
<1>1. CASE Narrow(h, g)
  <2>1. session[h].key \in Keys \cup {NoKey}
    BY DEF SessionsOK
  <2> QED BY <1>1, <2>1 DEF Narrow, Deriving, RawCaveats
<1>2. CASE Delegate(h, g)
  <2>1. PICK caveat \in Narrowing, key \in Keys \cup {NoKey} :
            Derive(h, g, [caps |-> caveat.caps, allowed |-> {}, denied |-> {}, exp |-> Forever], key)
    BY <1>2 DEF Delegate
  <2>2. [caps |-> caveat.caps, allowed |-> {}, denied |-> {}, exp |-> Forever] \in RawCaveats
    BY DEF RawCaveats, Forever
  <2> QED BY <2>1, <2>2 DEF Deriving
<1> QED BY <1>1, <1>2

(* Every step is one of these. *)
LEMMA Steps ==
    ASSUME SessionsOK, [Next]_vars
    PROVE  \/ UNCHANGED vars
           \/ Administer
           \/ \E p \in Rotators : Rotate(p)
           \/ \E r \in Issuers : Requesting(r)
           \/ \E h, g \in Holders : Deriving(h, g)
           \/ Calling
           \/ Tick
BY Derivations DEF Next, Requesting, Calling

LEMMA Frames ==
    ASSUME SessionsOK, [Next]_vars
    PROVE  /\ mtls' = mtls
           /\ Administer \/ UNCHANGED tables
           /\ (\E r \in Issuers : Requesting(r)) \/ UNCHANGED request
           /\ (\E r \in Issuers, h \in Holders : Mint(r, h))
              \/ (\E h, g \in Holders : Deriving(h, g)) \/ UNCHANGED holding
           /\ (\E p \in Rotators : Rotate(p)) \/ UNCHANGED rotation
           /\ (\E p \in Rotators : Rotate(p)) \/ (\E r \in Issuers : CreateRoot(r))
              \/ UNCHANGED roots
           /\ Calling \/ UNCHANGED call
           /\ Tick \/ UNCHANGED now
<1> USE DEF vars, issuing, holding
<1>1. CASE UNCHANGED vars
  BY <1>1
<1>2. CASE Administer
  BY <1>2 DEF Administer
<1>3. CASE \E p \in Rotators : Rotate(p)
  BY <1>3 DEF Rotate
<1>4. ASSUME NEW r \in Issuers, Requesting(r)
      PROVE  /\ UNCHANGED <<mtls, tables, rotation, call, now>>
             /\ CreateRoot(r) \/ UNCHANGED roots
             /\ (\E h \in Holders : Mint(r, h)) \/ UNCHANGED holding
  BY <1>4 DEF Requesting, Attest, Match, Stamp, ReadRoot, CreateRoot, Mint, Deny, Step
<1>5. ASSUME NEW h \in Holders, NEW g \in Holders, Deriving(h, g)
      PROVE  UNCHANGED <<mtls, tables, rotation, roots, request, call, now>>
  BY <1>5 DEF Deriving, Derive
<1>6. CASE Calling
  BY <1>6 DEF Calling, CheckTool, CheckServer, Decide, RunTool, EndCall
<1>7. CASE Tick
  BY <1>7 DEF Tick
<1> QED BY <1>1, <1>2, <1>3, <1>4, <1>5, <1>6, <1>7, Steps

-----------------------------------------------------------------------------
(* Types.                                                                   *)
LEMMA CapsTypes ==
    /\ \A c : Normalize(c) \subseteq Rights
    /\ Rights \subseteq Raw
    /\ \A c \in SUBSET Raw, s \in SUBSET Scopes : Reconcile(c, s) \in SUBSET Raw
<1>1. \A c : Normalize(c) \subseteq Rights
  BY DEF Normalize
<1>2. Rights \subseteq Raw
  BY DEF Rights, Raw
<1>3. ASSUME NEW s \in SUBSET Scopes PROVE FromScopes(s) \in SUBSET Raw
  <2> SUFFICES ASSUME NEW x \in s \ {<<Blank, Bare>>}
               PROVE  <<x[1], IF x[2] = Bare THEN Wildcard ELSE x[2]>> \in Raw
    BY DEF FromScopes
  <2>1. x \in (Resources \cup {Blank}) \X (Actions \cup {Blank, Bare})
    BY DEF Scopes
  <2> QED BY <2>1 DEF Raw
<1> QED BY <1>1, <1>2, <1>3 DEF Reconcile

LEMMA EntryTypes ==
    ASSUME NEW application \in Applications
    PROVE  [required |-> application.selectors \ {Blank},
            length |-> application.filled,
            caps |-> Reconcile(application.capabilities, application.scopes),
            assurance |-> application.assurance] \in Entries
<1>1. /\ application.selectors \in SUBSET (Selectors \cup {Blank})
      /\ application.filled \in Nat
      /\ application.capabilities \in SUBSET Raw
      /\ application.scopes \in SUBSET Scopes
      /\ application.assurance \in DOMAIN Rank
  BY RegistrationAssumption
<1> QED BY <1>1, CapsTypes DEF Entries

LEMMA TablesTyped ==
    ASSUME TypeOK, [Next]_vars
    PROVE  TablesOK'
<1> USE DEF TypeOK, TablesOK, tables
<1>1. CASE Administer
  <2>1. anchors' \subseteq Strong \X Types
    <3>1. ASSUME NEW key \in AnchorKeys, NEW type \in Types, CreateAttestor(key, type)
          PROVE  anchors' \subseteq Strong \X Types
      BY <3>1 DEF CreateAttestor
    <3>2. anchors' \subseteq anchors \/ \E key \in AnchorKeys, type \in Types : CreateAttestor(key, type)
      BY <1>1 DEF Administer, DeleteAttestor, CreateEntry, DeleteEntry
    <3> QED BY <3>1, <3>2
  <2>2. entries' \in [EntryIds -> Entries \cup {Absent}] /\ approved' \subseteq Rights
    BY <1>1, EntryTypes DEF Administer, CreateAttestor, DeleteAttestor, CreateEntry,
                            DeleteEntry, Granted
  <2>3. InTable' \subseteq Entries
    BY <2>2 DEF InTable, Registered
  <2>4. window' \in [Issuers -> SUBSET Entries]
    BY <1>1, <2>3 DEF Administer
  <2> QED BY <2>1, <2>2, <2>4
<1>2. CASE ~Administer
  <2>1. UNCHANGED tables
    BY <1>2, Frames
  <2>2. window' \in [Issuers -> SUBSET Entries]
    <3>1. InTable \subseteq Entries
      BY DEF InTable, Registered
    <3> QED
      BY <1>2, <3>1, Steps
         DEF vars, issuing, Rotate, Requesting, Attest, Match, Stamp, ReadRoot, CreateRoot,
             Mint, Deny, Deriving, Derive, Calling, CheckTool, CheckServer, Decide,
             RunTool, EndCall, Tick
  <2> QED BY <2>1, <2>2
<1> QED BY <1>1, <1>2

LEMMA Inserts ==
    ASSUME RootsOK, NEW k \in Roots, InsertRoot(k)
    PROVE  /\ root' \in [Roots -> {"unborn", "active", "retired"}]
           /\ retiredAt' = retiredAt
           /\ root[k] = "unborn" /\ root'[k] = "active"
           /\ \A j \in Roots \ {k} : root'[j] = root[j]
BY DEF RootsOK, InsertRoot

LEMMA RootsTyped ==
    ASSUME TypeOK, [Next]_vars
    PROVE  RootsOK'
<1> USE DEF TypeOK, RootsOK
<1>1. ASSUME NEW p \in Rotators, Rotate(p) PROVE RootsOK'
  <2> USE <1>1 DEF Rotate, roots, Idle, NoRoot, Times
  <2>0. UNCHANGED now
    OBVIOUS
  <2>1. CASE RotateSelect(p)
    BY <2>1 DEF RotateSelect, ActiveRoots
  <2>2. CASE RotateRetire(p)
    <3>1. root' \in [Roots -> {"unborn", "active", "retired"}]
      BY <2>2 DEF RotateRetire
    <3>2. rotation[p].stamp \in Times
      OBVIOUS
    <3>3. retiredAt' \in [Roots -> Times]
      BY <2>2, <3>2 DEF RotateRetire
    <3>4. [Idle EXCEPT !.stage = "replace"] \in
              [stage : {"idle", "retire", "replace"}, kid : Roots \cup {NoRoot}, stamp : Times]
      OBVIOUS
    <3> QED BY <2>2, <3>1, <3>3, <3>4 DEF RotateRetire
  <2>3. CASE RotateCreate(p)
    BY <2>3, Inserts DEF RotateCreate
  <2>4. CASE RotateAbort(p)
    BY <2>4 DEF RotateAbort
  <2> QED BY <2>1, <2>2, <2>3, <2>4
<1>2. ASSUME NEW r \in Issuers, CreateRoot(r) PROVE RootsOK'
  BY <1>2, Inserts DEF CreateRoot, Step
<1>3. CASE Tick
  BY <1>3 DEF Tick, Times, roots
<1>4. CASE UNCHANGED <<now, roots, rotation>>
  BY <1>4 DEF roots
<1>5. ASSUME NEW p \in Rotators, Rotate(p) PROVE ~Tick \/ UNCHANGED now
  BY <1>5 DEF Rotate
<1> QED BY <1>1, <1>2, <1>3, <1>4, Steps, Frames DEF Tick, vars

LEMMA RequestsTyped ==
    ASSUME TypeOK, NEW r \in Issuers, Requesting(r)
    PROVE  request' \in [Issuers -> Requests]
<1>0. request \in [Issuers -> Requests] /\ request[r] \in Requests
  BY DEF TypeOK
<1>1. CASE Attest(r)
  <2>1. PICK evidence \in Evidence :
            Become(r, [request[r] EXCEPT !.stage = "match", !.evidence = evidence])
    BY <1>1 DEF Attest
  <2>2. [request[r] EXCEPT !.stage = "match", !.evidence = evidence] \in Requests
    BY <1>0 DEF Requests
  <2> QED BY <1>0, <2>1, <2>2 DEF Become
<1>2. CASE Match(r)
  <2>1. PICK id \in Registered :
            Become(r, [request[r] EXCEPT !.stage = "stamp", !.caps = Normalize(entries[id].caps)])
    BY <1>2 DEF Match
  <2>2. [request[r] EXCEPT !.stage = "stamp", !.caps = Normalize(entries[id].caps)] \in Requests
    BY <1>0, CapsTypes DEF Requests
  <2> QED BY <1>0, <2>1, <2>2 DEF Become
<1>3. CASE Stamp(r)
  <2>1. \E stage \in {"commit", "root"}, ttl \in 1 .. MaxTtl :
            Become(r, [request[r] EXCEPT !.stage = stage, !.exp = now + ttl])
    BY <1>3 DEF Stamp
  <2>2. PICK stage \in {"commit", "root"}, exp \in Nat :
            Become(r, [request[r] EXCEPT !.stage = stage, !.exp = exp])
    <3>1. now \in Nat
      BY DEF TypeOK, RootsOK, Times
    <3>2. PICK stage \in {"commit", "root"}, ttl \in 1 .. MaxTtl :
              Become(r, [request[r] EXCEPT !.stage = stage, !.exp = now + ttl])
      BY <2>1
    <3>3. now + ttl \in Nat
      BY <3>1
    <3> QED BY <3>2, <3>3
  <2>3. [request[r] EXCEPT !.stage = stage, !.exp = exp] \in Requests
    BY <1>0 DEF Requests
  <2> QED BY <1>0, <2>2, <2>3 DEF Become
<1>4. CASE ReadRoot(r) \/ CreateRoot(r)
  <2>1. \/ \E k \in Roots : Become(r, [request[r] EXCEPT !.stage = "commit", !.root = k])
        \/ Become(r, [request[r] EXCEPT !.stage = "create"])
    BY <1>4 DEF ReadRoot, CreateRoot, ActiveRoots
  <2>2. /\ \A k \in Roots : [request[r] EXCEPT !.stage = "commit", !.root = k] \in Requests
        /\ [request[r] EXCEPT !.stage = "create"] \in Requests
    BY <1>0 DEF Requests
  <2> QED BY <1>0, <2>1, <2>2 DEF Become
<1>5. CASE (\E h \in Holders : Mint(r, h)) \/ Deny(r)
  <2>1. NoRequest \in Requests
    BY DEF NoRequest, NoRoot, Requests
  <2> QED BY <1>0, <1>5, <2>1 DEF Mint, Deny, Become
<1> QED BY <1>1, <1>2, <1>3, <1>4, <1>5 DEF Requesting

LEMMA Narrowed ==
    ASSUME NEW token \in Tokens, NEW caveat \in RawCaveats
    PROVE  LET block == [caveat EXCEPT !.caps = Normalize(@)]
           IN  /\ block \in Caveats
               /\ Attenuate(token, caveat) = [token EXCEPT !.blocks = Append(@, block)]
               /\ Attenuate(token, caveat) \in Tokens
<1> DEFINE block == [caveat EXCEPT !.caps = Normalize(@)]
<1>1. block \in Caveats
  BY CapsTypes DEF RawCaveats, Caveats
<1>2. Attenuate(token, caveat) = [token EXCEPT !.blocks = Append(@, block)]
  BY DEF Attenuate
<1>3. token.blocks \in Seq(Caveats)
  BY DEF Tokens
<1>4. Append(token.blocks, block) \in Seq(Caveats)
  <2> HIDE DEF block
  <2> QED BY <1>1, <1>3
<1>5. [token EXCEPT !.blocks = Append(@, block)] \in Tokens
  <2> HIDE DEF block
  <2> QED BY <1>4 DEF Tokens
<1> QED BY <1>1, <1>2, <1>5

LEMMA NoTokenIsNone == NoToken \notin Tokens
BY DEF NoToken, Tokens, NoRoot, Roots

(* What a new session holds. *)
LEMMA DerivedToken ==
    ASSUME SessionsOK, NEW h \in Holders, NEW g \in Holders, Deriving(h, g)
    PROVE  /\ source[g] = Nobody /\ session[h].token \in Tokens
           /\ source' = [source EXCEPT ![g] = h]
           /\ proven' = [proven EXCEPT ![g] = proven[h]]
           /\ \E caveat \in RawCaveats, key \in Keys \cup {NoKey} :
                session' = [session EXCEPT ![g] =
                    [token |-> Attenuate(session[h].token, caveat), key |-> key]]
<1>1. session[h].token \in Tokens \cup {NoToken}
  BY DEF SessionsOK
<1> QED BY <1>1 DEF Deriving, Derive

(* Evidence is matched before anything is minted. *)
Proving(r) ==
    /\ request[r].stage # "idle" => request[r].evidence \in Evidence
    /\ request[r].stage \in {"stamp", "root", "create", "commit"} =>
           request[r].evidence.key \in Keys

(* A root has been read when one is needed. *)
Rooted(r) ==
    request[r].stage = "commit" /\ request[r].caps # {} => request[r].root \in Roots

LEMMA MintedToken ==
    ASSUME TypeOK, NEW r \in Issuers, NEW h \in Holders, Mint(r, h), Proving(r), Rooted(r)
    PROVE  LET q == request[r] IN
           /\ q.evidence.key \in Keys
           /\ \/ q.caps = {} /\ session'[h].token = NoToken
              \/ /\ q.caps # {}
                 /\ session'[h].token = Biscuit(q.root, q.caps, q.evidence.key, q.exp)
                 /\ session'[h].token \in Tokens
           /\ \E key \in {q.evidence.key, NoKey} :
                session' = [session EXCEPT ![h] = [token |-> session'[h].token, key |-> key]]
<1> DEFINE q == request[r]
<1>1. q \in Requests /\ session \in [Holders -> [token : Tokens \cup {NoToken}, key : Keys \cup {NoKey}]]
  BY DEF TypeOK, SessionsOK
<1>2. q.evidence.key \in Keys
  BY DEF Mint, Step, Proving
<1>3. PICK key \in {q.evidence.key, NoKey} :
         session' = [session EXCEPT ![h] =
             [token |-> IF q.caps = {} THEN NoToken
                        ELSE Biscuit(q.root, q.caps, q.evidence.key, q.exp),
              key |-> key]]
  BY DEF Mint
<1>4. session'[h].token = IF q.caps = {} THEN NoToken
                          ELSE Biscuit(q.root, q.caps, q.evidence.key, q.exp)
  BY <1>1, <1>3
<1>5. q.caps # {} => Biscuit(q.root, q.caps, q.evidence.key, q.exp) \in Tokens
  <2>1. q.caps # {} => q.root \in Roots
    BY DEF Mint, Step, Rooted
  <2>2. <<>> \in Seq(Caveats)
    OBVIOUS
  <2>3. q.exp \in Nat
    BY <1>1 DEF Requests
  <2> QED BY <1>2, <2>1, <2>2, <2>3, CapsTypes DEF Biscuit, Tokens
<1>6. session' = [session EXCEPT ![h] = [token |-> session'[h].token, key |-> key]]
  BY <1>3, <1>4
<1> QED BY <1>2, <1>3, <1>4, <1>5, <1>6

RequestInv == \A r \in Issuers : Proving(r) /\ Rooted(r)

LEMMA SessionsTyped ==
    ASSUME TypeOK, RequestInv, [Next]_vars
    PROVE  SessionsOK'
<1>0. SessionsOK
  BY DEF TypeOK
<1> USE DEF SessionsOK
<1>1. ASSUME NEW r \in Issuers, NEW h \in Holders, Mint(r, h) PROVE SessionsOK'
  <2>1. request[r].evidence.key \in Keys
    BY <1>1, MintedToken DEF RequestInv
  <2>2. source' \in [Holders -> Holders \cup {Nobody}] /\ proven' \in [Holders -> Keys \cup {NoKey}]
    BY <1>0, <1>1, <2>1 DEF Mint
  <2>3. session'[h].token \in Tokens \cup {NoToken}
    BY <1>1, MintedToken DEF RequestInv
  <2>4. PICK key \in Keys \cup {NoKey} :
            session' = [session EXCEPT ![h] = [token |-> session'[h].token, key |-> key]]
    BY <1>1, <2>1, MintedToken DEF RequestInv
  <2> QED BY <1>0, <2>2, <2>3, <2>4
<1>2. ASSUME NEW h \in Holders, NEW g \in Holders, Deriving(h, g) PROVE SessionsOK'
  <2>1. PICK caveat \in RawCaveats, key \in Keys \cup {NoKey} :
            session' = [session EXCEPT ![g] =
                [token |-> Attenuate(session[h].token, caveat), key |-> key]]
    BY <1>0, <1>2, DerivedToken
  <2>2. Attenuate(session[h].token, caveat) \in Tokens
    BY <1>0, <1>2, DerivedToken, Narrowed
  <2>3. session' \in [Holders -> [token : Tokens \cup {NoToken}, key : Keys \cup {NoKey}]]
    BY <1>0, <2>1, <2>2
  <2>4. source' = [source EXCEPT ![g] = h] /\ proven' = [proven EXCEPT ![g] = proven[h]]
    BY <1>0, <1>2, DerivedToken
  <2>5. source' \in [Holders -> Holders \cup {Nobody}] /\ proven' \in [Holders -> Keys \cup {NoKey}]
    BY <1>0, <2>4
  <2> QED BY <2>3, <2>5
<1>3. CASE UNCHANGED holding
  BY <1>0, <1>3 DEF holding
<1> QED BY <1>0, <1>1, <1>2, <1>3, Frames

LEMMA CallTyped ==
    ASSUME TypeOK, Calling
    PROVE  call' \in CallRecords
<1>0. call \in CallRecords /\ now \in Times
      /\ \A h \in Holders : session[h].key \in Keys \cup {NoKey}
  BY DEF TypeOK, RootsOK, SessionsOK
<1>1. ASSUME NEW h \in Holders, NEW right \in Rights, NEW path \in Paths \cup {NoPath},
             NEW cert \in Keys \cup {NoKey}, NEW stages \in SUBSET {"cleared", "accepted", "refused"},
             Decide(h, right, path, cert, stages)
      PROVE  call' \in CallRecords
  BY <1>0, <1>1 DEF Decide, CallRecords
<1>2. ASSUME NEW h \in Holders, NEW right \in Rights, NEW path \in Paths \cup {NoPath},
             CheckTool(h, right, path)
      PROVE  call' \in CallRecords
  BY <1>1, <1>2 DEF CheckTool
<1>3. ASSUME NEW h \in Holders, NEW right \in Rights, NEW cert \in Keys \cup {NoKey},
             CheckServer(h, right, cert)
      PROVE  call' \in CallRecords
  BY <1>1, <1>3 DEF CheckServer
<1>4. CASE RunTool
  BY <1>0, <1>4 DEF RunTool, CallRecords
<1>5. CASE EndCall
  <2>1. NoCall \in CallRecords
    BY DEF NoCall, CallRecords, Times
  <2> QED BY <1>5, <2>1 DEF EndCall
<1> QED BY <1>2, <1>3, <1>4, <1>5 DEF Calling

LEMMA LeftTyped ==
    ASSUME left \in [Kinds -> Nat], SessionsOK, [Next]_vars
    PROVE  left' \in [Kinds -> Nat]
<1>1. ASSUME NEW kind \in Kinds, Spend(kind) PROVE left' \in [Kinds -> Nat]
  BY <1>1 DEF Spend
<1>2. left' = left \/ \E kind \in Kinds : Spend(kind)
  BY Steps DEF vars, Administer, Rotate, Requesting, Attest, Match, Stamp, ReadRoot, CreateRoot,
               Mint, Deny, Deriving, Derive, Calling, CheckTool, CheckServer, RunTool,
               EndCall, Tick, Kinds
<1> QED BY <1>1, <1>2

(* Where each action takes a request. *)
LEMMA Moves ==
    ASSUME TypeOK, NEW r \in Issuers, Requesting(r)
    PROVE  /\ \A o \in Issuers \ {r} : request'[o] = request[o]
           /\ LET q == request[r]
                  n == request'[r]
              IN  \/ Attest(r) /\ n.stage = "match" /\ n.evidence \in Evidence
                  \/ (Deny(r) \/ \E h \in Holders : Mint(r, h)) /\ n.stage = "idle"
                  \/ /\ Match(r) /\ q.stage = "match" /\ n.stage = "stamp"
                     /\ n.evidence = q.evidence
                     /\ \E id \in Registered : /\ Chosen(id, q.evidence)
                                               /\ n.caps = Normalize(entries[id].caps)
                  \/ /\ Stamp(r) /\ q.stage = "stamp"
                     /\ n.stage = "root" \/ (n.stage = "commit" /\ n.caps = {})
                     /\ n.evidence = q.evidence /\ n.caps = q.caps
                     /\ n.exp \in (now + 1) .. (now + MaxTtl)
                  \/ /\ ReadRoot(r) /\ q.stage = "root"
                     /\ n.stage = "create" \/ (n.stage = "commit" /\ n.root \in ActiveRoots)
                     /\ n.evidence = q.evidence /\ n.caps = q.caps /\ n.exp = q.exp
                  \/ /\ CreateRoot(r) /\ q.stage = "create" /\ n.stage = "commit"
                     /\ n.root \in Roots /\ InsertRoot(n.root)
                     /\ n.evidence = q.evidence /\ n.caps = q.caps /\ n.exp = q.exp
<1> DEFINE q == request[r]
           n == request'[r]
<1>0. request \in [Issuers -> Requests] /\ q \in Requests /\ now \in Nat
  BY DEF TypeOK, RootsOK, Times
<1>1. ASSUME NEW m, Become(r, m)
      PROVE  n = m /\ \A o \in Issuers \ {r} : request'[o] = request[o]
  BY <1>0, <1>1 DEF Become
<1>2. \E m : Become(r, m)
  <2>1. CASE Attest(r)
    BY <2>1 DEF Attest
  <2>2. CASE Match(r)
    BY <2>2 DEF Match
  <2>3. CASE Stamp(r)
    BY <2>3 DEF Stamp
  <2>4. CASE ReadRoot(r) \/ CreateRoot(r)
    BY <2>4 DEF ReadRoot, CreateRoot
  <2>5. CASE Deny(r) \/ \E h \in Holders : Mint(r, h)
    BY <2>5 DEF Deny, Mint
  <2> QED BY <2>1, <2>2, <2>3, <2>4, <2>5 DEF Requesting
<1>3. \A o \in Issuers \ {r} : request'[o] = request[o]
  BY <1>1, <1>2
<1>4. \A s, e : /\ [q EXCEPT !.stage = s, !.evidence = e].stage = s
                /\ [q EXCEPT !.stage = s, !.evidence = e].evidence = e
                /\ [q EXCEPT !.stage = s, !.caps = e].stage = s
                /\ [q EXCEPT !.stage = s, !.caps = e].caps = e
                /\ [q EXCEPT !.stage = s, !.caps = e].evidence = q.evidence
                /\ [q EXCEPT !.stage = s, !.exp = e].stage = s
                /\ [q EXCEPT !.stage = s, !.exp = e].exp = e
                /\ [q EXCEPT !.stage = s, !.exp = e].caps = q.caps
                /\ [q EXCEPT !.stage = s, !.exp = e].evidence = q.evidence
                /\ [q EXCEPT !.stage = s, !.root = e].stage = s
                /\ [q EXCEPT !.stage = s, !.root = e].root = e
                /\ [q EXCEPT !.stage = s, !.root = e].exp = q.exp
                /\ [q EXCEPT !.stage = s, !.root = e].caps = q.caps
                /\ [q EXCEPT !.stage = s, !.root = e].evidence = q.evidence
                /\ [q EXCEPT !.stage = s].stage = s
                /\ [q EXCEPT !.stage = s].exp = q.exp
                /\ [q EXCEPT !.stage = s].caps = q.caps
                /\ [q EXCEPT !.stage = s].evidence = q.evidence
  BY <1>0 DEF Requests
<1>5. CASE Attest(r)
  <2>1. PICK evidence \in Evidence :
            Become(r, [q EXCEPT !.stage = "match", !.evidence = evidence])
    BY <1>5 DEF Attest
  <2>2. n = [q EXCEPT !.stage = "match", !.evidence = evidence]
    BY <1>1, <2>1
  <2>3. n.stage = "match" /\ n.evidence \in Evidence
    BY <1>4, <2>2
  <2> QED BY <1>3, <1>5, <2>3
<1>6. CASE Deny(r) \/ \E h \in Holders : Mint(r, h)
  <2>1. Become(r, NoRequest)
    BY <1>6 DEF Deny, Mint
  <2>2. n = NoRequest
    BY <1>1, <2>1
  <2>3. n.stage = "idle"
    BY <2>2 DEF NoRequest
  <2> QED BY <1>3, <1>6, <2>3
<1>7. CASE Match(r)
  <2>1. PICK id \in Registered :
          /\ Chosen(id, q.evidence)
          /\ Become(r, [q EXCEPT !.stage = "stamp", !.caps = Normalize(entries[id].caps)])
    BY <1>7 DEF Match
  <2>2. n = [q EXCEPT !.stage = "stamp", !.caps = Normalize(entries[id].caps)]
    BY <1>1, <2>1
  <2>3. n.stage = "stamp" /\ n.evidence = q.evidence /\ n.caps = Normalize(entries[id].caps)
    BY <1>4, <2>2
  <2>4. q.stage = "match"
    BY <1>7 DEF Match, Step
  <2> QED BY <1>3, <1>7, <2>1, <2>3, <2>4
<1>8. CASE Stamp(r)
  <2>1. PICK ttl \in 1 .. MaxTtl :
            Become(r, [q EXCEPT !.stage = IF q.caps = {} THEN "commit" ELSE "root",
                                !.exp = now + ttl])
    BY <1>8 DEF Stamp
  <2>2. n = [q EXCEPT !.stage = IF q.caps = {} THEN "commit" ELSE "root", !.exp = now + ttl]
    BY <1>1, <2>1
  <2>3. /\ n.stage = IF q.caps = {} THEN "commit" ELSE "root"
        /\ n.evidence = q.evidence /\ n.caps = q.caps /\ n.exp = now + ttl
    BY <1>4, <2>2
  <2>4. q.stage = "stamp"
    BY <1>8 DEF Stamp, Step
  <2>5. n.exp \in (now + 1) .. (now + MaxTtl)
    BY <1>0, <2>3
  <2>6. n.stage = "root" \/ (n.stage = "commit" /\ n.caps = {})
    BY <2>3
  <2> QED BY <1>3, <1>8, <2>3, <2>4, <2>5, <2>6
<1>9. CASE ReadRoot(r)
  <2>1. q.stage = "root"
    BY <1>9 DEF ReadRoot, Step
  <2>2. \/ \E k \in ActiveRoots : Become(r, [q EXCEPT !.stage = "commit", !.root = k])
        \/ Become(r, [q EXCEPT !.stage = "create"])
    BY <1>9 DEF ReadRoot
  <2>3. \/ \E k \in ActiveRoots : n = [q EXCEPT !.stage = "commit", !.root = k]
        \/ n = [q EXCEPT !.stage = "create"]
    BY <1>1, <2>2
  <2>4. /\ n.stage = "create" \/ (n.stage = "commit" /\ n.root \in ActiveRoots)
        /\ n.evidence = q.evidence /\ n.caps = q.caps /\ n.exp = q.exp
    <3>1. CASE n = [q EXCEPT !.stage = "create"]
      BY <1>4, <3>1
    <3>2. ASSUME NEW k \in ActiveRoots, n = [q EXCEPT !.stage = "commit", !.root = k]
          PROVE  /\ n.stage = "commit" /\ n.root = k
                 /\ n.evidence = q.evidence /\ n.caps = q.caps /\ n.exp = q.exp
      BY <1>4, <3>2
    <3> QED BY <2>3, <3>1, <3>2
  <2> QED BY <1>3, <1>9, <2>1, <2>4
<1>10. CASE CreateRoot(r)
  <2>1. q.stage = "create"
    BY <1>10 DEF CreateRoot, Step
  <2>2. PICK k \in Roots : InsertRoot(k) /\ Become(r, [q EXCEPT !.stage = "commit", !.root = k])
    BY <1>10 DEF CreateRoot
  <2>3. n = [q EXCEPT !.stage = "commit", !.root = k]
    BY <1>1, <2>2
  <2>4. n.stage = "commit" /\ n.root = k
        /\ n.evidence = q.evidence /\ n.caps = q.caps /\ n.exp = q.exp
    BY <1>4, <2>3
  <2> QED BY <1>3, <1>10, <2>1, <2>2, <2>4
<1> QED BY <1>5, <1>6, <1>7, <1>8, <1>9, <1>10 DEF Requesting

LEMMA RequestInvStep ==
    ASSUME TypeOK, RequestInv, NEW r \in Issuers, Requesting(r)
    PROVE  RequestInv'
<1>0. Proving(r) /\ Rooted(r) /\ request[r] \in Requests
  BY DEF RequestInv, TypeOK
<1>1. \A o \in Issuers \ {r} : request'[o] = request[o]
  BY Moves
<1>2. Proving(r)'
  <2>1. request[r].evidence \in Evidence => request[r].evidence.key \in Keys \cup {NoKey}
    BY RegistrationAssumption
  <2>2. CASE Match(r)
    <3>1. \/ request'[r].stage = "stamp" /\ request'[r].evidence = request[r].evidence
             /\ request[r].evidence.key # NoKey
          \/ request'[r].stage = "idle"
          \/ request'[r].stage = "match" /\ request'[r].evidence \in Evidence
      BY <2>2, Moves DEF Chosen, Match, Step
    <3> QED BY <1>0, <2>1, <2>2, <3>1 DEF Proving, Match, Step
  <2>3. CASE ~Match(r)
    BY <1>0, <2>3, Moves DEF Proving
  <2> QED BY <2>2, <2>3
<1>3. Rooted(r)'
  BY <1>0, Moves DEF Rooted, ActiveRoots
<1> QED BY <1>1, <1>2, <1>3 DEF RequestInv, Proving, Rooted

LEMMA TypeInit == Init => TypeOK /\ RequestInv
<1> SUFFICES ASSUME Init PROVE TypeOK /\ RequestInv
  OBVIOUS
<1> USE DEF Init
<1>1. TablesOK
  BY DEF TablesOK
<1>2. RootsOK
  BY DEF RootsOK, RootInit, Idle, Times, NoRoot
<1>3. request \in [Issuers -> Requests] /\ RequestInv
  BY DEF Requests, NoRequest, NoRoot, RequestInv, Proving, Rooted
<1>4. SessionsOK
  BY DEF SessionsOK, NoSession
<1>5. call \in CallRecords
  BY DEF CallRecords, NoCall, Times
<1>6. left \in [Kinds -> Nat]
  OBVIOUS
<1> QED BY <1>1, <1>2, <1>3, <1>4, <1>5, <1>6 DEF TypeOK

LEMMA TypeStep == TypeOK /\ RequestInv /\ [Next]_vars => TypeOK' /\ RequestInv'
<1> SUFFICES ASSUME TypeOK, RequestInv, [Next]_vars PROVE TypeOK' /\ RequestInv'
  OBVIOUS
<1>0. SessionsOK
  BY DEF TypeOK
<1>1. request' \in [Issuers -> Requests] /\ RequestInv'
  <2>1. CASE UNCHANGED request
    BY <2>1 DEF TypeOK, RequestInv, Proving, Rooted
  <2> QED BY <1>0, <2>1, RequestsTyped, RequestInvStep, Frames
<1>2. call' \in CallRecords
  BY <1>0, CallTyped, Frames DEF TypeOK
<1>3. mtls' \in {"off", "lenient", "strict"} /\ left' \in [Kinds -> Nat]
  BY <1>0, LeftTyped, Frames DEF TypeOK
<1> QED BY <1>1, <1>2, <1>3, TablesTyped, RootsTyped, SessionsTyped DEF TypeOK

(* The types of Delegation.                                                 *)
THEOREM TypeCorrect == Spec => []TypeOK
<1>1. Spec => [](TypeOK /\ RequestInv)
  BY TypeInit, TypeStep, PTL DEF Spec
<1> QED BY <1>1, PTL

-----------------------------------------------------------------------------
(* What a request sees of the table while it runs.                          *)
WindowInv ==
    /\ \A r \in Issuers : request[r].stage = "match" => InTable \subseteq window[r]
    /\ \A id \in Registered : Granted(entries[id]) \subseteq approved
    /\ \A r \in Issuers : \A entry \in window[r] : Granted(entry) \subseteq approved

LEMMA Windows ==
    ASSUME TypeOK, [Next]_vars
    PROVE  /\ ~Administer => UNCHANGED tables /\ InTable' = InTable
           /\ \A r \in Issuers :
                \/ window[r] \subseteq window'[r] /\ (Administer \/ window'[r] = window[r])
                \/ Attest(r) /\ window'[r] = InTable
                \/ window'[r] = {} /\ (Deny(r) \/ \E h \in Holders : Mint(r, h))
<1>0. SessionsOK /\ window \in [Issuers -> SUBSET Entries]
  BY DEF TypeOK, TablesOK
<1>1. ~Administer => UNCHANGED tables /\ InTable' = InTable
  BY <1>0, Frames DEF InTable, Registered, tables
<1>2. CASE Administer
  BY <1>0, <1>1, <1>2 DEF Administer
<1>3. ASSUME NEW r \in Issuers, NEW o \in Issuers, Requesting(r)
      PROVE  \/ window'[o] = window[o]
             \/ Attest(o) /\ window'[o] = InTable
             \/ window'[o] = {} /\ (Deny(o) \/ \E h \in Holders : Mint(o, h))
  <2>1. CASE Attest(r)
    BY <1>0, <2>1 DEF Attest
  <2>2. CASE Deny(r) \/ \E h \in Holders : Mint(r, h)
    BY <1>0, <2>2 DEF Deny, Mint
  <2>3. CASE Match(r) \/ Stamp(r) \/ ReadRoot(r) \/ CreateRoot(r)
    BY <2>3 DEF Match, Stamp, ReadRoot, CreateRoot
  <2> QED BY <1>3, <2>1, <2>2, <2>3 DEF Requesting
<1>4. CASE UNCHANGED window
  BY <1>1, <1>4
<1>5. Administer \/ (\E r \in Issuers : Requesting(r)) \/ UNCHANGED window
  BY <1>0, Steps DEF vars, issuing, Rotate, Deriving, Derive, Calling, CheckTool, CheckServer,
                     Decide, RunTool, EndCall, Tick
<1> QED BY <1>1, <1>2, <1>3, <1>4, <1>5

LEMMA ApprovedStep ==
    ASSUME TypeOK, WindowInv, [Next]_vars
    PROVE  /\ approved \subseteq approved'
           /\ \A id \in Registered' : Granted(entries'[id]) \subseteq approved'
<1>0. SessionsOK /\ entries \in [EntryIds -> Entries \cup {Absent}]
  BY DEF TypeOK, TablesOK
<1>1. CASE ~Administer
  BY <1>1, Windows DEF WindowInv, tables, Registered
<1>2. ASSUME NEW id \in EntryIds, NEW application \in Applications, CreateEntry(id, application)
      PROVE  /\ approved \subseteq approved'
             /\ \A e \in Registered' : Granted(entries'[e]) \subseteq approved'
  <2> DEFINE entry == [required |-> application.selectors \ {Blank},
                       length |-> application.filled,
                       caps |-> Reconcile(application.capabilities, application.scopes),
                       assurance |-> application.assurance]
  <2>1. entries' = [entries EXCEPT ![id] = entry] /\ approved' = approved \cup Granted(entry)
    BY <1>2 DEF CreateEntry
  <2> HIDE DEF entry
  <2>2. \A e \in Registered' : e = id \/ (e \in Registered /\ entries'[e] = entries[e])
    BY <1>0, <2>1 DEF Registered
  <2>3. entries'[id] = entry
    BY <1>0, <2>1
  <2> QED BY <2>1, <2>2, <2>3 DEF WindowInv
<1>3. ASSUME NEW id \in EntryIds, DeleteEntry(id)
      PROVE  /\ approved' = approved
             /\ \A e \in Registered' : Granted(entries'[e]) \subseteq approved'
  <2>1. \A e \in Registered' : e \in Registered /\ entries'[e] = entries[e]
    BY <1>0, <1>3 DEF Registered, DeleteEntry
  <2> QED BY <1>3, <2>1 DEF WindowInv, DeleteEntry
<1>4. ASSUME UNCHANGED <<entries, approved>>
      PROVE  /\ approved' = approved
             /\ \A e \in Registered' : Granted(entries'[e]) \subseteq approved'
  BY <1>4 DEF WindowInv, Registered
<1> QED BY <1>1, <1>2, <1>3, <1>4 DEF Administer, CreateAttestor, DeleteAttestor

LEMMA WindowStep ==
    ASSUME TypeOK, WindowInv, [Next]_vars
    PROVE  WindowInv'
<1>0. SessionsOK
  BY DEF TypeOK
<1>1. ASSUME NEW r \in Issuers, request'[r].stage = "match"
      PROVE  InTable' \subseteq window'[r]
  <2>1. CASE Administer
    <3>1. request'[r] = request[r]
      BY <1>0, <2>1 DEF Administer
    <3>2. window \in [Issuers -> SUBSET Entries]
      BY DEF TypeOK, TablesOK
    <3>3. window'[r] = window[r] \cup InTable'
      BY <1>1, <2>1, <3>1, <3>2 DEF Administer
    <3> QED BY <3>3
  <2>2. CASE ~Administer
    <3>1. CASE request'[r] = request[r]
      <4>1. ~Attest(r) /\ ~Deny(r) /\ ~\E h \in Holders : Mint(r, h)
        BY <1>1, <3>1, Moves DEF Attest, Deny, Mint, Step, Requesting
      <4> QED BY <1>1, <2>2, <3>1, <4>1, Windows DEF WindowInv
    <3>2. CASE request'[r] # request[r]
      <4>1. PICK o \in Issuers : Requesting(o)
        BY <1>0, <3>2, Frames
      <4>2. o = r
        BY <3>2, <4>1, Moves
      <4>3. Attest(r)
        BY <1>1, <4>1, <4>2, Moves
      <4>4. window'[r] = InTable
        BY <4>3 DEF Attest, TypeOK, TablesOK
      <4> QED BY <2>2, <4>4, Windows
    <3> QED BY <3>1, <3>2
  <2> QED BY <2>1, <2>2
<1>2. ASSUME NEW r \in Issuers, NEW entry \in window'[r]
      PROVE  Granted(entry) \subseteq approved'
  <2>1. \A e \in InTable' : Granted(e) \subseteq approved'
    BY ApprovedStep DEF InTable, Registered
  <2>2. entry \in window[r] => Granted(entry) \subseteq approved'
    BY ApprovedStep DEF WindowInv
  <2>3. CASE Administer
    <3>1. window \in [Issuers -> SUBSET Entries]
      BY DEF TypeOK, TablesOK
    <3>2. entry \in window[r] \cup InTable'
      BY <2>3, <3>1 DEF Administer
    <3> QED BY <2>1, <2>2, <3>2
  <2>4. CASE ~Administer
    BY <2>1, <2>2, <2>4, Windows
  <2> QED BY <2>3, <2>4
<1> QED BY <1>1, <1>2, ApprovedStep DEF WindowInv

LEMMA MintsStep ==
    ASSUME TypeOK, WindowInv, MintsWereApproved, [Next]_vars
    PROVE  MintsWereApproved'
<1> SUFFICES ASSUME NEW r \in Issuers, request'[r].stage \in {"stamp", "root", "create", "commit"}
             PROVE  \E entry \in window'[r] :
                      /\ request'[r].caps = Normalize(entry.caps)
                      /\ entry.required \subseteq Presented(request'[r].evidence)
                      /\ Rank[Assurance(request'[r].evidence)] >= Rank[entry.assurance]
  BY DEF MintsWereApproved
<1>0. SessionsOK
  BY DEF TypeOK
<1>1. window[r] \subseteq window'[r] \/ request'[r].stage \in {"match", "idle"}
  <2>1. Attest(r) => request'[r].stage = "match"
    BY Moves DEF Requesting, Attest, Deny, Match, Stamp, ReadRoot, CreateRoot, Mint, Step
  <2>2. (Deny(r) \/ \E h \in Holders : Mint(r, h)) => request'[r] = NoRequest
    BY DEF Deny, Mint, Become, TypeOK
  <2> QED BY <2>1, <2>2, Windows DEF NoRequest
<1>2. CASE request'[r] = request[r]
  BY <1>1, <1>2 DEF MintsWereApproved
<1>3. CASE request'[r] # request[r]
  <2>1. Requesting(r)
    BY <1>0, <1>3, Frames, Moves
  <2>2. CASE Match(r)
    <3>0. request[r].stage = "match"
      BY <2>2 DEF Match, Step
    <3>1. PICK id \in Registered :
            /\ Chosen(id, request[r].evidence)
            /\ request'[r].caps = Normalize(entries[id].caps)
      BY <2>1, <3>0, Moves
    <3>2. request'[r].evidence = request[r].evidence /\ request[r].stage = "match"
      BY <2>1, <3>0, Moves
    <3>3. id \in Candidates(Presented(request[r].evidence))
      BY <3>1 DEF Chosen, Best
    <3>4. entries[id].required \subseteq Presented(request[r].evidence)
      BY <3>3 DEF Candidates, Matched
    <3>5. entries[id] \in window[r]
      BY <3>1, <3>2 DEF WindowInv, InTable
    <3> QED BY <1>1, <3>1, <3>2, <3>4, <3>5 DEF Chosen
  <2>3. CASE ~Match(r)
    <3>1. /\ request[r].stage \in {"stamp", "root", "create", "commit"}
          /\ request'[r].evidence = request[r].evidence /\ request'[r].caps = request[r].caps
      BY <2>1, <2>3, Moves
    <3> QED BY <1>1, <3>1 DEF MintsWereApproved
  <2> QED BY <2>2, <2>3
<1> QED BY <1>2, <1>3

ApprovalInv == TypeOK /\ RequestInv /\ WindowInv /\ MintsWereApproved

LEMMA Approval == Spec => []ApprovalInv
<1>1. Init => ApprovalInv
  <2> SUFFICES ASSUME Init PROVE ApprovalInv
    OBVIOUS
  <2>1. WindowInv /\ MintsWereApproved
    BY DEF Init, WindowInv, MintsWereApproved, NoRequest, Registered
  <2> QED BY <2>1, TypeInit DEF ApprovalInv
<1>2. ApprovalInv /\ [Next]_vars => ApprovalInv'
  BY TypeStep, WindowStep, MintsStep DEF ApprovalInv
<1> QED BY <1>1, <1>2, PTL DEF Spec

(* Whatever an administrator does meanwhile, identify grants what an entry  *)
(* of the table grants that the evidence proves.                            *)
THEOREM MintsWereApprovedAlways == Spec => []MintsWereApproved
<1>1. ApprovalInv => MintsWereApproved
  BY DEF ApprovalInv
<1> QED BY <1>1, Approval, PTL

-----------------------------------------------------------------------------
(* A session's token extends that of the session it was derived from.       *)
Descends(token, parent) ==
    /\ parent \in Tokens
    /\ \E caveat \in RawCaveats : token = Attenuate(parent, caveat)

InTime(token, t) ==
    t <= token.exp /\ \A i \in DOMAIN token.blocks : t <= token.blocks[i].exp

Unexcluded(path, token) ==
    \A i \in DOMAIN token.blocks :
        /\ ~MatchesAny(path, token.blocks[i].denied)
        /\ token.blocks[i].allowed \cup token.blocks[i].denied # {} => path \notin Escaping

ChainInv ==
    \A h \in Holders :
        /\ source[h] = Nobody => session[h].token = NoToken
        /\ source[h] # Nobody =>
             /\ source[source[h]] # Nobody
             /\ source[h] # h => Descends(session[h].token, session[source[h]].token)
        /\ session[h].token # NoToken =>
             /\ session[h].token.key = proven[h]
             /\ \A right \in Rights : Covers(session[h].token.caps, right) => right \in approved

(* What a token forbids, those that extend it forbid.                       *)
LEMMA DescentNarrows ==
    ASSUME NEW token, NEW parent, Descends(token, parent)
    PROVE  /\ token \in Tokens
           /\ token.caps = parent.caps /\ token.key = parent.key
           /\ \A right, t : Grants(token, right, t) => Grants(parent, right, t)
           /\ \A path : Unexcluded(path, token) => Unexcluded(path, parent)
<1>1. PICK caveat \in RawCaveats : token = Attenuate(parent, caveat)
  BY DEF Descends
<1>2. parent \in Tokens
  BY DEF Descends
<1> DEFINE block == [caveat EXCEPT !.caps = Normalize(@)]
<1>3. block \in Caveats /\ token = [parent EXCEPT !.blocks = Append(@, block)] /\ token \in Tokens
  BY <1>1, <1>2, Narrowed
<1> HIDE DEF block
<1>4. /\ token.blocks = Append(parent.blocks, block)
      /\ token.caps = parent.caps /\ token.key = parent.key /\ token.exp = parent.exp
  BY <1>2, <1>3 DEF Tokens
<1>5. parent.blocks \in Seq(Caveats)
  BY <1>2 DEF Tokens
<1>6. \A i \in DOMAIN parent.blocks :
         i \in DOMAIN token.blocks /\ token.blocks[i] = parent.blocks[i]
  BY <1>3, <1>4, <1>5
<1>7. \A right, t : Grants(token, right, t) => Grants(parent, right, t)
  BY <1>4, <1>6 DEF Grants
<1>8. \A path : Unexcluded(path, token) => Unexcluded(path, parent)
  BY <1>6 DEF Unexcluded
<1> QED BY <1>3, <1>4, <1>7, <1>8

LEMMA GrantedInTime ==
    ASSUME NEW token, NEW right, NEW t, Grants(token, right, t)
    PROVE  InTime(token, t)
BY DEF Grants, Admits, InTime

LEMMA ScopeExcludes ==
    ASSUME NEW token, NEW path, path # NoPath, InScope(path, PathFacts(token))
    PROVE  Unexcluded(path, token)
<1> DEFINE facts == PathFacts(token)
<1> SUFFICES ASSUME NEW i \in DOMAIN token.blocks
             PROVE  /\ ~MatchesAny(path, token.blocks[i].denied)
                    /\ token.blocks[i].allowed \cup token.blocks[i].denied # {} => path \notin Escaping
  BY DEF Unexcluded
<1>1. token.blocks[i].denied \subseteq facts.denied /\ token.blocks[i].allowed \subseteq facts.allowed
  BY DEF PathFacts
<1> HIDE DEF facts
<1>2. \/ facts.allowed \cup facts.denied = {}
      \/ path \notin Escaping /\ ~MatchesAny(path, facts.denied)
  BY DEF InScope, facts
<1> QED BY <1>1, <1>2 DEF MatchesAny

(* A session is made once, and is what it is from then on.                  *)
LEMMA SessionsStay ==
    ASSUME SessionsOK, [Next]_vars, NEW h \in Holders, source[h] # Nobody
    PROVE  session'[h] = session[h] /\ source'[h] = source[h] /\ proven'[h] = proven[h]
<1>1. ASSUME NEW r \in Issuers, NEW g \in Holders, Mint(r, g)
      PROVE  session'[h] = session[h] /\ source'[h] = source[h] /\ proven'[h] = proven[h]
  <2>1. g # h
    BY <1>1 DEF Mint
  <2> QED BY <1>1, <2>1 DEF Mint, SessionsOK
<1>2. ASSUME NEW f \in Holders, NEW g \in Holders, Deriving(f, g)
      PROVE  session'[h] = session[h] /\ source'[h] = source[h] /\ proven'[h] = proven[h]
  <2>1. g # h
    BY <1>2, DerivedToken
  <2> QED BY <1>2, <2>1, DerivedToken DEF SessionsOK
<1>3. CASE UNCHANGED holding
  BY <1>3 DEF holding
<1> QED BY <1>1, <1>2, <1>3, Frames

(* What a request may mint, some entry was registered to grant.             *)
LEMMA MintsApproved ==
    ASSUME ApprovalInv, NEW r \in Issuers, NEW h \in Holders, Mint(r, h)
    PROVE  \A right \in Rights :
             Covers(Normalize(request[r].caps), right) => right \in approved
<1>1. request[r].stage = "commit"
  BY DEF Mint, Step
<1>2. PICK entry \in window[r] : request[r].caps = Normalize(entry.caps)
  BY <1>1 DEF ApprovalInv, MintsWereApproved
<1>3. Granted(entry) \subseteq approved
  BY DEF ApprovalInv, WindowInv
<1>4. Normalize(request[r].caps) = Normalize(entry.caps)
  BY <1>2 DEF Normalize
<1> QED BY <1>3, <1>4 DEF Granted

LEMMA ChainMint ==
    ASSUME ApprovalInv, ChainInv, NEW r \in Issuers, NEW h \in Holders, Mint(r, h)
    PROVE  /\ source'[h] = h
           /\ session'[h].token # NoToken =>
                /\ session'[h].token.key = proven'[h]
                /\ \A right \in Rights :
                     Covers(session'[h].token.caps, right) => right \in approved
<1>0. TypeOK /\ Proving(r) /\ Rooted(r)
  BY DEF ApprovalInv, RequestInv
<1>1. source'[h] = h /\ proven'[h] = request[r].evidence.key
  BY <1>0 DEF Mint, TypeOK, SessionsOK
<1>2. session'[h].token # NoToken =>
        session'[h].token = Biscuit(request[r].root, request[r].caps, request[r].evidence.key,
                                    request[r].exp)
  BY <1>0, MintedToken
<1>3. session'[h].token # NoToken =>
        /\ session'[h].token.key = request[r].evidence.key
        /\ session'[h].token.caps = Normalize(request[r].caps)
  BY <1>2 DEF Biscuit
<1> QED BY <1>1, <1>3, MintsApproved

LEMMA ChainStep ==
    ASSUME ApprovalInv, ChainInv, [Next]_vars
    PROVE  ChainInv'
<1>0. TypeOK /\ SessionsOK /\ approved \subseteq approved'
  BY ApprovedStep DEF ApprovalInv, TypeOK
<1> DEFINE Linked(h) ==
             /\ source[h] = Nobody => session[h].token = NoToken
             /\ source[h] # Nobody =>
                  /\ source[source[h]] # Nobody
                  /\ source[h] # h => Descends(session[h].token, session[source[h]].token)
             /\ session[h].token # NoToken =>
                  /\ session[h].token.key = proven[h]
                  /\ \A right \in Rights :
                       Covers(session[h].token.caps, right) => right \in approved
<1>1. ChainInv <=> \A h \in Holders : Linked(h)
  BY DEF ChainInv
<1>2. ChainInv' <=> \A h \in Holders : Linked(h)'
  BY DEF ChainInv
<1>3. ASSUME NEW h \in Holders, source[h] # Nobody PROVE Linked(h)'
  <2>1. source[h] \in Holders /\ source[source[h]] # Nobody
    BY <1>0, <1>1, <1>3 DEF SessionsOK
  <2>2. session'[h] = session[h] /\ source'[h] = source[h] /\ proven'[h] = proven[h]
    BY <1>0, <1>3, SessionsStay
  <2>3. session'[source[h]] = session[source[h]] /\ source'[source[h]] = source[source[h]]
    BY <1>0, <2>1, SessionsStay
  <2> QED BY <1>0, <1>1, <1>3, <2>1, <2>2, <2>3
<1>4. ASSUME NEW h \in Holders, source[h] = Nobody, UNCHANGED <<session[h], source[h], proven[h]>>
      PROVE  Linked(h)'
  BY <1>0, <1>1, <1>4
<1>5. ASSUME NEW r \in Issuers, NEW g \in Holders, Mint(r, g) PROVE \A h \in Holders : Linked(h)'
  <2>1. Linked(g)'
    <3>1. /\ source'[g] = g
          /\ session'[g].token # NoToken =>
               /\ session'[g].token.key = proven'[g]
               /\ \A right \in Rights :
                    Covers(session'[g].token.caps, right) => right \in approved
      BY <1>5, ChainMint
    <3>2. g # Nobody
      OBVIOUS
    <3> QED BY <1>0, <3>1, <3>2
  <2>2. \A h \in Holders \ {g} : UNCHANGED <<session[h], source[h], proven[h]>>
    BY <1>0, <1>5 DEF Mint, SessionsOK
  <2> QED BY <1>3, <1>4, <2>1, <2>2
<1>6. ASSUME NEW f \in Holders, NEW g \in Holders, Deriving(f, g)
      PROVE  \A h \in Holders : Linked(h)'
  <2>1. PICK caveat \in RawCaveats, key \in Keys \cup {NoKey} :
            session' = [session EXCEPT ![g] =
                [token |-> Attenuate(session[f].token, caveat), key |-> key]]
    BY <1>0, <1>6, DerivedToken
  <2>2. /\ source[g] = Nobody /\ session[f].token \in Tokens
        /\ source' = [source EXCEPT ![g] = f] /\ proven' = [proven EXCEPT ![g] = proven[f]]
    BY <1>0, <1>6, DerivedToken
  <2>3. \A h \in Holders \ {g} : UNCHANGED <<session[h], source[h], proven[h]>>
    BY <1>0, <2>1, <2>2 DEF SessionsOK
  <2>4. session'[g].token = Attenuate(session[f].token, caveat)
    BY <1>0, <2>1 DEF SessionsOK
  <2>5. source'[g] = f /\ proven'[g] = proven[f]
    BY <1>0, <2>2 DEF SessionsOK
  <2>6. session[f].token # NoToken /\ source[f] # Nobody /\ f # g
    BY <1>1, <2>2, NoTokenIsNone
  <2>7. session'[f] = session[f] /\ source'[f] = source[f]
    BY <2>3, <2>6
  <2>8. Descends(session'[g].token, session[f].token)
    BY <2>2, <2>4 DEF Descends
  <2>9. session'[g].token.caps = session[f].token.caps /\ session'[g].token.key = session[f].token.key
    BY <2>8, DescentNarrows
  <2>10. f # Nobody
    OBVIOUS
  <2>11. Linked(g)'
    BY <1>0, <1>1, <2>5, <2>6, <2>7, <2>8, <2>9, <2>10
  <2> QED BY <1>3, <1>4, <2>3, <2>11
<1> HIDE DEF Linked
<1>7. ASSUME UNCHANGED holding PROVE \A h \in Holders : Linked(h)'
  BY <1>3, <1>4, <1>7 DEF holding
<1>8. \A h \in Holders : Linked(h)'
  BY <1>0, <1>5, <1>6, <1>7, Frames
<1> QED BY <1>2, <1>8

-----------------------------------------------------------------------------
(* A call goes ahead for what its session's token grants at the time.       *)
Covered(c) ==
    /\ c.holder \in Holders
    /\ source[c.holder] # Nobody
    /\ LET token == session[c.holder].token IN
       /\ token \in Tokens
       /\ c.key = token.key
       /\ Grants(token, c.right, c.at)
       /\ c.path # NoPath => Unexcluded(c.path, token)
    /\ c.stage = "accepted" => MtlsAccepts(c.cert, c.key)

CallInv == InUse => Covered(call)

LEMMA AllowedCovers ==
    ASSUME SessionsOK, NEW h \in Holders, NEW right, NEW path, Allowed(h, right, path)
    PROVE  /\ session[h].token \in Tokens
           /\ session[h].key = session[h].token.key
           /\ Grants(session[h].token, right, now)
           /\ path # NoPath => Unexcluded(path, session[h].token)
<1>1. session[h].token \in Tokens
  BY DEF Allowed, SessionsOK
<1>2. /\ InScope(path, PathFacts(session[h].token))
      /\ session[h].key = session[h].token.key
      /\ Grants(session[h].token, right, now)
  BY DEF Allowed, Authorizes, Proves
<1> QED BY <1>1, <1>2, ScopeExcludes

LEMMA DecidedCovers ==
    ASSUME SessionsOK, NEW h \in Holders, NEW right, NEW path, NEW cert, NEW stages,
           Decide(h, right, path, cert, stages),
           stages \cap {"cleared", "running", "accepted"} # {} => Allowed(h, right, path),
           "accepted" \in stages => MtlsAccepts(cert, session[h].key)
    PROVE  CallInv'
<1>1. PICK stage \in stages :
         call' = [stage |-> stage, holder |-> h, right |-> right, path |-> path,
                  key |-> session[h].key, cert |-> cert, at |-> now]
  BY DEF Decide
<1>2. UNCHANGED <<session, source, mtls>> /\ source[h] # Nobody
  BY DEF Decide, holding
<1>3. CASE stage \notin {"cleared", "running", "accepted"}
  BY <1>1, <1>3 DEF CallInv, InUse
<1>4. CASE stage \in {"cleared", "running", "accepted"}
  <2>1. Allowed(h, right, path)
    BY <1>4
  <2>2. /\ call'.stage = stage /\ call'.holder = h /\ call'.right = right /\ call'.path = path
        /\ call'.key = session[h].key /\ call'.cert = cert /\ call'.at = now
    BY <1>1
  <2>3. stage = "accepted" => MtlsAccepts(cert, session[h].key)
    OBVIOUS
  <2>4. stage = "accepted" => MtlsAccepts(call.cert, call.key)'
    BY <1>2, <2>2, <2>3 DEF MtlsAccepts
  <2> QED BY <1>2, <2>1, <2>2, <2>4, AllowedCovers DEF CallInv, Covered, InUse
<1> QED BY <1>3, <1>4

LEMMA CallStep ==
    ASSUME TypeOK, CallInv, [Next]_vars
    PROVE  CallInv'
<1>0. SessionsOK
  BY DEF TypeOK
<1>1. ASSUME NEW h \in Holders, NEW right \in Rights, NEW path \in Paths \cup {NoPath},
             CheckTool(h, right, path)
      PROVE  CallInv'
  <2> DEFINE stages == IF Allowed(h, right, path) THEN {"cleared"} ELSE {"refused"}
  <2>1. Decide(h, right, path, NoKey, stages)
    BY <1>1 DEF CheckTool
  <2>2. "accepted" \notin stages
        /\ (stages \cap {"cleared", "running", "accepted"} # {} => Allowed(h, right, path))
    OBVIOUS
  <2> HIDE DEF stages
  <2> QED BY <1>0, <2>1, <2>2, DecidedCovers
<1>2. ASSUME NEW h \in Holders, NEW right \in Rights, NEW cert \in Keys \cup {NoKey},
             CheckServer(h, right, cert)
      PROVE  CallInv'
  <2> DEFINE stages == IF Allowed(h, right, NoPath) /\ MtlsAccepts(cert, session[h].key)
                       THEN {"accepted", "refused"} ELSE {"refused"}
  <2>1. Decide(h, right, NoPath, cert, stages)
    BY <1>2 DEF CheckServer
  <2>2. /\ "accepted" \in stages => MtlsAccepts(cert, session[h].key)
        /\ stages \cap {"cleared", "running", "accepted"} # {} => Allowed(h, right, NoPath)
    OBVIOUS
  <2> HIDE DEF stages
  <2> QED BY <1>0, <2>1, <2>2, DecidedCovers
<1>3. CASE RunTool
  <2>1. call \in CallRecords /\ call.stage = "cleared" /\ call' = [call EXCEPT !.stage = "running"]
    BY <1>3 DEF RunTool, TypeOK
  <2>2. /\ call'.stage = "running" /\ call'.holder = call.holder /\ call'.right = call.right
        /\ call'.path = call.path /\ call'.key = call.key /\ call'.at = call.at
    BY <2>1 DEF CallRecords
  <2>3. UNCHANGED <<session, source>>
    BY <1>3 DEF RunTool, holding
  <2> QED BY <2>1, <2>2, <2>3 DEF CallInv, Covered, InUse
<1>4. CASE EndCall
  BY <1>4 DEF EndCall, CallInv, InUse, NoCall
<1>5. CASE UNCHANGED call
  <2>1. InUse => source'[call.holder] = source[call.holder] /\ session'[call.holder] = session[call.holder]
    BY <1>0, SessionsStay DEF CallInv, Covered
  <2>2. mtls' = mtls
    BY <1>0, Frames
  <2> QED BY <1>5, <2>1, <2>2 DEF CallInv, Covered, InUse, MtlsAccepts
<1> QED BY <1>0, <1>1, <1>2, <1>3, <1>4, <1>5, Frames DEF Calling

DelegationInv == ApprovalInv /\ ChainInv /\ CallInv

LEMMA Delegations == Spec => []DelegationInv
<1>1. Init => ChainInv /\ CallInv
  <2>1. Init => ChainInv
    BY DEF Init, ChainInv, NoSession
  <2>2. Init => CallInv
    BY DEF Init, CallInv, InUse, NoCall
  <2> QED BY <2>1, <2>2
<1>2. ApprovalInv /\ ChainInv /\ CallInv /\ [Next]_vars => ChainInv' /\ CallInv'
  BY ChainStep, CallStep DEF ApprovalInv
<1> QED BY <1>1, <1>2, Approval, PTL DEF Spec, DelegationInv

(* The tokens a session's stems from.                                       *)
LEMMA Ancestry ==
    ASSUME DelegationInv, NEW h \in Holders, source[h] # Nobody, session[h].token \in Tokens,
           NEW g \in Lineage(h)
    PROVE  /\ \A right, t : Grants(session[h].token, right, t) => Grants(session[g].token, right, t)
           /\ \A path : Unexcluded(path, session[h].token) => Unexcluded(path, session[g].token)
<1> DEFINE Below(x, y) ==
             /\ \A right, t : Grants(session[x].token, right, t) => Grants(session[y].token, right, t)
             /\ \A path : Unexcluded(path, session[x].token) => Unexcluded(path, session[y].token)
<1>0. SessionsOK /\ ChainInv
  BY DEF DelegationInv, ApprovalInv, TypeOK
<1>1. ASSUME NEW x \in Holders, source[x] # Nobody
      PROVE  source[x] \in Holders /\ source[source[x]] # Nobody /\ Below(x, source[x])
  <2>1. source[x] \in Holders /\ source[source[x]] # Nobody
    BY <1>0, <1>1 DEF SessionsOK, ChainInv
  <2>2. CASE source[x] = x
    BY <2>1, <2>2
  <2>3. CASE source[x] # x
    <3>1. Descends(session[x].token, session[source[x]].token)
      BY <1>0, <1>1, <2>3 DEF ChainInv
    <3> QED BY <2>1, <3>1, DescentNarrows
  <2> QED BY <2>2, <2>3
<1> DEFINE Above == {x \in Holders : source[x] # Nobody /\ Below(h, x)}
<1>2. h \in Above
  OBVIOUS
<1>3. ASSUME NEW x \in Above PROVE source[x] \in Above
  <2>1. /\ source[x] \in Holders /\ source[source[x]] # Nobody
        /\ Below(x, source[x])
    BY <1>1, <1>3
  <2>2. Below(h, source[x])
    BY <1>3, <2>1
  <2> QED BY <2>1, <2>2
<1>4. Above \in SUBSET Holders /\ Stemming(Above)
  BY <1>3 DEF Stemming
<1>5. g \in Above
  BY <1>2, <1>4 DEF Lineage
<1> QED BY <1>5

(* A session goes ahead only with the attested key, within every lifetime   *)
(* it stems from, and on the server with that key's certificate.            *)
THEOREM UsesAreBoundAlways == Spec => []UsesAreBound
<1>1. DelegationInv => UsesAreBound
  <2> SUFFICES ASSUME DelegationInv, InUse PROVE UsesAreBound
    BY DEF UsesAreBound
  <2> DEFINE h == call.holder
  <2>1. Covered(call) /\ ChainInv
    BY DEF DelegationInv, CallInv
  <2>2. h \in Holders /\ source[h] # Nobody /\ session[h].token \in Tokens
    BY <2>1 DEF Covered
  <2>3. call.key = proven[h]
    BY <2>1, <2>2, NoTokenIsNone DEF Covered, ChainInv
  <2>4. ASSUME NEW g \in Lineage(h) PROVE InTime(session[g].token, call.at)
    <3>1. Grants(session[g].token, call.right, call.at)
      BY <2>1, <2>2, <2>4, Ancestry DEF Covered
    <3> QED BY <3>1, GrantedInTime
  <2>5. call.stage = "accepted" => MtlsAccepts(call.cert, call.key)
    BY <2>1 DEF Covered
  <2> QED BY <2>3, <2>4, <2>5 DEF UsesAreBound, InTime, MtlsAccepts
<1> QED BY <1>1, Delegations, PTL

(* A path that escapes, or that a denied pattern of a session's token or of *)
(* one it stems from matches, is not cleared for it.  (Allowed patterns do   *)
(* not narrow: PathsOnlyNarrow fails.)                                       *)
THEOREM DeniedStaysDeniedAlways == Spec => []DeniedStaysDenied
<1>1. DelegationInv => DeniedStaysDenied
  <2> SUFFICES ASSUME DelegationInv, InUse, call.path # NoPath, NEW g \in Lineage(call.holder)
               PROVE  Unexcluded(call.path, session[g].token)
    BY DEF DeniedStaysDenied, Unexcluded
  <2>1. Covered(call)
    BY DEF DelegationInv, CallInv
  <2> QED BY <2>1, Ancestry DEF Covered
<1> QED BY <1>1, Delegations, PTL

-----------------------------------------------------------------------------
(* Delegation implements LeastPrivilege.                                    *)
RightsNow == [h \in Holders |-> RightsOf(session[h].token)]
UseNow == IF InUse THEN {<<call.holder, call.right>>} ELSE {}

LEMMA SameRights ==
    ASSUME UNCHANGED <<session, now>>
    PROVE  RightsNow' = RightsNow
BY DEF RightsNow, RightsOf, Grants, Admits, Covers

LEMMA SameUse ==
    ASSUME UNCHANGED call
    PROVE  UseNow' = UseNow
BY DEF UseNow, InUse

LEMMA RightsLapse ==
    ASSUME TypeOK, NEW token \in Tokens, NEW right, Grants(token, right, now + 1)
    PROVE  Grants(token, right, now)
<1>1. now \in Nat /\ token.exp \in Nat /\ token.blocks \in Seq(Caveats)
  BY DEF TypeOK, RootsOK, Times, Tokens
<1>2. \A i \in DOMAIN token.blocks : token.blocks[i] \in Caveats
  BY <1>1
<1>3. \A i \in DOMAIN token.blocks : token.blocks[i].exp \in Nat
  BY <1>2 DEF Caveats
<1> QED BY <1>1, <1>3 DEF Grants, Admits

LEMMA SameAlways ==
    ASSUME UNCHANGED <<approved, session, source, now, call>>
    PROVE  UNCHANGED Ideal!vars
BY SameRights, SameUse DEF Ideal!vars, RightsNow, UseNow

LEMMA Approves ==
    ASSUME DelegationInv, [Next]_vars, Administer
    PROVE  Ideal!Approve
<1>1. approved \subseteq approved' /\ approved' \in SUBSET Rights
  BY ApprovedStep, TypeStep DEF DelegationInv, ApprovalInv, TypeOK, TablesOK
<1>2. UNCHANGED <<session, source, now, call>>
  BY DEF Administer, holding
<1> QED BY <1>1, <1>2, SameRights, SameUse DEF Ideal!Approve, RightsNow, UseNow

LEMMA Endows ==
    ASSUME DelegationInv, NEW r \in Issuers, NEW h \in Holders, Mint(r, h)
    PROVE  \E granted \in SUBSET Rights : Ideal!Endow(h, granted)
<1>0. SessionsOK /\ ApprovalInv /\ ChainInv
  BY DEF DelegationInv, ApprovalInv, TypeOK
<1>1. UNCHANGED <<approved, now, call>> /\ source[h] = Nobody
  BY DEF Mint, Step, tables
<1>2. source' = [source EXCEPT ![h] = h]
  BY DEF Mint
<1>3. \A g \in Holders \ {h} : session'[g] = session[g]
  BY <1>0 DEF Mint, SessionsOK
<1> DEFINE granted == RightsOf(session'[h].token)
<1>4. granted \in SUBSET Rights /\ granted \subseteq approved
  <2>1. CASE session'[h].token = NoToken
    BY <2>1 DEF RightsOf
  <2>2. CASE session'[h].token # NoToken
    <3>1. \A right \in Rights : Covers(session'[h].token.caps, right) => right \in approved
      BY <1>0, <2>2, ChainMint
    <3> QED BY <2>2, <3>1 DEF RightsOf, Grants
  <2> QED BY <2>1, <2>2
<1>5. RightsNow' = [RightsNow EXCEPT ![h] = granted]
  BY <1>1, <1>3 DEF RightsNow, RightsOf
<1> HIDE DEF granted
<1>6. Ideal!Endow(h, granted)
  BY <1>1, <1>2, <1>4, <1>5, SameUse DEF Ideal!Endow, RightsNow, UseNow
<1> QED BY <1>4, <1>6

LEMMA HandsOver ==
    ASSUME DelegationInv, NEW h \in Holders, NEW g \in Holders, Deriving(h, g)
    PROVE  \E granted \in SUBSET Rights : Ideal!HandOver(h, g, granted)
<1>0. SessionsOK /\ ChainInv
  BY DEF DelegationInv, ApprovalInv, TypeOK
<1>1. UNCHANGED <<approved, now, call>>
  BY DEF Deriving, Derive, tables
<1>2. /\ source[g] = Nobody /\ session[h].token \in Tokens
      /\ source' = [source EXCEPT ![g] = h]
  BY <1>0, DerivedToken
<1>3. source[h] # Nobody
  BY <1>0, <1>2, NoTokenIsNone DEF ChainInv
<1>4. PICK caveat \in RawCaveats, key \in Keys \cup {NoKey} :
         session' = [session EXCEPT ![g] =
             [token |-> Attenuate(session[h].token, caveat), key |-> key]]
  BY <1>0, DerivedToken
<1>5. /\ session'[g].token = Attenuate(session[h].token, caveat)
      /\ \A x \in Holders \ {g} : session'[x] = session[x]
  BY <1>0, <1>4 DEF SessionsOK
<1>6. Descends(session'[g].token, session[h].token)
  BY <1>2, <1>5 DEF Descends
<1> DEFINE granted == RightsOf(session'[g].token)
<1>7. granted \in SUBSET Rights /\ granted \subseteq RightsNow[h]
  BY <1>2, <1>6, DescentNarrows, NoTokenIsNone DEF RightsOf, RightsNow
<1>8. RightsNow' = [RightsNow EXCEPT ![g] = granted]
  BY <1>1, <1>5 DEF RightsNow, RightsOf
<1> HIDE DEF granted
<1>9. Ideal!HandOver(h, g, granted)
  BY <1>1, <1>2, <1>3, <1>7, <1>8, SameUse DEF Ideal!HandOver, RightsNow, UseNow
<1> QED BY <1>7, <1>9

LEMMA Lapses ==
    ASSUME DelegationInv, Tick
    PROVE  Ideal!Lapse
<1>0. TypeOK /\ SessionsOK /\ ChainInv
  BY DEF DelegationInv, ApprovalInv, TypeOK
<1>1. UNCHANGED <<approved, session, source, call>> /\ now' = now + 1
  BY DEF Tick, tables, holding
<1>2. RightsNow' \in [Holders -> SUBSET Rights]
  BY DEF RightsNow, RightsOf
<1>3. ASSUME NEW h \in Holders PROVE RightsNow'[h] \subseteq RightsNow[h]
  <2>1. CASE session[h].token = NoToken
    BY <1>1, <2>1 DEF RightsNow, RightsOf
  <2>2. CASE session[h].token # NoToken
    <3>1. session[h].token \in Tokens
      BY <1>0, <2>2 DEF SessionsOK
    <3>2. \A right : Grants(session[h].token, right, now + 1) => Grants(session[h].token, right, now)
      BY <1>0, <3>1, RightsLapse
    <3>3. RightsNow'[h] = {right \in Rights : Grants(session[h].token, right, now + 1)}
      BY <1>1, <2>2 DEF RightsNow, RightsOf
    <3>4. RightsNow[h] = {right \in Rights : Grants(session[h].token, right, now)}
      BY <2>2 DEF RightsNow, RightsOf
    <3> QED BY <3>2, <3>3, <3>4
  <2> QED BY <2>1, <2>2
<1>4. ASSUME NEW h \in Holders, source[h] # Nobody
      PROVE  RightsNow'[h] \subseteq RightsNow'[source[h]]
  <2>1. source[h] \in Holders
    BY <1>0, <1>4 DEF SessionsOK
  <2>2. CASE source[h] = h
    BY <2>2
  <2>3. CASE source[h] # h
    <3>1. Descends(session[h].token, session[source[h]].token)
      BY <1>0, <1>4, <2>3 DEF ChainInv
    <3>2. /\ session[h].token \in Tokens /\ session[source[h]].token \in Tokens
          /\ \A right : Grants(session[h].token, right, now + 1)
                          => Grants(session[source[h]].token, right, now + 1)
      BY <3>1, DescentNarrows DEF Descends
    <3>3. RightsNow'[h] = {right \in Rights : Grants(session[h].token, right, now + 1)}
      BY <1>1, <3>2, NoTokenIsNone DEF RightsNow, RightsOf
    <3>4. RightsNow'[source[h]] = {right \in Rights : Grants(session[source[h]].token, right, now + 1)}
      BY <1>1, <2>1, <3>2, NoTokenIsNone DEF RightsNow, RightsOf
    <3> QED BY <3>2, <3>3, <3>4
  <2> QED BY <2>2, <2>3
<1> QED BY <1>1, <1>2, <1>3, <1>4, SameUse DEF Ideal!Lapse, RightsNow, UseNow

LEMMA Begins ==
    ASSUME DelegationInv, NEW h \in Holders, NEW right \in Rights, NEW path, NEW cert, NEW stages,
           Decide(h, right, path, cert, stages),
           stages \cap {"cleared", "running", "accepted"} # {} => Allowed(h, right, path)
    PROVE  UNCHANGED Ideal!vars \/ Ideal!Begin(h, right)
<1>0. SessionsOK
  BY DEF DelegationInv, ApprovalInv, TypeOK
<1>1. UNCHANGED <<approved, session, source, now>> /\ call = NoCall
  BY DEF Decide, tables, holding
<1>2. PICK stage \in stages :
         call' = [stage |-> stage, holder |-> h, right |-> right, path |-> path,
                  key |-> session[h].key, cert |-> cert, at |-> now]
  BY DEF Decide
<1>3. call'.stage = stage /\ call'.holder = h /\ call'.right = right
  BY <1>2
<1>4. UseNow = {}
  BY <1>1 DEF UseNow, InUse, NoCall
<1>5. CASE stage \notin {"cleared", "running", "accepted"}
  <2>1. UseNow' = {}
    BY <1>3, <1>5 DEF UseNow, InUse
  <2> QED BY <1>1, <1>4, <2>1, SameRights DEF Ideal!vars, RightsNow, UseNow
<1>6. CASE stage \in {"cleared", "running", "accepted"}
  <2>1. UseNow' = {<<h, right>>}
    BY <1>3, <1>6 DEF UseNow, InUse
  <2>2. Allowed(h, right, path)
    BY <1>6
  <2>3. right \in RightsNow[h]
    BY <1>0, <2>2, AllowedCovers, NoTokenIsNone DEF RightsNow, RightsOf
  <2> QED BY <1>1, <2>1, <2>3, SameRights DEF Ideal!Begin, RightsNow, UseNow
<1> QED BY <1>5, <1>6

LEMMA Calls ==
    ASSUME DelegationInv, Calling
    PROVE  \/ UNCHANGED Ideal!vars
           \/ Ideal!End
           \/ \E h \in Holders, right \in Rights : Ideal!Begin(h, right)
<1>1. ASSUME NEW h \in Holders, NEW right \in Rights, NEW path \in Paths \cup {NoPath},
             CheckTool(h, right, path)
      PROVE  UNCHANGED Ideal!vars \/ Ideal!Begin(h, right)
  <2> DEFINE stages == IF Allowed(h, right, path) THEN {"cleared"} ELSE {"refused"}
  <2>1. Decide(h, right, path, NoKey, stages)
    BY <1>1 DEF CheckTool
  <2>2. stages \cap {"cleared", "running", "accepted"} # {} => Allowed(h, right, path)
    OBVIOUS
  <2> HIDE DEF stages
  <2> QED BY <2>1, <2>2, Begins
<1>2. ASSUME NEW h \in Holders, NEW right \in Rights, NEW cert \in Keys \cup {NoKey},
             CheckServer(h, right, cert)
      PROVE  UNCHANGED Ideal!vars \/ Ideal!Begin(h, right)
  <2> DEFINE stages == IF Allowed(h, right, NoPath) /\ MtlsAccepts(cert, session[h].key)
                       THEN {"accepted", "refused"} ELSE {"refused"}
  <2>1. Decide(h, right, NoPath, cert, stages)
    BY <1>2 DEF CheckServer
  <2>2. stages \cap {"cleared", "running", "accepted"} # {} => Allowed(h, right, NoPath)
    OBVIOUS
  <2> HIDE DEF stages
  <2> QED BY <2>1, <2>2, Begins
<1>3. CASE RunTool
  <2>1. UNCHANGED <<approved, session, source, now>>
    BY <1>3 DEF RunTool, tables, holding
  <2>2. call \in CallRecords /\ call.stage = "cleared" /\ call' = [call EXCEPT !.stage = "running"]
    BY <1>3 DEF RunTool, DelegationInv, ApprovalInv, TypeOK
  <2>3. call'.stage = "running" /\ call'.holder = call.holder /\ call'.right = call.right
    BY <2>2 DEF CallRecords
  <2>4. UseNow' = UseNow
    BY <2>2, <2>3 DEF UseNow, InUse
  <2> QED BY <2>1, <2>4, SameRights DEF Ideal!vars, RightsNow, UseNow
<1>4. CASE EndCall
  <2>1. UNCHANGED <<approved, session, source, now>>
    BY <1>4 DEF EndCall, tables, holding
  <2>2. UseNow' = {}
    BY <1>4 DEF EndCall, UseNow, InUse, NoCall
  <2> QED BY <2>1, <2>2, SameRights DEF Ideal!End, RightsNow, UseNow
<1> QED BY <1>1, <1>2, <1>3, <1>4 DEF Calling

(* Delegation implements LeastPrivilege: rights come from what was approved *)
(* and only shrink on the way to a use.                                     *)
THEOREM RightsOnlyShrinkAlways == Spec => RightsOnlyShrink
<1>1. Init => Ideal!Init
  BY DEF Init, Ideal!Init, NoSession, RightsOf, InUse, NoCall
<1>2. DelegationInv /\ [Next]_vars => [Ideal!Next]_Ideal!vars
  <2> SUFFICES ASSUME DelegationInv, [Next]_vars PROVE Ideal!Next \/ UNCHANGED Ideal!vars
    OBVIOUS
  <2>0. SessionsOK
    BY DEF DelegationInv, ApprovalInv, TypeOK
  <2>1. CASE Administer
    BY <2>1, Approves DEF Ideal!Next
  <2>2. CASE (\E p \in Rotators : Rotate(p)) \/ UNCHANGED vars
    <3>1. UNCHANGED <<approved, session, source, now, call>>
      BY <2>2 DEF Rotate, vars, tables, holding
    <3> QED BY <3>1, SameAlways
  <2>3. ASSUME NEW r \in Issuers, Requesting(r), ~\E h \in Holders : Mint(r, h)
        PROVE  UNCHANGED Ideal!vars
    <3>1. UNCHANGED <<approved, session, source, now, call>>
      BY <2>3 DEF Requesting, Attest, Match, Stamp, ReadRoot, CreateRoot, Deny, Step, tables, holding
    <3> QED BY <3>1, SameAlways
  <2>4. ASSUME NEW r \in Issuers, NEW h \in Holders, Mint(r, h) PROVE Ideal!Next
    BY <2>4, Endows DEF Ideal!Next
  <2>5. ASSUME NEW h \in Holders, NEW g \in Holders, Deriving(h, g) PROVE Ideal!Next
    BY <2>5, HandsOver DEF Ideal!Next
  <2>6. CASE Calling
    BY <2>6, Calls DEF Ideal!Next
  <2>7. CASE Tick
    BY <2>7, Lapses DEF Ideal!Next
  <2> QED BY <2>0, <2>1, <2>2, <2>3, <2>4, <2>5, <2>6, <2>7, Steps
<1> QED BY <1>1, <1>2, Delegations, PTL DEF Spec, RightsOnlyShrink, Ideal!Spec

(* What LeastPrivilege means: nobody has a right that was never approved,    *)
(* and nobody who has a token gains one.                                    *)
THEOREM LeastPrivilegeIsSound == Ideal!Spec => []Ideal!OnlyApproved /\ Ideal!NoGain
<1> DEFINE Typed ==
             /\ source \in [Holders -> Holders \cup {Nobody}]
             /\ RightsNow \in [Holders -> SUBSET Rights]
           Sound == Typed /\ Ideal!OnlyApproved
<1>1. Ideal!Init => Sound
  BY DEF Ideal!Init, Ideal!OnlyApproved, RightsNow, UseNow
<1>2. ASSUME Sound, [Ideal!Next]_Ideal!vars
      PROVE  /\ Sound'
             /\ [\A h \in Holders : source[h] # Nobody =>
                   RightsNow'[h] \subseteq RightsNow[h] /\ source'[h] = source[h]]_Ideal!vars
  <2>0. /\ source \in [Holders -> Holders \cup {Nobody}]
        /\ RightsNow \in [Holders -> SUBSET Rights]
        /\ \A h \in Holders : RightsNow[h] \subseteq approved
        /\ \A u \in UseNow : u[2] \in approved
        /\ Nobody \notin Holders
    BY <1>2, DelegationAssumption DEF Ideal!OnlyApproved, RightsNow, UseNow
  <2> DEFINE Kept ==
               /\ source' \in [Holders -> Holders \cup {Nobody}]
               /\ \A h \in Holders : RightsNow'[h] \subseteq approved'
               /\ \A u \in UseNow' : u[2] \in approved'
               /\ \A h \in Holders : source[h] # Nobody =>
                    RightsNow'[h] \subseteq RightsNow[h] /\ source'[h] = source[h]
  <2>1. ASSUME Ideal!Approve PROVE Kept
    <3>1. approved \subseteq approved' /\ RightsNow' = RightsNow /\ source' = source /\ UseNow' = UseNow
      BY <2>1 DEF Ideal!Approve, RightsNow, UseNow
    <3> QED BY <2>0, <3>1
  <2>2. ASSUME Ideal!Lapse PROVE Kept
    <3>1. /\ \A h \in Holders : RightsNow'[h] \subseteq RightsNow[h]
          /\ UNCHANGED <<approved, source>> /\ UseNow' = UseNow
      BY <2>2 DEF Ideal!Lapse, RightsNow, UseNow
    <3> QED BY <2>0, <3>1
  <2>3. ASSUME Ideal!End PROVE Kept
    <3>1. UseNow' = {} /\ RightsNow' = RightsNow /\ UNCHANGED <<approved, source>>
      BY <2>3 DEF Ideal!End, RightsNow, UseNow
    <3> QED BY <2>0, <3>1
  <2>4. ASSUME NEW h \in Holders, NEW granted \in SUBSET Rights, Ideal!Endow(h, granted)
        PROVE  Kept
    <3>1. /\ source[h] = Nobody /\ granted \subseteq approved
          /\ RightsNow' = [RightsNow EXCEPT ![h] = granted]
          /\ source' = [source EXCEPT ![h] = h]
          /\ approved' = approved /\ UseNow' = UseNow
      BY <2>4 DEF Ideal!Endow, RightsNow, UseNow
    <3>2. \A g \in Holders : RightsNow'[g] = (IF g = h THEN granted ELSE RightsNow[g])
      BY <2>0, <3>1
    <3> QED BY <2>0, <3>1, <3>2
  <2>5. ASSUME NEW h \in Holders, NEW g \in Holders, NEW granted \in SUBSET Rights,
               Ideal!HandOver(h, g, granted)
        PROVE  Kept
    <3>1. /\ source[g] = Nobody /\ granted \subseteq RightsNow[h]
          /\ RightsNow' = [RightsNow EXCEPT ![g] = granted]
          /\ source' = [source EXCEPT ![g] = h]
          /\ approved' = approved /\ UseNow' = UseNow
      BY <2>5 DEF Ideal!HandOver, RightsNow, UseNow
    <3>2. \A f \in Holders : RightsNow'[f] = (IF f = g THEN granted ELSE RightsNow[f])
      BY <2>0, <3>1
    <3> QED BY <2>0, <3>1, <3>2
  <2>6. ASSUME NEW h \in Holders, NEW right \in Rights, Ideal!Begin(h, right)
        PROVE  Kept
    <3>1. /\ right \in RightsNow[h] /\ UseNow' = {<<h, right>>}
          /\ RightsNow' = RightsNow /\ UNCHANGED <<approved, source>>
      BY <2>6 DEF Ideal!Begin, RightsNow, UseNow
    <3> QED BY <2>0, <3>1
  <2>7. ASSUME UNCHANGED Ideal!vars PROVE Kept
    <3>1. RightsNow' = RightsNow /\ UseNow' = UseNow /\ UNCHANGED <<approved, source>>
      BY <2>7 DEF Ideal!vars, RightsNow, UseNow
    <3> QED BY <2>0, <3>1
  <2>8. Kept
    BY <1>2, <2>1, <2>2, <2>3, <2>4, <2>5, <2>6, <2>7 DEF Ideal!Next
  <2>9. RightsNow' \in [Holders -> SUBSET Rights]
    BY DEF RightsNow, RightsOf
  <2> QED BY <2>8, <2>9 DEF Ideal!OnlyApproved, RightsNow, UseNow
<1>3. Sound => Ideal!OnlyApproved
  OBVIOUS
<1> QED BY <1>1, <1>2, <1>3, PTL DEF Ideal!Spec, Ideal!NoGain, RightsNow

(* So no session and no use is ever outside what was approved, and no       *)
(* session gains a right, whatever the administrators do to the tables.     *)
COROLLARY NoPrivilegeIsGained == Spec => []Ideal!OnlyApproved /\ Ideal!NoGain
BY RightsOnlyShrinkAlways, LeastPrivilegeIsSound, PTL DEF RightsOnlyShrink

-----------------------------------------------------------------------------
(* Offline verifiers.  A token's expiry is at most MaxTtl after the time    *)
(* its root key was last seen active, and that at most StampToCommit after  *)
(* the stamp of its retirement.                                             *)
Lasting(k, e) ==
    /\ k \in Roots
    /\ root[k] # "unborn"
    /\ e <= now + MaxTtl
    /\ root[k] = "retired" => e <= retiredAt[k] + StampToCommit + MaxTtl

InTimeInv ==
    \A p \in Rotators : rotation[p].stage = "retire" =>
        rotation[p].kid \in Roots /\ now <= rotation[p].stamp + StampToCommit

PendingInv ==
    \A r \in Issuers :
        /\ request[r].stage \in {"root", "create", "commit"} => request[r].exp <= now + MaxTtl
        /\ (request[r].stage = "commit" /\ request[r].caps # {}) =>
             Lasting(request[r].root, request[r].exp)

MintedInv ==
    \A h \in Holders : session[h].token # NoToken =>
        Lasting(session[h].token.root, session[h].token.exp)

LEMMA ClockStep ==
    ASSUME TypeOK, [Next]_vars
    PROVE  now \in Nat /\ now' \in Nat /\ now <= now'
<1>1. now \in Nat
  BY DEF TypeOK, RootsOK, Times
<1>2. CASE Tick
  BY <1>1, <1>2 DEF Tick
<1> QED BY <1>1, <1>2, Frames DEF TypeOK

LEMMA InTimeStep ==
    ASSUME TypeOK, InTimeInv, [Next]_vars
    PROVE  InTimeInv'
<1>0. RootsOK /\ SessionsOK
  BY DEF TypeOK
<1>1. now \in Nat /\ StampToCommit \in Nat
  BY <1>0, RootAssumption DEF RootsOK, Times
<1>2. CASE Tick
  <2>1. now' = now + 1 /\ rotation' = rotation
    BY <1>2 DEF Tick
  <2>2. \A p \in Rotators : rotation[p].stage = "retire" =>
           rotation[p].stamp \in Nat /\ now < rotation[p].stamp + StampToCommit
    BY <1>0, <1>2 DEF Tick, RotationsInTime, RootsOK, Times
  <2> QED BY <1>1, <2>1, <2>2 DEF InTimeInv
<1>3. ASSUME NEW p \in Rotators, Rotate(p) PROVE InTimeInv'
  <2>0. now' = now
    BY <1>3 DEF Rotate
  <2>1. \A o \in Rotators \ {p} : rotation'[o] = rotation[o]
    BY <1>0, <1>3 DEF Rotate, RotateSelect, RotateRetire, RotateCreate, RotateAbort, RootsOK
  <2>2. \/ rotation'[p].stage # "retire"
        \/ rotation'[p].kid \in Roots /\ rotation'[p].stamp = now
    BY <1>0, <1>3 DEF Rotate, RotateSelect, RotateRetire, RotateCreate, RotateAbort, RootsOK,
                      Idle, ActiveRoots
  <2> QED BY <1>1, <2>0, <2>1, <2>2 DEF InTimeInv
<1>4. CASE UNCHANGED <<now, rotation>>
  BY <1>4 DEF InTimeInv
<1> QED BY <1>0, <1>2, <1>3, <1>4, Frames

LEMMA LastingStep ==
    ASSUME TypeOK, InTimeInv, [Next]_vars, NEW k, NEW e \in Nat, Lasting(k, e)
    PROVE  Lasting(k, e)'
<1>0. RootsOK /\ SessionsOK /\ k \in Roots
  BY DEF TypeOK, Lasting
<1>1. /\ now \in Nat /\ now' \in Nat /\ now <= now'
      /\ MaxTtl \in Nat /\ StampToCommit \in Nat
  BY ClockStep, RootAssumption
<1>2. e <= now' + MaxTtl
  BY <1>1 DEF Lasting
<1>3. CASE root'[k] = root[k] /\ retiredAt'[k] = retiredAt[k]
  BY <1>2, <1>3 DEF Lasting
<1>4. ASSUME NEW j \in Roots, InsertRoot(j) PROVE Lasting(k, e)'
  <2>1. k # j
    BY <1>4 DEF InsertRoot, Lasting
  <2> QED BY <1>0, <1>3, <1>4, <2>1, Inserts
<1>5. ASSUME NEW p \in Rotators, RotateRetire(p) PROVE Lasting(k, e)'
  <2> DEFINE j == rotation[p].kid
  <2>1. j \in Roots /\ now <= rotation[p].stamp + StampToCommit /\ rotation[p].stamp \in Nat
    BY <1>0, <1>5 DEF RotateRetire, InTimeInv, RootsOK, Times
  <2>2. CASE j # k
    BY <1>0, <1>3, <1>5, <2>2 DEF RotateRetire, RootsOK
  <2>3. CASE j = k
    <3>1. root'[k] = "retired" /\ retiredAt'[k] = rotation[p].stamp
      BY <1>0, <1>5, <2>3 DEF RotateRetire, RootsOK
    <3>2. e <= rotation[p].stamp + StampToCommit + MaxTtl
      BY <1>1, <2>1 DEF Lasting
    <3> QED BY <1>0, <1>2, <3>1, <3>2 DEF Lasting
  <2> QED BY <2>2, <2>3
<1>6. CASE UNCHANGED roots
  BY <1>3, <1>6 DEF roots
<1>7. ASSUME NEW p \in Rotators, Rotate(p) PROVE Lasting(k, e)'
  BY <1>4, <1>5, <1>6, <1>7 DEF Rotate, RotateSelect, RotateCreate, RotateAbort
<1>8. ASSUME NEW r \in Issuers, CreateRoot(r) PROVE Lasting(k, e)'
  BY <1>4, <1>8 DEF CreateRoot
<1> QED BY <1>0, <1>6, <1>7, <1>8, Frames

LEMMA PendingStep ==
    ASSUME TypeOK, InTimeInv, PendingInv, [Next]_vars
    PROVE  PendingInv'
<1> SUFFICES ASSUME NEW r \in Issuers
             PROVE  /\ request'[r].stage \in {"root", "create", "commit"} =>
                         request'[r].exp <= now' + MaxTtl
                    /\ (request'[r].stage = "commit" /\ request'[r].caps # {}) =>
                         Lasting(request[r].root, request[r].exp)'
  BY DEF PendingInv
<1>0. SessionsOK /\ RootsOK /\ request[r].exp \in Nat /\ MaxTtl \in Nat
  BY RootAssumption DEF TypeOK, Requests
<1>1. now \in Nat /\ now' \in Nat /\ now <= now'
  BY ClockStep
<1>2. CASE request'[r] = request[r]
  <2>1. Lasting(request[r].root, request[r].exp) =>
          /\ request[r].root \in Roots /\ root'[request[r].root] # "unborn"
          /\ request[r].exp <= now' + MaxTtl
          /\ root'[request[r].root] = "retired" =>
               request[r].exp <= retiredAt'[request[r].root] + StampToCommit + MaxTtl
    BY <1>0, LastingStep DEF Lasting
  <2> QED BY <1>0, <1>1, <1>2, <2>1 DEF PendingInv, Lasting
<1>3. CASE request'[r] # request[r]
  <2>1. Requesting(r)
    BY <1>0, <1>3, Frames, Moves
  <2>2. CASE Stamp(r) /\ request[r].stage = "stamp"
    BY <1>0, <1>1, <2>1, <2>2, Moves
  <2>3. CASE /\ ReadRoot(r) /\ request[r].stage = "root"
             /\ request'[r].stage \in {"root", "create", "commit"}
    <3>1. /\ request'[r].stage = "create" \/ request'[r].root \in ActiveRoots
          /\ request'[r].exp = request[r].exp
      BY <2>1, <2>3, Moves
    <3>2. UNCHANGED <<root, retiredAt>>
      BY <2>3 DEF ReadRoot, roots
    <3>3. request[r].exp <= now + MaxTtl
      BY <2>3 DEF PendingInv
    <3> QED BY <1>0, <1>1, <3>1, <3>2, <3>3 DEF Lasting, ActiveRoots
  <2>4. CASE /\ CreateRoot(r) /\ request[r].stage = "create"
             /\ request'[r].stage \in {"root", "create", "commit"}
    <3>1. /\ request'[r].root \in Roots /\ InsertRoot(request'[r].root)
          /\ request'[r].exp = request[r].exp
      BY <2>1, <2>4, Moves
    <3>2. root'[request'[r].root] = "active"
      BY <1>0, <3>1, Inserts
    <3>3. request[r].exp <= now + MaxTtl
      BY <2>4 DEF PendingInv
    <3> QED BY <1>0, <1>1, <3>1, <3>2, <3>3 DEF Lasting
  <2>5. CASE request'[r].stage \notin {"root", "create", "commit"}
    BY <2>5
  <2> QED BY <2>1, <2>2, <2>3, <2>4, <2>5, Moves
<1> QED BY <1>2, <1>3

LEMMA MintedStep ==
    ASSUME ApprovalInv, InTimeInv, PendingInv, MintedInv, [Next]_vars
    PROVE  MintedInv'
<1>0. TypeOK /\ SessionsOK /\ RequestInv
  BY DEF ApprovalInv, TypeOK
<1> SUFFICES ASSUME NEW h \in Holders, session'[h].token # NoToken
             PROVE  Lasting(session[h].token.root, session[h].token.exp)'
  BY DEF MintedInv
<1>1. ASSUME NEW token \in Tokens, Lasting(token.root, token.exp),
             session'[h].token.root = token.root, session'[h].token.exp = token.exp
      PROVE  Lasting(session[h].token.root, session[h].token.exp)'
  <2>1. token.exp \in Nat
    BY DEF Tokens
  <2>2. /\ token.root \in Roots /\ root'[token.root] # "unborn" /\ token.exp <= now' + MaxTtl
        /\ root'[token.root] = "retired" =>
             token.exp <= retiredAt'[token.root] + StampToCommit + MaxTtl
    BY <1>0, <1>1, <2>1, LastingStep DEF Lasting
  <2> QED BY <1>1, <2>2 DEF Lasting
<1>2. CASE session'[h] = session[h]
  BY <1>0, <1>1, <1>2 DEF MintedInv, SessionsOK
<1>3. ASSUME NEW r \in Issuers, NEW g \in Holders, Mint(r, g), session'[h] # session[h]
      PROVE  Lasting(session[h].token.root, session[h].token.exp)'
  <2>1. g = h
    BY <1>0, <1>3 DEF Mint, SessionsOK
  <2>2. /\ request[r].caps # {}
        /\ session'[h].token = Biscuit(request[r].root, request[r].caps,
                                       request[r].evidence.key, request[r].exp)
        /\ session'[h].token \in Tokens
    BY <1>0, <1>3, <2>1, MintedToken DEF RequestInv
  <2>3. session'[h].token.root = request[r].root /\ session'[h].token.exp = request[r].exp
    BY <2>2 DEF Biscuit
  <2>4. Lasting(request[r].root, request[r].exp)
    BY <1>3, <2>2 DEF PendingInv, Mint, Step
  <2> QED BY <1>1, <2>2, <2>3, <2>4
<1>4. ASSUME NEW f \in Holders, NEW g \in Holders, Deriving(f, g), session'[h] # session[h]
      PROVE  Lasting(session[h].token.root, session[h].token.exp)'
  <2>1. PICK caveat \in RawCaveats, key \in Keys \cup {NoKey} :
            session' = [session EXCEPT ![g] =
                [token |-> Attenuate(session[f].token, caveat), key |-> key]]
    BY <1>0, <1>4, DerivedToken
  <2>2. g = h /\ session'[h].token = Attenuate(session[f].token, caveat)
    BY <1>0, <1>4, <2>1 DEF SessionsOK
  <2>3. session[f].token \in Tokens
    BY <1>0, <1>4, DerivedToken
  <2>4. session'[h].token.root = session[f].token.root /\ session'[h].token.exp = session[f].token.exp
    BY <2>2, <2>3 DEF Attenuate, Tokens
  <2>5. Lasting(session[f].token.root, session[f].token.exp)
    BY <2>3, NoTokenIsNone DEF MintedInv
  <2> QED BY <1>1, <2>3, <2>4, <2>5
<1>5. CASE UNCHANGED holding
  BY <1>2, <1>5 DEF holding
<1> QED BY <1>0, <1>2, <1>3, <1>4, <1>5, Frames

PublicationInv == ApprovalInv /\ InTimeInv /\ PendingInv /\ MintedInv

LEMMA Publication == Spec => []PublicationInv
<1>1. Init => InTimeInv /\ PendingInv /\ MintedInv
  BY DEF Init, RootInit, InTimeInv, PendingInv, MintedInv, Idle, NoRequest, NoSession
<1>2. PublicationInv /\ [Next]_vars => InTimeInv' /\ PendingInv' /\ MintedInv'
  BY InTimeStep, PendingStep, MintedStep DEF PublicationInv, ApprovalInv
<1> QED BY <1>1, <1>2, Approval, PTL DEF Spec, PublicationInv

LEMMA MintedPublished == PublicationInv => PublishedUntilExpiry
<1> SUFFICES ASSUME PublicationInv, NEW h \in Holders,
                    session[h].token # NoToken, now <= session[h].token.exp
             PROVE  session[h].token.root \in PublishedRoots
  BY DEF PublishedUntilExpiry
<1> DEFINE k == session[h].token.root
           e == session[h].token.exp
<1>1. RootsOK /\ e \in Nat
  BY DEF PublicationInv, ApprovalInv, TypeOK, SessionsOK, Tokens
<1>2. Lasting(k, e)
  BY DEF PublicationInv, MintedInv
<1>3. now <= e
  OBVIOUS
<1> HIDE DEF k, e
<1>4. /\ k \in Roots /\ root[k] \in {"active", "retired"} /\ retiredAt[k] \in Nat /\ now \in Nat
      /\ MaxTtl \in Nat /\ Grace \in Nat /\ StampToCommit \in Nat /\ StampToCommit < Grace
  BY <1>1, <1>2, RootAssumption DEF Lasting, RootsOK, Times
<1>5. root[k] = "retired" => e < retiredAt[k] + MaxTtl + Grace
  BY <1>1, <1>2, <1>4 DEF Lasting
<1>6. k \in PublishedRoots
  BY <1>1, <1>3, <1>4, <1>5 DEF PublishedRoots
<1> QED BY <1>6 DEF k

(* Offline verifiers know the root of every token that has not expired.     *)
THEOREM PublishedUntilExpiryAlways == Spec => []PublishedUntilExpiry
BY Publication, MintedPublished, PTL

-----------------------------------------------------------------------------
(* The root keys implement TrustStore.  Rotations that selected one key     *)
(* overlap: the stamps they write lie within StampToCommit.                 *)
RemarksInTime ==
    \A p \in Rotators :
        rotation[p].stage = "retire" =>
            /\ rotation[p].stamp <= now
            /\ root[rotation[p].kid] # "unborn"
            /\ root[rotation[p].kid] = "retired" =>
                 rotation[p].stamp <= retiredAt[rotation[p].kid] + StampToCommit

TrustInv == PublicationInv /\ RemarksInTime

Born == {k \in Roots : root[k] # "unborn"}
Gone == Born \ PublishedRoots
Live == {<<token.root, token>> : token \in LiveTokens}

LEMMA RemarksStep ==
    ASSUME TrustInv, [Next]_vars
    PROVE  RemarksInTime'
<1>0. /\ RootsOK /\ SessionsOK /\ InTimeInv /\ StampToCommit \in Nat
      /\ now \in Nat /\ now' \in Nat /\ now <= now'
  BY ClockStep, RootAssumption DEF TrustInv, PublicationInv, ApprovalInv, TypeOK
<1>1. \A p \in Rotators : rotation[p].stamp \in Nat
                          /\ (rotation[p].stage = "retire" => rotation[p].kid \in Roots)
  BY <1>0 DEF RootsOK, Times, InTimeInv
<1>2. ASSUME NEW p \in Rotators, RotateSelect(p), now' = now PROVE RemarksInTime'
  <2>1. UNCHANGED <<root, retiredAt>>
    BY <1>2 DEF RotateSelect, roots
  <2>2. \A o \in Rotators \ {p} : rotation'[o] = rotation[o]
    BY <1>0, <1>2 DEF RotateSelect, RootsOK
  <2>3. \/ rotation'[p].stage # "retire"
        \/ rotation'[p].kid \in ActiveRoots /\ rotation'[p].stamp = now
    BY <1>0, <1>2 DEF RotateSelect, RootsOK, Idle
  <2> QED BY <1>0, <1>2, <2>1, <2>2, <2>3 DEF TrustInv, RemarksInTime, ActiveRoots
<1>3. ASSUME NEW p \in Rotators, RotateRetire(p), now' = now PROVE RemarksInTime'
  <2> SUFFICES ASSUME NEW o \in Rotators, rotation'[o].stage = "retire"
               PROVE  /\ rotation'[o].stamp <= now'
                      /\ root'[rotation'[o].kid] # "unborn"
                      /\ root'[rotation'[o].kid] = "retired" =>
                           rotation'[o].stamp <= retiredAt'[rotation'[o].kid] + StampToCommit
    BY DEF RemarksInTime
  <2>1. o # p /\ rotation'[o] = rotation[o]
    BY <1>0, <1>3 DEF RotateRetire, RootsOK, Idle
  <2>2. /\ rotation[o].stage = "retire" /\ rotation[p].stage = "retire"
        /\ rotation[o].kid \in Roots /\ rotation[p].kid \in Roots
    BY <1>1, <1>3, <2>1 DEF RotateRetire
  <2>3. CASE rotation[o].kid = rotation[p].kid
    <3>1. now <= rotation[p].stamp + StampToCommit /\ rotation[o].stamp <= now
      BY <2>2 DEF TrustInv, PublicationInv, InTimeInv, RemarksInTime
    <3>2. /\ root'[rotation[o].kid] = "retired"
          /\ retiredAt'[rotation[o].kid] = rotation[p].stamp
      BY <1>0, <1>3, <2>2, <2>3 DEF RotateRetire, RootsOK
    <3> QED BY <1>0, <1>1, <1>3, <2>1, <3>1, <3>2
  <2>4. CASE rotation[o].kid # rotation[p].kid
    <3>1. /\ root'[rotation[o].kid] = root[rotation[o].kid]
          /\ retiredAt'[rotation[o].kid] = retiredAt[rotation[o].kid]
      BY <1>0, <1>3, <2>2, <2>4 DEF RotateRetire, RootsOK
    <3> QED BY <1>3, <2>1, <2>2, <3>1 DEF TrustInv, RemarksInTime
  <2> QED BY <2>3, <2>4
<1>4. ASSUME NEW k \in Roots, InsertRoot(k), now' = now,
             \A p \in Rotators : rotation'[p] = rotation[p] \/ rotation'[p].stage # "retire"
      PROVE  RemarksInTime'
  <2>1. /\ root[k] = "unborn" /\ root'[k] = "active" /\ retiredAt' = retiredAt
        /\ \A j \in Roots \ {k} : root'[j] = root[j]
    BY <1>0, <1>4 DEF InsertRoot, RootsOK
  <2> QED BY <1>1, <1>4, <2>1 DEF TrustInv, RemarksInTime
<1>5. ASSUME UNCHANGED roots,
             \A p \in Rotators : rotation'[p] = rotation[p] \/ rotation'[p].stage # "retire"
      PROVE  RemarksInTime'
  BY <1>0, <1>1, <1>5 DEF TrustInv, RemarksInTime, roots
<1>6. ASSUME NEW p \in Rotators, Rotate(p) PROVE RemarksInTime'
  <2>1. now' = now
    BY <1>6 DEF Rotate
  <2>2. CASE RotateCreate(p)
    <3>1. \A o \in Rotators : rotation'[o] = rotation[o] \/ rotation'[o].stage # "retire"
      BY <1>0, <2>2 DEF RotateCreate, RootsOK, Idle
    <3> QED BY <1>4, <2>1, <2>2, <3>1 DEF RotateCreate
  <2>3. CASE RotateAbort(p)
    <3>1. \A o \in Rotators : rotation'[o] = rotation[o] \/ rotation'[o].stage # "retire"
      BY <1>0, <2>3 DEF RotateAbort, RootsOK, Idle
    <3> QED BY <1>5, <2>3, <3>1 DEF RotateAbort
  <2> QED BY <1>2, <1>3, <1>6, <2>1, <2>2, <2>3 DEF Rotate
<1>7. ASSUME NEW r \in Issuers, CreateRoot(r) PROVE RemarksInTime'
  <2>1. UNCHANGED <<now, rotation>>
    BY <1>7 DEF CreateRoot, Step
  <2> QED BY <1>4, <1>7, <2>1 DEF CreateRoot
<1>8. CASE UNCHANGED <<roots, rotation>>
  BY <1>5, <1>8
<1> QED BY <1>0, <1>6, <1>7, <1>8, Frames

LEMMA TrustInvariant == Spec => []TrustInv /\ []ChainInv
<1>1. Init => RemarksInTime
  BY DEF Init, RootInit, RemarksInTime, Idle
<1>2. TrustInv /\ [Next]_vars => RemarksInTime'
  BY RemarksStep
<1>3. DelegationInv => ChainInv
  BY DEF DelegationInv
<1> QED BY <1>1, <1>2, <1>3, Publication, Delegations, PTL DEF Spec, TrustInv

(* What a step does when it only takes keys and tokens away.                *)
LEMMA Withdraws ==
    ASSUME PublicationInv', Born' = Born, PublishedRoots' \subseteq PublishedRoots,
           Live' \subseteq Live
    PROVE  Trust!Withdraw
<1>1. PublishedRoots \subseteq Born
  BY DEF PublishedRoots, Born
<1>2. Gone' = Gone \cup (PublishedRoots \ PublishedRoots')
  BY <1>1 DEF Gone
<1>3. PublishedUntilExpiry'
  BY MintedPublished, PTL
<1>4. \A c \in Live' : c[1] \in PublishedRoots'
  BY <1>3 DEF PublishedUntilExpiry, Live, LiveTokens
<1> QED BY <1>2, <1>4 DEF Trust!Withdraw, Gone, Born, Live

(* A rotation publishes no key when it retires one, perhaps again.          *)
LEMMA RetirementWithdraws ==
    ASSUME TrustInv, PublicationInv', NEW p \in Rotators, RotateRetire(p),
           UNCHANGED <<now, session>>
    PROVE  Trust!Withdraw
<1> DEFINE k == rotation[p].kid
           stamp == rotation[p].stamp
<1>1. /\ RootsOK /\ rotation[p].stage = "retire"
      /\ MaxTtl \in Nat /\ Grace \in Nat /\ StampToCommit \in Nat
  BY RootAssumption DEF TrustInv, PublicationInv, ApprovalInv, TypeOK, RotateRetire
<1>2. /\ k \in Roots /\ now <= stamp + StampToCommit /\ root[k] # "unborn"
      /\ root[k] = "retired" => stamp <= retiredAt[k] + StampToCommit
  BY <1>1 DEF TrustInv, PublicationInv, InTimeInv, RemarksInTime
<1>3. now \in Nat /\ stamp \in Nat /\ retiredAt[k] \in Nat /\ root[k] \in {"active", "retired"}
  BY <1>1, <1>2 DEF RootsOK, Times
<1>4. root' = [root EXCEPT ![k] = "retired"] /\ retiredAt' = [retiredAt EXCEPT ![k] = stamp]
  BY DEF RotateRetire
<1> HIDE DEF k, stamp
<1>5. k \in PublishedRoots
  BY <1>1, <1>2, <1>3, WithdrawalAssumption DEF PublishedRoots
<1>6. PublishedRoots' \subseteq PublishedRoots
  BY <1>1, <1>4, <1>5 DEF PublishedRoots, RootsOK
<1>7. Born' = Born
  BY <1>1, <1>2, <1>4 DEF Born, RootsOK
<1>8. Live' = Live
  BY DEF Live, LiveTokens
<1> QED BY <1>6, <1>7, <1>8, Withdraws

LEMMA InsertIntroduces ==
    ASSUME RootsOK, NEW k \in Roots, InsertRoot(k), UNCHANGED <<now, session>>
    PROVE  Trust!Introduce
<1>1. /\ root[k] = "unborn" /\ root'[k] = "active" /\ retiredAt' = retiredAt
      /\ \A j \in Roots \ {k} : root'[j] = root[j]
  BY Inserts
<1>2. k \notin Born /\ k \notin PublishedRoots
  BY <1>1 DEF Born, PublishedRoots
<1>3. PublishedRoots' = PublishedRoots \cup {k} /\ Born' = Born \cup {k}
  BY <1>1 DEF PublishedRoots, Born
<1>4. Gone' = Gone /\ Live' = Live
  BY <1>2, <1>3 DEF Gone, Live, LiveTokens
<1> QED BY <1>2, <1>3, <1>4 DEF Trust!Introduce, Gone, Born, Live

(* A new session, minted or derived: its token is under a published root,   *)
(* or it has none, or one that has expired with the token it stems from.    *)
LEMMA SessionIssues ==
    ASSUME TypeOK, PublicationInv', NEW g \in Holders, session[g].token = NoToken,
           \A h \in Holders \ {g} : session'[h] = session[h],
           UNCHANGED <<now, root, retiredAt>>
    PROVE  Trust!Issue \/ UNCHANGED Trust!vars
<1> DEFINE token == session'[g].token
<1>1. Born' = Born /\ PublishedRoots' = PublishedRoots /\ Gone' = Gone
  BY DEF Gone, Born, PublishedRoots
<1>2. CASE token # NoToken /\ now <= token.exp
  <2>1. LiveTokens' = LiveTokens \cup {token}
    BY <1>2 DEF LiveTokens
  <2>2. Live' = Live \cup {<<token.root, token>>}
    BY <2>1 DEF Live
  <2>3. PublishedUntilExpiry'
    BY MintedPublished, PTL
  <2>4. token.root \in PublishedRoots
    BY <1>1, <1>2, <2>3 DEF PublishedUntilExpiry
  <2> HIDE DEF token
  <2>5. <<token.root, token>> \in Live' /\ <<token.root, token>>[1] \in PublishedRoots
    BY <2>2, <2>4
  <2> QED BY <1>1, <2>2, <2>5 DEF Trust!Issue, Gone, Born, Live
<1>3. CASE ~(token # NoToken /\ now <= token.exp)
  <2>1. LiveTokens' = LiveTokens
    BY <1>3 DEF LiveTokens
  <2> QED BY <1>1, <2>1 DEF Trust!vars, Gone, Born
<1> QED BY <1>2, <1>3

LEMMA TickWithdraws ==
    ASSUME TypeOK, PublicationInv', Tick
    PROVE  Trust!Withdraw
<1>1. UNCHANGED <<root, retiredAt, session>> /\ now' = now + 1
  BY DEF Tick, roots, holding
<1>2. now \in Nat /\ RootsOK /\ MaxTtl \in Nat /\ Grace \in Nat
  BY RootAssumption DEF TypeOK, RootsOK, Times
<1>3. Born' = Born
  BY <1>1 DEF Born
<1>4. PublishedRoots' \subseteq PublishedRoots
  BY <1>1, <1>2 DEF PublishedRoots, RootsOK, Times
<1>5. \A h \in Holders : session[h].token # NoToken => session[h].token.exp \in Nat
  BY DEF TypeOK, SessionsOK, Tokens
<1>6. Live' \subseteq Live
  BY <1>1, <1>2, <1>5 DEF Live, LiveTokens
<1> QED BY <1>3, <1>4, <1>6, Withdraws

(* The published roots implement TrustStore: tokens are minted, attenuated  *)
(* and handed over under published roots, which outlast them, and a root    *)
(* that has been withdrawn never comes back.                                *)
THEOREM RootsKeepTrust == Spec => KeepsTrust
<1>1. Init => Trust!Init
  BY DEF Init, RootInit, Trust!Init, PublishedRoots, LiveTokens, NoSession
<1>2. TrustInv /\ ChainInv /\ TrustInv' /\ [Next]_vars => [Trust!Next]_Trust!vars
  <2> SUFFICES ASSUME TrustInv, ChainInv, PublicationInv', [Next]_vars
               PROVE  Trust!Next \/ UNCHANGED Trust!vars
    BY DEF TrustInv
  <2> USE DEF Trust!Next
  <2>0. TypeOK /\ RootsOK /\ SessionsOK
    BY DEF TrustInv, PublicationInv, ApprovalInv, TypeOK
  <2>1. ASSUME UNCHANGED <<root, retiredAt, now, session>>
        PROVE  UNCHANGED Trust!vars
    BY <2>1 DEF Trust!vars, PublishedRoots, LiveTokens
  <2>2. ASSUME NEW p \in Rotators, Rotate(p)
        PROVE  Trust!Next \/ UNCHANGED Trust!vars
    <3>1. UNCHANGED <<now, session>>
      BY <2>2 DEF Rotate, holding
    <3>2. CASE RotateRetire(p)
      BY <3>1, <3>2, RetirementWithdraws
    <3>3. CASE RotateCreate(p)
      BY <2>0, <3>1, <3>3, InsertIntroduces DEF RotateCreate
    <3> QED BY <2>1, <2>2, <3>1, <3>2, <3>3 DEF Rotate, RotateSelect, RotateAbort, roots
  <2>3. ASSUME NEW r \in Issuers, Requesting(r)
        PROVE  Trust!Next \/ UNCHANGED Trust!vars
    <3>1. CASE CreateRoot(r)
      BY <2>0, <3>1, InsertIntroduces DEF CreateRoot, Step, holding
    <3>2. ASSUME NEW h \in Holders, Mint(r, h)
          PROVE  Trust!Next \/ UNCHANGED Trust!vars
      <4>1. session[h].token = NoToken
        BY <3>2 DEF Mint, ChainInv
      <4>2. \A g \in Holders \ {h} : session'[g] = session[g]
        BY <2>0, <3>2 DEF Mint, SessionsOK
      <4> QED BY <2>0, <3>2, <4>1, <4>2, SessionIssues DEF Mint, Step, roots
    <3> QED BY <2>1, <2>3, <3>1, <3>2
            DEF Requesting, Attest, Match, Stamp, ReadRoot, Deny, Step, roots, holding
  <2>4. ASSUME NEW h \in Holders, NEW g \in Holders, Deriving(h, g)
        PROVE  Trust!Next \/ UNCHANGED Trust!vars
    <3>1. session[g].token = NoToken
      BY <2>0, <2>4, DerivedToken DEF ChainInv
    <3>2. \A f \in Holders \ {g} : session'[f] = session[f]
      BY <2>0, <2>4, DerivedToken DEF SessionsOK
    <3>3. UNCHANGED <<now, root, retiredAt>>
      BY <2>4 DEF Deriving, Derive, roots
    <3> QED BY <2>0, <3>1, <3>2, <3>3, SessionIssues
  <2>5. CASE Administer \/ Calling
    BY <2>1, <2>5 DEF Administer, Calling, CheckTool, CheckServer, Decide, RunTool, EndCall,
                      roots, holding
  <2>6. CASE Tick
    BY <2>0, <2>6, TickWithdraws
  <2>7. CASE UNCHANGED vars
    BY <2>1, <2>7 DEF vars, roots, holding
  <2> QED BY <2>0, <2>2, <2>3, <2>4, <2>5, <2>6, <2>7, Steps
<1> QED BY <1>1, <1>2, TrustInvariant, PTL DEF Spec, KeepsTrust, Trust!Spec

-----------------------------------------------------------------------------
(* The linter and the matcher.                                              *)
LEMMA FiniteSelectors ==
    /\ IsFiniteSet(Selectors)
    /\ \A S \in SUBSET Selectors : IsFiniteSet(S) /\ Cardinality(S) \in Nat
    /\ \A S, T \in SUBSET Selectors : S \subseteq T => Cardinality(S) <= Cardinality(T)
<1> DEFINE Names == {"k8s_psat", "aws_iid", "gcp_iit"} \cup {"workload"}
           Values == {"cluster", "agent_ns", "agent_sa"} \cup {"account", "region", "instance_id"}
                     \cup {"project_id", "zone"} \cup {"k8s_ns", "k8s_sa"}
                     \cup {"pod_labels", "image_digest", "unix_uid"}
<1>1. \A a, b, c : IsFiniteSet({a}) /\ IsFiniteSet({a, b}) /\ IsFiniteSet({a, b, c})
  <2> TAKE a, b, c
  <2>1. IsFiniteSet({a})
    BY FS_Singleton
  <2>2. IsFiniteSet({a} \cup {b})
    BY <2>1, FS_AddElement
  <2>3. IsFiniteSet(({a} \cup {b}) \cup {c})
    BY <2>2, FS_AddElement
  <2>4. {a} \cup {b} = {a, b} /\ ({a} \cup {b}) \cup {c} = {a, b, c}
    OBVIOUS
  <2> QED BY <2>1, <2>2, <2>3, <2>4
<1>2. IsFiniteSet(Names) /\ IsFiniteSet(Values)
  BY <1>1, FS_Union
<1>3. IsFiniteSet(Names \X Values)
  BY <1>2, FS_Product
<1>4. Selectors \subseteq Names \X Values
  BY DEF Selectors, NodeSelectors, WorkloadSelectors, WorkloadFields, Types, Fields
<1> HIDE DEF Names, Values
<1>5. IsFiniteSet(Selectors)
  BY <1>3, <1>4, FS_Subset
<1>6. \A S \in SUBSET Selectors : IsFiniteSet(S) /\ Cardinality(S) \in Nat
  BY <1>5, FS_Subset, FS_CardinalityType
<1>7. \A S, T \in SUBSET Selectors : S \subseteq T => Cardinality(S) <= Cardinality(T)
  BY <1>6, FS_Subset
<1> QED BY <1>5, <1>6, <1>7

(* An entry requires something.                                             *)
RequiresInv ==
    \A id \in Registered :
        /\ entries[id].required # {}
        /\ Cardinality(entries[id].required) <= entries[id].length

LEMMA RequiresStep ==
    ASSUME TypeOK, RequiresInv, [Next]_vars
    PROVE  RequiresInv'
<1>0. SessionsOK /\ entries \in [EntryIds -> Entries \cup {Absent}]
  BY DEF TypeOK, TablesOK
<1>1. CASE UNCHANGED entries
  BY <1>1 DEF RequiresInv, Registered
<1>2. ASSUME NEW id \in EntryIds, NEW application \in Applications, CreateEntry(id, application)
      PROVE  RequiresInv'
  <2>1. PICK entry : /\ entry.required # {}
                     /\ Cardinality(entry.required) <= entry.length
                     /\ entries' = [entries EXCEPT ![id] = entry]
    BY <1>2, RegistrationAssumption DEF CreateEntry
  <2> QED BY <1>0, <2>1 DEF RequiresInv, Registered
<1>3. ASSUME NEW id \in EntryIds, DeleteEntry(id) PROVE RequiresInv'
  BY <1>0, <1>3 DEF DeleteEntry, RequiresInv, Registered
<1>4. Administer \/ UNCHANGED entries
  BY <1>0, Frames DEF tables
<1> QED BY <1>1, <1>2, <1>3, <1>4 DEF Administer, CreateAttestor, DeleteAttestor

LEMMA PresentedSelectors ==
    ASSUME NEW evidence \in Evidence
    PROVE  Presented(evidence) \in SUBSET Selectors
<1>1. evidence.type \in Types /\ evidence.workload \subseteq WorkloadFields
  BY RegistrationAssumption
<1>2. NodeSelectors(evidence.type, evidence.node)
        \subseteq UNION {NodeSelectors(t, Fields[t]) : t \in Types}
  BY <1>1 DEF NodeSelectors
<1>3. WorkloadSelectors(evidence.workload) \subseteq WorkloadSelectors(WorkloadFields)
  BY <1>1 DEF WorkloadSelectors
<1> QED BY <1>2, <1>3 DEF Presented, Selectors

LEMMA LintDecides ==
    ASSUME TypeOK, RequiresInv
    PROVE  LintedTablesDecide
<1> DEFINE Size(id) == Cardinality(entries[id].required)
           Plain == {id \in Registered : Unrepeated(entries[id])}
<1> SUFFICES ASSUME Conflicts = {}, NEW evidence \in Evidence
             PROVE  LET presented == Presented(evidence) IN
                    /\ Candidates(presented) # {} /\ Candidates(presented) \subseteq Plain
                         => Cardinality(Best(presented)) = 1
                    /\ \A d, e \in Best(presented) \cap Plain : d = e
                    /\ \A id \in Registered : Chosen(id, evidence) =>
                         /\ id \in Plain =>
                              \A d \in Candidates(presented) \ {id} : Size(d) < Size(id)
                         /\ (~Warned(entries[id]) /\ Granted(entries[id]) # {}) =>
                              /\ Cardinality(presented) >= 2
                              /\ Assurance(evidence) # "low"
  BY DEF LintedTablesDecide
<1> DEFINE presented == Presented(evidence)
           C == Candidates(presented)
<1>1. \A id \in Registered :
         /\ entries[id] \in Entries
         /\ entries[id].required \in SUBSET Selectors
         /\ Size(id) \in Nat /\ Size(id) <= Cardinality(Selectors)
         /\ entries[id].length \in Nat /\ Size(id) <= entries[id].length
  <2> TAKE id \in Registered
  <2>1. entries[id] \in Entries
    BY DEF TypeOK, TablesOK, Registered
  <2>2. entries[id].required \in SUBSET Selectors /\ entries[id].length \in Nat
    BY <2>1 DEF Entries
  <2>3. Size(id) \in Nat /\ Size(id) <= Cardinality(Selectors)
    BY <2>2, FiniteSelectors
  <2> QED BY <2>1, <2>2, <2>3 DEF RequiresInv
<1>2. \A d, e \in Registered : d # e => Size(d) # Size(e)
  <2> SUFFICES ASSUME NEW d \in Registered, NEW e \in Registered, d # e, Size(d) = Size(e)
               PROVE  FALSE
    OBVIOUS
  <2>1. <<d, e>> \in Conflicts
    BY DEF Conflicts, Conflict
  <2> QED BY <2>1
<1>3. C \subseteq Registered
  BY DEF Candidates
<1>4. Best(presented) = {id \in C : \A d \in C : entries[d].length <= entries[id].length}
  BY DEF Best
<1>5. \A id \in Plain : id \in Registered /\ entries[id].length = Size(id)
  BY DEF Unrepeated
<1> HIDE DEF C, Size, Plain
<1>6. ASSUME C # {}, C \subseteq Plain PROVE Cardinality(Best(presented)) = 1
  <2> DEFINE S == {Size(d) : d \in C}
  <2>1. S \in SUBSET Nat /\ S # {} /\ \A n \in S : n <= Cardinality(Selectors)
    BY <1>1, <1>3, <1>6
  <2>2. Cardinality(Selectors) \in Nat
    BY FiniteSelectors
  <2> HIDE DEF S
  <2>3. PICK g \in S : \A n \in S : n <= g
    BY <2>1, <2>2, Greatest
  <2>4. PICK b \in C : \A d \in C : Size(d) <= Size(b)
    BY <2>3 DEF S
  <2>0. \A d \in C : entries[d].length = Size(d)
    BY <1>6, <1>5
  <2>5. \A id \in Best(presented) : id = b
    <3> SUFFICES ASSUME NEW id \in Best(presented), id # b PROVE FALSE
      OBVIOUS
    <3>1. id \in C /\ Size(b) <= Size(id) /\ Size(id) <= Size(b)
      BY <1>4, <2>0, <2>4
    <3>2. Size(b) # Size(id) /\ Size(b) \in Nat /\ Size(id) \in Nat
      BY <1>1, <1>2, <1>3, <2>4, <3>1
    <3> QED BY <3>1, <3>2
  <2>6. Best(presented) = {b}
    BY <1>4, <2>0, <2>4, <2>5
  <2> QED BY <2>6, FS_Singleton
<1>7. ASSUME NEW d \in Best(presented) \cap Plain, NEW e \in Best(presented) \cap Plain
      PROVE  d = e
  <2>1. d \in Registered /\ e \in Registered
    BY <1>3, <1>4
  <2>2. entries[d].length <= entries[e].length /\ entries[e].length <= entries[d].length
    BY <1>4
  <2>3. Size(d) = Size(e)
    BY <1>1, <1>5, <2>1, <2>2
  <2> QED BY <1>2, <2>1, <2>3
<1>8. ASSUME NEW id \in Plain, Chosen(id, evidence), NEW d \in C \ {id}
      PROVE  Size(d) < Size(id)
  <2>1. id \in C /\ entries[d].length <= entries[id].length
    BY <1>4, <1>8 DEF Chosen
  <2>2. /\ Size(d) # Size(id) /\ Size(d) \in Nat /\ Size(id) \in Nat
        /\ Size(d) <= entries[d].length /\ entries[d].length \in Nat
        /\ entries[id].length = Size(id)
    BY <1>1, <1>2, <1>3, <1>8, <1>5, <2>1
  <2> QED BY <2>1, <2>2
<1>9. ASSUME NEW id \in Registered, Chosen(id, evidence), ~Warned(entries[id]),
             Granted(entries[id]) # {}
      PROVE  Cardinality(presented) >= 2 /\ Assurance(evidence) # "low"
  <2>1. entries[id].required \subseteq presented
    BY <1>9 DEF Chosen, Best, Candidates, Matched
  <2>2. Size(id) \in Nat /\ Size(id) # 1 /\ Size(id) # 0
    <3>1. Size(id) # 1
      BY <1>9 DEF Warned, Size
    <3>2. Size(id) # 0
      BY <1>1, FiniteSelectors, FS_EmptySet DEF RequiresInv, Size
    <3> QED BY <1>1, <3>1, <3>2
  <2>3. presented \in SUBSET Selectors /\ Cardinality(presented) \in Nat
    BY PresentedSelectors, FiniteSelectors
  <2>4. Size(id) <= Cardinality(presented)
    BY <1>1, <2>1, <2>3, FiniteSelectors DEF Size
  <2>5. Cardinality(presented) >= 2
    BY <2>2, <2>3, <2>4
  <2>6. entries[id].caps # {}
    BY <1>9 DEF Granted, Normalize, Covers
  <2>7. entries[id].assurance \in {"standard", "high"}
    BY <1>1, <1>9, <2>6 DEF Warned, Entries, Rank
  <2>8. Assurance(evidence) # "low"
    <3>1. Rank[Assurance(evidence)] >= Rank[entries[id].assurance]
      BY <1>9 DEF Chosen
    <3> QED BY <2>7, <3>1 DEF Rank
  <2> QED BY <2>5, <2>8
<1> QED BY <1>6, <1>8, <1>9, <1>7 DEF C, Size

(* The linter and the matcher agree, whatever is registered, but for        *)
(* repeated selectors.                                                      *)
THEOREM LintedTablesDecideAlways == Spec => []LintedTablesDecide
<1>1. Init => RequiresInv
  BY DEF Init, RequiresInv, Registered
<1>2. TypeOK /\ RequiresInv /\ [Next]_vars => RequiresInv'
  BY RequiresStep
<1>3. TypeOK /\ RequiresInv => LintedTablesDecide
  BY LintDecides
<1> QED BY <1>1, <1>2, <1>3, TypeCorrect, PTL DEF Spec
=============================================================================
