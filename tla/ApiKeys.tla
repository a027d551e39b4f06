------------------------------ MODULE ApiKeys ------------------------------
(***************************************************************************)
(* Authentication of a request by its API key (get_current_auth): the      *)
(* verified-key cache of the process, the check of a hit against the row,  *)
(* the full path over the scoped keys and the tenant's bootstrap key, and  *)
(* the upgrade of a bootstrap key that is still stored in plaintext.       *)
(*                                                                         *)
(* A hash is the number of the salt it was made with, 0 for none.  The     *)
(* cache may at any time have dropped an entry (its TTL).  Which entry an  *)
(* insertion beyond max_size drops is left open.                           *)
(***************************************************************************)
EXTENDS ConnectionPool

CONSTANTS
    ScopedKeys, \* purpose-scoped keys (tenant_api_keys)
    Bootstrap,  \* the tenant's first key (customers)
    KeyScopes,  \* the scopes of each scoped key
    CacheSize   \* api_key_cache_max_size

Secrets == ScopedKeys \cup {Bootstrap}
Scopes == {"admin", "issuer", "verifier", "reader", "revoker"}

ASSUME KeyAssumption ==
    /\ Bootstrap \notin ScopedKeys
    /\ KeyScopes \in [ScopedKeys -> SUBSET Scopes]
    /\ CacheSize \in Nat \ {0}

VARIABLES
    modern,    \* whether the bootstrap key reads cs_<lookup>.<secret>
    customer,  \* the tenant's row: what api_key holds, and the hash
    keyStatus, \* the row of each scoped key
    cache,     \* _verified_key_cache of each process: the verified hash, or 0
    job,       \* what each call asks for, and the key it presents
    verified,  \* the hash a request's session has loaded, or 0
    overtaken  \* the bootstrap key was upgraded between the request's two
               \* SELECTs (history)

keys == <<modern, customer, keyStatus>>

Stored == [api_key : {"plaintext", "lookup", "id"}, hash : Nat]
Legacy == [api_key |-> "plaintext", hash |-> 0]

KeyOf(r) == job[r[1]].key
Granted(s) == IF s = Bootstrap THEN Scopes ELSE KeyScopes[s]

(* A tenant that signed up under this version, or one stored before it,    *)
(* whose row holds the whole key.                                          *)
AuthInit ==
    /\ \/ modern = TRUE /\ customer = [api_key |-> "lookup", hash |-> 1]
       \/ modern \in BOOLEAN /\ customer \in {Legacy, [Legacy EXCEPT !.hash = 1]}
    /\ keyStatus \in [ScopedKeys -> {"absent", "active"}]
    /\ cache = [p \in Processes |-> [s \in Secrets |-> 0]]
    /\ verified = [r \in Requests |-> 0]
    /\ overtaken = {}

Load(r, hash) == verified' = [verified EXCEPT ![r] = hash]

-----------------------------------------------------------------------------
(* TTLCache.get: no statement, no connection. *)
Lookup(r) ==
    LET entry == cache[proc[r]][KeyOf(r)] IN
    /\ pc[r] = "cache"
    /\ \/ /\ entry # 0
          /\ Load(r, entry)
          /\ Goto(r, "recheck")
          /\ UNCHANGED cache
       \/ /\ cache' = [cache EXCEPT ![proc[r]][KeyOf(r)] = 0]
          /\ Goto(r, "candidates")
          /\ UNCHANGED verified
    /\ UNCHANGED <<keys, overtaken, pool>>

(* Mutant: a hit is believed as long as the row exists. *)
VouchedByRow(r) ==
    \/ KeyOf(r) = Bootstrap
    \/ KeyOf(r) \in ScopedKeys /\ keyStatus[KeyOf(r)] # "absent"

(* What a hit is checked against: the row as it is now. *)
Vouched(r) ==
    \/ KeyOf(r) = Bootstrap /\ customer.hash # 0 /\ customer.hash = verified[r]
    \/ KeyOf(r) \in ScopedKeys /\ keyStatus[KeyOf(r)] = "active"

(* A hit goes on to the handler, or is invalidated and falls through.  The   *)
(* session keeps the row it has loaded: a later SELECT does not refresh it.  *)
Recheck(r) ==
    /\ pc[r] = "recheck"
    /\ Query(r)
    /\ IF Vouched(r)
       THEN Goto(r, "handle") /\ UNCHANGED <<cache, verified>>
       ELSE /\ cache' = [cache EXCEPT ![proc[r]][KeyOf(r)] = 0]
            /\ Load(r, IF KeyOf(r) = Bootstrap THEN customer.hash ELSE 0)
            /\ Goto(r, "candidates")
    /\ UNCHANGED <<keys, overtaken>>

(* Rows found under the lookup prefix of the key: an active scoped key, or   *)
(* the tenant.                                                               *)
Candidate(r) ==
    \/ KeyOf(r) \in ScopedKeys /\ keyStatus[KeyOf(r)] = "active"
    \/ KeyOf(r) = Bootstrap /\ modern /\ customer.api_key = "lookup"

Candidates(r) ==
    /\ pc[r] = "candidates"
    /\ Query(r)
    /\ IF Candidate(r)
       THEN /\ Load(r, IF verified[r] # 0 THEN verified[r]
                       ELSE IF KeyOf(r) = Bootstrap THEN customer.hash ELSE 1)
            /\ Goto(r, "remember")
       ELSE Goto(r, "legacy") /\ UNCHANGED verified
    /\ UNCHANGED <<keys, cache, overtaken>>

(* A statement of its own, so the row may have changed since Candidates. *)
FindLegacy(r) ==
    /\ pc[r] = "legacy"
    /\ \/ /\ KeyOf(r) = Bootstrap /\ customer.api_key = "plaintext"
          /\ Query(r)
          /\ Load(r, customer.hash)
          /\ Goto(r, IF customer.hash = 0 THEN "upgrade" ELSE "remember")
       \/ /\ ~(KeyOf(r) = Bootstrap /\ customer.api_key = "plaintext")
          /\ Release(r)
          /\ Goto(r, "unknown")
          /\ UNCHANGED verified
    /\ UNCHANGED <<keys, cache, overtaken>>

(* Mutant: the lookup of a modern key is not extracted. *)
UpgradeById(r) ==
    /\ pc[r] = "upgrade"
    /\ customer' = [api_key |-> "id", hash |-> customer.hash + 1]
    /\ overtaken' = overtaken \cup {q \in Requests : pc[q] = "legacy" /\ KeyOf(q) = Bootstrap}
    /\ Release(r)
    /\ Goto(r, "refresh")
    /\ UNCHANGED <<modern, keyStatus, cache, verified>>

(* UPDATE by primary key and commit, whatever the row holds by now. *)
Upgrade(r) ==
    /\ pc[r] = "upgrade"
    /\ customer' = [api_key |-> IF modern THEN "lookup" ELSE "id",
                    hash |-> customer.hash + 1]
    /\ overtaken' = overtaken \cup {q \in Requests : pc[q] = "legacy" /\ KeyOf(q) = Bootstrap}
    /\ Release(r)
    /\ Goto(r, "refresh")
    /\ UNCHANGED <<modern, keyStatus, cache, verified>>

Refresh(r) ==
    /\ pc[r] = "refresh"
    /\ Query(r)
    /\ Load(r, customer.hash)
    /\ Goto(r, "remember")
    /\ UNCHANGED <<keys, cache, overtaken>>

(* TTLCache.set: beyond max_size another entry goes. *)
Inserted(entries, s, hash) ==
    LET full == [entries EXCEPT ![s] = hash]
        present == {t \in Secrets : full[t] # 0}
    IN IF Cardinality(present) <= CacheSize
       THEN {full}
       ELSE {[full EXCEPT ![t] = 0] : t \in present \ {s}}

Remember(r) ==
    /\ pc[r] = "remember"
    /\ \E entries \in Inserted(cache[proc[r]], KeyOf(r), verified[r]) :
            cache' = [cache EXCEPT ![proc[r]] = entries]
    /\ Goto(r, "handle")
    /\ UNCHANGED <<keys, verified, overtaken, pool>>

Authenticate(r) ==
    \/ Lookup(r) \/ Recheck(r) \/ Candidates(r) \/ FindLegacy(r)
    \/ Upgrade(r) \/ Refresh(r) \/ Remember(r)
=============================================================================
