------------------------------ MODULE RootKeys ------------------------------
(***************************************************************************)
(* A tenant's Biscuit root keys: the rows of biscuit_root_keys, the        *)
(* requests that rotate them (rotate_root_key), interleaved at their       *)
(* commits, and the keys that offline verifiers are given.  Unlike         *)
(* get_active_key, get_active_root_key takes any active row and retires    *)
(* none.                                                                   *)
(***************************************************************************)
EXTENDS Registration

CONSTANTS
    Rotators,      \* rotate_root_key handlers that may run at the same time
    MaxRoots,      \* bound on the root keys ever created
    MaxTime,       \* bound on the clock
    MaxTtl,        \* settings.max_ttl_seconds
    Grace,         \* the 300 s build_biscuit_jwks adds to it
    StampToCommit  \* longest time from stamping retired_at to its commit

ASSUME RootAssumption ==
    /\ MaxRoots \in Nat \ {0}
    /\ MaxTime \in Nat
    /\ MaxTtl \in Nat \ {0}
    /\ Grace \in Nat
    /\ StampToCommit \in Nat
    /\ StampToCommit < Grace \* a token is still good at the second of its exp

(* Rotations that retire one key in turn commit before it is withdrawn. *)
ASSUME WithdrawalAssumption == 2 * StampToCommit < MaxTtl + Grace

VARIABLES
    now,       \* the servers' clock
    root,      \* BiscuitRootKey.status of each key, in order of creation
    retiredAt, \* BiscuitRootKey.retired_at (0 until set)
    rotation   \* each rotator: its stage, the key it retires, its stamp

roots == <<root, retiredAt>>

Times == 0 .. MaxTime
Roots == 1 .. MaxRoots
NoRoot == 0
Idle == [stage |-> "idle", kid |-> NoRoot, stamp |-> 0]

ActiveRoots == {k \in Roots : root[k] = "active"}

RootInit ==
    /\ now = 0
    /\ root = [k \in Roots |-> "unborn"]
    /\ retiredAt = [k \in Roots |-> 0]
    /\ rotation = [p \in Rotators |-> Idle]

(* create_root_key *)
InsertRoot(k) ==
    /\ root[k] = "unborn"
    /\ \A j \in Roots : j < k => root[j] # "unborn"
    /\ root' = [root EXCEPT ![k] = "active"]
    /\ UNCHANGED retiredAt

(* Mutant: a root is dropped once the tokens minted before it was stamped   *)
(* have expired.                                                            *)
PublishedWithoutGrace ==
    {k \in Roots : root[k] = "active"
                   \/ (root[k] = "retired" /\ retiredAt[k] + MaxTtl > now)}

(* build_biscuit_jwks *)
PublishedRoots ==
    {k \in Roots : root[k] = "active"
                   \/ (root[k] = "retired" /\ retiredAt[k] + MaxTtl + Grace > now)}

-----------------------------------------------------------------------------
RotateSelect(p) ==
    /\ rotation[p].stage = "idle"
    /\ \/ /\ ActiveRoots = {}
          /\ rotation' = [rotation EXCEPT ![p] = [Idle EXCEPT !.stage = "replace"]]
       \/ \E k \in ActiveRoots :
            rotation' = [rotation EXCEPT ![p] = [stage |-> "retire", kid |-> k, stamp |-> now]]
    /\ UNCHANGED roots

RotateRetire(p) ==
    /\ rotation[p].stage = "retire"
    /\ root' = [root EXCEPT ![rotation[p].kid] = "retired"]
    /\ retiredAt' = [retiredAt EXCEPT ![rotation[p].kid] = rotation[p].stamp]
    /\ rotation' = [rotation EXCEPT ![p] = [Idle EXCEPT !.stage = "replace"]]

RotateCreate(p) ==
    /\ rotation[p].stage = "replace"
    /\ \E k \in Roots : InsertRoot(k)
    /\ rotation' = [rotation EXCEPT ![p] = Idle]

(* The process dies, or its database does. *)
RotateAbort(p) ==
    /\ rotation[p] # Idle
    /\ rotation' = [rotation EXCEPT ![p] = Idle]
    /\ UNCHANGED roots

(* Time does not pass a rotation that is about to commit. *)
RotationsInTime ==
    \A p \in Rotators : rotation[p].stage = "retire" => now < rotation[p].stamp + StampToCommit
=============================================================================
