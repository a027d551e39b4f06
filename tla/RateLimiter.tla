---------------------------- MODULE RateLimiter ----------------------------
(***************************************************************************)
(* The fixed-window rate limiter in front of a process (RateLimitMiddleware *)
(* and FixedWindowRateLimiter).  The middleware runs on the event loop and *)
(* does not await between its two checks, so a request is counted in both  *)
(* its buckets in one step.  The clock is read only there, and moves only  *)
(* there.  A bucket that was never hit, and one _evict_stale dropped, has   *)
(* count 0: a stale bucket is restarted by its next hit in any case.       *)
(***************************************************************************)
EXTENDS ApiKeys

CONSTANTS
    Addresses, \* client addresses
    AddressOf, \* of each call
    Budgets,   \* rate_limit_default and rate_limit_mutating; 0 is unlimited
    Window,    \* rate_limit_window_seconds
    MaxTime    \* bound on the clock

Kinds == {"r", "w"}

ASSUME LimiterAssumption ==
    /\ AddressOf \in [Calls -> Addresses]
    /\ Budgets \subseteq [Kinds -> Nat]
    /\ Window \in Nat \ {0}
    /\ MaxTime \in Nat

VARIABLES
    now,     \* time.monotonic()
    budget,  \* the limits configured
    buckets, \* _buckets of each process: window start and count
    hits     \* the hits that were within the limit, with their time (history)

limiter == <<now, budget, buckets, hits>>

Times == 0 .. MaxTime
Buckets == {"ip", "key"} \X Kinds \X (Addresses \cup Secrets \cup {"malformed"})

Kind(r) == IF job[r[1]].op = "read" THEN "r" ELSE "w"
IpBucket(r) == <<"ip", Kind(r), AddressOf[r[1]]>>

(* A key without a lookup part shares one bucket with all others like it. *)
KeyBucket(r) ==
    <<"key", Kind(r), IF KeyOf(r) = Bootstrap /\ ~modern THEN "malformed" ELSE KeyOf(r)>>

LimiterInit ==
    /\ now = 0
    /\ budget \in Budgets
    /\ buckets = [p \in Processes |-> [b \in Buckets |-> [start |-> 0, count |-> 0]]]
    /\ hits = {}

(* Mutant: off by one at the end of a window.                               *)
ShortWindow(bucket, time) ==
    IF bucket.count = 0 \/ time - bucket.start >= Window - 1
    THEN [start |-> time, count |-> 1]
    ELSE [bucket EXCEPT !.count = @ + 1]

(* FixedWindowRateLimiter.check, but for the comparison. *)
Count(bucket, time) ==
    IF bucket.count = 0 \/ time - bucket.start >= Window
    THEN [start |-> time, count |-> 1]
    ELSE [bucket EXCEPT !.count = @ + 1]

(* The address first; a request refused there is not counted for its key. *)
Arrive(p, r) ==
    IF budget[Kind(r)] = 0
    THEN Goto(r, "cache") /\ UNCHANGED limiter
    ELSE \E time \in now .. MaxTime :
         LET ip == Count(buckets[p][IpBucket(r)], time)
             key == Count(buckets[p][KeyBucket(r)], time)
             ipOk == ip.count <= budget[Kind(r)]
             keyOk == ipOk /\ key.count <= budget[Kind(r)]
         IN /\ now' = time
            /\ buckets' = [buckets EXCEPT
                              ![p][IpBucket(r)] = ip,
                              ![p][KeyBucket(r)] = IF ipOk THEN key ELSE @]
            /\ hits' = hits \cup
                   {<<p, b, r, time>> : b \in {c \in {IpBucket(r), KeyBucket(r)} :
                                                 IF c = IpBucket(r) THEN ipOk ELSE keyOk}}
            /\ Goto(r, IF keyOk THEN "cache" ELSE "throttled")
            /\ UNCHANGED budget

-----------------------------------------------------------------------------
LimiterTypes ==
    /\ now \in Times
    /\ budget \in [Kinds -> Nat]
    /\ buckets \in [Processes -> [Buckets -> [start : Times, count : Nat]]]
    /\ hits \subseteq Processes \X Buckets \X Requests \X Times

(* However arrivals are spread over the windows, a bucket of one process    *)
(* admits less than twice its limit within any Window seconds (a limit of 0 *)
(* is none): at the boundary of two windows the first hit of the one is as  *)
(* far from the first of the other (FixedWindowRateLimiter.check).          *)
BurstBound ==
    \A p \in Processes, b \in Buckets, from \in Times :
        budget[b[2]] > 0 =>
            Cardinality({h \in hits : /\ h[1] = p /\ h[2] = b
                                      /\ h[4] \in from .. from + Window - 1})
                < 2 * budget[b[2]]
=============================================================================
