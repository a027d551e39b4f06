--------------------------- MODULE MCRequestPath ---------------------------
(* TLC instance of RequestPath: pairs of calls that can get in each other's *)
(* way.  The tenant's row and the rate limits vary only where they matter:  *)
(* two reads with one key may hit the limiter four times, and so three      *)
(* times across the boundary of two windows, the last of the first window   *)
(* and both of the second.                                                  *)
EXTENDS RequestPath

CONSTANTS c1, c2, k1, boot, here

MCAddressOf == [c \in Calls |-> here]
MCKeyScopes == [k \in ScopedKeys |-> {"reader", "revoker"}]
Job(op, key, target) == [op |-> op, key |-> key, target |-> target]
ReadBoot == Job("read", boot, None)
ReadScoped == Job("read", k1, None)
CreateKey == Job("create", boot, k1)
RevokeKey == Job("revoke", boot, k1)
Pair(a, b) == [c \in Calls |-> IF c = c1 THEN a ELSE b]
MCWorkloads ==
    {Pair(ReadBoot, ReadBoot), Pair(CreateKey, ReadScoped), Pair(RevokeKey, ReadScoped),
     Pair(CreateKey, RevokeKey), Pair(RevokeKey, RevokeKey), Pair(CreateKey, ReadBoot),
     Pair(Job("revoke", k1, k1), Job("revoke", boot, None))}
Unlimited == [r |-> 0, w |-> 0]
MCBudgets == {Unlimited, [r |-> 2, w |-> 2]}

MCInit ==
    /\ Init
    /\ (\E c \in Calls : KeyOf(<<c, 1>>) # boot) => customer.api_key = "lookup"
    /\ budget # Unlimited <=> job = Pair(ReadBoot, ReadBoot)
    /\ budget # Unlimited => customer.api_key = "lookup" /\ keyStatus[k1] = "absent"
    /\ ~modern => customer = Legacy
MCNext == Next /\ (budget # Unlimited => crashes' = 0)
MCSpec == MCInit /\ [][MCNext]_vars /\ \A r \in Requests : WF_vars(Serve(r))

(* Ready, of which the proofs speak, is when a thread has an action. *)
ReadyIsEnabled == \A r \in Requests : Ready(r) <=> ENABLED Serve(r)
=============================================================================
