------------------------------- MODULE Handlers -------------------------------
(***************************************************************************)
(* The request handlers of the coordinator (server.ts), as far as all of   *)
(* them are alike.  A request occupies a slot from its first database      *)
(* round trip to its reply.  task[p] holds where the handler in slot p     *)
(* stands (pc) and its local variables, and call[p] (BountyPool) the pool  *)
(* call it awaits, if any.  A handler that goes on after a call returned   *)
(* does so in the same step as its next own round trip.                    *)
(***************************************************************************)
EXTENDS BountyPool

VARIABLE task    \* the handler in each slot

\* Where a handler may stand while it awaits a pool call.
AwaitsPool == {"tip", "pinCredit", "cancel", "debit", "bid", "event"}

Idle == [pc |-> "idle"]

Free(p) == task[p] = Idle

\* Slot p runs handler state t and awaits pool call c.
Await(p, t, c) ==
  /\ task' = [task EXCEPT ![p] = t]
  /\ call' = [call EXCEPT ![p] = c]

\* The handler in slot p replies.
Reply(p) == Await(p, Idle, NoCall)

PoolUnchanged == UNCHANGED <<balance, volume, credited, debited>>

===============================================================================
