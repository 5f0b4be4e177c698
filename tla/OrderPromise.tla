---------------------------- MODULE OrderPromise ----------------------------
(***************************************************************************)
(* What a payment order promises its payer and the shop, with no workers,  *)
(* leases or redeem codes: what was paid for is granted once, then the     *)
(* affiliate rebate is settled once, and only then is the order reported   *)
(* as completed.  Nothing is granted that was not paid for.                *)
(***************************************************************************)
EXTENDS Naturals

VARIABLES paid, granted, rebated, completed

promiseVars == <<paid, granted, rebated, completed>>

Init == paid = FALSE /\ granted = 0 /\ rebated = FALSE /\ completed = FALSE

Pay == paid = FALSE /\ paid' = TRUE /\ UNCHANGED <<granted, rebated, completed>>

Grant == paid /\ granted = 0 /\ granted' = 1 /\ UNCHANGED <<paid, rebated, completed>>

SettleRebate ==
    granted = 1 /\ ~rebated /\ rebated' = TRUE /\ UNCHANGED <<paid, granted, completed>>

Complete == rebated /\ ~completed /\ completed' = TRUE /\ UNCHANGED <<paid, granted, rebated>>

Next == Pay \/ Grant \/ SettleRebate \/ Complete

Spec == Init /\ [][Next]_promiseVars
=============================================================================
