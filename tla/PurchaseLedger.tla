--------------------------- MODULE PurchaseLedger ---------------------------
(***************************************************************************)
(* What the payment core promises for every purchase intent, without       *)
(* attempts, claims, leases or verifiers: the buyer is charged at most     *)
(* once, what was bought is granted at most once and only for an exact     *)
(* charge, and an intent is given up only while nothing was charged.       *)
(***************************************************************************)
CONSTANT Payments

VARIABLES
    intent,  \* "none", "open", "withdrawn", "granted" or "closed"
    charge   \* what the bank took: "none", "exact", "other" or "returned"

ledgerVars == <<intent, charge>>

LedgerTypeOK ==
    /\ intent \in [Payments -> {"none", "open", "withdrawn", "granted", "closed"}]
    /\ charge \in [Payments -> {"none", "exact", "other", "returned"}]

LedgerInit ==
    /\ intent = [p \in Payments |-> "none"]
    /\ charge = [p \in Payments |-> "none"]

MoveIntent(p, from, to) ==
    /\ intent[p] = from
    /\ intent' = [intent EXCEPT ![p] = to]
    /\ UNCHANGED charge

MoveCharge(p, from, to) ==
    /\ charge[p] \in from
    /\ charge' = [charge EXCEPT ![p] = to]
    /\ UNCHANGED intent

Offer(p) == MoveIntent(p, "none", "open")

\* Withdrawing one intent offers another in the same step.
Replace(p, q) ==
    /\ intent[p] = "open" /\ charge[p] = "none"
    /\ intent[q] = "none"
    /\ intent' = [intent EXCEPT ![p] = "withdrawn", ![q] = "open"]
    /\ UNCHANGED charge

\* A checkout in flight when its intent was withdrawn may reopen it.
Reopen(p) == MoveIntent(p, "withdrawn", "open")

Charge(p) ==
    /\ intent[p] = "open"
    /\ \E amount \in {"exact", "other"} : MoveCharge(p, {"none"}, amount)

Return(p) == MoveCharge(p, {"exact", "other"}, "returned")

\* The grant may cross a refund on its way, never precede the charge.
Grant(p) ==
    /\ charge[p] \in {"exact", "returned"}
    /\ MoveIntent(p, "open", "granted")

Close(p) ==
    /\ charge[p] = "returned"
    /\ MoveIntent(p, "open", "closed")

LedgerNext ==
    \E p \in Payments :
        \/ Offer(p) \/ Reopen(p) \/ Charge(p) \/ Return(p) \/ Grant(p) \/ Close(p)
        \/ \E q \in Payments : Replace(p, q)

LedgerSpec == LedgerInit /\ [][LedgerNext]_ledgerVars

=============================================================================
