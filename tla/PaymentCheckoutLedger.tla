----------------------- MODULE PaymentCheckoutLedger -----------------------
(***************************************************************************)
(* PaymentCheckout implements PurchaseLedger: the refinement mapping.      *)
(***************************************************************************)
EXTENDS PaymentCheckout

IntentOf(p) ==
    CASE status[p] = "ABSENT" -> "none"
      [] status[p] \in CheckoutEligible -> "open"
      [] status[p] = "CANCELLED" -> "withdrawn"
      [] status[p] = "SUCCESS" -> "granted"
      [] status[p] = "REFUNDED" -> "closed"

OrderOf(p, states) == \E a \in Attempts : payment[a] = p /\ order[a] \in states

\* The charge is that of any order of the payment, stored or not.
ChargeOf(p) ==
    IF OrderOf(p, {"FullyPaid"}) THEN "exact"
    ELSE IF OrderOf(p, {"PaidOther"}) THEN "other"
    ELSE IF OrderOf(p, {"Refunded"}) THEN "returned"
    ELSE "none"

Ledger == INSTANCE PurchaseLedger
    WITH intent <- [p \in Payments |-> IntentOf(p)],
         charge <- [p \in Payments |-> ChargeOf(p)]

\* Every purchase behaves as the ledger says: charged at most once, granted at
\* most once and only for a charge, withdrawn only while nothing was charged.
ImplementsLedger == Ledger!LedgerSpec
=============================================================================
