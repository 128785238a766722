------------------------- MODULE MCPaymentCheckout -------------------------
(* Small instances of PaymentCheckout for TLC. *)
EXTENDS PaymentCheckoutLedger, TLC

CONSTANTS p1, p2

\* Two promotion intents of one listing share a slot.
OneSlot == [p \in Payments |-> "listing-1 BOOST"]

\* Two independent intents (listing fees, renewals of different listings).
OwnSlots == [p \in Payments |-> p]

\* p1 is the older payment.
InOrder == [p \in Payments |-> IF p = p1 THEN 1 ELSE 2]

Interchangeable == Permutations(Attempts) \cup Permutations(Verifiers)
=============================================================================
