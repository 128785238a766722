-------------------- MODULE CheckoutAndSubmission_proofs --------------------
(***************************************************************************)
(* Proofs about the two protocols a publication fee goes through, which    *)
(* share neither state nor names.                                          *)
(*                                                                         *)
(* PaymentCheckout, for any number of payments, attempts and verifiers and *)
(* any slots: the safety properties rest on Timely, that a checkout        *)
(* request ends within the lease of its claim; PaymentCheckout implements  *)
(* PurchaseLedger.                                                         *)
(*                                                                         *)
(* Submission, for any listings, requests, limits and bound.               *)
(***************************************************************************)
EXTENDS PaymentCheckoutLedger, Submission, FiniteSetTheorems, TLAPS

\* Every step keeps the variables in their types.
LEMMA TypeStep == TypeOK /\ [Next]_vars => TypeOK'
  <1> SUFFICES ASSUME TypeOK, [Next]_vars PROVE TypeOK'
    OBVIOUS
  <1> USE DEF TypeOK, PaymentStatus, OrderState
  <1>1. ASSUME NEW p \in Payments, InsertIntent(p) PROVE TypeOK'
    BY <1>1 DEF InsertIntent, attemptVars, verifierVars
  <1>2. ASSUME NEW p \in Payments, NEW q \in Payments, ReplaceIntent(p, q) PROVE TypeOK'
    BY <1>2 DEF ReplaceIntent, attemptVars, verifierVars
  <1>3. ASSUME NEW p \in Payments, Checkout(p) PROVE TypeOK'
    <2>1. ASSUME NEW a \in Attempts, ClaimInitiation(p, a) PROVE TypeOK'
      BY <2>1 DEF ClaimInitiation, Claim, verifierVars
    <2>2. ASSUME NEW a \in Attempts, NEW b \in Attempts, RecoverStaleClaim(p, b, a)
          PROVE  TypeOK'
      BY <2>2 DEF RecoverStaleClaim, Claim, verifierVars
    <2>3. ASSUME NEW a \in Attempts, ReuseCheckout(p, a) PROVE TypeOK'
      BY <2>3 DEF ReuseCheckout, HandOut, attemptVars, verifierVars
    <2>4. ASSUME NEW a \in Attempts, WaitForInitiator(p, a) PROVE TypeOK'
      BY <2>4 DEF WaitForInitiator, attemptVars, verifierVars
    <2>5. ASSUME NEW a \in Attempts, PollFindsOrder(p, a) PROVE TypeOK'
      BY <2>5 DEF PollFindsOrder, HandOut, attemptVars, verifierVars
    <2>6. ASSUME PollGivesUp(p) PROVE TypeOK'
      BY <2>6 DEF PollGivesUp, attemptVars, verifierVars
    <2> QED
      BY <1>3, <2>1, <2>2, <2>3, <2>4, <2>5, <2>6 DEF Checkout
  <1>4. ASSUME NEW a \in Attempts, Initiate(a) PROVE TypeOK'
    <2>1. ASSUME ProviderCreatesOrder(a) PROVE TypeOK'
      BY <2>1 DEF ProviderCreatesOrder, attemptVars, verifierVars
    <2>2. ASSUME ReleaseClaim(a) PROVE TypeOK'
      BY <2>2 DEF ReleaseClaim, attemptVars, verifierVars
    <2>3. ASSUME PersistOrder(a) PROVE TypeOK'
      BY <2>3 DEF PersistOrder, attemptVars, verifierVars
    <2>4. ASSUME PersistOrderConflicts(a) PROVE TypeOK'
      BY <2>4 DEF PersistOrderConflicts, attemptVars, verifierVars
    <2>5. ASSUME CrashInitiator(a) PROVE TypeOK'
      BY <2>5 DEF CrashInitiator, attemptVars, verifierVars
    <2>6. ASSUME LeaseElapses(a) PROVE TypeOK'
      BY <2>6 DEF LeaseElapses, attemptVars, verifierVars
    <2> QED
      BY <1>4, <2>1, <2>2, <2>3, <2>4, <2>5, <2>6 DEF Initiate
  <1>5. ASSUME NEW a \in Attempts, Bank(a) PROVE TypeOK'
    BY <1>5
       DEF Bank, BuyerPays, OrderLapses, BankRefunds, MoveOrder, attemptVars, verifierVars
  <1>6. ASSUME NEW v \in Verifiers, Verify(v) PROVE TypeOK'
    <2>1. ASSUME NEW a \in Attempts, StartVerification(v, a) PROVE TypeOK'
      BY <2>1 DEF StartVerification, attemptVars
    <2>2. ASSUME NEW a \in Attempts, ProviderAnswers(v, a) PROVE TypeOK'
      BY <2>2 DEF ProviderAnswers, attemptVars
    <2>3. ASSUME VerificationFails(v) PROVE TypeOK'
      BY <2>3 DEF VerificationFails, VerifierEnds, attemptVars
    <2>4. ASSUME NEW a \in Attempts, SettlePaid(v, a) PROVE TypeOK'
      <3>1. CASE payment[a] \in Payments
        <4>1. fulfilled[payment[a]] + 1 \in Nat
          BY <3>1
        <4> QED
          BY <2>4, <3>1, <4>1 DEF SettlePaid, Terminalize, VerifierEnds
      <3>2. CASE payment[a] \notin Payments
        <4>1. fulfilled' = fulfilled /\ status' = status
          BY <2>4, <3>2 DEF SettlePaid
        <4> QED
          BY <2>4, <4>1 DEF SettlePaid, Terminalize, VerifierEnds
      <3> QED
        BY <3>1, <3>2
    <2>5. ASSUME NEW a \in Attempts, SettleRefunded(v, a) PROVE TypeOK'
      BY <2>5 DEF SettleRefunded, Terminalize, VerifierEnds
    <2>6. ASSUME NEW a \in Attempts, SettleNothing(v, a) PROVE TypeOK'
      BY <2>6 DEF SettleNothing, VerifierEnds, attemptVars
    <2> QED
      BY <1>6, <2>1, <2>2, <2>3, <2>4, <2>5, <2>6 DEF Verify, Settle
  <1>7. CASE UNCHANGED vars
    BY <1>7 DEF vars
  <1> QED
    BY <1>1, <1>2, <1>3, <1>4, <1>5, <1>6, <1>7 DEF Next

\* The variables of PaymentCheckout keep their types in every behaviour.
THEOREM TypeCorrect == Spec => []TypeOK
  <1>1. Init => TypeOK
    BY DEF Init, TypeOK, PaymentStatus, OrderState
  <1> QED
    BY <1>1, TypeStep, PTL DEF Spec

----------------------------------------------------------------------------
(***************************************************************************)
(* The inductive invariant.  Its centre is that the state of the payment   *)
(* tells which attempts it can have: while a claim is unfilled the payment *)
(* is CREATED or CANCELLED, while a stored order is unsettled it is        *)
(* PENDING, and once the order's attempt is terminal the payment is        *)
(* SUCCESS or REFUNDED.  So a payment that may be claimed has no stored    *)
(* order, and one that has a stored order cannot be claimed again.         *)
(***************************************************************************)

\* An attempt whose row is not inserted is blank.
UnbornInv ==
    \A a \in Attempts :
        /\ initiator[a] = "unborn" <=> payment[a] = None
        /\ payment[a] = None =>
              /\ ~hasOrder[a] /\ ~terminal[a] /\ ~succeeded[a] /\ ~aged[a]
              /\ order[a] = "none"

\* A request still initiating owns the live claim (this is where Timely is used).
ClaimInv ==
    \A a \in Attempts : initiator[a] \in {"claimed", "ordered"} =>
        /\ ~hasOrder[a] /\ ~terminal[a] /\ ~aged[a]
        /\ initiator[a] = "ordered" => order[a] # "none"

\* The partial unique index payment_provider_attempts_one_active.
OneActiveInv ==
    \A a, b \in Attempts :
        payment[a] = payment[b] /\ payment[a] # None /\ ~terminal[a] /\ ~terminal[b] => a = b

OneOrderInv ==
    \A a, b \in Attempts : payment[a] = payment[b] /\ hasOrder[a] /\ hasOrder[b] => a = b

\* Only a stored order reaches a browser, only then can it be paid.
OrderInv ==
    \A a \in Attempts :
        /\ hasOrder[a] => order[a] # "none"
        /\ handedOut[a] => hasOrder[a]
        /\ order[a] \in {"FullyPaid", "PaidOther", "Refunded"} => hasOrder[a]

StatusInv ==
    \A p \in Payments, a \in Attempts : payment[a] = p =>
        /\ ~hasOrder[a] /\ ~terminal[a] => status[p] \in {"CREATED", "CANCELLED"}
        /\ hasOrder[a] /\ ~terminal[a] => status[p] = "PENDING"
        /\ hasOrder[a] /\ terminal[a] =>
              \/ status[p] = "SUCCESS" /\ succeeded[a] /\ order[a] \in {"FullyPaid", "Refunded"}
              \/ status[p] = "REFUNDED" /\ order[a] = "Refunded"

SuccessInv ==
    \A p \in Payments :
        /\ fulfilled[p] = IF status[p] = "SUCCESS" THEN 1 ELSE 0
        /\ status[p] \in {"PENDING", "SUCCESS", "REFUNDED"} =>
              \E a \in Attempts : payment[a] = p /\ hasOrder[a]

\* What a verifier was told stays true of the order, short of a refund.
VerifierInv ==
    \A v \in Verifiers :
        /\ vAttempt[v] = None => vSeen[v] = None
        /\ vAttempt[v] # None => hasOrder[vAttempt[v]]
        /\ vSeen[v] = "FullyPaid" => order[vAttempt[v]] \in {"FullyPaid", "Refunded"}
        /\ vSeen[v] = "Refunded" => order[vAttempt[v]] = "Refunded"

IInv ==
    /\ TypeOK
    /\ UnbornInv
    /\ ClaimInv
    /\ OneActiveInv
    /\ OneOrderInv
    /\ OrderInv
    /\ StatusInv
    /\ SuccessInv
    /\ VerifierInv

\* Under the timing assumption every step preserves the inductive invariant.
LEMMA InvariantStep == Timely /\ IInv /\ [Next]_vars => IInv'
  <1> SUFFICES ASSUME Timely, IInv, [Next]_vars PROVE IInv'
    OBVIOUS
  <1> USE NoneAssumption
  <1>0. TypeOK'
    BY TypeStep DEF IInv
  <1> USE <1>0 DEF IInv, TypeOK, PaymentStatus, OrderState
  <1>1. ASSUME NEW p \in Payments, InsertIntent(p) PROVE IInv'
    BY <1>1
       DEF UnbornInv, ClaimInv, OneActiveInv, OneOrderInv, OrderInv, StatusInv, SuccessInv,
           VerifierInv, InsertIntent, SlotFree, Open, CheckoutEligible, attemptVars,
           verifierVars
  <1>2. ASSUME NEW p \in Payments, NEW q \in Payments, ReplaceIntent(p, q) PROVE IInv'
    BY <1>2
       DEF UnbornInv, ClaimInv, OneActiveInv, OneOrderInv, OrderInv, StatusInv, SuccessInv,
           VerifierInv, ReplaceIntent, Replaceable, attemptVars, verifierVars
  <1>3. ASSUME NEW p \in Payments, NEW a \in Attempts, ClaimInitiation(p, a) PROVE IInv'
    <2>1. ClaimInv'
      BY <1>3
         DEF ClaimInv, UnbornInv, ClaimInitiation, Claim, NoActive, Active, Open,
             CheckoutEligible, verifierVars
    <2>2. OneOrderInv'
      BY <1>3
         DEF OneOrderInv, UnbornInv, ClaimInitiation, Claim, NoActive, Active, Open,
             CheckoutEligible, verifierVars
    <2>3. StatusInv'
      BY <1>3
         DEF StatusInv, UnbornInv, SuccessInv, ClaimInitiation, Claim, NoActive, Active,
             Open, CheckoutEligible, verifierVars
    <2>4. SuccessInv'
      BY <1>3
         DEF SuccessInv, UnbornInv, ClaimInitiation, Claim, NoActive, Active, Open,
             CheckoutEligible, verifierVars
    <2>5. UnbornInv' /\ OneActiveInv' /\ OrderInv' /\ VerifierInv'
      BY <1>3
         DEF UnbornInv, OneActiveInv, OrderInv, VerifierInv, ClaimInitiation, Claim,
             NoActive, Active, Open, CheckoutEligible, verifierVars
    <2> QED
      BY <2>1, <2>2, <2>3, <2>4, <2>5 DEF IInv
  <1>4. ASSUME NEW p \in Payments, NEW b \in Attempts, NEW a \in Attempts,
               RecoverStaleClaim(p, b, a)
        PROVE  IInv'
    <2>1. ClaimInv'
      BY <1>4
         DEF ClaimInv, UnbornInv, RecoverStaleClaim, ClaimIsStale, Claim, Active, Open,
             CheckoutEligible, verifierVars
    <2>2. OneOrderInv'
      BY <1>4
         DEF OneOrderInv, UnbornInv, RecoverStaleClaim, ClaimIsStale, Claim, Active, Open,
             CheckoutEligible, verifierVars
    <2>3. StatusInv'
      BY <1>4
         DEF StatusInv, UnbornInv, RecoverStaleClaim, ClaimIsStale, Claim, Active, Open,
             CheckoutEligible, verifierVars
    <2>4. SuccessInv'
      BY <1>4
         DEF SuccessInv, UnbornInv, RecoverStaleClaim, ClaimIsStale, Claim, Active, Open,
             CheckoutEligible, verifierVars
    <2>5. UnbornInv' /\ OneActiveInv' /\ OrderInv' /\ VerifierInv'
      BY <1>4
         DEF UnbornInv, OneActiveInv, OrderInv, VerifierInv, RecoverStaleClaim,
             ClaimIsStale, Claim, Active, Open, CheckoutEligible, verifierVars
    <2> QED
      BY <2>1, <2>2, <2>3, <2>4, <2>5 DEF IInv
  <1>5. ASSUME NEW p \in Payments, NEW a \in Attempts, ReuseCheckout(p, a) PROVE IInv'
    BY <1>5
       DEF UnbornInv, ClaimInv, OneActiveInv, OneOrderInv, OrderInv, StatusInv, SuccessInv,
           VerifierInv, ReuseCheckout, HandOut, Active, attemptVars, verifierVars
  <1>6. ASSUME NEW p \in Payments, NEW a \in Attempts, WaitForInitiator(p, a) PROVE IInv'
    BY <1>6
       DEF UnbornInv, ClaimInv, OneActiveInv, OneOrderInv, OrderInv, StatusInv, SuccessInv,
           VerifierInv, WaitForInitiator, attemptVars, verifierVars
  <1>7. ASSUME NEW p \in Payments, NEW a \in Attempts, PollFindsOrder(p, a) PROVE IInv'
    BY <1>7
       DEF UnbornInv, ClaimInv, OneActiveInv, OneOrderInv, OrderInv, StatusInv, SuccessInv,
           VerifierInv, PollFindsOrder, HandOut, Active, attemptVars, verifierVars
  <1>8. ASSUME NEW p \in Payments, PollGivesUp(p) PROVE IInv'
    BY <1>8
       DEF UnbornInv, ClaimInv, OneActiveInv, OneOrderInv, OrderInv, StatusInv, SuccessInv,
           VerifierInv, PollGivesUp, attemptVars, verifierVars
  <1>9. ASSUME NEW a \in Attempts, ProviderCreatesOrder(a) PROVE IInv'
    <2>1. StatusInv'
      BY <1>9 DEF StatusInv, ClaimInv, ProviderCreatesOrder, attemptVars, verifierVars
    <2>2. VerifierInv'
      BY <1>9 DEF VerifierInv, ClaimInv, ProviderCreatesOrder, attemptVars, verifierVars
    <2>3. UnbornInv' /\ ClaimInv' /\ OneActiveInv' /\ OneOrderInv' /\ OrderInv' /\ SuccessInv'
      BY <1>9
         DEF UnbornInv, ClaimInv, OneActiveInv, OneOrderInv, OrderInv, SuccessInv,
             ProviderCreatesOrder, attemptVars, verifierVars
    <2> QED
      BY <2>1, <2>2, <2>3 DEF IInv
  <1>10. ASSUME NEW a \in Attempts, ReleaseClaim(a) PROVE IInv'
    <2>1. StatusInv'
      BY <1>10 DEF StatusInv, ClaimInv, ReleaseClaim, verifierVars
    <2>2. UnbornInv' /\ ClaimInv' /\ OneActiveInv' /\ OneOrderInv' /\ OrderInv'
          /\ SuccessInv' /\ VerifierInv'
      BY <1>10
         DEF UnbornInv, ClaimInv, OneActiveInv, OneOrderInv, OrderInv, SuccessInv,
             VerifierInv, ReleaseClaim, verifierVars
    <2> QED
      BY <2>1, <2>2 DEF IInv
  <1>11. ASSUME NEW a \in Attempts, PersistOrder(a) PROVE IInv'
    <2>1. OneOrderInv'
      BY <1>11 DEF OneOrderInv, ClaimInv, StatusInv, PersistOrder, verifierVars
    <2>2. OrderInv'
      BY <1>11 DEF OrderInv, ClaimInv, PersistOrder, verifierVars
    <2>3. StatusInv'
      BY <1>11 DEF StatusInv, ClaimInv, OneActiveInv, PersistOrder, verifierVars
    <2>4. SuccessInv'
      BY <1>11 DEF SuccessInv, ClaimInv, StatusInv, PersistOrder, verifierVars
    <2>5. UnbornInv' /\ ClaimInv' /\ OneActiveInv' /\ VerifierInv'
      BY <1>11
         DEF UnbornInv, ClaimInv, OneActiveInv, VerifierInv, PersistOrder, verifierVars
    <2> QED
      BY <2>1, <2>2, <2>3, <2>4, <2>5 DEF IInv
  <1>12. ASSUME NEW a \in Attempts, PersistOrderConflicts(a) PROVE IInv'
    BY <1>12
       DEF UnbornInv, ClaimInv, OneActiveInv, OneOrderInv, OrderInv, StatusInv, SuccessInv,
           VerifierInv, PersistOrderConflicts, attemptVars, verifierVars
  <1>13. ASSUME NEW a \in Attempts, CrashInitiator(a) PROVE IInv'
    BY <1>13
       DEF UnbornInv, ClaimInv, OneActiveInv, OneOrderInv, OrderInv, StatusInv, SuccessInv,
           VerifierInv, CrashInitiator, attemptVars, verifierVars
  <1>14. ASSUME NEW a \in Attempts, LeaseElapses(a) PROVE IInv'
    BY <1>14
       DEF UnbornInv, ClaimInv, OneActiveInv, OneOrderInv, OrderInv, StatusInv, SuccessInv,
           VerifierInv, LeaseElapses, verifierVars
  <1>15. ASSUME NEW a \in Attempts, Bank(a) PROVE IInv'
    <2>. USE DEF UnbornInv, ClaimInv, OneActiveInv, OneOrderInv, OrderInv, StatusInv,
                 SuccessInv, VerifierInv, MoveOrder, attemptVars, verifierVars
    <2>1. CASE BuyerPays(a)
      BY <2>1 DEF BuyerPays
    <2>2. CASE OrderLapses(a)
      BY <2>2 DEF OrderLapses
    <2>3. CASE BankRefunds(a)
      BY <2>3 DEF BankRefunds
    <2>. QED
      BY <1>15, <2>1, <2>2, <2>3 DEF Bank
  <1>16. ASSUME NEW v \in Verifiers, NEW a \in Attempts, StartVerification(v, a) PROVE IInv'
    BY <1>16
       DEF UnbornInv, ClaimInv, OneActiveInv, OneOrderInv, OrderInv, StatusInv, SuccessInv,
           VerifierInv, StartVerification, attemptVars
  <1>17. ASSUME NEW v \in Verifiers, NEW a \in Attempts, ProviderAnswers(v, a) PROVE IInv'
    BY <1>17
       DEF UnbornInv, ClaimInv, OneActiveInv, OneOrderInv, OrderInv, StatusInv, SuccessInv,
           VerifierInv, ProviderAnswers, attemptVars
  <1>18. ASSUME NEW v \in Verifiers, VerificationFails(v) PROVE IInv'
    BY <1>18
       DEF UnbornInv, ClaimInv, OneActiveInv, OneOrderInv, OrderInv, StatusInv, SuccessInv,
           VerifierInv, VerificationFails, VerifierEnds, attemptVars
  <1>19. ASSUME NEW v \in Verifiers, NEW a \in Attempts, SettlePaid(v, a) PROVE IInv'
    <2>1. ClaimInv'
      BY <1>19
         DEF ClaimInv, VerifierInv, SettlePaid, StillCurrent, Terminalize, VerifierEnds
    <2>2. StatusInv'
      BY <1>19
         DEF StatusInv, OneOrderInv, VerifierInv, SettlePaid, StillCurrent, Terminalize,
             VerifierEnds
    <2>3. SuccessInv'
      BY <1>19
         DEF SuccessInv, VerifierInv, SettlePaid, StillCurrent, Terminalize, VerifierEnds
    <2>4. UnbornInv' /\ OneActiveInv' /\ OneOrderInv' /\ OrderInv' /\ VerifierInv'
      BY <1>19
         DEF UnbornInv, OneActiveInv, OneOrderInv, OrderInv, VerifierInv, SettlePaid,
             StillCurrent, Terminalize, VerifierEnds
    <2> QED
      BY <2>1, <2>2, <2>3, <2>4 DEF IInv
  <1>20. ASSUME NEW v \in Verifiers, NEW a \in Attempts, SettleRefunded(v, a) PROVE IInv'
    <2>1. ClaimInv'
      BY <1>20
         DEF ClaimInv, VerifierInv, SettleRefunded, StillCurrent, Terminalize, VerifierEnds
    <2>2. StatusInv'
      BY <1>20
         DEF StatusInv, OneOrderInv, VerifierInv, SettleRefunded, StillCurrent, Terminalize,
             VerifierEnds
    <2>3. SuccessInv'
      BY <1>20
         DEF SuccessInv, VerifierInv, SettleRefunded, StillCurrent, Terminalize,
             VerifierEnds
    <2>4. UnbornInv' /\ OneActiveInv' /\ OneOrderInv' /\ OrderInv' /\ VerifierInv'
      BY <1>20
         DEF UnbornInv, OneActiveInv, OneOrderInv, OrderInv, VerifierInv, SettleRefunded,
             StillCurrent, Terminalize, VerifierEnds
    <2> QED
      BY <2>1, <2>2, <2>3, <2>4 DEF IInv
  <1>21. ASSUME NEW v \in Verifiers, NEW a \in Attempts, SettleNothing(v, a) PROVE IInv'
    BY <1>21
       DEF UnbornInv, ClaimInv, OneActiveInv, OneOrderInv, OrderInv, StatusInv, SuccessInv,
           VerifierInv, SettleNothing, VerifierEnds, attemptVars
  <1>22. CASE UNCHANGED vars
    BY <1>22
       DEF vars, UnbornInv, ClaimInv, OneActiveInv, OneOrderInv, OrderInv, StatusInv,
           SuccessInv, VerifierInv
  <1> QED
    BY <1>1, <1>2, <1>3, <1>4, <1>5, <1>6, <1>7, <1>8, <1>9, <1>10, <1>11, <1>12, <1>13,
       <1>14, <1>15, <1>16, <1>17, <1>18, <1>19, <1>20, <1>21, <1>22
       DEF Next, Checkout, Initiate, Verify, Settle

\* The inductive invariant holds before the first intent is inserted.
LEMMA InvariantInit == Init => IInv
  BY NoneAssumption
     DEF Init, IInv, TypeOK, PaymentStatus, OrderState, UnbornInv, ClaimInv, OneActiveInv,
         OneOrderInv, OrderInv, StatusInv, SuccessInv, VerifierInv

\* The inductive invariant holds in every state of every behaviour.
THEOREM Inductive == Timely => (Spec => []IInv)
  <1> SUFFICES ASSUME Timely PROVE Spec => []IInv
    OBVIOUS
  <1>1. IInv /\ [Next]_vars => IInv'
    BY InvariantStep
  <1> QED
    BY <1>1, InvariantInit, PTL DEF Spec

----------------------------------------------------------------------------
(* What the invariant says of the buyer, the bank and the payment. *)

\* A buyer never holds the payment pages of two orders of one intent.
THEOREM NeverTwoPayableOrders == Timely => (Spec => []OnePayableOrder)
  <1> SUFFICES ASSUME Timely PROVE Spec => []OnePayableOrder
    OBVIOUS
  <1>1. IInv => OnePayableOrder
    BY DEF IInv, OrderInv, OneOrderInv, OnePayableOrder
  <1> QED
    BY <1>1, Inductive, PTL

\* A payment is fulfilled exactly once when it is SUCCESS, never otherwise, and
\* for an order of its own the bank reported paid in the exact amount.
THEOREM FulfilledExactlyOnce == Timely => (Spec => []ExactlyOnceFulfillment)
  <1> SUFFICES ASSUME Timely PROVE Spec => []ExactlyOnceFulfillment
    OBVIOUS
  <1>1. IInv => ExactlyOnceFulfillment
    <2> SUFFICES ASSUME IInv, NEW p \in Payments, status[p] = "SUCCESS"
                 PROVE \E a \in Attempts : /\ payment[a] = p /\ succeeded[a] /\ hasOrder[a]
                                           /\ order[a] \in {"FullyPaid", "Refunded"}
      BY DEF IInv, SuccessInv, ExactlyOnceFulfillment
    <2>1. PICK a \in Attempts : payment[a] = p /\ hasOrder[a]
      BY DEF IInv, SuccessInv
    <2>2. terminal[a] /\ succeeded[a] /\ order[a] \in {"FullyPaid", "Refunded"}
      BY <2>1 DEF IInv, TypeOK, StatusInv
    <2> QED
      BY <2>1, <2>2
  <1> QED
    BY <1>1, Inductive, PTL

\* The order of every exact charge is stored and belongs to a payment that was
\* settled with it or is still PENDING on it.
THEOREM PaidOrdersAreTracked == Timely => (Spec => []PaidOrderIsTracked)
  <1> SUFFICES ASSUME Timely PROVE Spec => []PaidOrderIsTracked
    OBVIOUS
  <1>1. IInv => PaidOrderIsTracked
    <2> SUFFICES ASSUME IInv, NEW a \in Attempts, order[a] = "FullyPaid"
                 PROVE /\ hasOrder[a]
                       /\ IF terminal[a] THEN succeeded[a] /\ PaymentIn(a, {"SUCCESS"})
                                         ELSE PaymentIn(a, {"PENDING"})
      BY DEF PaidOrderIsTracked
    <2>1. hasOrder[a]
      BY DEF IInv, OrderInv
    <2>2. payment[a] \in Payments
      BY <2>1 DEF IInv, TypeOK, UnbornInv
    <2> QED
      BY <2>1, <2>2 DEF IInv, TypeOK, StatusInv, PaymentIn
  <1> QED
    BY <1>1, Inductive, PTL

\* No payment page of an abandoned claim's order is ever in a browser.
THEOREM AbandonedOrdersAreUnpayable == Timely => (Spec => []AbandonedOrderUnpayable)
  <1> SUFFICES ASSUME Timely PROVE Spec => []AbandonedOrderUnpayable
    OBVIOUS
  <1>1. IInv => AbandonedOrderUnpayable
    <2> SUFFICES ASSUME IInv, NEW a \in Attempts, terminal[a], handedOut[a]
                 PROVE order[a] # "Preparing"
      BY DEF AbandonedOrderUnpayable
    <2>1. hasOrder[a] /\ payment[a] \in Payments
      BY DEF IInv, TypeOK, OrderInv, UnbornInv
    <2> QED
      BY <2>1 DEF IInv, StatusInv
  <1> QED
    BY <1>1, Inductive, PTL

\* A cancelled promotion intent has no payment page in any browser.
THEOREM ReplacementDiscardsNothingPayable == Timely => (Spec => []NothingPayableDiscarded)
  <1> SUFFICES ASSUME Timely PROVE Spec => []NothingPayableDiscarded
    OBVIOUS
  <1>1. IInv => NothingPayableDiscarded
    BY DEF IInv, OrderInv, StatusInv, TypeOK, PaymentIn, NothingPayableDiscarded
  <1> QED
    BY <1>1, Inductive, PTL

\* SUCCESS and REFUNDED are final: nothing moves the payment or fulfils it again.
THEOREM SettlementIsFinal == Timely => (Spec => SettledIsFinal)
  <1> SUFFICES ASSUME Timely PROVE Spec => SettledIsFinal
    OBVIOUS
  <1> DEFINE Final(p) == status[p] \in {"SUCCESS", "REFUNDED"} =>
                            status'[p] = status[p] /\ fulfilled'[p] = fulfilled[p]
  <1>1. ASSUME IInv, [Next]_vars, NEW p \in Payments PROVE Final(p)
    <2> USE <1>1 DEF IInv, TypeOK
    <2>1. ASSUME NEW q \in Payments, InsertIntent(q) PROVE Final(p)
      BY <2>1 DEF InsertIntent
    <2>2. ASSUME NEW q \in Payments, NEW r \in Payments, ReplaceIntent(q, r) PROVE Final(p)
      BY <2>2 DEF ReplaceIntent, Replaceable
    <2>3. ASSUME NEW q \in Payments, Checkout(q) PROVE Final(p)
      BY <2>3
         DEF Checkout, ClaimInitiation, RecoverStaleClaim, Claim, ReuseCheckout, HandOut,
                  WaitForInitiator, PollFindsOrder, PollGivesUp
    <2>4. ASSUME NEW a \in Attempts, Initiate(a) PROVE Final(p)
      <3>1. ASSUME PersistOrder(a) PROVE Final(p)
        <4>1. payment[a] # None /\ ~hasOrder[a] /\ ~terminal[a]
          BY <3>1 DEF PersistOrder, ClaimInv, UnbornInv
        <4>2. status[payment[a]] \in {"CREATED", "CANCELLED"}
          BY <4>1 DEF StatusInv
        <4> QED
          BY <3>1, <4>2 DEF PersistOrder
      <3>2. ASSUME ~PersistOrder(a) PROVE Final(p)
        BY <2>4, <3>2
           DEF Initiate, ProviderCreatesOrder, ReleaseClaim, PersistOrderConflicts,
                          CrashInitiator, LeaseElapses
      <3> QED
        BY <3>1, <3>2
    <2>5. ASSUME NEW a \in Attempts, Bank(a) PROVE Final(p)
      BY <2>5 DEF Bank, BuyerPays, OrderLapses, BankRefunds, MoveOrder
    <2>6. ASSUME NEW v \in Verifiers, Verify(v) PROVE Final(p)
      BY <2>6 DEF Verify, StartVerification, ProviderAnswers, VerificationFails, Settle,
                  SettlePaid, SettleRefunded, SettleNothing, StillCurrent
    <2>7. CASE UNCHANGED vars
      BY <2>7 DEF vars
    <2> QED
      BY <2>1, <2>2, <2>3, <2>4, <2>5, <2>6, <2>7 DEF Next
  <1>2. IInv /\ [Next]_vars => [\A p \in Payments : Final(p)]_vars
    BY <1>1
  <1> QED
    BY <1>2, Inductive, PTL DEF Spec, SettledIsFinal

-----------------------------------------------------------------------------
\* The refinement of the ledger, under the timing assumption.

Charging == {"FullyPaid", "PaidOther", "Refunded"}

intentView == [p \in Payments |-> IntentOf(p)]
chargeView == [p \in Payments |-> ChargeOf(p)]

\* The charge of a payment reads only its attempts with a charged order.
LEMMA ChargeKept ==
    ASSUME \A a \in Attempts, p \in Payments :
              \A s \in Charging :
                 (payment'[a] = p /\ order'[a] = s) <=> (payment[a] = p /\ order[a] = s)
    PROVE  chargeView' = chargeView
  <1>1. ASSUME NEW p \in Payments PROVE ChargeOf(p)' = ChargeOf(p)
    BY DEF ChargeOf, OrderOf, Charging
  <1> QED
    BY <1>1 DEF chargeView

\* The state of a payment alone decides its intent.
LEMMA IntentKept ==
    ASSUME UNCHANGED status
    PROVE  intentView' = intentView
  BY DEF intentView, IntentOf, CheckoutEligible

\* Moving one payment moves its intent and no other.
LEMMA IntentMoves ==
    ASSUME TypeOK, NEW p \in Payments, NEW s \in PaymentStatus,
           status' = [status EXCEPT ![p] = s]
    PROVE  intentView' = [intentView EXCEPT ![p] = IntentOf(p)']
  <1>1. ASSUME NEW q \in Payments, q # p PROVE IntentOf(q)' = IntentOf(q)
    <2>1. status'[q] = status[q]
      BY <1>1 DEF TypeOK
    <2> QED
      BY <2>1 DEF IntentOf, CheckoutEligible
  <1> QED
    BY <1>1 DEF intentView

\* Only one order of a payment is ever charged, so it decides the charge.
LEMMA ChargeIsTheOrder ==
    ASSUME IInv, NEW a \in Attempts, NEW p \in Payments, payment[a] = p, hasOrder[a]
    PROVE  ChargeOf(p) = CASE order[a] = "FullyPaid" -> "exact"
                           [] order[a] = "PaidOther" -> "other"
                           [] order[a] = "Refunded" -> "returned"
                           [] OTHER -> "none"
  <1>1. \A s \in Charging : OrderOf(p, {s}) <=> order[a] = s
    BY DEF IInv, TypeOK, OrderOf, Charging, OrderInv, OneOrderInv
  <1> QED
    BY <1>1 DEF ChargeOf, Charging

\* A payment without charged orders has no charge.
LEMMA NoOrderNoCharge ==
    ASSUME IInv, NEW p \in Payments, \A a \in Attempts : payment[a] = p => ~hasOrder[a]
    PROVE  ChargeOf(p) = "none"
  BY DEF IInv, OrderInv, ChargeOf, OrderOf

\* Every step of the checkout is a step of the ledger or a stutter.
LEMMA LedgerStep ==
    ASSUME IInv, IInv', [Next]_vars
    PROVE  [Ledger!LedgerNext]_(Ledger!ledgerVars)
  <1> DEFINE Goal == [Ledger!LedgerNext]_(Ledger!ledgerVars)
  <1> USE DEF IInv, TypeOK
  <1>0. ASSUME intentView' = intentView, chargeView' = chargeView PROVE Goal
    BY <1>0 DEF intentView, chargeView, Ledger!ledgerVars
  <1>1. ASSUME NEW p \in Payments, InsertIntent(p) PROVE Goal
    <2>1. chargeView' = chargeView
      BY <1>1, ChargeKept DEF InsertIntent, attemptVars
    <2>2. intentView[p] = "none" /\ intentView' = [intentView EXCEPT ![p] = "open"]
      <3>1. status[p] = "ABSENT" /\ status'[p] = "CREATED"
        BY <1>1 DEF InsertIntent
      <3>2. \A r \in Payments \ {p} : status'[r] = status[r]
        BY <1>1 DEF InsertIntent
      <3>3. IntentOf(p) = "none" /\ IntentOf(p)' = "open"
        BY <3>1 DEF IntentOf, CheckoutEligible
      <3>4. \A r \in Payments \ {p} : IntentOf(r)' = IntentOf(r)
        BY <3>2 DEF IntentOf, CheckoutEligible
      <3> QED
        BY <3>3, <3>4 DEF intentView
    <2> QED
      BY <2>1, <2>2
         DEF Ledger!LedgerNext, Ledger!Offer, Ledger!MoveIntent, intentView, chargeView
  <1>2. ASSUME NEW p \in Payments, NEW q \in Payments, ReplaceIntent(p, q) PROVE Goal
    <2>1. chargeView' = chargeView
      BY <1>2, ChargeKept DEF ReplaceIntent, attemptVars
    <2>2. /\ intentView[p] = "open" /\ intentView[q] = "none"
          /\ intentView' = [intentView EXCEPT ![p] = "withdrawn", ![q] = "open"]
      <3>1. p # q /\ status[p] = "CREATED" /\ status[q] = "ABSENT"
        BY <1>2 DEF ReplaceIntent, Replaceable
      <3>2. status'[p] = "CANCELLED" /\ status'[q] = "CREATED"
        BY <1>2, <3>1 DEF ReplaceIntent
      <3>3. \A r \in Payments : r # p /\ r # q => status'[r] = status[r]
        BY <1>2 DEF ReplaceIntent
      <3>4. \A r \in Payments : r # p /\ r # q => IntentOf(r)' = IntentOf(r)
        BY <3>3 DEF IntentOf, CheckoutEligible
      <3>5. /\ IntentOf(p) = "open" /\ IntentOf(q) = "none"
            /\ IntentOf(p)' = "withdrawn" /\ IntentOf(q)' = "open"
        BY <3>1, <3>2 DEF IntentOf, CheckoutEligible
      <3> QED
        BY <3>1, <3>4, <3>5 DEF intentView
    <2>3. \A a \in Attempts : payment[a] = p => ~hasOrder[a]
      BY <1>2 DEF ReplaceIntent, Replaceable, StatusInv
    <2>4. chargeView[p] = "none"
      BY <2>3, NoOrderNoCharge DEF chargeView
    <2> QED
      BY <2>1, <2>2, <2>4 DEF Ledger!LedgerNext, Ledger!Replace, intentView, chargeView
  <1>3. ASSUME NEW p \in Payments, Checkout(p) PROVE Goal
    <2>1. UNCHANGED <<status, order>>
      BY <1>3
         DEF Checkout, ClaimInitiation, RecoverStaleClaim, Claim, ReuseCheckout, HandOut,
                  WaitForInitiator, PollFindsOrder, PollGivesUp
    <2>2. \A b \in Attempts : payment'[b] = payment[b] \/ order[b] = "none"
      BY <1>3
         DEF Checkout, ClaimInitiation, RecoverStaleClaim, Claim, ReuseCheckout, HandOut,
                  WaitForInitiator, PollFindsOrder, PollGivesUp, attemptVars, UnbornInv
    <2>3. chargeView' = chargeView
      BY <2>1, <2>2, ChargeKept DEF Charging
    <2> QED
      BY <2>1, <2>3, IntentKept, <1>0
  <1>4. ASSUME NEW a \in Attempts, Initiate(a) PROVE Goal
    <2>1. payment' = payment
      BY <1>4 DEF Initiate, ProviderCreatesOrder, ReleaseClaim, PersistOrder,
                  PersistOrderConflicts, CrashInitiator, LeaseElapses, attemptVars
    <2>2. \A b \in Attempts : order'[b] = order[b] \/ {order[b], order'[b]} \cap Charging = {}
      <3>1. ASSUME ProviderCreatesOrder(a)
            PROVE  \A b \in Attempts : order'[b] = order[b] \/ b = a
        BY <3>1 DEF ProviderCreatesOrder
      <3>2. ASSUME ProviderCreatesOrder(a)
            PROVE  order[a] \notin Charging /\ order'[a] \notin Charging
        BY <3>2 DEF ProviderCreatesOrder, ClaimInv, OrderInv, Charging
      <3>3. ASSUME ~ProviderCreatesOrder(a) PROVE order' = order
        BY <1>4, <3>3 DEF Initiate, ReleaseClaim, PersistOrder,
                          PersistOrderConflicts, CrashInitiator, LeaseElapses
      <3> QED
        BY <3>1, <3>2, <3>3
    <2>3. chargeView' = chargeView
      BY <2>1, <2>2, ChargeKept
    <2>4. CASE PersistOrder(a)
      <3>1. payment[a] \in Payments /\ status[payment[a]] \in {"CREATED", "CANCELLED"}
        BY <2>4 DEF PersistOrder, UnbornInv, ClaimInv, StatusInv
      <3>2. CASE status[payment[a]] = "CREATED"
        BY <2>3, <2>4, <3>1, <3>2, <1>0
           DEF PersistOrder, intentView, IntentOf, CheckoutEligible, PaymentStatus
      <3>3. CASE status[payment[a]] = "CANCELLED"
        <4>1. /\ intentView[payment[a]] = "withdrawn"
              /\ intentView' = [intentView EXCEPT ![payment[a]] = "open"]
          <5>0. PICK p \in Payments : p = payment[a]
            BY <3>1
          <5>1. status[p] = "CANCELLED" /\ status'[p] = "PENDING"
            BY <2>4, <3>3, <5>0 DEF PersistOrder
          <5>2. \A r \in Payments \ {p} : status'[r] = status[r]
            BY <2>4, <5>0 DEF PersistOrder
          <5>3. IntentOf(p) = "withdrawn" /\ IntentOf(p)' = "open"
            BY <5>1 DEF IntentOf, CheckoutEligible
          <5>4. \A r \in Payments \ {p} : IntentOf(r)' = IntentOf(r)
            BY <5>2 DEF IntentOf, CheckoutEligible
          <5>5. intentView[p] = "withdrawn" /\ intentView' = [intentView EXCEPT ![p] = "open"]
            BY <5>3, <5>4 DEF intentView
          <5> QED
            BY <5>0, <5>5
        <4> QED
          BY <2>3, <3>1, <4>1
             DEF Ledger!LedgerNext, Ledger!Reopen, Ledger!MoveIntent, intentView, chargeView
      <3> QED
        BY <3>1, <3>2, <3>3
    <2>5. CASE ~PersistOrder(a)
      <3>1. status' = status
        BY <1>4, <2>5 DEF Initiate, ProviderCreatesOrder, ReleaseClaim,
                          PersistOrderConflicts, CrashInitiator, LeaseElapses
      <3> QED
        BY <2>3, <3>1, IntentKept, <1>0
    <2> QED
      BY <2>4, <2>5
  <1>5. ASSUME NEW a \in Attempts, Bank(a) PROVE Goal
    <2>1. UNCHANGED <<status, payment, hasOrder, terminal, handedOut>>
      BY <1>5 DEF Bank, BuyerPays, OrderLapses, BankRefunds, MoveOrder, attemptVars
    <2>2. intentView' = intentView
      BY <2>1, IntentKept
    <2>3. CASE OrderLapses(a)
      <3>1. chargeView' = chargeView
        BY <2>1, <2>3, ChargeKept DEF OrderLapses, MoveOrder, Charging
      <3> QED
        BY <2>2, <3>1, <1>0
    <2>4. ASSUME hasOrder[a],
                 \A b \in Attempts : b # a => order'[b] = order[b]
          PROVE  /\ payment[a] \in Payments
                 /\ chargeView' = [chargeView EXCEPT ![payment[a]] = chargeView'[payment[a]]]
      <3>1. payment[a] \in Payments
        BY <2>4 DEF UnbornInv
      <3>2. ASSUME NEW q \in Payments, q # payment[a] PROVE ChargeOf(q)' = ChargeOf(q)
        BY <2>1, <2>4, <3>2 DEF ChargeOf, OrderOf
      <3> QED
        BY <3>1, <3>2 DEF chargeView
    <2>5. CASE BuyerPays(a)
      <3>1. hasOrder[a] /\ order[a] = "Preparing" /\ order'[a] \in {"FullyPaid", "PaidOther"}
        BY <2>5 DEF BuyerPays, MoveOrder, OrderInv
      <3>2. /\ payment[a] \in Payments
            /\ chargeView' = [chargeView EXCEPT ![payment[a]] = chargeView'[payment[a]]]
        BY <2>4, <2>5, <3>1 DEF BuyerPays, MoveOrder
      <3>3. intentView[payment[a]] = "open"
        BY <3>1, <3>2 DEF StatusInv, intentView, IntentOf, CheckoutEligible
      <3>4. chargeView[payment[a]] = "none"
        BY <3>1, <3>2, ChargeIsTheOrder DEF chargeView
      <3>5. chargeView'[payment[a]] \in {"exact", "other"}
        BY <2>1, <3>1, <3>2 DEF chargeView, ChargeOf, OrderOf
      <3> QED
        BY <2>2, <3>2, <3>3, <3>4, <3>5
           DEF Ledger!LedgerNext, Ledger!Charge, Ledger!MoveCharge, intentView, chargeView
    <2>6. CASE BankRefunds(a)
      <3>1. order[a] \in {"FullyPaid", "PaidOther"} /\ order'[a] = "Refunded" /\ hasOrder[a]
        BY <2>6 DEF BankRefunds, MoveOrder, OrderInv
      <3>2. /\ payment[a] \in Payments
            /\ chargeView' = [chargeView EXCEPT ![payment[a]] = chargeView'[payment[a]]]
        BY <2>4, <2>6, <3>1 DEF BankRefunds, MoveOrder
      <3>3. chargeView[payment[a]] \in {"exact", "other"}
        BY <3>1, <3>2, ChargeIsTheOrder DEF chargeView
      <3>4. \A b \in Attempts : payment'[b] = payment[a] /\ order'[b] \in Charging => b = a
        BY <2>1, <3>1 DEF OrderInv, OneOrderInv, Charging
      <3>5. chargeView'[payment[a]] = "returned"
        BY <2>1, <3>1, <3>2, <3>4 DEF chargeView, ChargeOf, OrderOf, Charging
      <3> QED
        BY <2>2, <3>2, <3>3, <3>5
           DEF Ledger!LedgerNext, Ledger!Return, Ledger!MoveCharge, intentView, chargeView
    <2> QED
      BY <1>5, <2>3, <2>5, <2>6 DEF Bank
  <1>6. ASSUME NEW v \in Verifiers, Verify(v) PROVE Goal
    <2>1. UNCHANGED <<order, payment>>
      BY <1>6 DEF Verify, StartVerification, ProviderAnswers, VerificationFails, Settle,
                  SettlePaid, SettleRefunded, SettleNothing, Terminalize, attemptVars
    <2>2. chargeView' = chargeView
      BY <2>1, ChargeKept
    <2>3. ASSUME NEW a \in Attempts, vAttempt[v] = a, StillCurrent(a)
          PROVE  /\ payment[a] \in Payments /\ hasOrder[a]
                 /\ intentView[payment[a]] = "open"
      <3>1. hasOrder[a] /\ payment[a] \in Payments
        BY <2>3, NoneAssumption DEF VerifierInv, UnbornInv
      <3> QED
        BY <2>3, <3>1 DEF StillCurrent, StatusInv, intentView, IntentOf, CheckoutEligible
    <2>4. ASSUME NEW a \in Attempts, SettlePaid(v, a) PROVE Goal
      <3>1. /\ payment[a] \in Payments /\ hasOrder[a]
            /\ intentView[payment[a]] = "open"
        BY <2>3, <2>4 DEF SettlePaid
      <3>2. order[a] \in {"FullyPaid", "Refunded"}
        BY <2>4 DEF SettlePaid, VerifierInv
      <3>3. chargeView[payment[a]] \in {"exact", "returned"}
        BY <3>1, <3>2, ChargeIsTheOrder DEF chargeView
      <3>4. intentView' = [intentView EXCEPT ![payment[a]] = "granted"]
        <4>1. PICK p \in Payments : p = payment[a]
          BY <3>1
        <4>2. IntentOf(p)' = "granted"
          BY <2>4, <4>1 DEF SettlePaid, IntentOf, CheckoutEligible
        <4>3. intentView' = [intentView EXCEPT ![p] = IntentOf(p)']
          BY <2>4, <4>1, IntentMoves DEF SettlePaid, PaymentStatus
        <4> QED
          BY <4>1, <4>2, <4>3
      <3> QED
        BY <2>2, <3>1, <3>3, <3>4
           DEF Ledger!LedgerNext, Ledger!Grant, Ledger!MoveIntent, intentView, chargeView
    <2>5. ASSUME NEW a \in Attempts, SettleRefunded(v, a) PROVE Goal
      <3>1. /\ payment[a] \in Payments /\ hasOrder[a]
            /\ intentView[payment[a]] = "open"
        BY <2>3, <2>5 DEF SettleRefunded
      <3>2. order[a] = "Refunded"
        BY <2>5 DEF SettleRefunded, VerifierInv
      <3>3. chargeView[payment[a]] = "returned"
        BY <3>1, <3>2, ChargeIsTheOrder DEF chargeView
      <3>4. intentView' = [intentView EXCEPT ![payment[a]] = "closed"]
        <4>1. PICK p \in Payments : p = payment[a]
          BY <3>1
        <4>2. IntentOf(p)' = "closed"
          BY <2>5, <4>1 DEF SettleRefunded, IntentOf, CheckoutEligible
        <4>3. intentView' = [intentView EXCEPT ![p] = IntentOf(p)']
          BY <2>5, <4>1, IntentMoves DEF SettleRefunded, PaymentStatus
        <4> QED
          BY <4>1, <4>2, <4>3
      <3> QED
        BY <2>2, <3>1, <3>3, <3>4
           DEF Ledger!LedgerNext, Ledger!Close, Ledger!MoveIntent, intentView, chargeView
    <2>6. ASSUME UNCHANGED status PROVE Goal
      BY <2>2, <2>6, IntentKept, <1>0
    <2> QED
      BY <1>6, <2>4, <2>5, <2>6 DEF Verify, StartVerification, ProviderAnswers,
                                    VerificationFails, Settle, SettleNothing
  <1>7. CASE UNCHANGED vars
    BY <1>7, <1>0, IntentKept, ChargeKept DEF vars
  <1> QED
    BY <1>1, <1>2, <1>3, <1>4, <1>5, <1>6, <1>7 DEF Next

\* The initial states of the checkout are initial states of the ledger.
LEMMA LedgerStart == Init => Ledger!LedgerInit
  BY DEF Init, Ledger!LedgerInit, IntentOf, ChargeOf, OrderOf, CheckoutEligible

\* Every purchase is charged at most once, granted at most once and only for a
\* charge, and withdrawn only while nothing was charged.
THEOREM CheckoutImplementsLedger == Timely => (Spec => ImplementsLedger)
  <1> SUFFICES ASSUME Timely PROVE Spec => ImplementsLedger
    OBVIOUS
  <1>1. IInv /\ IInv' /\ [Next]_vars => [Ledger!LedgerNext]_(Ledger!ledgerVars)
    BY LedgerStep
  <1> QED
    BY <1>1, LedgerStart, Inductive, PTL DEF Spec, ImplementsLedger, Ledger!LedgerSpec

----------------------------------------------------------------------------
(* Submission *)

USE DEF settingVars, dataVars, lockVars

\* What a listing in review, or once reviewed, must have.
Reviewed == {"PENDING_MODERATION", "CORRECTION_REQUIRED", "REJECTED", "ACTIVE"}

Paid(l) ==
    /\ l \in DOMAIN publication
    /\ publication[l].billing = "FREE" \/ publication[l].fee = "SUCCESS"

----------------------------------------------------------------------------
(* The inductive invariant *)

\* Who holds which row, at which step: a listing's row from the decision on, the
\* user's row through a submission.
LockOf(r) ==
    /\ request[r].at \in {"decide", "numbered", "inserting"} =>
          holder[request[r].listing] = r
    /\ Does(r, "submit") /\ request[r].at \in {"listing", "decide", "numbered"} =>
          userHolder = r
    /\ At(r, "numbered") => Does(r, "submit")
    /\ At(r, "inserting") => request[r].op \in {"resubmit", "authorize"}
    /\ At(r, "user") => Does(r, "submit")

LockInv == \A r \in Requests : LockOf(r)

\* What a request has found out stays true until it acts on it.
FoundOf(r) ==
    LET l == request[r].listing IN
    /\ At(r, "numbered") => l \notin DOMAIN publication /\ Named(r)
    /\ At(r, "inserting") /\ Does(r, "resubmit") =>
          /\ l \in DOMAIN publication
          /\ listing[l].status \in Resubmittable /\ Named(r)
    /\ At(r, "patching") =>
          /\ request[r].status \in SellerEditable
          /\ request[r].status # "DRAFT" => Paid(l)

FoundInv == \A r \in Requests : FoundOf(r)

\* A listing that is not published is a draft, one that was reviewed is paid
\* for, and one that waits is as it was submitted.
ListingOf(l) ==
    /\ l \notin DOMAIN publication => listing[l].status = "DRAFT"
    /\ listing[l].status \in Reviewed => Paid(l)
    /\ listing[l].status \in {"PAYMENT_REQUIRED", "PENDING_MODERATION"} =>
          listing[l].revision = publication[l].revision

ListingInv == \A l \in Listings : ListingOf(l)

\* No two rows share a number, and a free one is within the highest limit.
RowsInv ==
    /\ NumbersAreDense
    /\ \A k, l \in DOMAIN publication :
          publication[k].number = publication[l].number => k = l
    /\ \A l \in DOMAIN publication :
          publication[l].billing = "FREE" => publication[l].number <= top

\* A request that has its number has the next one, and the limit it read is at
\* most the highest.
NumberOf(r) ==
    /\ request[r].limit <= top
    /\ At(r, "numbered") => request[r].number = Cardinality(DOMAIN publication) + 1
    /\ ~At(r, "refused")

NumberInv == RowsInv /\ limit <= top /\ \A r \in Requests : NumberOf(r)

SubmissionInv == SubmissionTypeOK /\ LockInv /\ FoundInv /\ ListingInv /\ NumberInv

----------------------------------------------------------------------------
(* Helpers *)

LEMMA FreshIsRequest ==
    ASSUME NEW step \in {"idle", "done", "refused"}
    PROVE  /\ [Fresh EXCEPT !.at = step] \in Request
           /\ [Fresh EXCEPT !.at = step].at = step
           /\ [Fresh EXCEPT !.at = step].limit = 0
           /\ Fresh \in Request /\ Fresh.at = "idle" /\ Fresh.limit = 0
BY SubmissionAssumption DEF Fresh, Request, Statuses

\* The end of a transaction.
LEMMA EndsOf ==
    ASSUME SubmissionTypeOK, NEW r \in Requests, NEW step \in {"done", "refused"}, Ends(r, step)
    PROVE  /\ request' \in [Requests -> Request]
           /\ request'[r].at = step /\ request'[r].limit = 0
           /\ \A q \in Requests \ {r} : request'[q] = request[q]
           /\ userHolder' \in Requests \cup {Nobody}
           /\ \A q \in Requests \ {r} : userHolder = q => userHolder' = q
           /\ holder' \in [Listings -> Requests \cup {Nobody}]
           /\ \A q \in Requests \ {r}, l \in Listings : holder[l] = q => holder'[l] = q
BY FreshIsRequest DEF Ends, SubmissionTypeOK

\* A step inside a transaction.
LEMMA MovesOf ==
    ASSUME SubmissionTypeOK, NEW r \in Requests, NEW step \in {"listing", "decide", "inserting"},
           Moves(r, step)
    PROVE  request' \in [Requests -> Request]
  <1> DEFINE entry == [request[r] EXCEPT !.at = step]
  <1>1. entry \in Request
    BY DEF SubmissionTypeOK, Request
  <1>2. request' = [request EXCEPT ![r] = entry]
    BY DEF Moves, SubmissionTypeOK
  <1> HIDE DEF entry
  <1> QED BY <1>1, <1>2 DEF SubmissionTypeOK

LEMMA PublicationGrows ==
    ASSUME SubmissionTypeOK, NEW l \in Listings, NEW row \in Publication,
           publication' = [k \in DOMAIN publication \cup {l} |->
                              IF k = l THEN row ELSE publication[k]]
    PROVE  /\ DOMAIN publication' = DOMAIN publication \cup {l}
           /\ DOMAIN publication' \subseteq Listings
           /\ \A k \in DOMAIN publication' : publication'[k] \in Publication
           /\ publication'[l] = row
           /\ \A k \in DOMAIN publication \ {l} : publication'[k] = publication[k]
BY DEF SubmissionTypeOK

\* How many publications there are.
LEMMA Counted ==
    ASSUME SubmissionTypeOK
    PROVE  /\ IsFiniteSet(DOMAIN publication)
           /\ Cardinality(DOMAIN publication) \in Nat
           /\ Cardinality(Listings) \in Nat
           /\ Cardinality(DOMAIN publication) <= Cardinality(Listings)
BY SubmissionAssumption, FS_Subset, FS_CardinalityType DEF SubmissionTypeOK

\* Without gaps the next number is one more than the count.
LEMMA NextOf ==
    ASSUME SubmissionTypeOK, NumbersAreDense
    PROVE  NextNumber = Cardinality(DOMAIN publication) + 1
  <1> DEFINE n == Cardinality(DOMAIN publication)
             Next1(k) == \/ k = 1 /\ Numbers = {}
                         \/ k - 1 \in Numbers /\ \A m \in Numbers : m < k
  <1>1. n \in Nat /\ Cardinality(Listings) \in Nat /\ n <= Cardinality(Listings)
    BY Counted
  <1>2. Numbers = 1..n
    BY DEF NumbersAreDense
  <1> HIDE DEF n
  <1>3. n + 1 \in 1..Cardinality(Listings) + 1
    BY <1>1
  <1>4. Next1(n + 1)
    BY <1>1, <1>2
  <1>5. ASSUME NEW k \in 1..Cardinality(Listings) + 1, Next1(k) PROVE k = n + 1
    BY <1>1, <1>2, <1>5
  <1>6. NextNumber = CHOOSE k \in 1..Cardinality(Listings) + 1 : Next1(k)
    BY DEF NextNumber
  <1> HIDE DEF Next1
  <1> QED BY <1>3, <1>4, <1>5, <1>6 DEF n
----------------------------------------------------------------------------
(* Types *)

\* A row of the table of publications for a submission that has its number.
LEMMA RowOf ==
    ASSUME SubmissionTypeOK, NEW r \in Requests, request[r].number \in Nat \ {0}
    PROVE  [number |-> request[r].number,
            billing |-> IF IsFree(r) THEN "FREE" ELSE "PAID",
            fee |-> IF IsFree(r) THEN "none" ELSE "CREATED",
            revision |-> request[r].revision] \in Publication
  <1>1. request[r].revision \in Nat
    BY DEF SubmissionTypeOK, Request
  <1>2. (IF IsFree(r) THEN "FREE" ELSE "PAID") \in {"FREE", "PAID"}
    OBVIOUS
  <1>3. (IF IsFree(r) THEN "none" ELSE "CREATED") \in {"none", "CREATED", "SUCCESS"}
    OBVIOUS
  <1> QED BY <1>1, <1>2, <1>3 DEF Publication

LEMMA SubmissionTypeStep ==
    SubmissionInv /\ [SubmissionNext]_submissionVars => SubmissionTypeOK'
  <1> SUFFICES ASSUME SubmissionInv, [SubmissionNext]_submissionVars PROVE SubmissionTypeOK'
    OBVIOUS
  <1>t. SubmissionTypeOK
    BY DEF SubmissionInv
  <1> USE SubmissionAssumption
  <1>1. ASSUME NEW r \in Requests, NEW l \in Listings,
               \/ BeginSubmit(r, l) \/ BeginResubmit(r, l)
               \/ BeginAuthorize(r, l) \/ BeginPatch(r, l)
        PROVE  SubmissionTypeOK'
    <2>1. PICK op \in {"submit", "resubmit", "authorize", "patch"},
               step \in {"user", "listing", "patching"} : Asks(r, l, op, step)
      BY <1>1 DEF BeginSubmit, BeginResubmit, BeginAuthorize, BeginPatch
    <2>2. [op |-> op, at |-> step, listing |-> l, revision |-> listing[l].revision,
           status |-> listing[l].status, limit |-> limit, number |-> 0] \in Request
      BY <1>t DEF Request, SubmissionTypeOK
    <2> QED BY <1>t, <2>1, <2>2 DEF Asks, SubmissionTypeOK
  <1>2. ASSUME NEW r \in Requests, LockUserRow(r) \/ LockListingRow(r) \/ CheckRequest(r)
        PROVE  SubmissionTypeOK'
    <2>1. request' \in [Requests -> Request]
      BY <1>t, <1>2, MovesOf DEF LockUserRow, LockListingRow, CheckRequest
    <2>2. request[r].listing \in Listings
      BY <1>t DEF Request, SubmissionTypeOK
    <2> QED BY <1>t, <1>2, <2>1, <2>2
               DEF LockUserRow, LockListingRow, CheckRequest, SubmissionTypeOK
  <1>3. ASSUME NEW r \in Requests, Answer(r) PROVE SubmissionTypeOK'
    BY <1>t, <1>3, EndsOf DEF Answer, SubmissionTypeOK
  <1>4. ASSUME NEW r \in Requests, Allocate(r) PROVE SubmissionTypeOK'
    <2>1. NextNumber \in Nat
      BY <1>t, NextOf, Counted DEF SubmissionInv, NumberInv, RowsInv
    <2>2. request' \in [Requests -> Request]
      <3> DEFINE entry == [request[r] EXCEPT !.at = "numbered", !.number = NextNumber]
      <3>0. request[r] \in Request
        BY <1>t DEF SubmissionTypeOK
      <3>1. entry \in Request
        BY <2>1, <3>0 DEF Request
      <3>2. request' = [request EXCEPT ![r] = entry]
        BY <1>t, <1>4 DEF Allocate, SubmissionTypeOK
      <3> HIDE DEF entry
      <3> QED BY <1>t, <3>1, <3>2 DEF SubmissionTypeOK
    <2> QED BY <1>t, <1>4, <2>2 DEF Allocate, SubmissionTypeOK
  <1>5. ASSUME NEW r \in Requests, InsertPublication(r) PROVE SubmissionTypeOK'
    <2> DEFINE l == request[r].listing
    <2>1. l \in Listings
      BY <1>t DEF SubmissionTypeOK, Request
    <2>2. PICK step \in {"done", "refused"} : Ends(r, step)
      BY <1>5 DEF InsertPublication
    <2>3. request[r].number \in Nat \ {0}
      BY <1>t, <1>5, Counted DEF SubmissionInv, NumberInv, NumberOf, InsertPublication
    <2>4. CASE request[r].number \in Numbers
      BY <1>t, <1>5, <2>2, <2>4, EndsOf DEF InsertPublication, SubmissionTypeOK
    <2>5. CASE request[r].number \notin Numbers
      <3> DEFINE row == [number |-> request[r].number,
                         billing |-> IF IsFree(r) THEN "FREE" ELSE "PAID",
                         fee |-> IF IsFree(r) THEN "none" ELSE "CREATED",
                         revision |-> request[r].revision]
      <3>1. publication' = [k \in DOMAIN publication \cup {l} |->
                               IF k = l THEN row ELSE publication[k]]
        BY <1>5, <2>5 DEF InsertPublication
      <3>2. row \in Publication
        BY <1>t, <2>3, RowOf
      <3>3. listing' \in [Listings -> [status : Statuses, revision : 0..MaxRevision]]
        BY <1>t, <1>5, <2>1, <2>5 DEF InsertPublication, SubmissionTypeOK, Statuses
      <3> HIDE DEF row, l
      <3>4. /\ DOMAIN publication' \subseteq Listings
            /\ \A k \in DOMAIN publication' : publication'[k] \in Publication
        BY <1>t, <2>1, <3>1, <3>2, PublicationGrows
      <3> QED BY <1>t, <1>5, <2>2, <3>3, <3>4, EndsOf
                 DEF InsertPublication, SubmissionTypeOK
    <2> QED BY <2>4, <2>5
  <1>6. ASSUME NEW r \in Requests, InsertReference(r) PROVE SubmissionTypeOK'
    <2>1. request[r].listing \in Listings /\ request[r].revision \in Nat
      BY <1>t DEF SubmissionTypeOK, Request
    <2>2. listing' \in [Listings -> [status : Statuses, revision : 0..MaxRevision]]
      BY <1>t, <1>6, <2>1 DEF InsertReference, SubmissionTypeOK, Statuses
    <2>3. /\ DOMAIN publication' \subseteq Listings
          /\ \A k \in DOMAIN publication' : publication'[k] \in Publication
      <3>1. CASE Does(r, "resubmit")
        <4>1. publication' = [publication EXCEPT ![request[r].listing].revision = request[r].revision]
          BY <1>6, <3>1 DEF InsertReference
        <4> QED BY <1>t, <2>1, <4>1 DEF SubmissionTypeOK, Publication
      <3> QED BY <1>t, <1>6, <3>1 DEF InsertReference, SubmissionTypeOK
    <2> QED BY <1>t, <1>6, <2>2, <2>3, EndsOf DEF InsertReference, SubmissionTypeOK
  <1>7. ASSUME NEW r \in Requests, PatchDraft(r) PROVE SubmissionTypeOK'
    <2>1. request[r].listing \in Listings /\ request[r].status \in Statuses
      BY <1>t DEF SubmissionTypeOK, Request
    <2>2. listing' \in [Listings -> [status : Statuses, revision : 0..MaxRevision]]
      BY <1>t, <1>7, <2>1 DEF PatchDraft, SubmissionTypeOK
    <2> QED BY <1>t, <1>7, <2>2, EndsOf DEF PatchDraft, SubmissionTypeOK
  <1>8. ASSUME NEW l \in Listings, Others(l) PROVE SubmissionTypeOK'
    <2>1. CASE ChangeImages(l)
      BY <1>t, <2>1 DEF ChangeImages, SubmissionTypeOK
    <2>2. CASE FulfillListingFee(l)
      <3>1. listing' \in [Listings -> [status : Statuses, revision : 0..MaxRevision]]
        BY <1>t, <2>2 DEF FulfillListingFee, SubmissionTypeOK, Statuses
      <3>2. publication' = [publication EXCEPT ![l].fee = "SUCCESS"] /\ l \in DOMAIN publication
        BY <2>2 DEF FulfillListingFee
      <3>3. /\ DOMAIN publication' \subseteq Listings
            /\ \A k \in DOMAIN publication' : publication'[k] \in Publication
        BY <1>t, <3>2 DEF SubmissionTypeOK, Publication
      <3> QED BY <1>t, <2>2, <3>1, <3>3 DEF FulfillListingFee, SubmissionTypeOK
    <2>3. CASE \E verdict \in {"ACTIVE", "CORRECTION_REQUIRED", "REJECTED"} : Decide(l, verdict)
      BY <1>t, <2>3 DEF Decide, SubmissionTypeOK, Statuses
    <2> QED BY <1>8, <2>1, <2>2, <2>3 DEF Others
  <1>9. ASSUME NEW n \in Limits, UpdateLimit(n) PROVE SubmissionTypeOK'
    BY <1>t, <1>9 DEF UpdateLimit, SubmissionTypeOK
  <1>10. CASE UNCHANGED submissionVars
    BY <1>t, <1>10 DEF submissionVars, SubmissionTypeOK
  <1> QED BY <1>1, <1>2, <1>3, <1>4, <1>5, <1>6, <1>7, <1>8, <1>9, <1>10
             DEF SubmissionNext, Seller
----------------------------------------------------------------------------
(* Locks *)

\* A request that ended holds nothing and claims nothing, and the others keep
\* what they hold.
LEMMA EndsKeepsLocks ==
    ASSUME SubmissionTypeOK, LockInv, NEW r \in Requests, NEW step \in {"done", "refused"},
           Ends(r, step)
    PROVE  LockInv'
  <1> SUFFICES ASSUME NEW q \in Requests PROVE LockOf(q)'
    BY DEF LockInv
  <1>1. CASE q = r
    BY <1>1, EndsOf DEF LockOf, At, Does
  <1>2. CASE q # r
    <2>1. request'[q] = request[q] /\ request[q].listing \in Listings
      BY <1>2, EndsOf DEF SubmissionTypeOK, Request
    <2>2. LockOf(q)
      BY DEF LockInv
    <2> QED BY <1>2, <2>1, <2>2, EndsOf DEF LockOf, At, Does
  <1> QED BY <1>1, <1>2

LEMMA LockStep == SubmissionInv /\ [SubmissionNext]_submissionVars => LockInv'
  <1> SUFFICES ASSUME SubmissionInv, [SubmissionNext]_submissionVars PROVE LockInv'
    OBVIOUS
  <1>t. SubmissionTypeOK /\ LockInv
    BY DEF SubmissionInv
  <1> USE SubmissionAssumption
  <1>1. ASSUME NEW r \in Requests,
               NEW l \in Listings,
               \/ BeginSubmit(r, l) \/ BeginResubmit(r, l)
               \/ BeginAuthorize(r, l) \/ BeginPatch(r, l)
        PROVE  LockInv'
    <2>1. PICK op \in {"submit", "resubmit", "authorize", "patch"},
               step \in {"user", "listing", "patching"} :
             /\ Asks(r, l, op, step)
             /\ op = "submit" <=> step = "user"
      BY <1>1 DEF BeginSubmit, BeginResubmit, BeginAuthorize, BeginPatch
    <2> SUFFICES ASSUME NEW q \in Requests PROVE LockOf(q)'
      BY DEF LockInv
    <2>2. LockOf(q)
      BY <1>t DEF LockInv
    <2> QED BY <1>t, <2>1, <2>2 DEF Asks, LockOf, At, Does, SubmissionTypeOK
  <1>2. ASSUME NEW r \in Requests, LockUserRow(r) PROVE LockInv'
    <2> SUFFICES ASSUME NEW q \in Requests PROVE LockOf(q)'
      BY DEF LockInv
    <2>1. LockOf(q) /\ LockOf(r)
      BY <1>t DEF LockInv
    <2>2. /\ request'[r].at = "listing" /\ request'[r].op = request[r].op
          /\ request'[r].listing = request[r].listing
          /\ \A p \in Requests \ {r} : request'[p] = request[p]
          /\ userHolder' = r /\ holder' = holder
          /\ userHolder = Nobody \/ userHolder = r
      BY <1>t, <1>2 DEF LockUserRow, UserFree, Moves, SubmissionTypeOK, Request
    <2>3. CASE q = r
      BY <2>1, <2>2, <2>3 DEF LockOf, At, Does
    <2>4. CASE q # r
      BY <2>1, <2>2, <2>4 DEF LockOf, At, Does
    <2> QED BY <2>3, <2>4
  <1>3. ASSUME NEW r \in Requests, LockListingRow(r) PROVE LockInv'
    <2> SUFFICES ASSUME NEW q \in Requests PROVE LockOf(q)'
      BY DEF LockInv
    <2>1. LockOf(q) /\ LockOf(r)
      BY <1>t DEF LockInv
    <2>2. request[q].listing \in Listings /\ request[r].listing \in Listings
      BY <1>t DEF SubmissionTypeOK, Request
    <2> QED BY <1>t, <1>3, <2>1, <2>2
               DEF LockListingRow, Moves, LockOf, At, Does, SubmissionTypeOK, Request
  <1>4. ASSUME NEW r \in Requests, CheckRequest(r) \/ Allocate(r) PROVE LockInv'
    <2> SUFFICES ASSUME NEW q \in Requests PROVE LockOf(q)'
      BY DEF LockInv
    <2>1. LockOf(q) /\ LockOf(r)
      BY <1>t DEF LockInv
    <2>2. CASE CheckRequest(r)
      <3>1. /\ request'[r].at = "inserting" /\ request'[r].op = request[r].op
            /\ request[r].op \in {"resubmit", "authorize"} /\ request[r].at = "decide"
            /\ request'[r].listing = request[r].listing
            /\ \A p \in Requests \ {r} : request'[p] = request[p]
            /\ userHolder' = userHolder /\ holder' = holder
        BY <1>t, <2>2 DEF CheckRequest, Moves, SubmissionTypeOK, Request, At, Does
      <3>2. CASE q = r
        BY <2>1, <3>1, <3>2 DEF LockOf, At, Does
      <3>3. CASE q # r
        BY <2>1, <3>1, <3>3 DEF LockOf, At, Does
      <3> QED BY <3>2, <3>3
    <2>3. CASE Allocate(r)
      <3>1. /\ request'[r].at = "numbered" /\ request'[r].op = "submit"
            /\ request'[r].listing = request[r].listing
            /\ \A p \in Requests \ {r} : request'[p] = request[p]
            /\ At(r, "decide") /\ Does(r, "submit")
            /\ userHolder' = userHolder /\ holder' = holder
        BY <1>t, <2>3 DEF Allocate, SubmissionTypeOK, Request, Does
      <3>2. CASE q = r
        BY <2>1, <3>1, <3>2 DEF LockOf, At, Does
      <3>3. CASE q # r
        BY <2>1, <3>1, <3>3 DEF LockOf, At, Does
      <3> QED BY <3>2, <3>3
    <2> QED BY <1>4, <2>2, <2>3
  <1>5. ASSUME NEW r \in Requests,
               \/ Answer(r) \/ InsertPublication(r) \/ InsertReference(r) \/ PatchDraft(r)
        PROVE  LockInv'
    <2>1. PICK step \in {"done", "refused"} : Ends(r, step)
      BY <1>5 DEF Answer, InsertPublication, InsertReference, PatchDraft
    <2> QED BY <1>t, <2>1, EndsKeepsLocks
  <1>6. CASE UNCHANGED <<request, lockVars>>
    BY <1>t, <1>6 DEF LockInv, LockOf, At, Does
  <1>7. ASSUME NEW l \in Listings, Others(l) PROVE UNCHANGED <<request, lockVars>>
    BY <1>7 DEF Others, ChangeImages, FulfillListingFee, Decide
  <1>8. ASSUME NEW n \in Limits, UpdateLimit(n) PROVE UNCHANGED <<request, lockVars>>
    BY <1>8 DEF UpdateLimit
  <1> QED BY <1>1, <1>2, <1>3, <1>4, <1>5, <1>6, <1>7, <1>8
             DEF SubmissionNext, Seller, submissionVars
----------------------------------------------------------------------------
(* Listings and publications *)

\* What is paid for stays paid for: a row is inserted once and its fee only
\* advances.
LEMMA PaidStays ==
    ASSUME SubmissionInv, [SubmissionNext]_submissionVars,
           NEW l \in Listings, l \in DOMAIN publication
    PROVE  l \in DOMAIN publication' /\ (Paid(l) => Paid(l)')
  <1>t. SubmissionTypeOK
    BY DEF SubmissionInv
  <1>1. ASSUME NEW r \in Requests, InsertPublication(r) PROVE UNCHANGED publication \/
               /\ DOMAIN publication \subseteq DOMAIN publication'
               /\ \A k \in DOMAIN publication : publication'[k] = publication[k]
    <2>1. request[r].listing \notin DOMAIN publication
      BY <1>1 DEF SubmissionInv, FoundInv, FoundOf, InsertPublication
    <2> QED BY <1>1, <2>1 DEF InsertPublication
  <1>2. ASSUME NEW r \in Requests, InsertReference(r)
        PROVE  l \in DOMAIN publication' /\ (Paid(l) => Paid(l)')
    <2>1. CASE Does(r, "resubmit")
      <3>1. publication' = [publication EXCEPT ![request[r].listing].revision = request[r].revision]
        BY <1>2, <2>1 DEF InsertReference
      <3> QED BY <1>t, <3>1 DEF SubmissionTypeOK, Publication, Paid
    <2> QED BY <1>2, <2>1 DEF InsertReference, Paid
  <1>3. ASSUME NEW k \in Listings, FulfillListingFee(k)
        PROVE  l \in DOMAIN publication' /\ (Paid(l) => Paid(l)')
    <2>1. publication' = [publication EXCEPT ![k].fee = "SUCCESS"]
      BY <1>3 DEF FulfillListingFee
    <2> QED BY <1>t, <2>1 DEF SubmissionTypeOK, Publication, Paid
  <1>4. CASE UNCHANGED publication
    BY <1>4 DEF Paid
  <1>5. ASSUME NEW r \in Requests, Seller(r), ~InsertPublication(r), ~InsertReference(r)
        PROVE  UNCHANGED publication
    BY <1>5 DEF Seller, BeginSubmit, BeginResubmit, BeginAuthorize, BeginPatch, Asks,
                LockUserRow, LockListingRow, Allocate, CheckRequest, PatchDraft, Answer
  <1>6. ASSUME NEW k \in Listings, Others(k), ~FulfillListingFee(k)
        PROVE  UNCHANGED publication
    BY <1>6 DEF Others, ChangeImages, Decide
  <1>7. ASSUME NEW n \in Limits, UpdateLimit(n) PROVE UNCHANGED publication
    BY <1>7 DEF UpdateLimit
  <1> QED BY <1>1, <1>2, <1>3, <1>4, <1>5, <1>6, <1>7
             DEF SubmissionNext, submissionVars, Paid

LEMMA ListingStep == SubmissionInv /\ [SubmissionNext]_submissionVars => ListingInv'
  <1> SUFFICES ASSUME SubmissionInv, [SubmissionNext]_submissionVars, NEW l \in Listings
               PROVE  ListingOf(l)'
    BY DEF ListingInv
  <1>t. SubmissionTypeOK /\ ListingOf(l) /\ \A r \in Requests : FoundOf(r)
    BY DEF SubmissionInv, ListingInv, FoundInv
  <1>p. l \in DOMAIN publication => l \in DOMAIN publication' /\ (Paid(l) => Paid(l)')
    BY PaidStays
  <1>1. ASSUME NEW r \in Requests, InsertPublication(r), request[r].number \notin Numbers,
               request[r].listing = l
        PROVE  ListingOf(l)'
    <2>1. /\ listing'[l].revision = listing[l].revision
          /\ listing'[l].status = IF IsFree(r) THEN "PENDING_MODERATION" ELSE "PAYMENT_REQUIRED"
      BY <1>t, <1>1 DEF InsertPublication, SubmissionTypeOK
    <2>2. /\ l \in DOMAIN publication'
          /\ publication'[l].revision = request[r].revision
          /\ publication'[l].billing = IF IsFree(r) THEN "FREE" ELSE "PAID"
      BY <1>1 DEF InsertPublication
    <2>3. listing[l].revision = request[r].revision
      BY <1>t, <1>1 DEF FoundOf, InsertPublication, Named
    <2> QED BY <2>1, <2>2, <2>3 DEF ListingOf, Paid, Reviewed
  <1>2. ASSUME NEW r \in Requests, InsertReference(r), Does(r, "resubmit"), request[r].listing = l
        PROVE  ListingOf(l)'
    <2>1. /\ listing[l].status \in Resubmittable /\ listing[l].revision = request[r].revision
          /\ l \in DOMAIN publication
      BY <1>t, <1>2 DEF FoundOf, InsertReference, Named
    <2>2. /\ listing'[l].revision = listing[l].revision
          /\ listing'[l].status = "PENDING_MODERATION"
          /\ publication'[l].revision = request[r].revision
      BY <1>t, <1>2, <2>1 DEF InsertReference, SubmissionTypeOK, Publication
    <2> QED BY <1>t, <1>p, <2>1, <2>2 DEF ListingOf, Reviewed, Resubmittable
  <1>3. ASSUME NEW r \in Requests, PatchDraft(r), request[r].listing = l PROVE ListingOf(l)'
    <2>1. /\ listing'[l].status = listing[l].status \/ listing'[l].status = request[r].status
          /\ listing[l].status \in SellerEditable
          /\ UNCHANGED publication
      BY <1>t, <1>3 DEF PatchDraft, SubmissionTypeOK
    <2>2. /\ request[r].status \in SellerEditable
          /\ request[r].status # "DRAFT" => Paid(l)
      BY <1>t, <1>3 DEF FoundOf, PatchDraft
    <2> QED BY <1>t, <2>1, <2>2 DEF ListingOf, Paid, Reviewed, SellerEditable
  <1>4. ASSUME ChangeImages(l) PROVE ListingOf(l)'
    BY <1>t, <1>4
       DEF ChangeImages, SubmissionTypeOK, ListingOf, Paid, Reviewed, SellerEditable
  <1>5. ASSUME FulfillListingFee(l) PROVE ListingOf(l)'
    <2>1. /\ l \in DOMAIN publication /\ l \in DOMAIN publication'
          /\ publication'[l].revision = publication[l].revision
          /\ publication'[l].fee = "SUCCESS"
      BY <1>t, <1>5 DEF FulfillListingFee, SubmissionTypeOK, Publication
    <2>2. /\ listing'[l].revision = listing[l].revision
          /\ \/ listing'[l].status = listing[l].status
             \/ listing[l].status = "PAYMENT_REQUIRED" /\ listing'[l].status = "PENDING_MODERATION"
      BY <1>t, <1>5 DEF FulfillListingFee, SubmissionTypeOK
    <2> QED BY <1>t, <2>1, <2>2 DEF ListingOf, Paid, Reviewed
  <1>6. ASSUME NEW verdict \in {"ACTIVE", "CORRECTION_REQUIRED", "REJECTED"}, Decide(l, verdict)
        PROVE  ListingOf(l)'
    BY <1>t, <1>6 DEF Decide, SubmissionTypeOK, ListingOf, Paid, Reviewed
  \* The listing and its row are left alone.
  <1>7. CASE /\ listing'[l] = listing[l]
             /\ l \in DOMAIN publication' <=> l \in DOMAIN publication
             /\ l \in DOMAIN publication => publication'[l] = publication[l]
    BY <1>t, <1>7 DEF ListingOf, Paid, Reviewed
  <1>8. ASSUME NEW r \in Requests, Seller(r) PROVE ListingOf(l)'
    <2>1. CASE InsertPublication(r)
      <3>1. CASE request[r].number \in Numbers
        BY <1>7, <2>1, <3>1 DEF InsertPublication
      <3>2. CASE request[r].number \notin Numbers /\ request[r].listing # l
        BY <1>t, <1>7, <2>1, <3>2 DEF InsertPublication, SubmissionTypeOK
      <3> QED BY <1>1, <2>1, <3>1, <3>2
    <2>2. CASE InsertReference(r)
      <3>1. CASE ~Does(r, "resubmit")
        BY <1>7, <2>2, <3>1 DEF InsertReference
      <3>2. CASE Does(r, "resubmit") /\ request[r].listing # l
        BY <1>t, <1>7, <2>2, <3>2 DEF InsertReference, SubmissionTypeOK
      <3> QED BY <1>2, <2>2, <3>1, <3>2
    <2>3. CASE PatchDraft(r)
      <3>1. CASE request[r].listing # l
        BY <1>t, <1>7, <2>3, <3>1 DEF PatchDraft, SubmissionTypeOK
      <3> QED BY <1>3, <2>3, <3>1
    <2>4. CASE UNCHANGED dataVars
      BY <1>7, <2>4
    <2> QED BY <1>8, <2>1, <2>2, <2>3, <2>4
          DEF Seller, BeginSubmit, BeginResubmit, BeginAuthorize, BeginPatch, Asks,
              LockUserRow, LockListingRow, Allocate, CheckRequest, Answer
  <1>9. ASSUME NEW k \in Listings, Others(k) PROVE ListingOf(l)'
    <2>1. CASE k = l
      BY <1>4, <1>5, <1>6, <1>9, <2>1 DEF Others
    <2>2. CASE k # l
      <3>1. listing'[l] = listing[l]
        BY <1>t, <1>9, <2>2
           DEF Others, ChangeImages, FulfillListingFee, Decide, SubmissionTypeOK
      <3>2. /\ l \in DOMAIN publication' <=> l \in DOMAIN publication
            /\ l \in DOMAIN publication => publication'[l] = publication[l]
        BY <1>t, <1>9, <2>2 DEF Others, ChangeImages, FulfillListingFee, Decide
      <3> QED BY <1>7, <3>1, <3>2
    <2> QED BY <2>1, <2>2
  <1>10. ASSUME NEW n \in Limits, UpdateLimit(n) PROVE ListingOf(l)'
    BY <1>7, <1>10 DEF UpdateLimit
  <1>11. CASE UNCHANGED submissionVars
    BY <1>7, <1>11 DEF submissionVars
  <1> QED BY <1>8, <1>9, <1>10, <1>11 DEF SubmissionNext
----------------------------------------------------------------------------
(* What a request has found out *)

\* The row lock keeps a listing as its holder found it.
HeldFor(q) ==
    LET l == request[q].listing IN
    holder[l] = q =>
        /\ listing'[l] = listing[l]
        /\ l \in DOMAIN publication' <=> l \in DOMAIN publication

LEMMA FoundKept ==
    ASSUME SubmissionInv, [SubmissionNext]_submissionVars,
           NEW q \in Requests, request'[q] = request[q], HeldFor(q)
    PROVE  FoundOf(q)'
  <1>1. request[q].listing \in Listings
    BY DEF SubmissionInv, SubmissionTypeOK, Request
  <1>2. LockOf(q) /\ FoundOf(q)
    BY DEF SubmissionInv, LockInv, FoundInv
  <1>3. CASE At(q, "numbered") \/ At(q, "inserting")
    BY <1>2, <1>3 DEF LockOf, HeldFor, FoundOf, At, Does, Named
  <1>4. CASE At(q, "patching")
    <2>1. Paid(request[q].listing) => Paid(request[q].listing)'
      BY <1>1, PaidStays DEF Paid
    <2> QED BY <1>2, <1>4, <2>1 DEF FoundOf, At, Does, Named, Paid
  <1>5. CASE request[q].at \notin {"numbered", "inserting", "patching"}
    BY <1>5 DEF FoundOf, At
  <1> QED BY <1>3, <1>4, <1>5 DEF At

LEMMA FoundStep == SubmissionInv /\ [SubmissionNext]_submissionVars => FoundInv'
  <1> SUFFICES ASSUME SubmissionInv, [SubmissionNext]_submissionVars, NEW q \in Requests
               PROVE  FoundOf(q)'
    BY DEF FoundInv
  <1> USE SubmissionAssumption
  <1>t. SubmissionTypeOK /\ LockOf(q) /\ FoundOf(q) /\ request[q].listing \in Listings
    BY DEF SubmissionInv, LockInv, FoundInv, SubmissionTypeOK, Request
  <1>1. ASSUME NEW r \in Requests, NEW l \in Listings,
               \/ BeginSubmit(r, l) \/ BeginResubmit(r, l)
               \/ BeginAuthorize(r, l) \/ BeginPatch(r, l)
        PROVE  FoundOf(q)'
    <2>1. PICK op \in {"submit", "resubmit", "authorize", "patch"},
               step \in {"user", "listing", "patching"} :
             /\ Asks(r, l, op, step)
             /\ step = "patching" => listing[l].status \in SellerEditable
      BY <1>1 DEF BeginSubmit, BeginResubmit, BeginAuthorize, BeginPatch
    <2>2. CASE q = r
      <3>1. /\ request'[q].at = step /\ request'[q].listing = l
            /\ request'[q].status = listing[l].status
            /\ UNCHANGED publication
        BY <1>t, <2>1, <2>2 DEF Asks, SubmissionTypeOK
      <3>2. listing[l].status \in Reviewed => Paid(l)
        BY DEF SubmissionInv, ListingInv, ListingOf
      <3> QED BY <2>1, <3>1, <3>2 DEF FoundOf, At, Paid, SellerEditable, Reviewed
    <2>3. CASE q # r
      BY <1>t, <2>1, <2>3, FoundKept DEF Asks, SubmissionTypeOK, HeldFor
    <2> QED BY <2>2, <2>3
  <1>2. ASSUME NEW r \in Requests, LockUserRow(r) \/ LockListingRow(r) PROVE FoundOf(q)'
    <2>1. CASE q = r
      <3>1. request'[q].at \in {"listing", "decide"}
        BY <1>t, <1>2, <2>1
           DEF LockUserRow, LockListingRow, Moves, SubmissionTypeOK, Request
      <3> QED BY <3>1 DEF FoundOf, At
    <2>2. CASE q # r
      BY <1>t, <1>2, <2>2, FoundKept
         DEF LockUserRow, LockListingRow, Moves, SubmissionTypeOK, HeldFor
    <2> QED BY <2>1, <2>2
  <1>3. ASSUME NEW r \in Requests, Allocate(r) PROVE FoundOf(q)'
    <2>1. CASE q = r
      <3>1. /\ request'[q].at = "numbered"
            /\ request'[q].listing = request[q].listing
            /\ request'[q].revision = request[q].revision
            /\ UNCHANGED dataVars
            /\ Submittable(q)
        BY <1>t, <1>3, <2>1 DEF Allocate, SubmissionTypeOK, Request
      <3> QED BY <3>1 DEF FoundOf, At, Submittable, Named
    <2>2. CASE q # r
      BY <1>t, <1>3, <2>2, FoundKept DEF Allocate, SubmissionTypeOK, HeldFor
    <2> QED BY <2>1, <2>2
  <1>4. ASSUME NEW r \in Requests, CheckRequest(r) PROVE FoundOf(q)'
    <2>1. CASE q = r
      <3>1. /\ request'[q].at = "inserting"
            /\ request'[q].op = request[q].op
            /\ request'[q].listing = request[q].listing
            /\ request'[q].revision = request[q].revision
            /\ UNCHANGED dataVars
        BY <1>t, <1>4, <2>1 DEF CheckRequest, Moves, SubmissionTypeOK, Request
      <3>2. Does(q, "resubmit") => /\ request[q].listing \in DOMAIN publication
                                   /\ listing[request[q].listing].status \in Resubmittable
                                   /\ Named(q)
        BY <1>4, <2>1 DEF CheckRequest, Does
      <3> QED BY <3>1, <3>2 DEF FoundOf, At, Does, Named
    <2>2. CASE q # r
      BY <1>t, <1>4, <2>2, FoundKept DEF CheckRequest, Moves, SubmissionTypeOK, HeldFor
    <2> QED BY <2>1, <2>2
  <1>5. ASSUME NEW r \in Requests,
               \/ Answer(r) \/ InsertPublication(r) \/ InsertReference(r) \/ PatchDraft(r)
        PROVE  FoundOf(q)'
    <2>1. PICK step \in {"done", "refused"} : Ends(r, step)
      BY <1>5 DEF Answer, InsertPublication, InsertReference, PatchDraft
    <2>2. CASE q = r
      BY <1>t, <2>1, <2>2, EndsOf DEF FoundOf, At
    <2>3. CASE q # r
      <3>1. request'[q] = request[q]
        BY <1>t, <2>1, <2>3, EndsOf
      <3>2. HeldFor(q)
        <4>1. CASE Answer(r)
          BY <4>1 DEF Answer, HeldFor
        <4>2. CASE InsertPublication(r)
          <5>1. holder[request[r].listing] = r
            BY <4>2 DEF SubmissionInv, LockInv, LockOf, InsertPublication, At
          <5> QED BY <1>t, <2>3, <4>2, <5>1 DEF InsertPublication, HeldFor, SubmissionTypeOK
        <4>3. CASE InsertReference(r)
          <5>1. holder[request[r].listing] = r
            BY <4>3 DEF SubmissionInv, LockInv, LockOf, InsertReference, At
          <5> QED BY <1>t, <2>3, <4>3, <5>1 DEF InsertReference, HeldFor, SubmissionTypeOK
        <4>4. CASE PatchDraft(r)
          BY <1>t, <4>4 DEF PatchDraft, Unlocked, HeldFor, SubmissionTypeOK
        <4> QED BY <1>5, <4>1, <4>2, <4>3, <4>4
      <3> QED BY <3>1, <3>2, FoundKept
    <2> QED BY <2>2, <2>3
  <1>6. ASSUME NEW l \in Listings, Others(l) PROVE FoundOf(q)'
    <2>1. /\ request' = request /\ Unlocked(l)
          /\ DOMAIN publication' = DOMAIN publication
          /\ \A k \in Listings \ {l} : listing'[k] = listing[k]
      BY <1>t, <1>6 DEF Others, ChangeImages, FulfillListingFee, Decide, SubmissionTypeOK
    <2>2. HeldFor(q)
      BY <1>t, <2>1 DEF HeldFor, Unlocked
    <2> QED BY <2>1, <2>2, FoundKept
  <1>7. ASSUME NEW n \in Limits, UpdateLimit(n) PROVE FoundOf(q)'
    BY <1>7, FoundKept DEF UpdateLimit, HeldFor
  <1>8. CASE UNCHANGED submissionVars
    BY <1>8, FoundKept DEF submissionVars, HeldFor
  <1> QED BY <1>1, <1>2, <1>3, <1>4, <1>5, <1>6, <1>7, <1>8 DEF SubmissionNext, Seller
----------------------------------------------------------------------------
(* Numbers *)

\* A step that inserts no row and leaves numbers and billing alone.
LEMMA RowsKept ==
    ASSUME SubmissionInv, [SubmissionNext]_submissionVars, top \in Nat, top' \in Nat, top <= top',
           DOMAIN publication' = DOMAIN publication,
           \A l \in DOMAIN publication : /\ publication'[l].number = publication[l].number
                                         /\ publication'[l].billing = publication[l].billing
    PROVE  RowsInv'
  <1>1. Numbers' = Numbers
    BY DEF Numbers
  <1>2. NumbersAreDense'
    BY <1>1 DEF SubmissionInv, NumberInv, RowsInv, NumbersAreDense
  <1>3. \A l \in DOMAIN publication : publication[l].number \in Nat
    BY DEF SubmissionInv, SubmissionTypeOK, Publication
  <1> QED BY <1>2, <1>3 DEF SubmissionInv, NumberInv, RowsInv

\* The row of the next number.
LEMMA RowInserted ==
    ASSUME SubmissionInv, NEW r \in Requests, InsertPublication(r)
    PROVE  /\ RowsInv' /\ Ends(r, "done")
           /\ \A q \in Requests \ {r} : ~At(q, "numbered")
  <1> DEFINE l == request[r].listing
             n == Cardinality(DOMAIN publication)
  <1>t. SubmissionTypeOK
    BY DEF SubmissionInv
  <1>1. n \in Nat /\ IsFiniteSet(DOMAIN publication) /\ l \in Listings /\ top \in Nat
    BY <1>t, Counted, SubmissionAssumption DEF SubmissionTypeOK, Request
  <1>2. Numbers = 1..n
    BY DEF SubmissionInv, NumberInv, RowsInv, NumbersAreDense
  <1>3. At(r, "numbered") /\ request[r].number = n + 1 /\ l \notin DOMAIN publication
    BY DEF SubmissionInv, NumberInv, NumberOf, FoundInv, FoundOf, InsertPublication
  <1>4. request[r].number \notin Numbers
    BY <1>1, <1>2, <1>3
  <1>5. /\ DOMAIN publication' = DOMAIN publication \cup {l}
        /\ publication'[l].number = request[r].number
        /\ publication'[l].billing = IF IsFree(r) THEN "FREE" ELSE "PAID"
        /\ \A k \in DOMAIN publication : publication'[k] = publication[k]
        /\ Ends(r, "done") /\ UNCHANGED settingVars
    BY <1>3, <1>4 DEF InsertPublication
  <1>6. Cardinality(DOMAIN publication') = n + 1
    BY <1>1, <1>3, <1>5, FS_AddElement
  <1>7. Numbers' = Numbers \cup {request[r].number}
    BY <1>5 DEF Numbers
  <1>8. NumbersAreDense'
    <2> HIDE DEF n
    <2>1. Numbers' = 1..(n + 1)
      BY <1>1, <1>2, <1>3, <1>7
    <2> QED BY <1>6, <2>1 DEF NumbersAreDense
  <1>9. \A k \in DOMAIN publication : publication[k].number # request[r].number
    BY <1>4 DEF Numbers
  <1>10. IsFree(r) => request[r].number <= top
    <2>1. request[r].limit <= top /\ request[r].limit \in Nat /\ request[r].number \in Nat
      BY <1>t DEF SubmissionInv, NumberInv, NumberOf, SubmissionTypeOK, Request
    <2> QED BY <1>1, <2>1 DEF IsFree
  <1>11. \A q \in Requests \ {r} : ~At(q, "numbered")
    BY <1>3 DEF SubmissionInv, LockInv, LockOf, At
  <1>12. RowsInv
    BY DEF SubmissionInv, NumberInv
  <1> HIDE DEF l, n
  <1> QED BY <1>5, <1>8, <1>9, <1>10, <1>11, <1>12 DEF RowsInv

LEMMA NumberStep == SubmissionInv /\ [SubmissionNext]_submissionVars => NumberInv'
  <1> SUFFICES ASSUME SubmissionInv, [SubmissionNext]_submissionVars PROVE NumberInv'
    OBVIOUS
  <1> USE SubmissionAssumption
  <1>t. SubmissionTypeOK /\ RowsInv /\ limit <= top /\ top \in Nat
        /\ (\A r \in Requests : NumberOf(r))
        /\ limit \in Nat /\ \A r \in Requests : request[r].limit \in Nat
    BY DEF SubmissionInv, NumberInv, SubmissionTypeOK, Request
  \* Steps of a request that insert no row.
  <1>1. ASSUME NEW r \in Requests, UNCHANGED settingVars,
               DOMAIN publication' = DOMAIN publication,
               \A l \in DOMAIN publication : /\ publication'[l].number = publication[l].number
                                             /\ publication'[l].billing = publication[l].billing,
               \A q \in Requests \ {r} : request'[q] = request[q],
               NumberOf(r)'
        PROVE  NumberInv'
    <2>1. RowsInv'
      BY <1>t, <1>1, RowsKept
    <2>2. \A q \in Requests \ {r} : NumberOf(q)'
      BY <1>t, <1>1 DEF NumberOf, At
    <2> QED BY <1>t, <1>1, <2>1, <2>2 DEF NumberInv
  <1>2. ASSUME NEW r \in Requests, NEW l \in Listings,
               \/ BeginSubmit(r, l) \/ BeginResubmit(r, l)
               \/ BeginAuthorize(r, l) \/ BeginPatch(r, l)
        PROVE  NumberInv'
    <2>1. PICK op \in {"submit", "resubmit", "authorize", "patch"},
               step \in {"user", "listing", "patching"} : Asks(r, l, op, step)
      BY <1>2 DEF BeginSubmit, BeginResubmit, BeginAuthorize, BeginPatch
    <2>2. NumberOf(r)'
      BY <1>t, <2>1 DEF Asks, NumberOf, At, SubmissionTypeOK
    <2> QED BY <1>t, <1>1, <2>1, <2>2 DEF Asks, SubmissionTypeOK
  <1>3. ASSUME NEW r \in Requests, LockUserRow(r) \/ LockListingRow(r) \/ CheckRequest(r)
        PROVE  NumberInv'
    <2>1. /\ request'[r].at \in {"listing", "decide", "inserting"}
          /\ request'[r].limit = request[r].limit
          /\ \A q \in Requests \ {r} : request'[q] = request[q]
          /\ UNCHANGED <<settingVars, publication>>
      BY <1>t, <1>3
         DEF LockUserRow, LockListingRow, CheckRequest, Moves, SubmissionTypeOK, Request
    <2>2. NumberOf(r)'
      BY <1>t, <2>1 DEF NumberOf, At
    <2> QED BY <1>1, <2>1, <2>2
  <1>4. ASSUME NEW r \in Requests, Allocate(r) PROVE NumberInv'
    <2>1. /\ request'[r].at = "numbered" /\ request'[r].number = NextNumber
          /\ request'[r].limit = request[r].limit
          /\ \A q \in Requests \ {r} : request'[q] = request[q]
          /\ UNCHANGED <<settingVars, publication>>
      BY <1>t, <1>4 DEF Allocate, SubmissionTypeOK, Request
    <2>2. NextNumber = Cardinality(DOMAIN publication) + 1
      BY <1>t, NextOf DEF RowsInv
    <2>3. NumberOf(r)'
      BY <1>t, <2>1, <2>2 DEF NumberOf, At
    <2> QED BY <1>1, <2>1, <2>3
  <1>5. ASSUME NEW r \in Requests, InsertPublication(r) PROVE NumberInv'
    <2>1. /\ RowsInv' /\ Ends(r, "done")
          /\ \A q \in Requests \ {r} : ~At(q, "numbered")
          /\ UNCHANGED settingVars
      BY <1>5, RowInserted DEF InsertPublication
    <2>2. NumberOf(r)'
      BY <1>t, <2>1, EndsOf DEF NumberOf, At
    <2>3. \A q \in Requests \ {r} : NumberOf(q)'
      BY <1>t, <2>1, EndsOf DEF NumberOf, At
    <2> QED BY <1>t, <2>1, <2>2, <2>3 DEF NumberInv
  <1>6. ASSUME NEW r \in Requests, Answer(r) \/ PatchDraft(r) \/ InsertReference(r)
        PROVE  NumberInv'
    <2>1. Ends(r, "done") /\ UNCHANGED settingVars
      BY <1>6 DEF Answer, PatchDraft, InsertReference
    <2>2. NumberOf(r)'
      BY <1>t, <2>1, EndsOf DEF NumberOf, At
    <2>3. /\ DOMAIN publication' = DOMAIN publication
          /\ \A l \in DOMAIN publication : /\ publication'[l].number = publication[l].number
                                           /\ publication'[l].billing = publication[l].billing
      <3>1. CASE InsertReference(r) /\ Does(r, "resubmit")
        <4>1. publication' = [publication EXCEPT ![request[r].listing].revision = request[r].revision]
          BY <3>1 DEF InsertReference
        <4> QED BY <1>t, <4>1 DEF SubmissionTypeOK, Publication
      <3>2. CASE UNCHANGED publication
        BY <3>2
      <3> QED BY <1>6, <3>1, <3>2 DEF Answer, PatchDraft, InsertReference
    <2>4. \A q \in Requests \ {r} : request'[q] = request[q]
      BY <1>t, <2>1, EndsOf
    <2> QED BY <1>1, <2>1, <2>2, <2>3, <2>4
  <1>7. ASSUME UNCHANGED request, top' \in Nat, top <= top', limit' <= top',
               DOMAIN publication' = DOMAIN publication,
               \A l \in DOMAIN publication : /\ publication'[l].number = publication[l].number
                                             /\ publication'[l].billing = publication[l].billing
        PROVE  NumberInv'
    <2>1. RowsInv'
      BY <1>t, <1>7, RowsKept
    <2>2. \A q \in Requests : NumberOf(q)'
      BY <1>t, <1>7 DEF NumberOf, At
    <2> QED BY <1>7, <2>1, <2>2 DEF NumberInv
  <1>8. ASSUME NEW l \in Listings, Others(l) PROVE NumberInv'
    <2>1. UNCHANGED <<request, settingVars>>
      BY <1>8 DEF Others, ChangeImages, FulfillListingFee, Decide
    <2>2. /\ DOMAIN publication' = DOMAIN publication
          /\ \A k \in DOMAIN publication : /\ publication'[k].number = publication[k].number
                                           /\ publication'[k].billing = publication[k].billing
      <3>1. CASE FulfillListingFee(l)
        <4>1. publication' = [publication EXCEPT ![l].fee = "SUCCESS"]
          BY <3>1 DEF FulfillListingFee
        <4> QED BY <1>t, <4>1 DEF SubmissionTypeOK, Publication
      <3>2. CASE UNCHANGED publication
        BY <3>2
      <3> QED BY <1>8, <3>1, <3>2 DEF Others, ChangeImages, Decide
    <2> QED BY <1>t, <1>7, <2>1, <2>2
  <1>9. ASSUME NEW n \in Limits, UpdateLimit(n) PROVE NumberInv'
    <2>1. n \in Nat
      OBVIOUS
    <2>2. top' \in Nat /\ top <= top' /\ limit' <= top'
      BY <1>t, <1>9, <2>1 DEF UpdateLimit
    <2> QED BY <1>7, <1>9, <2>2 DEF UpdateLimit
  <1>10. CASE UNCHANGED submissionVars
    BY <1>t, <1>7, <1>10 DEF submissionVars
  <1> QED BY <1>2, <1>3, <1>4, <1>5, <1>6, <1>8, <1>9, <1>10 DEF SubmissionNext, Seller

----------------------------------------------------------------------------
(* Theorems *)

LEMMA Starts == SubmissionInit => SubmissionInv
  <1> SUFFICES ASSUME SubmissionInit PROVE SubmissionInv
    OBVIOUS
  <1> USE SubmissionAssumption
  <1>1. /\ DOMAIN publication = {} /\ top = limit /\ limit \in Nat
        /\ \A l \in Listings : listing[l].status = "DRAFT"
        /\ \A r \in Requests : request[r].at = "idle" /\ request[r].limit = 0
    BY FreshIsRequest DEF SubmissionInit
  <1>2. SubmissionTypeOK
    BY FreshIsRequest DEF SubmissionInit, SubmissionTypeOK, Statuses
  <1>3. LockInv /\ FoundInv
    BY <1>1 DEF LockInv, LockOf, FoundInv, FoundOf, At, Does
  <1>4. ListingInv
    BY <1>1 DEF ListingInv, ListingOf, Reviewed
  <1>5. NumbersAreDense
    BY <1>1, FS_EmptySet DEF NumbersAreDense, Numbers
  <1>6. NumberInv
    BY <1>1, <1>5 DEF NumberInv, RowsInv, NumberOf, At
  <1> QED BY <1>2, <1>3, <1>4, <1>6 DEF SubmissionInv

LEMMA SubmissionInductive == SubmissionSpec => []SubmissionInv
  <1>1. SubmissionInv /\ [SubmissionNext]_submissionVars => SubmissionInv'
    BY SubmissionTypeStep, LockStep, FoundStep, ListingStep, NumberStep DEF SubmissionInv
  <1> QED BY Starts, <1>1, PTL DEF SubmissionSpec

\* Every variable keeps its type: statuses, revisions, the rows of the
\* publications, the requests and the row locks (listing-submission.ts).
THEOREM SubmissionTypeCorrect == SubmissionSpec => []SubmissionTypeOK
  <1>1. SubmissionInv => SubmissionTypeOK
    BY DEF SubmissionInv
  <1> QED BY <1>1, SubmissionInductive, PTL

\* The numbers of a seller's publications have no gap: nextPublicationNumber is
\* read and used under the lock of the user's row.
THEOREM NumbersAreDenseHolds == SubmissionSpec => []NumbersAreDense
  <1>1. SubmissionInv => NumbersAreDense
    BY DEF SubmissionInv, NumberInv, RowsInv
  <1> QED BY <1>1, SubmissionInductive, PTL

\* No submission is ever refused by the unique constraint on the number.
THEOREM NobodyIsRefusedHolds == SubmissionSpec => []NobodyIsRefused
  <1>1. SubmissionInv => NobodyIsRefused
    BY DEF SubmissionInv, NumberInv, NumberOf, NobodyIsRefused
  <1> QED BY <1>1, SubmissionInductive, PTL

\* However many listings and requests there are, the free publications of a
\* seller never outnumber the highest limit: their numbers are different and
\* none is above it.
THEOREM FreeWithinLimitHolds == SubmissionSpec => []FreeWithinLimit
  <1>1. SubmissionInv => FreeWithinLimit
    <2> SUFFICES ASSUME SubmissionInv PROVE FreeWithinLimit
      OBVIOUS
    <2> DEFINE free == {l \in DOMAIN publication : publication[l].billing = "FREE"}
               number == [l \in free |-> publication[l].number]
    <2>1. top \in Nat
      BY SubmissionAssumption DEF SubmissionInv, SubmissionTypeOK
    <2>2. \A l \in free : publication[l].number \in 1..top
      BY <2>1 DEF SubmissionInv, SubmissionTypeOK, Publication, NumberInv, RowsInv
    <2>3. number \in Injection(free, 1..top)
      <3>1. number \in [free -> 1..top]
        BY <2>2
      <3>2. \A k, l \in free : number[k] = number[l] => k = l
        BY DEF SubmissionInv, NumberInv, RowsInv
      <3> HIDE DEF number, free
      <3> QED BY <3>1, <3>2 DEF Injection, IsInjective
    <2>4. IsFiniteSet(1..top) /\ Cardinality(1..top) = top
      <3>1. IsFiniteSet(1..top) /\ Cardinality(1..top) = IF 1 > top THEN 0 ELSE top - 1 + 1
        BY <2>1, FS_Interval
      <3> QED BY <2>1, <3>1
    <2>5. Cardinality(free) <= Cardinality(1..top)
      <3> HIDE DEF free, number
      <3> QED BY <2>3, <2>4, FS_Injection
    <2> QED BY <2>4, <2>5 DEF FreeWithinLimit
  <1> QED BY <1>1, SubmissionInductive, PTL

\* Whatever a moderator sees or saw was free or is paid for.
THEOREM ReviewedIsPaidHolds == SubmissionSpec => []ReviewedIsPaid
  <1>1. SubmissionInv => ReviewedIsPaid
    BY DEF SubmissionInv, ListingInv, ListingOf, Reviewed, Paid, ReviewedIsPaid
  <1> QED BY <1>1, SubmissionInductive, PTL

\* What waits for its fee or its moderator is what the seller submitted.
THEOREM FrozenSinceSubmissionHolds == SubmissionSpec => []FrozenSinceSubmission
  <1>1. SubmissionInv => FrozenSinceSubmission
    BY DEF SubmissionInv, ListingInv, ListingOf, FrozenSinceSubmission
  <1> QED BY <1>1, SubmissionInductive, PTL
=============================================================================
