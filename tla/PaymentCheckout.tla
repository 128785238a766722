-------------------------- MODULE PaymentCheckout --------------------------
(***************************************************************************)
(* The provider checkout core shared by every payment purpose: intents,    *)
(* initiation claims, provider orders, verification and settlement         *)
(* (services/payment-checkout.ts, repositories/payment-checkout.ts) with   *)
(* the open-intent rules of promotion and renewal purchases.               *)
(*                                                                         *)
(* One action is one database transaction, one provider call or one event  *)
(* outside the application.  An attempt row is inserted by exactly one     *)
(* checkout request and that request makes at most one POST /order, so an  *)
(* element of Attempts names the row, the request that initiates it        *)
(* (initiator) and the order it may create at the bank (order).            *)
(***************************************************************************)
EXTENDS Naturals, FiniteSets

CONSTANTS
    Payments,   \* rows of payments
    Attempts,   \* rows of payment_provider_attempts (a bound: ids are never reused)
    Verifiers,  \* concurrent calls of verifyProviderPayment
    Promotions, \* the payments of type PREMIUM or BOOST
    SlotOf,     \* payment -> key of the partial unique index "one open intent per ..."
    CreatedAt,  \* payment -> created_at, the order of the reconciliation scan
    ScanLimit,  \* how many payments one reconciliation scan takes (50)
    Timely,     \* TRUE: phases 2 and 3 of a checkout end within the claim's lease
    None

ASSUME TimelyAssumption == Timely \in BOOLEAN
ASSUME ScanAssumption == CreatedAt \in [Payments -> Nat] /\ ScanLimit \in Nat \ {0}
ASSUME PromotionsAssumption == Promotions \subseteq Payments

VARIABLES
    status,     \* payments.status, "ABSENT" before the row is inserted
    fulfilled,  \* how many times fulfillPayment ran for the payment
    payment,    \* attempt -> payment_id, None before the row is inserted
    hasOrder,   \* attempt -> provider_order_id, hpp_url, hpp_secret are stored
    terminal,   \* attempt -> is_terminal
    succeeded,  \* attempt -> succeeded
    aged,       \* attempt -> created_at is older than INITIATION_LEASE_SECONDS
    initiator,  \* the request that claimed the attempt: where it is
    order,      \* the bank's order created by that request
    handedOut,  \* attempt -> a browser has the order's payment page URL
    waiting,    \* payments some checkout request polls the claim of
    vAttempt,   \* verifier -> attempt it read before the provider call
    vSeen       \* verifier -> order state the provider answered, None before

attemptVars == <<payment, hasOrder, terminal, succeeded, aged>>
verifierVars == <<vAttempt, vSeen>>
vars == <<status, fulfilled, payment, hasOrder, terminal, succeeded, aged,
          initiator, order, handedOut, waiting, vAttempt, vSeen>>

PaymentStatus == {"ABSENT", "CREATED", "PENDING", "SUCCESS", "REFUNDED", "CANCELLED"}
CheckoutEligible == {"CREATED", "PENDING"}
\* "PaidOther": FullyPaid with another amount or currency than the intent's.
\* "Unmapped": Declined, Cancelled, Expired and every other unmapped status.
OrderState == {"none", "Preparing", "FullyPaid", "PaidOther", "Refunded", "Unmapped"}

ASSUME NoneAssumption == None \notin Payments \cup Attempts \cup OrderState

TypeOK ==
    /\ status \in [Payments -> PaymentStatus]
    /\ fulfilled \in [Payments -> Nat]
    /\ payment \in [Attempts -> Payments \cup {None}]
    /\ hasOrder \in [Attempts -> BOOLEAN]
    /\ terminal \in [Attempts -> BOOLEAN]
    /\ succeeded \in [Attempts -> BOOLEAN]
    /\ aged \in [Attempts -> BOOLEAN]
    /\ initiator \in [Attempts -> {"unborn", "claimed", "ordered", "gone"}]
    /\ order \in [Attempts -> OrderState]
    /\ handedOut \in [Attempts -> BOOLEAN]
    /\ waiting \subseteq Payments
    /\ vAttempt \in [Verifiers -> Attempts \cup {None}]
    /\ vSeen \in [Verifiers -> OrderState \cup {None}]

Init ==
    /\ status = [p \in Payments |-> "ABSENT"]
    /\ fulfilled = [p \in Payments |-> 0]
    /\ payment = [a \in Attempts |-> None]
    /\ hasOrder = [a \in Attempts |-> FALSE]
    /\ terminal = [a \in Attempts |-> FALSE]
    /\ succeeded = [a \in Attempts |-> FALSE]
    /\ aged = [a \in Attempts |-> FALSE]
    /\ initiator = [a \in Attempts |-> "unborn"]
    /\ order = [a \in Attempts |-> "none"]
    /\ handedOut = [a \in Attempts |-> FALSE]
    /\ waiting = {}
    /\ vAttempt = [v \in Verifiers |-> None]
    /\ vSeen = [v \in Verifiers |-> None]

----------------------------------------------------------------------------
(* Intents *)

\* Mutant of Open: every intent that was not cancelled may be checked out.
OpenUnlessCancelled(p) == status[p] \notin {"ABSENT", "CANCELLED"}

Open(p) == status[p] \in CheckoutEligible

\* The partial unique indexes: no other open intent in p's slot.
SlotFree(p) == \A q \in Payments : q # p /\ SlotOf[q] = SlotOf[p] => ~Open(q)

\* A submission, a renewal or a promotion purchase inserts its intent; a
\* request that loses the index race continues with the open intent instead.
InsertIntent(p) ==
    /\ status[p] = "ABSENT"
    /\ SlotFree(p)
    /\ status' = [status EXCEPT ![p] = "CREATED"]
    /\ UNCHANGED <<fulfilled, attemptVars, initiator, order, handedOut, waiting, verifierVars>>

\* Mutant of Replaceable: an intent whose checkout is in flight is replaced too.
ReplaceableWhileOpen(p) == Open(p)

\* A promotion purchase of another package replaces an intent still CREATED
\* (PENDING answers PROMOTION_PAYMENT_PENDING): both rows in one transaction.
Replaceable(p) == status[p] = "CREATED"

ReplaceIntent(p, q) ==
    /\ p \in Promotions
    /\ Replaceable(p)
    /\ status[q] = "ABSENT"
    /\ SlotOf[p] = SlotOf[q]
    /\ status' = [status EXCEPT ![p] = "CANCELLED", ![q] = "CREATED"]
    /\ UNCHANGED <<fulfilled, attemptVars, initiator, order, handedOut, waiting, verifierVars>>

----------------------------------------------------------------------------
(* runProviderCheckout, phase 1: under the payment row lock *)

Active(p, a) == payment[a] = p /\ ~terminal[a]
\* Mutant of NoActive: a claim without an order does not count as active.
NoStoredOrder(p) == \A a \in Attempts : Active(p, a) => ~hasOrder[a]

NoActive(p) == \A a \in Attempts : ~Active(p, a)
\* Mutants of ClaimIsStale: the lease is not looked at; the test for the missing
\* order is inverted.
ClaimIsUnfinished(a) == ~hasOrder[a]
ClaimIsFinished(a) == hasOrder[a] /\ aged[a]

ClaimIsStale(a) == ~hasOrder[a] /\ aged[a]

Claim(p, a) ==
    /\ initiator[a] = "unborn"
    /\ payment' = [payment EXCEPT ![a] = p]
    /\ initiator' = [initiator EXCEPT ![a] = "claimed"]
    /\ UNCHANGED <<status, fulfilled, hasOrder, succeeded, aged, order, handedOut,
                   waiting, verifierVars>>

ClaimInitiation(p, a) ==
    /\ Open(p)
    /\ NoActive(p)
    /\ Claim(p, a)
    /\ UNCHANGED terminal

\* The active claim outlived its lease: abandon it and claim afresh.
RecoverStaleClaim(p, b, a) ==
    /\ Open(p)
    /\ Active(p, b)
    /\ ClaimIsStale(b)
    /\ Claim(p, a)
    /\ terminal' = [terminal EXCEPT ![b] = TRUE]

HandOut(a) ==
    /\ handedOut' = [handedOut EXCEPT ![a] = TRUE]
    /\ UNCHANGED <<status, fulfilled, attemptVars, initiator, order, verifierVars>>

ReuseCheckout(p, a) ==
    /\ Open(p)
    /\ Active(p, a)
    /\ hasOrder[a]
    /\ HandOut(a)
    /\ UNCHANGED waiting

\* Somebody else initiates: poll the claim row, never the provider.
WaitForInitiator(p, a) ==
    /\ Open(p)
    /\ Active(p, a)
    /\ ~hasOrder[a]
    /\ ~ClaimIsStale(a)
    /\ waiting' = waiting \cup {p}
    /\ UNCHANGED <<status, fulfilled, attemptVars, initiator, order, handedOut, verifierVars>>

PollFindsOrder(p, a) ==
    /\ p \in waiting
    /\ Active(p, a)
    /\ hasOrder[a]
    /\ HandOut(a)
    /\ waiting' = waiting \ {p}

\* The initiator released its claim, or INITIATION_WAIT_POLLS polls passed.
PollGivesUp(p) ==
    /\ p \in waiting
    /\ waiting' = waiting \ {p}
    /\ UNCHANGED <<status, fulfilled, attemptVars, initiator, order, handedOut, verifierVars>>

----------------------------------------------------------------------------
(* Phases 2 and 3: the provider call without locks, then the persistence *)

ProviderCreatesOrder(a) ==
    /\ initiator[a] = "claimed"
    /\ initiator' = [initiator EXCEPT ![a] = "ordered"]
    /\ order' = [order EXCEPT ![a] = "Preparing"]
    /\ UNCHANGED <<status, fulfilled, attemptVars, handedOut, waiting, verifierVars>>

\* createOrder throws: refused, or timed out whether or not the order exists.
\* The row is addressed by id with no condition on its state.
ReleaseClaim(a) ==
    /\ initiator[a] \in {"claimed", "ordered"}
    /\ initiator' = [initiator EXCEPT ![a] = "gone"]
    /\ terminal' = [terminal EXCEPT ![a] = TRUE]
    /\ UNCHANGED <<status, fulfilled, payment, hasOrder, succeeded, aged, order,
                   handedOut, waiting, verifierVars>>

\* completeInitiation and markPaymentPending commit together; neither looks at
\* is_terminal or at the payment's status.  The URL may be lost on the way.
PersistOrder(a) ==
    /\ initiator[a] = "ordered"
    /\ SlotFree(payment[a])
    /\ initiator' = [initiator EXCEPT ![a] = "gone"]
    /\ hasOrder' = [hasOrder EXCEPT ![a] = TRUE]
    /\ status' = [status EXCEPT ![payment[a]] = "PENDING"]
    /\ \E delivered \in BOOLEAN : handedOut' = [handedOut EXCEPT ![a] = delivered]
    /\ UNCHANGED <<fulfilled, payment, terminal, succeeded, aged, order, waiting, verifierVars>>

\* The update of a payment cancelled meanwhile breaks the unique index: the
\* transaction rolls back and the request fails.
PersistOrderConflicts(a) ==
    /\ initiator[a] = "ordered"
    /\ ~SlotFree(payment[a])
    /\ initiator' = [initiator EXCEPT ![a] = "gone"]
    /\ UNCHANGED <<status, fulfilled, attemptVars, order, handedOut, waiting, verifierVars>>

CrashInitiator(a) ==
    /\ initiator[a] \in {"claimed", "ordered"}
    /\ initiator' = [initiator EXCEPT ![a] = "gone"]
    /\ UNCHANGED <<status, fulfilled, attemptVars, order, handedOut, waiting, verifierVars>>

LeaseElapses(a) ==
    /\ payment[a] # None
    /\ ~aged[a] /\ ~hasOrder[a] /\ ~terminal[a]
    /\ Timely => initiator[a] = "gone"
    /\ aged' = [aged EXCEPT ![a] = TRUE]
    /\ UNCHANGED <<status, fulfilled, payment, hasOrder, terminal, succeeded, initiator,
                   order, handedOut, waiting, verifierVars>>

----------------------------------------------------------------------------
(* The bank and the buyer *)

MoveOrder(a, from, to) ==
    /\ order[a] \in from
    /\ order' = [order EXCEPT ![a] = to]
    /\ UNCHANGED <<status, fulfilled, attemptVars, initiator, handedOut, waiting, verifierVars>>

BuyerPays(a) ==
    /\ handedOut[a]
    /\ \E paid \in {"FullyPaid", "PaidOther"} : MoveOrder(a, {"Preparing"}, paid)

OrderLapses(a) == MoveOrder(a, {"Preparing"}, "Unmapped")

BankRefunds(a) == MoveOrder(a, {"FullyPaid", "PaidOther"}, "Refunded")

----------------------------------------------------------------------------
(* verifyProviderPayment: read, ask the provider without locks, settle *)

StartVerification(v, a) ==
    /\ vAttempt[v] = None
    /\ payment[a] # None
    /\ ~terminal[a]
    /\ hasOrder[a]
    /\ vAttempt' = [vAttempt EXCEPT ![v] = a]
    /\ UNCHANGED <<status, fulfilled, attemptVars, initiator, order, handedOut, waiting, vSeen>>

ProviderAnswers(v, a) ==
    /\ vAttempt[v] = a
    /\ vSeen[v] = None
    /\ vSeen' = [vSeen EXCEPT ![v] = order[a]]
    /\ UNCHANGED <<status, fulfilled, attemptVars, initiator, order, handedOut, waiting, vAttempt>>

VerifierEnds(v) ==
    /\ vAttempt' = [vAttempt EXCEPT ![v] = None]
    /\ vSeen' = [vSeen EXCEPT ![v] = None]

\* A provider error (CHECK_FAILED) or a crash at any point before the commit.
VerificationFails(v) ==
    /\ vAttempt[v] # None
    /\ VerifierEnds(v)
    /\ UNCHANGED <<status, fulfilled, attemptVars, initiator, order, handedOut, waiting>>

\* Mutant of StillCurrent: settles without the replay checks.
NotRefunded(a) == status[payment[a]] # "REFUNDED"

\* The transaction's re-checks: the payment is not settled and the attempt
\* that was asked about is still its active one.
StillCurrent(a) ==
    /\ status[payment[a]] \notin {"SUCCESS", "REFUNDED"}
    /\ ~terminal[a]

Terminalize(a, success) ==
    /\ terminal' = [terminal EXCEPT ![a] = TRUE]
    /\ succeeded' = [succeeded EXCEPT ![a] = success]
    /\ UNCHANGED <<payment, hasOrder, aged>>

\* Mutant of SettlePaid: the paid amount is not compared with the intent's.
SettleAnyAmount(v, a) ==
    /\ vAttempt[v] = a
    /\ vSeen[v] \in {"FullyPaid", "PaidOther"}
    /\ StillCurrent(a)
    /\ Terminalize(a, TRUE)
    /\ status' = [status EXCEPT ![payment[a]] = "SUCCESS"]
    /\ fulfilled' = [fulfilled EXCEPT ![payment[a]] = @ + 1]
    /\ VerifierEnds(v)
    /\ UNCHANGED <<initiator, order, handedOut, waiting>>

SettlePaid(v, a) ==
    /\ vAttempt[v] = a
    /\ vSeen[v] = "FullyPaid"
    /\ StillCurrent(a)
    /\ Terminalize(a, TRUE)
    /\ status' = [status EXCEPT ![payment[a]] = "SUCCESS"]
    /\ fulfilled' = [fulfilled EXCEPT ![payment[a]] = @ + 1]
    /\ VerifierEnds(v)
    /\ UNCHANGED <<initiator, order, handedOut, waiting>>

\* Mutant of SettleRefunded: the provider's word is stored as the status.
SettleRefundedVerbatim(v, a) ==
    /\ vAttempt[v] = a
    /\ vSeen[v] = "Refunded"
    /\ StillCurrent(a)
    /\ Terminalize(a, FALSE)
    /\ status' = [status EXCEPT ![payment[a]] = vSeen[v]]
    /\ VerifierEnds(v)
    /\ UNCHANGED <<fulfilled, initiator, order, handedOut, waiting>>

SettleRefunded(v, a) ==
    /\ vAttempt[v] = a
    /\ vSeen[v] = "Refunded"
    /\ StillCurrent(a)
    /\ Terminalize(a, FALSE)
    /\ status' = [status EXCEPT ![payment[a]] = "REFUNDED"]
    /\ VerifierEnds(v)
    /\ UNCHANGED <<fulfilled, initiator, order, handedOut, waiting>>

\* Mutant of SettleNothing: an answer other than paid or refunded ends the attempt.
SettleUnpaidEnds(v, a) ==
    /\ vAttempt[v] = a
    /\ vSeen[v] \notin {None, "FullyPaid", "Refunded"}
    /\ StillCurrent(a)
    /\ Terminalize(a, FALSE)
    /\ VerifierEnds(v)
    /\ UNCHANGED <<status, fulfilled, initiator, order, handedOut, waiting>>

\* Idempotent replay, or a status that is only recorded on the attempt
\* (Preparing, unmapped, an amount or currency mismatch).
SettleNothing(v, a) ==
    /\ vAttempt[v] = a
    /\ vSeen[v] # None
    /\ StillCurrent(a) => vSeen[v] \notin {"FullyPaid", "Refunded"}
    /\ VerifierEnds(v)
    /\ UNCHANGED <<status, fulfilled, attemptVars, initiator, order, handedOut, waiting>>

----------------------------------------------------------------------------

Checkout(p) ==
    \/ \E a \in Attempts : ClaimInitiation(p, a)
    \/ \E a, b \in Attempts : RecoverStaleClaim(p, b, a)
    \/ \E a \in Attempts : ReuseCheckout(p, a)
    \/ \E a \in Attempts : WaitForInitiator(p, a)
    \/ \E a \in Attempts : PollFindsOrder(p, a)
    \/ PollGivesUp(p)

Initiate(a) ==
    \/ ProviderCreatesOrder(a)
    \/ ReleaseClaim(a)
    \/ PersistOrder(a)
    \/ PersistOrderConflicts(a)
    \/ CrashInitiator(a)
    \/ LeaseElapses(a)

Bank(a) == BuyerPays(a) \/ OrderLapses(a) \/ BankRefunds(a)

Settle(v, a) == SettlePaid(v, a) \/ SettleRefunded(v, a) \/ SettleNothing(v, a)

Verify(v) ==
    \/ \E a \in Attempts : StartVerification(v, a)
    \/ \E a \in Attempts : ProviderAnswers(v, a)
    \/ VerificationFails(v)
    \/ \E a \in Attempts : Settle(v, a)

Next ==
    \/ \E p \in Payments : InsertIntent(p)
    \/ \E p, q \in Payments : ReplaceIntent(p, q)
    \/ \E p \in Payments : Checkout(p)
    \/ \E a \in Attempts : Initiate(a)
    \/ \E a \in Attempts : Bank(a)
    \/ \E v \in Verifiers : Verify(v)

Spec == Init /\ [][Next]_vars

\* The PENDING payments that come before p in the scan.
Older(p) == {q \in Payments : status[q] = "PENDING" /\ CreatedAt[q] < CreatedAt[p]}

\* Mutant of Scanned: the scan takes the newest payments.
ScannedNewest(p) ==
    /\ status[p] = "PENDING"
    /\ Cardinality({q \in Payments : status[q] = "PENDING" /\ CreatedAt[q] > CreatedAt[p]})
         < ScanLimit

\* listStalePendingPayments: the oldest PENDING payments, always from the first,
\* up to the limit.
Scanned(p) == status[p] = "PENDING" /\ Cardinality(Older(p)) < ScanLimit

(***************************************************************************)
(* Fairness.  The reconcile-payments job runs every five minutes and       *)
(* verifies the payments its scan takes: a payment that stays among the    *)
(* oldest ScanLimit PENDING ones is verified again and again, and one      *)
(* behind them by nobody.  Of the verifications of a scanned payment one   *)
(* is eventually answered by the bank and one of their transactions        *)
(* eventually commits, although each may fail (and then ends its batch).   *)
(* Buyers repeat a checkout that did not lead to a payment page, leases    *)
(* elapse, and an initiator ends one way or another.                       *)
(***************************************************************************)
Reconcile(a) ==
    /\ \E p \in Payments : Scanned(p) /\ Active(p, a)
    /\ \E v \in Verifiers : StartVerification(v, a)

Fairness ==
    /\ \A a \in Attempts : SF_vars(Reconcile(a))
    /\ \A v \in Verifiers, a \in Attempts :
          /\ SF_vars(ProviderAnswers(v, a))
          /\ SF_vars(Settle(v, a))
    /\ \A p \in Payments :
          /\ WF_vars(\E a, b \in Attempts : RecoverStaleClaim(p, b, a))
          /\ WF_vars(\E a \in Attempts : ClaimInitiation(p, a))
          /\ WF_vars(\E a \in Attempts : ReuseCheckout(p, a))
    /\ \A a \in Attempts :
          /\ WF_vars(LeaseElapses(a))
          /\ WF_vars(PersistOrder(a) \/ PersistOrderConflicts(a) \/ ReleaseClaim(a)
                       \/ CrashInitiator(a))

FairSpec == Spec /\ Fairness

----------------------------------------------------------------------------
(* Safety *)

\* The payment the attempt belongs to is in one of these states.
PaymentIn(a, states) == \E p \in Payments : payment[a] = p /\ status[p] \in states

\* A buyer never holds payment pages of two orders of one intent, so one
\* purchase cannot be charged twice (the initiation claim, its lease and
\* the reuse of the active attempt: payment-checkout.ts, phases 1 to 3).
OnePayableOrder ==
    \A a, b \in Attempts :
        handedOut[a] /\ handedOut[b] /\ payment[a] = payment[b] => a = b

\* A payment is fulfilled once when it is SUCCESS and never otherwise, and
\* SUCCESS rests on one attempt of its own that the bank reported fully paid
\* in the exact amount (settlement under the payment row lock).
ExactlyOnceFulfillment ==
    \A p \in Payments :
        /\ fulfilled[p] = IF status[p] = "SUCCESS" THEN 1 ELSE 0
        /\ status[p] = "SUCCESS" =>
              \E a \in Attempts : /\ payment[a] = p /\ succeeded[a] /\ hasOrder[a]
                                  /\ order[a] \in {"FullyPaid", "Refunded"}

\* Money the bank took is never out of sight: the order's attempt is either
\* the one its payment was settled with or still the active attempt of a
\* PENDING payment, where callbacks and the reconciliation scan find it.
PaidOrderIsTracked ==
    \A a \in Attempts :
        order[a] = "FullyPaid" =>
            /\ hasOrder[a]
            /\ IF terminal[a] THEN succeeded[a] /\ PaymentIn(a, {"SUCCESS"})
                              ELSE PaymentIn(a, {"PENDING"})

\* Replacing a promotion intent discards nothing a buyer can pay: no page of
\* a cancelled intent's order ever reached a browser (promotion-purchases.ts).
NothingPayableDiscarded ==
    \A a \in Attempts : handedOut[a] => ~PaymentIn(a, {"CANCELLED"})

\* An order whose claim was abandoned can only expire unpaid: nobody holds its
\* payment page (the recovery comment of payment-checkout.ts).
AbandonedOrderUnpayable ==
    \A a \in Attempts : terminal[a] /\ order[a] = "Preparing" => ~handedOut[a]

\* Settlement is final: no late initiator, verifier or reconciliation moves a
\* payment out of SUCCESS or REFUNDED or fulfils it again.
SettledIsFinal ==
    [][\A p \in Payments : status[p] \in {"SUCCESS", "REFUNDED"} =>
          status'[p] = status[p] /\ fulfilled'[p] = fulfilled[p]]_vars

----------------------------------------------------------------------------
(* Liveness *)

Settled(a) == terminal[a] /\ PaymentIn(a, {"SUCCESS", "REFUNDED"})

\* What the bank took or gave back for q is not booked yet.
Settles(q) == \E a \in Attempts : Active(q, a) /\ order[a] \in {"FullyPaid", "Refunded"}

\* The scan is full of older payments that no verification settles.
CrowdedOut(p) == Cardinality({q \in Older(p) : ~Settles(q)}) >= ScanLimit

\* A fully paid order settles its payment even when the buyer's browser, the
\* callback and any number of verifications fail, unless older payments whose
\* orders are not paid fill the scan for ever (reconcileProviderPayments takes
\* the oldest PENDING payments, repositories/payment-checkout.ts:261): older
\* payments that are paid never keep it waiting for ever.
PaidIsSettled ==
    \A a \in Attempts : order[a] = "FullyPaid" ~>
        \/ Settled(a)
        \/ \E p \in Payments : payment[a] = p /\ []CrowdedOut(p)

\* A claim whose request died does not block the buyer for ever: the lease
\* lets a later checkout abandon it, unless the intent was replaced or the
\* model has no attempt id left.
DeadClaimIsReleased ==
    \A a \in Attempts :
        initiator[a] = "gone" /\ ~hasOrder[a] /\ ~terminal[a] ~>
            \/ terminal[a]
            \/ PaymentIn(a, {"CANCELLED"})
            \/ \A b \in Attempts : initiator[b] # "unborn"

----------------------------------------------------------------------------
(* Statements of the repository the code does not keep *)

\* Migration 20260827100000: CANCELLED is a terminal state of a promotion intent.
CancelledIsFinal ==
    [][\A p \in Payments : status[p] = "CANCELLED" => status'[p] = "CANCELLED"]_vars

\* kapital-bank-payments.md: reconciliation keeps re-checking pending payments,
\* so a fully paid order is settled in the end.
PaidIsAlwaysSettled == \A a \in Attempts : order[a] = "FullyPaid" ~> Settled(a)

\* kapital-bank-payments.md: when a payment never reaches FullyPaid, its
\* attempt ends and the buyer can retry.
UnpaidOrderCanBeRetried ==
    \A a \in Attempts : hasOrder[a] /\ order[a] = "Unmapped" ~> terminal[a]

=============================================================================
