-------------------------- MODULE ListingLifecycle --------------------------
(***************************************************************************)
(* One published listing: moderation status, validity and its periods,     *)
(* seller deactivation and reactivation, the open edit revision, renewal   *)
(* and suspension (services/listing-lifecycle.ts, listing-edit.ts,         *)
(* moderation.ts, moderation-edit.ts, renewals.ts, admin.ts,               *)
(* lifecycle-jobs.ts and fulfillRenewal of payment-checkout.ts).           *)
(*                                                                         *)
(* Every handler is one transaction that locks the listing row first, so   *)
(* an action is a handler; sellers, moderators, administrators, the expiry *)
(* job and the payment core interleave freely between them.  A call with a *)
(* stale expected_revision is refused and changes nothing, hence absent.   *)
(***************************************************************************)
EXTENDS Naturals, Sequences

CONSTANTS
    Validity,        \* setting listing.validity_days
    RenewalDuration, \* setting listing.renewal_duration_days
    MaxTime          \* bound: the clock stops here

ASSUME DurationAssumption ==
    Validity \in Nat \ {0} /\ RenewalDuration \in Nat \ {0} /\ MaxTime \in Nat

VARIABLES
    now,
    status,      \* listings.status
    expiresAt,   \* listings.current_expires_at, 0 while null
    periods,     \* listing_periods by period_number; live: its status is ACTIVE
    deactivated, \* seller_deactivated_at is set
    requested,   \* seller_reactivation_requested_at is set
    edit,        \* status of the open edit revision, "none" without one
    renewal,     \* "open" while a RENEWAL payment is CREATED or PENDING
    intent       \* history: the seller's last word on visibility while hidden

vars == <<now, status, expiresAt, periods, deactivated, requested, edit, renewal, intent>>

validityVars == <<expiresAt, periods>>
visibilityVars == <<deactivated, requested, intent>>

ListingStatus == {"PENDING_MODERATION", "CORRECTION_REQUIRED", "REJECTED",
                  "ACTIVE", "EXPIRED", "SUSPENDED"}
Period == [starts : Nat, ends : Nat, live : BOOLEAN]

TypeOK ==
    /\ now \in Nat
    /\ status \in ListingStatus
    /\ expiresAt \in Nat
    /\ periods \in Seq(Period)
    /\ deactivated \in BOOLEAN
    /\ requested \in BOOLEAN
    /\ edit \in {"none", "EDIT_DRAFT", "PENDING_MODERATION", "CORRECTION_REQUIRED"}
    /\ renewal \in {"none", "open"}
    /\ intent \in {"hidden", "asked", "repeated"}

\* A listing whose first submission entered the moderation queue.
Init ==
    /\ now = 0
    /\ status = "PENDING_MODERATION"
    /\ expiresAt = 0
    /\ periods = <<>>
    /\ deactivated = FALSE
    /\ requested = FALSE
    /\ edit = "none"
    /\ renewal = "none"
    /\ intent = "hidden"

TimeValid == expiresAt > now

\* publicVisible: the condition of every public read.
Visible == status = "ACTIVE" /\ TimeValid /\ ~deactivated

Tick ==
    /\ now < MaxTime
    /\ now' = now + 1
    /\ UNCHANGED <<status, validityVars, visibilityVars, edit, renewal>>

----------------------------------------------------------------------------
(* Moderation of the listing itself, suspension, expiry *)

GrantPeriod(days) ==
    periods' = Append(periods, [starts |-> now, ends |-> now + days, live |-> TRUE])

ApproveListing ==
    /\ status = "PENDING_MODERATION"
    /\ GrantPeriod(Validity)
    /\ status' = "ACTIVE"
    /\ expiresAt' = now + Validity
    /\ UNCHANGED <<now, visibilityVars, edit, renewal>>

MoveStatus(from, to) ==
    /\ status \in from
    /\ status' = to
    /\ UNCHANGED <<now, validityVars, visibilityVars, edit, renewal>>

ReturnToSeller ==
    \E to \in {"CORRECTION_REQUIRED", "REJECTED"} : MoveStatus({"PENDING_MODERATION"}, to)

ResubmitListing == MoveStatus({"CORRECTION_REQUIRED", "REJECTED"}, "PENDING_MODERATION")

\* Mutant of SuspendListing: an expired listing can be suspended as well.
SuspendPublished == MoveStatus({"ACTIVE", "EXPIRED"}, "SUSPENDED")

SuspendListing == MoveStatus({"ACTIVE"}, "SUSPENDED")

\* Mutant of UnsuspendListing: a restored listing always has to be renewed.
UnsuspendExpired == MoveStatus({"SUSPENDED"}, "EXPIRED")

UnsuspendListing == MoveStatus({"SUSPENDED"}, IF TimeValid THEN "ACTIVE" ELSE "EXPIRED")

Lapse(period) == [period EXCEPT !.live = @ /\ period.ends > now]

\* Mutant of ExpireListing: the lapsed periods are left ACTIVE.
ExpireStatusOnly == ~TimeValid /\ MoveStatus({"ACTIVE"}, "EXPIRED")

\* The expiry job, for this listing: the status and its lapsed periods.
ExpireListing ==
    /\ status = "ACTIVE"
    /\ ~TimeValid
    /\ status' = "EXPIRED"
    /\ periods' = [i \in DOMAIN periods |-> Lapse(periods[i])]
    /\ UNCHANGED <<now, expiresAt, visibilityVars, edit, renewal>>

----------------------------------------------------------------------------
(* Deactivation and the reactivation finalizer *)

DeactivateListing ==
    /\ ~deactivated
    /\ status = "ACTIVE"
    /\ deactivated' = TRUE
    /\ requested' = FALSE
    /\ intent' = "hidden"
    /\ UNCHANGED <<now, status, validityVars, edit, renewal>>

\* Deactivating again succeeds and returns the state there is.
RepeatDeactivation ==
    /\ deactivated
    /\ intent' = IF requested THEN "repeated" ELSE intent
    /\ UNCHANGED <<now, status, validityVars, deactivated, requested, edit, renewal>>

\* Mutant of Gates: the finalizer does not look for an open edit revision.
GatesWithoutEdit(request) ==
    /\ request /\ deactivated
    /\ status' = "ACTIVE" /\ expiresAt' > now

\* tryFinalizeSellerReactivation at the end of the caller's transaction: the
\* gates are evaluated on the rows as the transaction leaves them.
Gates(request) ==
    /\ request /\ deactivated
    /\ status' = "ACTIVE" /\ expiresAt' > now
    /\ edit' = "none"

Finalize(request) ==
    /\ deactivated' = (deactivated /\ ~Gates(request))
    /\ requested' = (request /\ ~Gates(request))

ReactivateListing ==
    /\ deactivated
    /\ status \notin {"SUSPENDED", "EXPIRED"}
    /\ TimeValid
    /\ edit # "EDIT_DRAFT"
    /\ UNCHANGED <<now, status, validityVars, edit, renewal>>
    /\ intent' = "asked"
    /\ Finalize(TRUE)

----------------------------------------------------------------------------
(* Edit revisions *)

GetOrCreateEditRevision ==
    /\ status \in {"ACTIVE", "EXPIRED"}
    /\ edit = "none"
    /\ edit' = "EDIT_DRAFT"
    /\ UNCHANGED <<now, status, validityVars, visibilityVars, renewal>>

ClearRequest ==
    /\ requested' = FALSE
    /\ intent' = "hidden"
    /\ UNCHANGED deactivated

\* Mutant of CancelOpenEditRevision: the request outlives its edit.
CancelKeepsRequest ==
    /\ edit \in {"EDIT_DRAFT", "CORRECTION_REQUIRED"}
    /\ edit' = "none"
    /\ intent' = "hidden"
    /\ UNCHANGED <<now, status, validityVars, deactivated, requested, renewal>>

CancelOpenEditRevision ==
    /\ edit \in {"EDIT_DRAFT", "CORRECTION_REQUIRED"}
    /\ edit' = "none"
    /\ ClearRequest
    /\ UNCHANGED <<now, status, validityVars, renewal>>

\* activate: "send and activate"; it only records the request.
MayRequest(activate) == activate /\ deactivated /\ status = "ACTIVE" /\ TimeValid

SubmitEditRevision(activate) ==
    /\ status \in {"ACTIVE", "EXPIRED"}
    /\ edit \in {"EDIT_DRAFT", "CORRECTION_REQUIRED"}
    /\ edit' = "PENDING_MODERATION"
    /\ requested' = (requested \/ MayRequest(activate))
    /\ intent' = IF MayRequest(activate) THEN "asked" ELSE intent
    /\ UNCHANGED deactivated
    /\ UNCHANGED <<now, status, validityVars, renewal>>

\* The decisions look at the edit revision, never at the listing's status.
ApproveEdit ==
    /\ edit = "PENDING_MODERATION"
    /\ edit' = "none"
    /\ UNCHANGED <<now, status, validityVars, renewal, intent>>
    /\ Finalize(requested)

RejectEdit ==
    /\ edit = "PENDING_MODERATION"
    /\ edit' = "none"
    /\ ClearRequest
    /\ UNCHANGED <<now, status, validityVars, renewal>>

\* Mutant of RequestEditCorrection: stores the name of the review decision.
CorrectionAsDecision ==
    /\ edit = "PENDING_MODERATION"
    /\ edit' = "CORRECTION_REQUESTED"
    /\ UNCHANGED <<now, status, validityVars, visibilityVars, renewal>>

RequestEditCorrection ==
    /\ edit = "PENDING_MODERATION"
    /\ edit' = "CORRECTION_REQUIRED"
    /\ UNCHANGED <<now, status, validityVars, visibilityVars, renewal>>

----------------------------------------------------------------------------
(* Renewal *)

\* Mutant of CreateRenewalCheckout: a published listing can be renewed early.
RenewPublished ==
    /\ status \in {"ACTIVE", "EXPIRED"}
    /\ edit = "none"
    /\ requested' = (requested \/ deactivated)
    /\ intent' = IF deactivated THEN "asked" ELSE intent
    /\ renewal' = "open"
    /\ UNCHANGED <<now, status, validityVars, deactivated, edit>>

\* A deactivated seller who renews asks for activation; an open intent is reused.
CreateRenewalCheckout ==
    /\ status = "EXPIRED"
    /\ edit = "none"
    /\ requested' = (requested \/ deactivated)
    /\ intent' = IF deactivated THEN "asked" ELSE intent
    /\ renewal' = "open"
    /\ UNCHANGED <<now, status, validityVars, deactivated, edit>>

\* Mutant of Renewed: the paid days are added to the old expiry.
RenewedFromExpiry == expiresAt + RenewalDuration

\* Where the granted period ends.
Renewed == now + RenewalDuration

FulfillRenewal ==
    /\ renewal = "open"
    /\ renewal' = "none"
    /\ GrantPeriod(RenewalDuration)
    /\ UNCHANGED <<now, edit, intent>>
    /\ IF status = "EXPIRED"
          THEN /\ status' = "ACTIVE"
               /\ expiresAt' = Renewed
               /\ Finalize(requested)
          ELSE /\ expiresAt' = IF Renewed > expiresAt THEN Renewed ELSE expiresAt
               /\ UNCHANGED <<status, deactivated, requested>>

\* The bank returned the money before the payment was settled.
RenewalRefunded ==
    /\ renewal = "open"
    /\ renewal' = "none"
    /\ UNCHANGED <<now, status, validityVars, visibilityVars, edit>>

----------------------------------------------------------------------------

Moderator == ApproveListing \/ ReturnToSeller \/ SuspendListing
                \/ ApproveEdit \/ RejectEdit \/ RequestEditCorrection

Seller ==
    \/ ResubmitListing
    \/ DeactivateListing
    \/ RepeatDeactivation
    \/ ReactivateListing
    \/ GetOrCreateEditRevision
    \/ CancelOpenEditRevision
    \/ \E activate \in BOOLEAN : SubmitEditRevision(activate)
    \/ CreateRenewalCheckout

Next == Tick \/ ExpireListing \/ UnsuspendListing \/ Moderator \/ Seller
           \/ FulfillRenewal \/ RenewalRefunded

Spec == Init /\ [][Next]_vars

----------------------------------------------------------------------------
(* Safety *)

\* A renewal that is paid finds its listing EXPIRED, whatever happened since the
\* checkout: the operations flag RENEWAL_NON_EXPIRED_STATUS is never raised
\* (fulfillRenewal).
PaidRenewalFindsExpired == renewal = "open" => status = "EXPIRED"

RenewalFulfilled == renewal = "open" /\ renewal' = "none" /\ periods' # periods

\* The money of a renewal buys visibility at once, whatever happened since the
\* checkout, except where the seller keeps the listing hidden: a listing taken
\* down stays hidden while an edit is open, or after a cancelled or rejected edit
\* took the request of the checkout back (fulfillRenewal,
\* tryFinalizeSellerReactivation, clearReactivationRequest).
RenewalBuysVisibility ==
    [][RenewalFulfilled =>
          \/ Visible'
          \/ deactivated /\ (edit # "none" \/ intent = "hidden")]_vars

\* No two periods overlap: no day of the listing is sold twice.
PeriodsDisjoint ==
    \A i, j \in DOMAIN periods : i < j => periods[i].ends <= periods[j].starts

\* A publicly visible listing is inside its newest period, that period is
\* still ACTIVE and ends when the listing does, which is what makes its expiry
\* reminders eligible (publicVisible, expireListingsBatch, reminderEligibility).
VisibleIsCovered ==
    Visible => /\ periods # <<>>
               /\ LET last == periods[Len(periods)] IN
                     last.starts <= now /\ last.ends = expiresAt /\ last.live

\* fulfillRenewal: "current_expires_at only ever grows", over every operation.
ExpiryOnlyGrows == [][expiresAt' >= expiresAt]_vars

\* A request is only kept for a listing its seller has taken down and asked to
\* activate since, after the last cancelled or rejected edit.
RequestIsStanding == requested => deactivated /\ intent # "hidden"

\* The finalizer is the only way back for a listing its seller took down: it
\* returns publicly visible, with no edit open and not out of a suspension.
ReturnsComplete ==
    [][deactivated /\ ~deactivated' =>
          Visible' /\ edit' = "none" /\ status # "SUSPENDED"]_vars

----------------------------------------------------------------------------
(* What other components see *)

\* The status, with every state before the first approval as one.
PublishedStatus ==
    IF status \in {"PENDING_MODERATION", "CORRECTION_REQUIRED", "REJECTED"}
       THEN "UNPUBLISHED" ELSE status

Validities == INSTANCE ListingValidity WITH status <- PublishedStatus

\* Whoever acts on a listing, its validity moves as ListingValidity says: a
\* period is granted only by the approval or to an EXPIRED listing, and status,
\* expiry and periods always move together.
ImplementsValidity == Validities!ListingSpec

----------------------------------------------------------------------------
(* Statements of the repository the code does not keep *)

\* listing-lifecycle.ts: a request recorded under moderation stays hidden "until
\* approval finalizes"; so a request never outlives the edit of a valid listing.
RequestAwaitsEdit ==
    requested /\ deactivated /\ status = "ACTIVE" /\ TimeValid => edit # "none"

\* repositories/listing-lifecycle.ts: deactivation clears any reactivation
\* request, so a seller who deactivates last stays hidden.
DeactivationIsLastWord ==
    [][deactivated /\ ~deactivated' => intent' # "repeated"]_vars

=============================================================================
