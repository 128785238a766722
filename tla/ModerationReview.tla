-------------------------- MODULE ModerationReview --------------------------
(***************************************************************************)
(* The review of one listing: its first submission and its later edit      *)
(* revisions, the claims of several moderators, their private adjustments  *)
(* and their decisions, while the seller corrects, resubmits, edits, hides *)
(* and shows the listing (services/moderation.ts, moderation-edit.ts,      *)
(* moderation-adjustments.ts, listing-drafts.ts, listing-edit.ts,          *)
(* listing-lifecycle.ts, listing-submission.ts).                           *)
(*                                                                         *)
(* A moderator acts on a page loaded earlier; screen[m] is that page, and  *)
(* a request carries its counters.  Every handler is one transaction under *)
(* the listing's row lock, except the seller's PATCH, which reads the      *)
(* status before it.  Content is a number: equal numbers, equal content.   *)
(* The listing is neither suspended nor expired (ListingLifecycle has      *)
(* both), and a refused call changes nothing, hence absent.                *)
(***************************************************************************)
EXTENDS Naturals, Sequences

CONSTANTS
    Moderators,
    NoOne,          \* the claimant of a listing nobody claimed
    MaxContent,     \* bound: contents ever written
    MaxEdits,       \* bound: edit revisions ever opened
    MaxAdjustments, \* bound: adjustments ever opened
    MaxReviews,     \* bound: decisions
    MaxRevision,    \* bound: revision the listing reaches through its seller
    MaxCounter      \* bound: counter of an edit revision or an adjustment

ASSUME NoOneAssumption == NoOne \notin Moderators

VARIABLES
    listing,     \* the listings row
    edits,       \* listing_edit_revisions, oldest first
    adjustments, \* moderation_adjustments, oldest first
    claim,       \* the unreleased row of moderation_claims
    reviews,     \* moderation_reviews, oldest first
    screen,      \* per moderator, the page last loaded
    patch,       \* the seller's PATCH between its read and its update
    written      \* number of contents written so far

vars == <<listing, edits, adjustments, claim, reviews, screen, patch, written>>

None == 0 \* no edit revision, no adjustment

Returned == {"CORRECTION_REQUIRED", "REJECTED"} \* SELLER_EDITABLE_STATUSES, after submission
OpenEditStatuses == {"EDIT_DRAFT", "PENDING_MODERATION", "CORRECTION_REQUIRED"}
Decisions == {"APPROVED", "REJECTED", "CORRECTION_REQUESTED"}

Listing == [status : {"PENDING_MODERATION", "ACTIVE"} \cup Returned, revision : Nat,
            content : Nat, deactivated : BOOLEAN, requested : BOOLEAN]
Edit == [status : OpenEditStatuses \cup {"APPROVED", "REJECTED", "CANCELLED"},
         revision : Nat, data : Nat]
Adjustment == [edit : Nat, listingRevision : Nat, editRevision : Nat, submitted : Nat,
               adjusted : Nat, revision : Nat, status : {"OPEN", "DISCARDED", "APPLIED"}]
Claim == [moderator : Moderators \cup {NoOne}, live : BOOLEAN]
Unclaimed == [moderator |-> NoOne, live |-> FALSE]
Screen == [edit : Nat, listingRevision : Nat, editRevision : Nat,
           adjustment : Nat, adjustmentRevision : Nat, content : Nat]
Review == [moderator : Moderators, decision : Decisions, edit : Nat, editRevision : Nat,
           listingRevision : Nat, adjustment : Nat, adjustmentRevision : Nat,
           page : Screen, decided : Nat] \* history: the page, the content decided on
NoPatch == [status |-> "none", revision |-> 0]
Patch == {NoPatch} \cup [status : Returned, revision : Nat]

TypeOK ==
    /\ listing \in Listing
    /\ edits \in Seq(Edit)
    /\ adjustments \in Seq(Adjustment)
    /\ claim \in Claim
    /\ reviews \in Seq(Review)
    /\ screen \in [Moderators -> Screen]
    /\ patch \in Patch
    /\ written \in Nat

BlankScreen == [edit |-> None, listingRevision |-> 0, editRevision |-> 0,
                adjustment |-> None, adjustmentRevision |-> 0, content |-> 0]

\* The listing as its seller first submitted it.
Init ==
    /\ listing = [status |-> "PENDING_MODERATION", revision |-> 1, content |-> 1,
                  deactivated |-> FALSE, requested |-> FALSE]
    /\ edits = <<>>
    /\ adjustments = <<>>
    /\ claim = Unclaimed
    /\ reviews = <<>>
    /\ screen = [m \in Moderators |-> BlankScreen]
    /\ patch = NoPatch
    /\ written = 1

----------------------------------------------------------------------------

Latest(s) == s[Len(s)]

\* At most one edit revision is open and it is the newest (getOpenEditRevision).
EditIs(statuses) == edits # <<>> /\ Latest(edits).status \in statuses
EditPending == EditIs({"PENDING_MODERATION"})
EditOpen == EditIs(OpenEditStatuses)
SetEdit(edit) == edits' = [edits EXCEPT ![Len(edits)] = edit]

AdjustmentOpen == adjustments # <<>> /\ Latest(adjustments).status = "OPEN"
SetAdjustment(adjustment) ==
    adjustments' = [adjustments EXCEPT ![Len(adjustments)] = adjustment]

\* What is under review, as its seller submitted it.
SubmittedContent == IF EditPending THEN Latest(edits).data ELSE listing.content
PendingEdit == IF EditPending THEN Len(edits) ELSE None
PendingEditRevision == IF EditPending THEN Latest(edits).revision ELSE 0

UnderReview == listing.status = "PENDING_MODERATION" \/ EditPending

\* What a decision is about: the open adjustment, or the submission.
OpenAdjustment == IF AdjustmentOpen THEN Len(adjustments) ELSE None
AdjustmentRevision == IF AdjustmentOpen THEN Latest(adjustments).revision ELSE 0
ReviewedContent == IF AdjustmentOpen THEN Latest(adjustments).adjusted ELSE SubmittedContent

\* A content never seen before, written'.
NewContent == written < MaxContent /\ written' = written + 1

\* set ..., revision = revision + 1
Bumped(row) == [row EXCEPT !.revision = @ + 1]

----------------------------------------------------------------------------
(* Moderators: page, claim, adjustment *)

\* getModerationDetail.
LoadPage(m) ==
    /\ UnderReview
    /\ screen' = [screen EXCEPT ![m] =
         [edit |-> PendingEdit, listingRevision |-> listing.revision,
          editRevision |-> PendingEditRevision, adjustment |-> OpenAdjustment,
          adjustmentRevision |-> AdjustmentRevision, content |-> ReviewedContent]]
    /\ UNCHANGED <<listing, edits, adjustments, claim, reviews, patch, written>>

\* requireOwnedLiveClaim
Owns(m) == claim.live /\ claim.moderator = m

\* Mutant of ClaimListing: a live claim can be taken from its moderator.
StealClaim(m) ==
    /\ UnderReview
    /\ claim' = [moderator |-> m, live |-> TRUE]
    /\ UNCHANGED <<listing, edits, adjustments, reviews, screen, patch, written>>

\* A live claim is extended for its own moderator only; an expired one is released.
ClaimListing(m) ==
    /\ UnderReview
    /\ claim.live => claim.moderator = m
    /\ claim' = [moderator |-> m, live |-> TRUE]
    /\ UNCHANGED <<listing, edits, adjustments, reviews, screen, patch, written>>

ClaimExpires ==
    /\ claim.live
    /\ claim' = [claim EXCEPT !.live = FALSE]
    /\ UNCHANGED <<listing, edits, adjustments, reviews, screen, patch, written>>

\* resolveCurrentSubject: the page shows what is under review now.
SubjectIsCurrent(m) ==
    /\ UnderReview
    /\ screen[m].listingRevision = listing.revision
    /\ screen[m].edit = PendingEdit
    /\ screen[m].editRevision = PendingEditRevision

\* The first save freezes the submission and opens the adjustment.
OpenAdjustmentBy(m) ==
    /\ Len(adjustments) < MaxAdjustments
    /\ SubjectIsCurrent(m) /\ Owns(m)
    /\ screen[m].adjustment = None /\ ~AdjustmentOpen
    /\ NewContent
    /\ adjustments' = Append(adjustments,
         [edit |-> PendingEdit, listingRevision |-> listing.revision,
          editRevision |-> PendingEditRevision, submitted |-> SubmittedContent,
          adjusted |-> written', revision |-> 1, status |-> "OPEN"])
    /\ UNCHANGED <<listing, edits, claim, reviews, screen, patch>>

\* assertAdjustmentMatchesSubject
AddressesSubject(adjustment) ==
    /\ adjustment.edit = PendingEdit
    /\ adjustment.editRevision = PendingEditRevision
    /\ adjustment.listingRevision = listing.revision

\* Mutant of Saved: the working copy changes under the same counter.
SavedSilently(adjustment) == [adjustment EXCEPT !.adjusted = written']

\* updateAdjustmentWorkingState
Saved(adjustment) == Bumped([adjustment EXCEPT !.adjusted = written'])

SaveAdjustment(m) ==
    /\ SubjectIsCurrent(m) /\ Owns(m)
    /\ AdjustmentOpen /\ AddressesSubject(Latest(adjustments))
    /\ AdjustmentRevision < MaxCounter
    /\ screen[m].adjustmentRevision = AdjustmentRevision
    /\ NewContent
    /\ SetAdjustment(Saved(Latest(adjustments)))
    /\ UNCHANGED <<listing, edits, claim, reviews, screen, patch>>

Close(status) == SetAdjustment([Latest(adjustments) EXCEPT !.status = status])

\* The claim's owner discards whatever has the counter on the page.
DiscardAdjustment(m) ==
    /\ Owns(m)
    /\ AdjustmentOpen /\ screen[m].adjustmentRevision = AdjustmentRevision
    /\ Close("DISCARDED")
    /\ UNCHANGED <<listing, edits, claim, reviews, screen, patch, written>>

----------------------------------------------------------------------------
(* Decisions *)

\* The adjustment of the request: none on either side, or the open one's counter.
ExpectsAdjustment(m) ==
    /\ AdjustmentOpen => AddressesSubject(Latest(adjustments))
    /\ screen[m].adjustmentRevision = AdjustmentRevision

Record(m, decision) ==
    /\ Len(reviews) < MaxReviews
    /\ reviews' = Append(reviews,
         [moderator |-> m, decision |-> decision, edit |-> PendingEdit,
          editRevision |-> PendingEditRevision, listingRevision |-> listing.revision,
          adjustment |-> OpenAdjustment, adjustmentRevision |-> AdjustmentRevision,
          page |-> screen[m], decided |-> ReviewedContent])

\* Mutant of SettleAdjustment: a correction leaves the adjustment open.
KeepOnCorrection(decision) ==
    IF AdjustmentOpen /\ decision # "CORRECTION_REQUESTED"
       THEN Close(IF decision = "APPROVED" THEN "APPLIED" ELSE "DISCARDED")
       ELSE UNCHANGED adjustments

\* applyAdjustmentRow on approval, discardAdjustmentOnDecision otherwise.
SettleAdjustment(decision) ==
    IF AdjustmentOpen
       THEN Close(IF decision = "APPROVED" THEN "APPLIED" ELSE "DISCARDED")
       ELSE UNCHANGED adjustments

\* Mutant of ReleaseClaim: the claim outlives the decision.
KeepClaim == UNCHANGED claim

ReleaseClaim == claim' = Unclaimed

\* Mutant of Outcome: the name of the decision is stored as the status.
OutcomeAsDecision(decision, approved) ==
    IF decision = "APPROVED" THEN approved ELSE decision

\* Status an edit revision or a listing leaves moderation with.
Outcome(decision, approved) ==
    IF decision = "APPROVED" THEN approved
    ELSE IF decision = "REJECTED" THEN "REJECTED" ELSE "CORRECTION_REQUIRED"

\* Mutant of Applied: the approval copies the seller's data over the adjustment.
AppliedUnadjusted(row) == Bumped([row EXCEPT !.content = SubmittedContent])

\* applyApprovedEditContent, or applyAdjustmentOn...Approval with the adjusted content.
Applied(row) == Bumped([row EXCEPT !.content = ReviewedContent])

\* decide: only an adjusted approval writes content, under a new revision.
Decide(m, decision) ==
    /\ listing.status = "PENDING_MODERATION"
    /\ screen[m].edit = None /\ screen[m].listingRevision = listing.revision
    /\ Owns(m) /\ ExpectsAdjustment(m)
    /\ Record(m, decision)
    /\ LET decided == [listing EXCEPT !.status = Outcome(decision, "ACTIVE")] IN
          listing' = IF AdjustmentOpen /\ decision = "APPROVED" THEN Applied(decided)
                                                               ELSE decided
    /\ SettleAdjustment(decision)
    /\ ReleaseClaim
    /\ UNCHANGED <<edits, screen, patch, written>>

\* clearReactivationRequest
WithoutRequest(row) ==
    IF row.requested THEN Bumped([row EXCEPT !.requested = FALSE]) ELSE row

\* tryFinalizeSellerReactivation, for a row whose edit revision is closed.
Finalized(row) ==
    IF row.requested /\ row.deactivated /\ row.status = "ACTIVE"
       THEN Bumped([row EXCEPT !.requested = FALSE, !.deactivated = FALSE])
       ELSE row

\* decideEdit: names the edit by its counter, and never by its identity.
DecideEdit(m, decision) ==
    /\ EditPending
    /\ screen[m].edit # None /\ screen[m].editRevision = PendingEditRevision
    /\ Owns(m) /\ ExpectsAdjustment(m)
    /\ Record(m, decision)
    /\ SetEdit([Latest(edits) EXCEPT !.status = Outcome(decision, "APPROVED")])
    /\ listing' = IF decision = "APPROVED" THEN Finalized(Applied(listing))
                  ELSE IF decision = "REJECTED" THEN WithoutRequest(listing) ELSE listing
    /\ SettleAdjustment(decision)
    /\ ReleaseClaim
    /\ UNCHANGED <<screen, patch, written>>

----------------------------------------------------------------------------
(* The seller *)

BelowRevision == listing.revision < MaxRevision

\* updateDraft reads the row and resolves the fields before its transaction.
BeginPatch ==
    /\ patch = NoPatch
    /\ listing.status \in Returned /\ BelowRevision
    /\ patch' = [status |-> listing.status, revision |-> listing.revision]
    /\ UNCHANGED <<listing, edits, adjustments, claim, reviews, screen, written>>

\* A PATCH without columns of its own writes the status it read.
WritePatch(columns) ==
    /\ patch # NoPatch
    /\ listing.status \in Returned /\ listing.revision = patch.revision
    /\ NewContent
    /\ listing' = Bumped([listing EXCEPT !.content = written',
                                         !.status = IF columns THEN @ ELSE patch.status])
    /\ patch' = NoPatch
    /\ UNCHANGED <<edits, adjustments, claim, reviews, screen>>

\* updateDraftListing matched no row, or the request was given up.
DropPatch ==
    /\ patch # NoPatch
    /\ patch' = NoPatch
    /\ UNCHANGED <<listing, edits, adjustments, claim, reviews, screen, written>>

ResubmitListing ==
    /\ listing.status \in Returned
    /\ listing' = [listing EXCEPT !.status = "PENDING_MODERATION"]
    /\ UNCHANGED <<edits, adjustments, claim, reviews, screen, patch, written>>

\* getOrCreateEditRevision: a snapshot of the public content.
OpenEdit ==
    /\ listing.status = "ACTIVE"
    /\ ~EditOpen /\ Len(edits) < MaxEdits
    /\ edits' = Append(edits, [status |-> "EDIT_DRAFT", revision |-> 1,
                               data |-> listing.content])
    /\ UNCHANGED <<listing, adjustments, claim, reviews, screen, patch, written>>

\* Mutant of EditableStatuses: a rejected edit is editable, as a rejected listing is.
EditableAfterRejection == {"EDIT_DRAFT", "CORRECTION_REQUIRED", "REJECTED"}

EditableStatuses == {"EDIT_DRAFT", "CORRECTION_REQUIRED"}

\* updateEditRevision and the staged-image operations.
UpdateEdit ==
    /\ EditIs(EditableStatuses) /\ Latest(edits).revision < MaxCounter
    /\ NewContent
    /\ SetEdit(Bumped([Latest(edits) EXCEPT !.data = written']))
    /\ UNCHANGED <<listing, adjustments, claim, reviews, screen, patch>>

\* activate: "send and activate" records a reactivation request with the edit.
SubmitEdit(activate) ==
    /\ EditIs(EditableStatuses)
    /\ listing.status = "ACTIVE"
    /\ SetEdit([Latest(edits) EXCEPT !.status = "PENDING_MODERATION"])
    /\ IF activate /\ listing.deactivated /\ ~listing.requested
          THEN BelowRevision /\ listing' = Bumped([listing EXCEPT !.requested = TRUE])
          ELSE UNCHANGED listing
    /\ UNCHANGED <<adjustments, claim, reviews, screen, patch, written>>

CancelEdit ==
    /\ EditIs(EditableStatuses)
    /\ SetEdit(Bumped([Latest(edits) EXCEPT !.status = "CANCELLED"]))
    /\ listing' = WithoutRequest(listing)
    /\ UNCHANGED <<adjustments, claim, reviews, screen, patch, written>>

DeactivateListing ==
    /\ BelowRevision
    /\ listing.status = "ACTIVE" /\ ~listing.deactivated
    /\ listing' = Bumped([listing EXCEPT !.deactivated = TRUE, !.requested = FALSE])
    /\ UNCHANGED <<edits, adjustments, claim, reviews, screen, patch, written>>

\* Records the request; without an open edit the listing is shown again at once.
ReactivateListing ==
    /\ BelowRevision
    /\ listing.deactivated /\ ~EditIs({"EDIT_DRAFT"})
    /\ LET asked == Bumped([listing EXCEPT !.requested = TRUE])
       IN  listing' = IF EditOpen THEN asked ELSE Finalized(asked)
    /\ UNCHANGED <<edits, adjustments, claim, reviews, screen, patch, written>>

----------------------------------------------------------------------------

Moderator(m) ==
    \/ LoadPage(m)
    \/ ClaimListing(m)
    \/ OpenAdjustmentBy(m)
    \/ SaveAdjustment(m)
    \/ DiscardAdjustment(m)
    \/ \E decision \in Decisions : Decide(m, decision) \/ DecideEdit(m, decision)

Seller ==
    \/ BeginPatch
    \/ \E columns \in BOOLEAN : WritePatch(columns)
    \/ DropPatch
    \/ ResubmitListing
    \/ OpenEdit
    \/ UpdateEdit
    \/ \E activate \in BOOLEAN : SubmitEdit(activate)
    \/ CancelEdit
    \/ DeactivateListing
    \/ ReactivateListing

Next == ClaimExpires \/ Seller \/ \E m \in Moderators : Moderator(m)

Spec == Init /\ [][Next]_vars

----------------------------------------------------------------------------
(* Safety *)

\* An open adjustment belongs to the pass under review and freezes what its
\* seller submitted for it: it never attaches to a later pass, and the evidence
\* never differs from the submission (moderation-adjustments.ts).
AdjustmentOfThisPass ==
    AdjustmentOpen =>
        LET open == Latest(adjustments) IN
           /\ UnderReview
           /\ open.edit = PendingEdit /\ open.editRevision = PendingEditRevision
           /\ open.submitted = SubmittedContent
           /\ open.edit = None => open.listingRevision = listing.revision

\* A decision about the edit revision and the adjustment of the moderator's page
\* is a decision about the content of that page, however old the page is (the
\* three counters of decide and decideEdit).
DecidedAsShown ==
    \A i \in DOMAIN reviews :
        LET review == reviews[i] IN
           review.page.edit = review.edit /\ review.page.adjustment = review.adjustment
              => review.page.content = review.decided

\* What a review names: the adjustment, else the edit, else the submission itself.
Named(review) ==
    IF review.adjustment # None THEN adjustments[review.adjustment].adjusted
    ELSE IF review.edit # None THEN edits[review.edit].data
    ELSE review.decided

\* What is public is what the last approval names, still stored unchanged
\* (applyApprovedEditContent and the terminal rows it copies from).
PublicIsApproved ==
    listing.status = "ACTIVE" =>
        \E i \in DOMAIN reviews :
            /\ reviews[i].decision = "APPROVED"
            /\ \A j \in DOMAIN reviews : j > i => reviews[j].decision # "APPROVED"
            /\ Named(reviews[i]) = listing.content

\* An edit that left moderation for good was decided once, as its review says
\* and under the counter it still has; an adjustment named by a review is at the
\* version reviewed, applied by an approval and discarded by the rest.
Final(review) == review.decision \in {"APPROVED", "REJECTED"}

OutcomesAreReviewed ==
    /\ \A i \in DOMAIN reviews :
         LET review == reviews[i] IN
            /\ review.adjustment # None =>
                 /\ adjustments[review.adjustment].revision = review.adjustmentRevision
                 /\ adjustments[review.adjustment].status =
                      IF review.decision = "APPROVED" THEN "APPLIED" ELSE "DISCARDED"
            /\ review.edit # None /\ Final(review) =>
                 /\ edits[review.edit].status = review.decision
                 /\ edits[review.edit].revision = review.editRevision
                 /\ \A j \in DOMAIN reviews : j > i => reviews[j].edit # review.edit
    /\ \A e \in DOMAIN edits :
         edits[e].status \in {"APPROVED", "REJECTED"} =>
            \E i \in DOMAIN reviews : reviews[i].edit = e /\ Final(reviews[i])

\* A claim never outlives the pass it was made for, so it never covers a
\* decision about a later one (releaseClaim at the end of every decision).
ClaimOfThisPass == claim # Unclaimed => UnderReview

\* A live claim keeps its listing to its moderator: it ends by expiring or by
\* its moderator's decision, and nobody else decides meanwhile (claimListing,
\* requireOwnedLiveClaim).
ClaimIsExclusive ==
    [][claim.live =>
          /\ reviews' # reviews => Latest(reviews').moderator = claim.moderator
          /\ IF claim' = Unclaimed THEN reviews' # reviews
                                  ELSE claim'.moderator = claim.moderator]_vars

----------------------------------------------------------------------------
(* Statements of the repository the code does not keep *)

\* repositories/listing-edit-revisions.ts: "the reviewed content is exactly what
\* was decided"; moderation.ts: a newer save "blocks a stale decision".
ReviewedIsDecided ==
    \A i \in DOMAIN reviews : reviews[i].page.content = reviews[i].decided

\* listing-drafts.ts: the PATCH without columns writes a "no-op column", so a
\* returned listing has the status its moderator gave it.
ReturnedAsDecided ==
    listing.status \in Returned =>
        reviews # <<>> /\ listing.status = Outcome(Latest(reviews).decision, "ACTIVE")

=============================================================================
