# AVTOSH.AZ in TLA+

A verification development of the core of AVTOSH.AZ: the services, repositories
and scheduled jobs of a vehicle marketplace (`src/src/services`,
`src/src/repositories`, `src/src/providers`, `src/supabase/migrations`).  The
modules model its protocols, TLC checks them on small instances, and TLAPS
proves the most important results for every value of the constants.
`PROJECT.json` is the index: components, runs, mutants, the map from definitions
to source lines, findings, hazards and theorems.

## The system

A Next.js application over one PostgreSQL database.  Every state change is a
service function that runs one or more transactions (`withTransaction`, READ
COMMITTED) and takes explicit row locks; requests, callbacks of the bank and
cron jobs run concurrently in any number of processes that share nothing but
the database.  Calls of the bank, the message provider and the object storage
are made outside transactions.

| Component | State | Operations | Interacts with |
| --- | --- | --- | --- |
| Provider checkout and settlement (`services/payment-checkout.ts`) | `payments`, `payment_provider_attempts` | checkout in three phases, verification, callback, reconciliation, fulfilment | the bank; listing, promotion and renewal fulfilment |
| Promotion purchases (`promotion-purchases.ts`, `repositories/promotions.ts`) | the open intent of a listing and type, `listing_promotions` | buy, replace an intent, grant a period, housekeeping | payment core |
| Renewals (`renewals.ts`) | the open renewal intent, `listing_periods` | checkout, fulfilment | payment core, lifecycle |
| Listing lifecycle (`listing-lifecycle.ts`) | `seller_deactivated_at`, `seller_reactivation_requested_at` | deactivate, reactivate, finalize, open and cancel an edit | moderation, renewal |
| Edit revisions (`listing-edit.ts`) | `listing_edit_revisions` with its own counter, staged images | create, update, submit, cancel | lifecycle, moderation of edits |
| Moderation (`moderation.ts`, `moderation-edit.ts`, `moderation-adjustments.ts`) | `listings.status`, claims, reviews, adjustments | claim, decide, suspend; save, discard, apply an adjustment | lifecycle, campaign |
| Submission and quota (`listing-submission.ts`) | `listing_publications` | submit, resubmit | payment core, moderation |
| Jobs (`lifecycle-jobs.ts`) | `notifications`, `outbox_events` | expire, schedule and send reminders, promotion housekeeping, image cleanup, reconciliation | every other |
| Administration (`admin.ts`) | settings, users, roles, packages | unsuspend, block, change roles and settings | lifecycle |
| Premium campaign (`premium-campaign.ts`, `scripts/campaign/premium-campaign.mts`) | `premium_campaigns`, granted `listing_promotions` | open, enroll on approval, backfill, stop | moderation, promotions |
| Drafts and images (`listing-drafts.ts`, `listing-images.ts`, `listing-edit-images.ts`) | drafts, uploads, galleries | create, patch, upload, finalize, remove | cleanup |
| Guest drafts (`guest-drafts.ts`, `guest-draft-cleanup.ts`) | guest sessions, drafts, cleanup events | start, condemn, clean up | drafts, storage |
| Listing editor in the browser (`components/seller/use-listing-editor.ts`, `photos-step.tsx`, `axin/axin-flow.tsx`) | pending edits, a promise chain, photo tiles, the known revision | autosave, flush, upload, submit, conflict, reload | drafts and images, submission |
| Authentication (`auth.ts`) | challenges, sessions, users | request, resend, verify, revoke | every other |
| Reads (`marketplace.ts`, `catalog.ts`, `my-listings.ts`, `favorites.ts`, `reports.ts`) | none of their own, or single rows | queries, single statements | lifecycle's visibility condition |

What is hard in it: claims and leases around a call that cannot be rolled back
(the order at the bank); what is read before such a call and used after it;
callbacks, buttons and jobs that settle the same payment; crashes between the
phases; partial unique indexes and conditional updates as the arbiters of
races; counters that identify what a moderator looked at; several actors who
hide and show one listing; jobs with leases and retries.

What makes each component correct: one purchase is charged and fulfilled once
and never lost; a listing is visible only while it is approved, valid and
wanted by its seller, and paid time is neither lost nor sold twice; a decision
applies to what the moderator saw; the quota is not exceeded; a promotion adds
its full duration; a reminder is sent at most once per identity and not for a
superseded period; a referenced image is never deleted; a code opens at most
one session.

## Modules

| Module | Models |
| --- | --- |
| `PaymentCheckout` | the checkout and settlement core with the open-intent rules, the bank and the buyer |
| `PurchaseLedger` | what the core promises of a purchase, without attempts, claims or verifiers |
| `PaymentCheckoutLedger` | the refinement mapping from the core to the ledger |
| `MCPaymentCheckout` | instances for TLC: slots of the unique index, symmetry |
| `ListingLifecycle` | one listing: moderation status, validity and periods, deactivation and reactivation, the open edit, renewal, suspension |
| `ListingValidity` | what the rest of the system may rely on about one listing's validity: published status, expiry, periods |
| `ListingLifecycle_proofs` | the theorems about `ListingLifecycle`, with the refinement of `ListingValidity` |
| `ExpiryReminders` | the reminders of one listing: scheduling, claims of overlapping runs, the provider, retries, deferrals, faults; composed with `ListingValidity` |
| `ExpiryReminders_proofs` | its theorems |
| `ModerationReview` | the review of one listing and its edits: pages, claims, adjustments, decisions and the counters that identify them, against a seller who corrects, resubmits, edits, hides and shows |
| `MCModerationReview` | instances for TLC: symmetry |
| `ModerationReview_proofs` | its theorems |
| `Submission` | the submissions, resubmissions, uploads and patches of one seller with their row locks; publication numbers, quota and fee |
| `CheckoutAndSubmission_proofs` | the theorems about `PaymentCheckout`, with the refinement of `PurchaseLedger`, and about `Submission`: the two protocols of a publication fee |
| `PremiumPeriods` | the PREMIUM periods of one listing: paid fulfilments, campaign grants with the campaign's life, housekeeping; the time and the locks of each transaction |
| `PremiumPeriods_proofs` | its theorems |
| `DraftImages` | the images of one unpublished listing: uploads, concurrent confirmations, storage, submission, and the cleanup of an expired guest draft |
| `ImageLife` | what the draft flow promises of one stored object: stored once, named at most once, let go once, removed only while unnamed |
| `StagedImages` | the staged galleries of a published listing's edits, the moderator's image plan, approval, and the cleanup worker that deletes unreferenced objects |
| `DraftImages_proofs`, `StagedImages_proofs` | their theorems, with the refinement of `ImageLife` by the drafts |
| `ListingEditor` | the editor of one browser tab: its promise chain, autosave, photo tiles, buttons, conflict and reload |
| `ListingEditor_proofs` | its theorems |
| `MCSubmission`, `MCPremiumPeriods`, `MCDraftImages`, `MCStagedImages`, `MCListingEditor` | instances for TLC: symmetry |

The `MC` modules hold the definitions that only TLC needs; the other configurations use their modules directly.  `ListingLifecycle` implements `ListingValidity`
(`ImplementsValidity`, proved as `LifecycleImplementsValidity`), which is why
`ExpiryReminders` can be composed with the small module instead of the large
one: what holds for every behaviour of the abstract listing holds for the real one.

### PaymentCheckout and the code

A row of `payments` is an element of `Payments` with its `status`; a row of
`payment_provider_attempts` is an element of `Attempts`.  An attempt row is
inserted by one request, which makes at most one `POST /order`, so the same
element names the request (`initiator`) and the order at the bank (`order`).
`hasOrder` stands for the three columns `reuseUrl` looks at, `terminal` and
`succeeded` for the columns of the same meaning, `aged` for a `created_at`
older than the lease.  `handedOut` is outside the database: some browser has
the order's payment page.

`runProviderCheckout` becomes, phase by phase: `ClaimInitiation`,
`RecoverStaleClaim`, `ReuseCheckout` or `WaitForInitiator` (phase 1, one
transaction under the payment row's lock); `PollFindsOrder` and `PollGivesUp`
(the wait loop); `ProviderCreatesOrder` and `ReleaseClaim` (phase 2, the call
without locks; the answer may be lost after the order was created);
`PersistOrder` and `PersistOrderConflicts` (phase 3).  `CrashInitiator` is the
death of the process anywhere in between.  `verifyProviderPayment` becomes
`StartVerification`, `ProviderAnswers` and one of `SettlePaid`,
`SettleRefunded`, `SettleNothing` (the transaction with its replay checks), or
`VerificationFails`.  Callbacks, the buyer's "check again" and the
reconciliation job are all verifiers.  `BuyerPays`, `OrderLapses` and
`BankRefunds` are the bank, modelled from how the code reads its answers;
"Declined", "Cancelled" and "Expired" are one state because the code treats
them alike.  Amounts are equal to the intent's (`FullyPaid`) or not
(`PaidOther`).  `Scanned` is `listStalePendingPayments`: the `ScanLimit` oldest
PENDING payments in the order `CreatedAt`, always from the first.  The order of
creation is fixed and arbitrary, whatever order the intents reach the bank in.
It matters for fairness only; as a step, any verifier may verify any payment.

`Timely` states what the configuration of the provider client gives: its
timeout is capped at 60 seconds (`lib/config/kapital.ts`), below the lease of
120, so a request that is alive ends phases 2 and 3 within its lease.  The code
does not enforce it: phase 3 never asks whether its claim is still its own, and
without `Timely` the order of an abandoned claim can reach a browser.

### ListingLifecycle and the code

Each handler is one transaction that locks the listing row first, so each is
one action.  `status`, `expiresAt`, `deactivated`, `requested` are columns of
`listings`; `periods` are its `listing_periods` in order; `edit` is the status
of its open edit revision (a partial unique index allows one); `renewal` is
its open RENEWAL payment, whose own life is PaymentCheckout's; `now` is a clock
in days.  `intent` is a history variable: what the seller said last about a
hidden listing.  `Finalize` is `tryFinalizeSellerReactivation`, evaluated on
the rows as the caller's transaction leaves them, as in the code.  Handlers
that refuse (a stale revision, a wrong status) change nothing and have no
action.  The clocks of the application and of the database are one, and a
handler is instantaneous.

### ExpiryReminders and the code

`rows` are the notifications of one listing, indexed by what their dedupe key
identifies: the number of a period and an offset.  A worker is one run of
`runExpiryReminders`; every statement of a run commits on its own, so each is an
action, and the call of the provider (`SendTemplate`) lies between two of them.
`step`, `at` and `batch` are the local variables of the run: the claimed rows
with the `attempt_count` the claim returned, which is what the retry decision
reads, and the verdict or answer for the row at hand.  `held` is a
`next_retry_at` that lies ahead and `lapsed` an `updated_at` older than the
lease: one statement makes the row so, `HoldEnds` and `LeaseLapses` are the
passing of that time.  A FAILED row carries its error code in `status`.

`ScheduleExpiryReminders` is the insert of every missing row of the current
period; `ClaimDueNotifications` the claim of the oldest due rows with FOR UPDATE
SKIP LOCKED; `CheckEligibility` the read of listing and period; `MarkNotification`
marks SENT, CANCELLED or deferred, `MarkNotificationFailed` and
`ScheduleNotificationRetry` end an attempt that failed, all guarded by
PROCESSING.  `StatementFails` is the catch that treats an error of any of these
like a transient answer of the provider, including the error of a mark that was
applied and whose answer was lost; `FinalizationFails` is an error inside that
catch; `Crash` the end of the process.  `failures` and `delivered` are history.

`Timely` states that a run ends before the 15-minute lease and the 5-minute
backoff of the rows it holds: the job is a serverless function whose duration
the platform limits to minutes.  The code does not enforce it.  Time is counted
in days; the rounding of sending times to the morning is abstracted, so a
sending time comes exactly `offset` days before the end.

### ModerationReview and the code

`listing` holds the columns of the listing's row that a review reads or writes,
`edits` and `adjustments` its `listing_edit_revisions` and
`moderation_adjustments` with their own `revision` counters, oldest first
(partial unique indexes allow one open row of each, always the newest); `claim`
is the unreleased row of `moderation_claims`; `reviews` are the rows of
`moderation_reviews`, with the page and the content of the decision as history.
Content is a number, and equal numbers are equal content: images, validation and
field whitelists are inside it.

`screen[m]` is the page a moderator loaded last, at any time before.  A request
carries that page's counters, which is all the handlers learn of it.  Loading is
one read although the code issues several statements: each row is read whole with
its own counter, and that counter is what a decision compares again.  `patch` is
a PATCH of `updateDraft` between the read of the row and its transaction, the
one handler that computes what it writes before it takes the lock.  Every other
handler (`claimListing`, the operations on adjustments, `decide`, `decideEdit`,
the seller's) is one transaction under the listing's row lock, hence one action.
A seller's own page is abstracted: a seller may do at any time what the current
state allows.  Retries of what was already done, and refused calls, change
nothing and have no action.  The listing is neither suspended nor expired;
`ListingLifecycle` has both.

### Submission and the code

A request is one transaction of the seller, from any tab: `submit`
(`submitListing`), `resubmit` (`resubmitListing`), `authorize`
(`createUploadAuthorizationFor`) or `patch` (`updateDraft`).  What it read before its locks
(the setting, the status and the revision of the listing) is in its record.  The
row locks are taken one by one: `LockUserRow`, then `LockListingRow` in a
submission; the listing first in the other two, and the key of the user's row
when they insert a row that refers to it (`InsertReference`: PostgreSQL shares
the key of the referenced row, which waits for a `FOR UPDATE`).  `Allocate` is
`nextPublicationNumber`, `InsertPublication` the insert, the fee intent, the
transition and the commit; a taken number ends in `refused`.  A patch writes the
status it read when it names no column of the listing (`PatchDraft`).  The fee's
settlement, the moderator's decision and the administrator's setting are single
actions that wait for the listing's lock.  `top` and `publication[l].revision`
are history.

### PremiumPeriods and the code

A transaction is a paid fulfilment, the moderator's approval or a run of the
campaign script for this listing.  `begun[t]` is its SQL `now()`, which stays
behind the clock while it waits for a lock; a paid period is computed from it, a
grant from `clock_timestamp()`.  `listing` and `expires` are what a reader of the
listing sees: the flags move under its lock (`HideListing`, `ShowListing`,
`RenewListing`), the validity ends by the clock alone.  `PickListing` is the batch
the run reads, `BeginGrant` the transaction of one listing of it, and `Still` the
check under the lock, which compares `expires` with `begun[r]` and not with the
clock: a validity that ends while the run waits is not noticed.  `Insert` is the insert with its base, the
greatest of that instant and the latest live end, and with the exclusion
constraint on overlapping live rows (`refused`).  `LockListing` and
`LockCampaign` are the two locks, taken in opposite orders by the approval
(listing, then campaign) and the backfill (campaign, then listing); the
campaign's is shared, so the two agree, and only the stop waits for every
sharer.  A transaction may fail anywhere (`Rollback`), after which a payment is
verified again and a run started again.  `period[t].written` is history.

### DraftImages and the code

`upload` and `image` are the rows of `listing_image_uploads` and
`listing_images`; `temps` and `objects` the objects of the two storage buckets.
A confirmation (`confirmUploadFor`) is a request that goes through `ReadUpload`,
`FetchBytes`, `StoreObject` and its transaction, with a process that may die
between any two of them; its final object has a path of its own, so the
confirmation names it.  `dropping` is what a request still has to delete after
its commit.  The guest cleanup is `CondemnExpiredGuestListing` (phase 1: the row
goes, an event remembers the objects) and the claims, sweeps and fenced marks of
overlapping workers; `work[w].claim` is the `attempt_count` of a claim, which
fences its marks.

`PhaseOf` maps an object to its phase in `ImageLife`: an image names it, or its
confirmation may still name it (`loose`) or not (`dropped`), and likewise for one
that is not there.  A named object that is missing has no phase there, so the
refinement contains `ImageHasItsObject`.  Insertion is `Name`, a deletion and the
condemnation of a draft are `Release` of one or of all named objects, and every
removal, by a compensation, after a commit or by the cleanup, is `Remove`.

### StagedImages and the code

`gallery` is the public one, `staged` the rows of every edit revision, which stay
as history after a cancellation as they do in the database; `plan` what the open
adjustment keeps, `frozen` the paths in the `submitted_images` of any adjustment.
The object of an upload has the upload's name whichever confirmation stored it
(`listings/<uploadId>.webp`), which is the difference to the draft flow.
`Referenced` is `isImagePathReferenced`; `CheckCandidate` and `DeleteCandidate`
are the two statements of `runImageCleanup` for a path.  `GraceEnds` states what
a grace of a day gives: it outlives the signed URLs and the requests that were
alive when the event was written.

### ListingEditor and the code

`chain` is `chainRef`, the queue of promises; `call` the request of the
operation in front; `pending`, `frozen`, `timer` and `waiting` are `pendingRef`,
`conflictRef`, the debounce timer and `flushResolversRef`.  An operation is a
`drain` (save what is pending), a `settle` (the flush that finds nothing
pending), a photo's `confirm`, another `image` operation or the `submit`.  A
handler runs to its next await in one action, and `Quiet` lets what a settled
promise starts run before the next event of the browser.  An edit is a number,
the n-th the seller made, so that "newer" means something; `accepted`, `told`
and `typed` are the history that the properties compare.  `OtherTab` is another
tab of the same seller, the only other writer of a draft.

## Runs

| Run | Shows |
| --- | --- |
| `payment_safety` | two promotion intents in one slot, three attempts, two verifiers: one payable order per intent, exactly one fulfilment, no money out of sight, no abandoned order in a browser; the core implements the ledger |
| `payment_liveness` | two intents and a scan that reads one of them: a paid order is settled unless older unpaid ones fill the scan for ever; a dead claim is released (16,012 states) |
| `lifecycle_safety` | one listing through up to four periods: periods disjoint, visible means covered by a live period, a fulfilled renewal makes the listing visible, except one taken down whose edit is open or took the request back, requests are standing; it implements `ListingValidity` |
| `reminders` | two overlapping runs over the two reminders of a period, with a suspension, a renewal and one fault: nothing in force is cancelled, duplicates and exhausted budgets are owed to errors or faults, due rows are settled |
| `moderation` | two moderators and a seller through a submission, corrections, an edit and two adjustments: claims are exclusive, an adjustment belongs to the pass it froze, a decision applies to the page's content when the page names the same edit and adjustment, what is public was approved, statuses are what was decided |
| `submission` | three requests over two listings: numbers without a gap or a refusal, free publications within the limit whatever limit was read, nothing reviewed unpaid, nothing changed between submission and decision (1,146,334 states) |
| `premium_periods` | two paid promotions, an approval and a backfill around the window and the stop: no instant sold twice, no constraint violated, grants inside the window, by a run only to a listing nobody hid and that was valid when its transaction began, none after the stop (6,207,100 states) |
| `draft_images` | two uploads, two confirmations, two cleanup workers and a fault: every object lives the life of `ImageLife`, so that an image always has its object, every other object is explained, rows agree, a late worker disturbs nobody (327,527 states) |
| `staged_images` | two edits, one upload confirmed twice, two workers and a fault: cleanup deletes nothing referenced, every path that is let go is announced, one run per event (1,058,862 states) |
| `listing_editor` | two fields, a photo, two reloads, two buttons and a fault: a conflict is somebody else's, nothing typed is forgotten, nothing is sent before what was typed (2,987,723 states) |
| `public_images` | violated: storage objects shared with the approved gallery are never deletable |
| `unsaved_edit` | violated: advancing never implies that unsaved data was stored |

The violated statements are quoted from the repository in `PROJECT.json`
"findings".  In short:

- The compensation of a refused confirmation of an edit upload deletes the path
  every confirmation of that upload shares.  When another confirmation staged the
  image and the edit was submitted and approved meanwhile, the object is the
  public gallery's.  The draft flow has one path per confirmation.
- `sendPending` empties `pendingRef` before the request and does not put the
  fields back when it fails.  The next flush finds nothing pending and answers
  that everything is saved; Continue goes on.

### Disagreements without a run

These were met while modelling.  Each has a configuration that is kept beside the
modules and can be run by hand; TLC finds the statement violated.

| Configuration | Statement the code does not keep |
| --- | --- |
| `PaymentCheckout_cancelled` | CANCELLED is final: `markPaymentPending` overwrites any status, so a promotion intent replaced while its order was being created can come back to PENDING after its successor was settled.  No money is lost by it (`ExactlyOnceFulfillment` and the ledger's `Reopen` account for it) |
| `PaymentCheckout_starved` | "Reconciliation keeps re-checking pending payments" (`docs/architecture/kapital-bank-payments.md:261`): the scan reads the oldest PENDING payments, and orders that ended unpaid stay PENDING, so a paid payment behind as many of them as the scan reads is never re-checked (`PaidIsAlwaysSettled`) |
| `PaymentCheckout_lapsed` | an order that ended unpaid can be retried: its attempt stays active and the buyer is sent to the same dead page |
| `ListingLifecycle_stranded` | a request waits only for an edit: lifting a suspension does not call the finalizer |
| `ListingLifecycle_repeated` | the last deactivation wins: deactivating a deactivated listing does not clear the request |
| `ExpiryReminders_stale` | a stale "expires in N days" is never sent: eligibility never asks whether the reminder's own day has passed |
| `ModerationReview_stale` | a newer save blocks a stale decision: the counters of a new adjustment or edit start at 1 again |
| `ModerationReview_patch` | a PATCH of features alone is a no-op on the listing's columns: it writes back the status it read (`listing-drafts.ts:198`), which undoes a decision made meanwhile |
| `PremiumPeriods_lapsed` | every grant transaction is "re-checking listing eligibility under lock" (`premium-campaign.mts:37`): it compares `current_expires_at` with `now()`, which stands still since its transaction began, so a listing whose validity ended during the wait is granted a period (`GrantsReachTheValid`) |
| `Submission_deadlock` | "Image/draft flows lock only the listing row, so no cycle" (`listing-submission.ts:44`): the insert of an upload, and of a status history row in a resubmission, shares the key of the user's row that a submission of the same listing has locked.  PostgreSQL breaks the cycle by failing one of the two |

Four more were seen and are not stated: `flush` "resolves once the queue is
idle", but a flush queued behind an operation that meets a conflict is never
answered (`FlushEnds` in `ListingEditor`); two clicks on "reload" can leave the
older answer in place, and the next save conflicts with the tab itself (the
reason `ConflictIsForeign` counts the second reload as unseen); the status a
patch writes back also turns a returned, published listing into a DRAFT that
`Submittable` refuses for ever; and `runUpload` removes a tile when the queue
answers null after a conflict, without the confirmation.

### Bounds

Two payments give two intents of one slot, the smallest number with a
replacement and a reopened intent; three attempts give a claim, its recovery
and a third claim after it; two verifiers give a late settlement after another
one.  Three attempts and two verifiers are symmetric; symmetry is used only in
the safety run.  Fair runs take two independent intents, two attempts and one
verifier without symmetry, and a scan of one payment: the older of the two is in the
way of the younger one, as 50 are of the next in the code.  The listing's clock stops at `MaxTime` 9 with
`Validity` 3 and `RenewalDuration` 2, which gives an approval and three
renewals, the last one while the clock is still running, and every suspension
and edit in between.  Reminders take two runs, the offsets 1 and 2 inside a
validity and horizon of 3, batches of two rows, a budget of two attempts and one
fault: two reminders of one period due at once or one after the other, a batch
with a second row waiting, the last attempt of a budget, a crash before or after
the message left.  The review takes two symmetric moderators, three contents, one
edit, two adjustments, three decisions and counters up to 3 (listing) and 2: a
submission returned, corrected and approved, an edit after it, an adjustment that
is replaced or saved twice, and a page that is older than each of these.
`ModerationReview_stale` takes a second edit, so that the reuse of an edit's
counter is possible too.

Submissions take two listings, three requests and the limits 0 and 1: two
simultaneous submissions with a third request beside them, the last free
publication and the first paid one, a limit that changes after it was read.
Periods take two payments, one run, a window of two days inside a clock of four, a
validity of two days, a paid day and a grant of two, and one failure: two queued periods, a grant before,
between and after them, a window, a
stop and the end of the listing's validity that pass while a transaction waits.
Draft images take two uploads for two confirmations, so that both confirm one
upload or each its own, a gallery of two, two cleanup claims and one fault.  Staged
images take one original and one upload, two confirmations of it, two edits (the
second one starts from what the first one published), two events and one fault.
The editor takes two fields and two edits of them, one photo, two reloads, one
failure and two pressed buttons: an edit while an earlier one is being sent, a
flush behind a photo, a failed save before Continue, a reload that is late.

`CHECK_DEADLOCK FALSE`: attempt and request identifiers are never reused, clocks
stop and revisions, edits and faults are bounded, so a bounded instance ends; the
system itself has no final state.

### Fairness

`payment_liveness` assumes what the cron schedule gives: reconciliation scans the
oldest PENDING payments every five minutes for ever, so a payment that stays among
the `ScanLimit` oldest is read again and again (strong fairness of `Reconcile`,
which is enabled for a scanned payment only, of the bank's answer and of the
settlement: each may fail any number of times, not always); leases
elapse; buyers retry a checkout that gave no payment page; an initiator ends one
way or another.  It does not assume that a buyer pays, that the bank refunds,
that a callback arrives or that a request survives.  Nothing is
assumed of a payment behind the scan: nobody may ever verify it.  So `PaidIsSettled`
excepts the payment that older ones, none of them paid, crowd out for ever
(`CrowdedOut`), which the code allows because an order that ended unpaid leaves its
payment PENDING; `PaymentCheckout_starved` shows it.  Older payments that are paid
settle and make room.  A verification that throws ends its batch in the code; strong
fairness then asks that the payments before a given one do not throw in every run.

`reminders` assumes that the cron starts runs for ever and that a run which does
not crash goes on (weak fairness of each run), and that holds and leases end.
Nothing is assumed of the provider, which may refuse for ever, of scheduling, of
the listing or of time; `DueAreSettled` therefore excludes only a listing that
is suspended, whose due reminders are deferred again and again.

`ModerationReview` and the modules of submission, periods, images and the editor
have no fairness: their properties are safety properties, and no moderator, seller,
bank or job has to act.

## Proofs

`CheckoutAndSubmission_proofs` is about the two protocols a publication fee goes
through, which share neither state nor names (hence `SubmissionSpec` and the like).
Of the checkout it proves type correctness and, assuming `Timely`, every safety
property of `payment_safety`, and `NothingPayableDiscarded` and `SettledIsFinal`,
which are proved and not run.  None of them is inductive.  The
inductive invariant `IInv` adds what the argument needs: nothing is known of an
attempt nobody inserted (`UnbornInv`); the claim of a live
request is unfilled and younger than its lease, which is where `Timely` is used
(`ClaimInv`); a payment has at most one active attempt and one stored order
(`OneActiveInv`, `OneOrderInv`); only a
stored order reaches a browser and is paid (`OrderInv`); the payment's status
tells which attempts it can have (`StatusInv`: an unfilled claim only under
CREATED or CANCELLED, a stored unsettled order only under PENDING, a terminal
one only under SUCCESS or REFUNDED); a success was fulfilled once
(`SuccessInv`); and what a verifier has seen is still true when it settles
(`VerifierInv`).  The proof that a step preserves it has one case per action.

It also proves that the core implements `PurchaseLedger`: the initial state maps to
the initial state, and, under `IInv`, each action to one step of the ledger or a
stutter.

Its second part, with `SubmissionInv`, proves every property of `submission` for any number of
listings and requests, any set of limits and any bound.  The type of a row depends
on the numbers (`NextNumber` is the maximum plus one only because there is no
gap), so one invariant carries everything.  `LockInv` says which row a request
holds at which step; from it follows that only one request can have a number that
is not inserted yet, and that a listing is as its holder found it (`FoundInv`).
`ListingInv` is the argument for the fee and the revision: an unpublished listing
is a draft, a reviewed one is paid for, a waiting one is as it was submitted; a
patch that writes back an old status keeps it, because what is paid for stays paid
for (`PaidStays`).  `NumberInv` says that a number on its way is the count plus one
and that free numbers are within `top`; the free publications are then counted by
an injection into `1..top`.

`ListingLifecycle_proofs` proves every property of `lifecycle_safety` for all
durations, and `ExpiryOnlyGrows`, `ReturnsComplete` and `PaidRenewalFindsExpired`
beyond them: its `IInv` relates the newest period to the listing's expiry, bounds
every period by it, says that an unpublished listing has no period, that
EXPIRED means past the expiry, and that an unlapsed period is live.
`GrantKeepsPeriods` carries the argument: a period is granted only when the
listing's validity is over, so it starts after every other one ended.
`RenewalBuysVisibility` needs `RequestKept`: a deactivated listing whose last word
was not "hide" has its request, which the fulfilment's finalizer then serves.  It also
proves that the lifecycle implements `ListingValidity`: every transaction is one
step of the abstract listing or a stutter.

`ExpiryReminders_proofs` proves, assuming `Timely`, type correctness and every
safety property of `reminders` for any number of runs, offsets, faults and any
batch and budget, and `SentWasDelivered`, `BudgetIsKept` and `SettledStays`.  Its `IInv` says of the listing that a period which is not
over is the one the listing's validity follows (`CoverInv`: the reason a CANCEL
verdict is right), of a run what it may rely on for each row it claimed (`Held`:
no other run has it, its lease stands, it is PROCESSING with the attempt that
was claimed, unless a mark was applied whose answer was lost), and of a row that
its messages and attempts are accounted for (`Delivery`, `Attempts`, `Budget`:
each is owed to an error answer or a fault, except the one that is recorded or
under way).  A claim can only take a row nobody holds, because the claimable
rows contradict `Held`; an error answer pays for the attempt it ends.

`ModerationReview_proofs` proves every property of `moderation`, and
`ClaimOfThisPass`, for any number of moderators and without using any of the bounds.  `DecidedAsShown` rests on one
fact about the handlers: no row changes its content except under a new counter.
From it follows `TruePage`, that whatever a page shows of a row is what the row
held when its counter had the page's value; a decision that finds the same edit,
the same adjustment and their counters unchanged therefore finds the content of
the page.  `PassInv` says what belongs to the pass under review: an open
adjustment names the current edit and counters and holds the submitted content
(`FrozenUnderReview`: nothing the seller may do during a review touches the
submission), and a claim exists only while something is under review.
`HistoryInv` relates the outcomes to the reviews: an edit that left moderation for
good has one final review, which names it under the counter it still has, and what
is public is what the last approval names.

`PremiumPeriods_proofs` proves every property of `premium_periods` for any number of
payments and runs, any durations and any window.  `BaseOf` is the core: a new period
begins after every live one, whichever instant it is computed from, so the exclusion
constraint accepts it.  The rows that are not live are either over (`ExpiredIsOver`)
or belong to a transaction that has not committed, which the lock on the listing
excludes (`StepInv`).  The latest end exists because the ends are bounded in every
state (`Bounded`), which needs no finiteness of the transactions.  A written grant
shares the campaign's row, and a stop waits until nobody does (`ShareInv`), hence no
grant commits after it.  `EligibleFor` says of a run's grant that the listing is
ACTIVE while the run holds its lock, which everybody who hides a listing waits for, and
that its expiry lies after the time the transaction began; of the clock it says nothing.

`ListingEditor_proofs` proves every property of `listing_editor` for any fields,
photos, reloads and bounds.  `SeenInv` compares the tab's revision with the
server's: they agree as long as nothing happened behind its back, which every answer
restores.  `KeptInv` orders the edits of a field (stored, on its way, typed) and
contains `NothingIsForgotten`.  `OrderInv` says that a button waits for the pending
edits or for one queued operation, never for both, and `LandedInv` follows an edit
from the press of a button to the request it precedes: stored, reported, or in the
patch that is under way before the operation runs.

`StagedImages_proofs` proves every property of `staged_images` for any number of
originals, uploads, requests, runs, edits, events and faults.
`ReferencedAreKept` needs a reason why a path found unreferenced stays so
until it is deleted.  That is `RipeInv`: once the grace of an event is over, no
upload among its paths can be confirmed any more (`Quiet`), and approval and a new
edit name nothing that was not named before (`NothingIsNamedAgain`).  `HoldInv` says
that a claimed event has one run, whose event is ripe and whose checked path is
unreferenced.  `OrphansAreAnnounced` is not inductive: an event under way whose run
has already retained a path would still count.  `AwaitedInv` asks for an event that
will still look at it, and holds because what a run has passed and found referenced
is announced again by whatever lets go of it later.  Beyond the runs:
`NothingIsNamedAgain`, `OnlyOrphansAreRemoved`, `EventsOnlyGoOn`.

`DraftImages_proofs` proves every property of `draft_images` for any number of
uploads, requests and runs and any bounds, and `ImageHasItsObject` beyond them.  The
argument is that an object belongs to one confirmation: whatever a
row, an event, a run or a pending deletion names has its transaction behind it
(`SpentInv`), so a compensation cannot meet it; the rows' objects are those of their
own uploads and hence distinct (`PathInv`), so a deletion removes nobody else's; a
confirmation about to insert has its object (`StoreInv`).  `GoneInv`, `ClaimInv` and
`SweptInv` are about the cleanup: the event is that of a draft that is gone, claims
are distinct generations, and a run still has before it every recorded object that
exists, without which `OrphansAreExplained` would fail when it marks the event
processed.  `DraftImplementsLife` maps each action to one step of `ImageLife` or a
stutter.  Beyond the runs: `GalleriesAreSound` (one primary image, within the limit),
`CondemnedStaysEmpty`, `SettledEventsStay`, `ObjectsAreNamedOnce`.

The flow of edits does not implement `ImageLife`: there an object has its upload's
name, two confirmations store it and the compensation of one removes it while the
other's row names it, which is what `public_images` shows; `undone` excepts exactly
that from `ReferencedAreKept`.

Assumptions on constants: `TimelyAssumption`, `ScanAssumption`, `PromotionsAssumption`,
`NoneAssumption`, `DurationAssumption`, `ReminderAssumption`, `NoOneAssumption`,
`SubmissionAssumption`, `PeriodAssumption`, `EditorAssumption`, `DraftAssumption`,
`StagedAssumption`, all evaluated by the runs.

Every safety invariant, action property and refinement that a passing run checks is
also proved.  Model-checked only: the liveness properties `PaidIsSettled`,
`DeadClaimIsReleased` and `DueAreSettled` (fairness is out of the prover's reach) and
the violated statements.

## Not modelled

- Authentication: each operation of one-time codes and sessions is one guarded
  statement over a single row, and what matters about it is secrecy and rates
  rather than a protocol of several steps.
- Boosts, which move one timestamp; the order and the primary image of a staged
  gallery; the cap on pending uploads of an edit, which only refuses more.
- The claim of a guest draft by an account, which the code leaves out on purpose
  (`guest-drafts.ts:38`).
- Catalog, favorites, reports, lists, search, ranking and cursors: reads and single
  statements.
- Content, validation, pricing, pages and route handlers; the append-only audit,
  history and outbox rows that accompany each transaction and that no modelled
  operation reads.

More than half of the repository's lines are of the last two kinds, which bounds the
share the map covers.  What remains worth stating: the public visibility of a listing
as an abstract specification over `ListingValidity`, the composition of renewal and
fee payments with the payment core, and a life like that of `ImageLife`, with the
sharing by path, for the objects of a published listing's edits.
