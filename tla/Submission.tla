----------------------------- MODULE Submission -----------------------------
(***************************************************************************)
(* Submission of the listings of one seller and the publications it        *)
(* allocates (services/listing-submission.ts), with what runs beside it:   *)
(* changes of a draft (services/listing-drafts.ts), issuing of uploads     *)
(* (services/listing-images.ts), the settlement of the listing fee         *)
(* (services/payment-checkout.ts), the moderator's return and the          *)
(* administrator's change of the free limit (services/admin.ts).           *)
(*                                                                         *)
(* A transaction of the seller takes its row locks one by one: the row of  *)
(* the user, the row of a listing.  An insert whose row refers to the user *)
(* shares the key of that row and waits while somebody holds it for        *)
(* update.  The others lock one listing and are single actions.            *)
(***************************************************************************)
EXTENDS Naturals, FiniteSets

CONSTANTS
    Listings,     \* of the seller
    Requests,     \* of the seller, from any number of tabs
    Nobody,       \* stands for no request
    Limits,       \* listing.free_publication_limit: the values it may take
    MaxRevision   \* bound: changes of a listing

ASSUME SubmissionAssumption ==
    /\ Nobody \notin Requests
    /\ IsFiniteSet(Listings) /\ Listings # {}
    /\ Limits \subseteq Nat /\ Limits # {}
    /\ MaxRevision \in Nat

VARIABLES
    limit,        \* the setting
    top,          \* history: the highest value it has had
    listing,      \* status and revision
    publication,  \* the listing_publications row of a listing, and its fee
    request,      \* of the seller: what it does, and where it is
    userHolder,   \* who locks the row of the user
    holder        \* who locks the row of each listing

settingVars == <<limit, top>>
dataVars == <<listing, publication>>
lockVars == <<userHolder, holder>>
submissionVars == <<settingVars, dataVars, request, lockVars>>

Statuses == {"DRAFT", "PAYMENT_REQUIRED", "PENDING_MODERATION", "CORRECTION_REQUIRED",
             "REJECTED", "ACTIVE"}

Publication == [number : Nat \ {0}, billing : {"FREE", "PAID"},
                fee : {"none", "CREATED", "SUCCESS"},
                revision : Nat]   \* history: of the listing as it was submitted

Request == [op : {"none", "submit", "resubmit", "authorize", "patch"},
            at : {"idle", "user", "listing", "decide", "numbered", "inserting",
                  "patching", "refused", "done"},
            listing : Listings,
            revision : Nat,        \* the one the seller named
            status : Statuses,     \* as the patch read it
            limit : Nat,           \* as the submission read it
            number : Nat]          \* allocated, not inserted

SubmissionTypeOK ==
    /\ limit \in Limits /\ top \in Limits
    /\ listing \in [Listings -> [status : Statuses, revision : 0..MaxRevision]]
    /\ DOMAIN publication \subseteq Listings
    /\ \A l \in DOMAIN publication : publication[l] \in Publication
    /\ request \in [Requests -> Request]
    /\ userHolder \in Requests \cup {Nobody}
    /\ holder \in [Listings -> Requests \cup {Nobody}]

Fresh == [op |-> "none", at |-> "idle", listing |-> CHOOSE l \in Listings : TRUE,
          revision |-> 0, status |-> "DRAFT", limit |-> 0, number |-> 0]

SubmissionInit ==
    /\ limit \in Limits
    /\ top = limit
    /\ listing = [l \in Listings |-> [status |-> "DRAFT", revision |-> 0]]
    /\ publication = [l \in {} |-> 0]
    /\ request = [r \in Requests |-> Fresh]
    /\ userHolder = Nobody
    /\ holder = [l \in Listings |-> Nobody]

----------------------------------------------------------------------------
(* Locks *)

At(r, step) == request[r].at = step
Does(r, op) == request[r].op = op
Moves(r, step) == request' = [request EXCEPT ![r].at = step]

\* The end of a transaction, however it ends.
Ends(r, step) ==
    /\ request' = [request EXCEPT ![r] = [Fresh EXCEPT !.at = step]]
    /\ userHolder' = IF userHolder = r THEN Nobody ELSE userHolder
    /\ holder' = [l \in Listings |-> IF holder[l] = r THEN Nobody ELSE holder[l]]

\* Mutant of UserFree: submissions do not wait for each other.
UserFreeAlways(r) == TRUE

UserFree(r) == userHolder \in {Nobody, r}

\* lockUserRow.
LockUserRow(r) ==
    /\ At(r, "user")
    /\ UserFree(r)
    /\ userHolder' = r
    /\ Moves(r, "listing")
    /\ UNCHANGED <<settingVars, dataVars, holder>>

LockListingRow(r) ==
    /\ At(r, "listing")
    /\ holder[request[r].listing] = Nobody
    /\ holder' = [holder EXCEPT ![request[r].listing] = r]
    /\ Moves(r, "decide")
    /\ UNCHANGED <<settingVars, dataVars, userHolder>>

Unlocked(l) == holder[l] = Nobody

----------------------------------------------------------------------------
(* Requests *)

Asks(r, l, op, step) ==
    /\ At(r, "idle")
    /\ request' = [request EXCEPT ![r] =
          [op |-> op, at |-> step, listing |-> l, revision |-> listing[l].revision,
           status |-> listing[l].status, limit |-> limit, number |-> 0]]
    /\ UNCHANGED <<settingVars, dataVars, lockVars>>

\* Mutant of SellerEditable: an unpaid listing can still be changed.
SellerEditableUnpaid == {"DRAFT", "CORRECTION_REQUIRED", "REJECTED", "PAYMENT_REQUIRED"}

\* SELLER_EDITABLE_STATUSES.
SellerEditable == {"DRAFT", "CORRECTION_REQUIRED", "REJECTED"}

\* Mutant of Resubmittable: whatever was submitted before.
ResubmittableUnpaid == {"CORRECTION_REQUIRED", "REJECTED", "PAYMENT_REQUIRED"}

\* RESUBMITTABLE_STATUSES.
Resubmittable == {"CORRECTION_REQUIRED", "REJECTED"}

\* The settings are read before any lock, the draft before its update.
BeginSubmit(r, l) == Asks(r, l, "submit", "user")
BeginResubmit(r, l) == Asks(r, l, "resubmit", "listing")
BeginAuthorize(r, l) == Asks(r, l, "authorize", "listing")
BeginPatch(r, l) ==
    /\ listing[l].status \in SellerEditable
    /\ Asks(r, l, "patch", "patching")

Named(r) == listing[request[r].listing].revision = request[r].revision

----------------------------------------------------------------------------
(* Submission *)

\* The seller named this draft, which nothing has published yet.
Submittable(r) ==
    LET l == request[r].listing IN
    l \notin DOMAIN publication /\ listing[l].status = "DRAFT" /\ Named(r)

\* It was submitted before, is no draft, has changed, is incomplete or names
\* something the catalog no longer has; or the transaction fails.
Answer(r) ==
    /\ request[r].at \notin {"idle", "refused", "done"}
    /\ Ends(r, "done")
    /\ UNCHANGED <<settingVars, dataVars>>

Numbers == {publication[l].number : l \in DOMAIN publication}

\* Mutant of NextNumber: the maximum of no row read as 1.
NextNumberFromOne == CHOOSE n \in 1..Cardinality(Listings) + 2 :
    \/ n = 2 /\ Numbers = {}
    \/ n - 1 \in Numbers /\ \A m \in Numbers : m < n

\* nextPublicationNumber.
NextNumber == CHOOSE n \in 1..Cardinality(Listings) + 1 :
    \/ n = 1 /\ Numbers = {}
    \/ n - 1 \in Numbers /\ \A m \in Numbers : m < n

Allocate(r) ==
    /\ Does(r, "submit") /\ At(r, "decide")
    /\ Submittable(r)
    /\ request' = [request EXCEPT ![r].at = "numbered", ![r].number = NextNumber]
    /\ UNCHANGED <<settingVars, dataVars, lockVars>>

\* Mutant of IsFree: off by one.
IsFreeUpTo(r) == request[r].number <= request[r].limit + 1

IsFree(r) == request[r].number <= request[r].limit

\* The insert, with the intent of the fee, the transition and the commit; a
\* number that is taken fails the transaction.
InsertPublication(r) ==
    LET l == request[r].listing IN
    /\ At(r, "numbered")
    /\ IF request[r].number \in Numbers
       THEN Ends(r, "refused") /\ UNCHANGED dataVars
       ELSE /\ publication' = [k \in DOMAIN publication \cup {l} |->
                 IF k = l THEN [number |-> request[r].number,
                                billing |-> IF IsFree(r) THEN "FREE" ELSE "PAID",
                                fee |-> IF IsFree(r) THEN "none" ELSE "CREATED",
                                revision |-> request[r].revision]
                 ELSE publication[k]]
            /\ listing' = [listing EXCEPT ![l].status =
                 IF IsFree(r) THEN "PENDING_MODERATION" ELSE "PAYMENT_REQUIRED"]
            /\ Ends(r, "done")
    /\ UNCHANGED settingVars

----------------------------------------------------------------------------
(* Resubmission and uploads: the listing, then the key of the user *)

CheckRequest(r) ==
    LET l == request[r].listing IN
    /\ At(r, "decide")
    /\ \/ /\ Does(r, "resubmit")
          /\ l \in DOMAIN publication
          /\ listing[l].status \in Resubmittable /\ Named(r)
       \/ Does(r, "authorize") /\ listing[l].status \in SellerEditable
    /\ Moves(r, "inserting")
    /\ UNCHANGED <<settingVars, dataVars, lockVars>>

\* The row of the status history, or of the upload, refers to the user.
InsertReference(r) ==
    LET l == request[r].listing IN
    /\ At(r, "inserting")
    /\ userHolder = Nobody
    /\ IF Does(r, "resubmit")
       THEN /\ listing' = [listing EXCEPT ![l].status = "PENDING_MODERATION"]
            /\ publication' = [publication EXCEPT ![l].revision = request[r].revision]
       ELSE UNCHANGED dataVars
    /\ Ends(r, "done")
    /\ UNCHANGED settingVars

----------------------------------------------------------------------------
(* Changes of a draft *)

\* updateDraft: the status the request read is written back when it names no
\* column of the listing.
PatchDraft(r) ==
    LET l == request[r].listing IN
    /\ At(r, "patching")
    /\ Unlocked(l)
    /\ listing[l].status \in SellerEditable /\ Named(r)
    /\ listing[l].revision < MaxRevision
    /\ \E status \in {listing[l].status, request[r].status} :
          listing' = [listing EXCEPT ![l] =
             [status |-> status, revision |-> listing[l].revision + 1]]
    /\ Ends(r, "done")
    /\ UNCHANGED <<settingVars, publication>>

\* An image is confirmed, deleted or made primary: incrementListingRevision.
ChangeImages(l) ==
    /\ Unlocked(l)
    /\ listing[l].status \in SellerEditable
    /\ listing[l].revision < MaxRevision
    /\ listing' = [listing EXCEPT ![l].revision = @ + 1]
    /\ UNCHANGED <<settingVars, publication, request, lockVars>>

----------------------------------------------------------------------------
(* The others *)

\* fulfillListingFee; the payment settles once, under its own lock.
FulfillListingFee(l) ==
    /\ l \in DOMAIN publication /\ publication[l].fee = "CREATED"
    /\ Unlocked(l)
    /\ publication' = [publication EXCEPT ![l].fee = "SUCCESS"]
    /\ listing' = IF listing[l].status = "PAYMENT_REQUIRED"
                  THEN [listing EXCEPT ![l].status = "PENDING_MODERATION"] ELSE listing
    /\ UNCHANGED <<settingVars, request, lockVars>>

Decide(l, status) ==
    /\ Unlocked(l)
    /\ listing[l].status = "PENDING_MODERATION"
    /\ listing' = [listing EXCEPT ![l].status = status]
    /\ UNCHANGED <<settingVars, publication, request, lockVars>>

\* updateAdminSetting.
UpdateLimit(n) ==
    /\ n # limit
    /\ limit' = n
    /\ top' = IF n > top THEN n ELSE top
    /\ UNCHANGED <<dataVars, request, lockVars>>

----------------------------------------------------------------------------
Seller(r) ==
    \/ \E l \in Listings : \/ BeginSubmit(r, l) \/ BeginResubmit(r, l)
                           \/ BeginAuthorize(r, l) \/ BeginPatch(r, l)
    \/ LockUserRow(r) \/ LockListingRow(r)
    \/ Allocate(r) \/ InsertPublication(r)
    \/ CheckRequest(r) \/ InsertReference(r)
    \/ PatchDraft(r) \/ Answer(r)

Others(l) ==
    \/ ChangeImages(l) \/ FulfillListingFee(l)
    \/ \E status \in {"ACTIVE", "CORRECTION_REQUIRED", "REJECTED"} : Decide(l, status)

SubmissionNext ==
    \/ \E r \in Requests : Seller(r)
    \/ \E l \in Listings : Others(l)
    \/ \E n \in Limits : UpdateLimit(n)

SubmissionSpec == SubmissionInit /\ [][SubmissionNext]_submissionVars

----------------------------------------------------------------------------
(* Properties *)

\* The publications of a seller are numbered 1, 2, 3 without a gap, so that
\* the last number is how many there are, which is what the quota shows
\* (services/listing-submission.ts getListingQuota).
NumbersAreDense == Numbers = 1..Cardinality(DOMAIN publication)

\* Simultaneous submissions never share a number: the unique constraint, which
\* would fail the submission, is not needed (listing-submission.ts:50).
NobodyIsRefused == \A r \in Requests : ~At(r, "refused")

\* A seller never has more free publications than the limit ever allowed,
\* whoever submits at once and however old the limit is that was read.
FreeWithinLimit ==
    Cardinality({l \in DOMAIN publication : publication[l].billing = "FREE"}) <= top

\* What a moderator sees, or saw, has a free publication or a paid fee, through
\* every correction and resubmission (listing-submission.ts resubmitListing).
ReviewedIsPaid ==
    \A l \in Listings :
        listing[l].status \in {"PENDING_MODERATION", "CORRECTION_REQUIRED", "REJECTED",
                               "ACTIVE"} =>
            /\ l \in DOMAIN publication
            /\ publication[l].billing = "FREE" \/ publication[l].fee = "SUCCESS"

\* While it waits for its fee or for a moderator a listing is at the revision
\* its seller named: no change was accepted since (listing-submission.ts:55).
FrozenSinceSubmission ==
    \A l \in Listings :
        listing[l].status \in {"PAYMENT_REQUIRED", "PENDING_MODERATION"} =>
            listing[l].revision = publication[l].revision

\* The requests a request waits for.
WaitsFor(r) ==
    (IF At(r, "user") THEN {userHolder}
     ELSE IF At(r, "listing") \/ At(r, "patching") THEN {holder[request[r].listing]}
     ELSE IF At(r, "inserting") THEN {userHolder} ELSE {}) \ {Nobody, r}

\* No requests wait for each other: "users row, then listings row. Image/draft
\* flows lock only the listing row, so no cycle" (listing-submission.ts:44).
NobodyDeadlocks ==
    \A S \in SUBSET Requests \ {{}} : \E r \in S : WaitsFor(r) \cap S = {}
=============================================================================
