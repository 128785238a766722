--------------------------- MODULE PremiumPeriods ---------------------------
(***************************************************************************)
(* The PREMIUM periods of one listing: what paid fulfilments and           *)
(* complimentary campaign grants insert (repositories/promotions.ts), what *)
(* housekeeping does with them (repositories/lifecycle-jobs.ts) and how    *)
(* the campaign opens, grants and stops (services/premium-campaign.ts,     *)
(* scripts/campaign/premium-campaign.mts).                                 *)
(*                                                                         *)
(* A transaction takes its locks one by one: the row of the listing for    *)
(* itself, the row of the campaign shared.  It begins at a time of its     *)
(* own, SQL's now(), which stays behind the clock while it waits.  BOOST   *)
(* periods are a copy of this without the campaign.                        *)
(***************************************************************************)
EXTENDS Naturals, FiniteSets

CONSTANTS
    Payments,   \* verified PREMIUM payments of the listing
    Runs,       \* runs of the backfill
    Approval,   \* the moderator's approval of the listing
    Nobody,     \* stands for no transaction
    PaidDays, GrantDays,   \* duration of a paid period, and of a grant
    Validity,   \* how long an approval or a renewal makes the listing valid
    WindowFrom, WindowTo,  \* enrollment_starts_at, enrollment_ends_at
    Horizon,    \* bound: the last instant of the clock
    MaxFaults   \* bound: transactions that fail

Grants == Runs \cup {Approval}
Transactions == Payments \cup Grants

ASSUME PeriodAssumption ==
    /\ Payments \cap Runs = {} /\ Approval \notin Payments \cup Runs
    /\ Nobody \notin Transactions
    /\ PaidDays \in Nat \ {0} /\ GrantDays \in Nat \ {0} /\ Validity \in Nat \ {0}
    /\ WindowFrom \in Nat /\ WindowTo \in Nat
    /\ Horizon \in Nat /\ MaxFaults \in Nat

VARIABLES
    now,       \* the clock
    listing,   \* IN_REVIEW; ACTIVE, and not deactivated; HIDDEN: everything else
    expires,   \* current_expires_at, 0 while null
    campaign,  \* status of the premium_campaigns row
    stopping,  \* the stop has updated that row and not committed
    at,        \* where each transaction is
    begun,     \* its now()
    holder,    \* who locks the listing row
    sharing,   \* who locks the campaign row FOR SHARE
    period,    \* the listing_promotions row of each transaction that wrote one
    faults     \* history: faults so far

lockVars == <<holder, sharing>>
listingVars == <<listing, expires>>
campaignVars == <<campaign, stopping>>
vars == <<now, listingVars, campaignVars, at, begun, lockVars, period, faults>>

Period == [from : Nat, to : Nat, status : {"SCHEDULED", "ACTIVE", "EXPIRED"},
           written : Nat]   \* history: the clock at the insert

TypeOK ==
    /\ now \in 0..Horizon
    /\ listing \in {"IN_REVIEW", "ACTIVE", "HIDDEN"}
    /\ expires \in Nat
    /\ campaign \in {"DRAFT", "ENROLLING", "STOPPED"}
    /\ stopping \in BOOLEAN
    /\ at \in [Transactions -> {"idle", "picked", "begun", "enrolling", "locked",
                                "written", "refused", "done"}]
    /\ begun \in [Transactions -> Nat]
    /\ holder \in Transactions \cup {Nobody}
    /\ sharing \subseteq Grants
    /\ DOMAIN period \subseteq Transactions
    /\ \A t \in DOMAIN period : period[t] \in Period
    /\ faults \in 0..MaxFaults

Init ==
    /\ now = 0
    /\ listing \in {"IN_REVIEW", "ACTIVE"}
    /\ expires = IF listing = "ACTIVE" THEN Validity ELSE 0
    /\ campaign = "DRAFT"
    /\ stopping = FALSE
    /\ at = [t \in Transactions |-> "idle"]
    /\ begun = [t \in Transactions |-> 0]
    /\ holder = Nobody
    /\ sharing = {}
    /\ period = [t \in {} |-> 0]
    /\ faults = 0

Moves(t, step) == at' = [at EXCEPT ![t] = step]

----------------------------------------------------------------------------
(* The campaign and its operator *)

InWindow == WindowFrom <= now /\ now < WindowTo

\* openCampaignEnrollment.
OpenCampaign ==
    /\ campaign = "DRAFT" /\ ~stopping
    /\ InWindow
    /\ campaign' = "ENROLLING"
    /\ UNCHANGED <<now, listingVars, stopping, at, begun, lockVars, period, faults>>

\* Mutant of Stoppable: the stop does not wait for the grants in flight.
StoppableAtOnce == campaign \in {"DRAFT", "ENROLLING"} /\ ~stopping

\* The update waits for every shared lock.
Stoppable == campaign \in {"DRAFT", "ENROLLING"} /\ ~stopping /\ sharing = {}

\* stopCampaign: the update, which keeps the row locked, and its commit.
StopCampaign ==
    /\ Stoppable
    /\ stopping' = TRUE
    /\ UNCHANGED <<now, listingVars, campaign, at, begun, lockVars, period, faults>>

StopCommits ==
    /\ stopping
    /\ stopping' = FALSE
    /\ campaign' = "STOPPED"
    /\ UNCHANGED <<now, listingVars, at, begun, lockVars, period, faults>>

----------------------------------------------------------------------------
(* Locks and commits *)

\* Shared locks agree with each other, and a waiting stop does not hold them up.
CampaignLockable == ~stopping

\* The locked read of the campaign: it has to be enrolling by the clock.
LockCampaign(t, found, otherwise) ==
    /\ CampaignLockable
    /\ IF campaign = "ENROLLING" /\ InWindow
       THEN sharing' = sharing \cup {t} /\ Moves(t, found)
       ELSE UNCHANGED sharing /\ Moves(t, otherwise)

\* Mutant of ListingFree: nobody waits for the listing.
ListingFreeAlways == TRUE

ListingFree == holder = Nobody

LockListing(t, step) ==
    /\ ListingFree
    /\ holder' = t
    /\ Moves(t, step)

Unlock(t) ==
    /\ holder' = IF holder = t THEN Nobody ELSE holder
    /\ sharing' = sharing \ {t}

\* The approval publishes the listing, valid from its decision on.
Commit(t) ==
    /\ at[t] = "written"
    /\ Moves(t, "done")
    /\ Unlock(t)
    /\ IF t = Approval
       THEN listing' = "ACTIVE" /\ expires' = begun[t] + Validity
       ELSE UNCHANGED listingVars
    /\ UNCHANGED <<now, campaignVars, begun, period, faults>>

\* The transaction fails or its process dies; a payment is verified again and a
\* run started again.
Rollback(t) ==
    /\ at[t] \in {"begun", "enrolling", "locked", "written"}
    /\ faults < MaxFaults
    /\ faults' = faults + 1
    /\ Moves(t, "idle")
    /\ Unlock(t)
    /\ period' = [u \in DOMAIN period \ {t} |-> period[u]]
    /\ UNCHANGED <<now, listingVars, campaignVars, begun>>

----------------------------------------------------------------------------
(* The periods *)

Committed(t) == at[t] = "done" /\ t \in DOMAIN period

\* The rows a query sees and the exclusion constraint covers.
Live == {t \in DOMAIN period : Committed(t) /\ period[t].status # "EXPIRED"}

\* Mutant of Ahead: queued periods are forgotten.
AheadOfActive(since) ==
    {period[t].to : t \in {u \in Live : period[u].to > since /\ period[u].status = "ACTIVE"}}

\* Ends of the live periods that are not over.
Ahead(since) == {period[t].to : t \in {u \in Live : period[u].to > since}}

\* greatest(now, the latest end).
Base(since) ==
    CHOOSE b \in Ahead(since) \cup {since} : \A e \in Ahead(since) \cup {since} : e <= b

Days(t) == IF t \in Payments THEN PaidDays ELSE GrantDays

\* The row as of an instant, or the refusal of the exclusion constraint.
Insert(t, since) ==
    LET from == Base(since)
        to == from + Days(t)
    IN  IF \E u \in Live : from < period[u].to /\ period[u].from < to
        THEN /\ Moves(t, "refused")
             /\ Unlock(t)
             /\ UNCHANGED period
        ELSE /\ Moves(t, "written")
             /\ period' = [u \in DOMAIN period \cup {t} |->
                   IF u = t
                   THEN [from |-> from, to |-> to, written |-> now,
                         status |-> IF from <= since THEN "ACTIVE" ELSE "SCHEDULED"]
                   ELSE period[u]]
             /\ UNCHANGED lockVars

\* promotionHousekeepingBatch: what started is active, what ended is expired.
HousekeepingOf(p) ==
    IF p.status = "EXPIRED" THEN p
    ELSE IF p.to <= now THEN [p EXCEPT !.status = "EXPIRED"]
    ELSE IF p.from <= now THEN [p EXCEPT !.status = "ACTIVE"] ELSE p

PromotionHousekeeping ==
    /\ period' = [t \in DOMAIN period |->
                    IF Committed(t) THEN HousekeepingOf(period[t]) ELSE period[t]]
    /\ UNCHANGED <<now, listingVars, campaignVars, at, begun, lockVars, faults>>

----------------------------------------------------------------------------
(* Paid fulfilment: the payment, then the listing *)

BeginFulfillment(p) ==
    /\ at[p] = "idle"
    /\ Moves(p, "begun")
    /\ begun' = [begun EXCEPT ![p] = now]
    /\ UNCHANGED <<now, listingVars, campaignVars, lockVars, period, faults>>

LockForPromotion(p) ==
    /\ at[p] = "begun"
    /\ LockListing(p, "locked")
    /\ UNCHANGED <<now, listingVars, campaignVars, begun, sharing, period, faults>>

\* insertPromotionPeriod, as of the beginning of the transaction.
InsertPromotionPeriod(p) ==
    /\ at[p] = "locked"
    /\ Insert(p, begun[p])
    /\ UNCHANGED <<now, listingVars, campaignVars, begun, faults>>

----------------------------------------------------------------------------
(* Approval: the listing, then the campaign *)

\* The decision locks the listing and makes it active.
BeginApproval ==
    /\ listing = "IN_REVIEW"
    /\ at[Approval] = "idle"
    /\ LockListing(Approval, "begun")
    /\ begun' = [begun EXCEPT ![Approval] = now]
    /\ UNCHANGED <<now, listingVars, campaignVars, sharing, period, faults>>

\* lockOpenPremiumCampaign; without an open campaign nothing is granted.
EnrollApprovedListing ==
    /\ at[Approval] = "begun"
    /\ LockCampaign(Approval, "locked", "written")
    /\ UNCHANGED <<now, listingVars, campaignVars, begun, holder, period, faults>>

----------------------------------------------------------------------------
(* Backfill: the campaign, then the listing *)

Granted == \E t \in Grants : Committed(t)

\* The batch is read without a lock.
PickListing(r) ==
    /\ at[r] = "idle"
    /\ campaign = "ENROLLING"
    /\ listing = "ACTIVE" /\ expires > now /\ ~Granted
    /\ Moves(r, "picked")
    /\ UNCHANGED <<now, listingVars, campaignVars, begun, lockVars, period, faults>>

\* The transaction of this listing begins, before any lock.
BeginGrant(r) ==
    /\ at[r] = "picked"
    /\ Moves(r, "begun")
    /\ begun' = [begun EXCEPT ![r] = now]
    /\ UNCHANGED <<now, listingVars, campaignVars, lockVars, period, faults>>

LockCampaignForGrant(r) ==
    /\ at[r] = "begun"
    /\ LockCampaign(r, "enrolling", "done")
    /\ UNCHANGED <<now, listingVars, campaignVars, begun, holder, period, faults>>

LockForGrant(r) ==
    /\ at[r] = "enrolling"
    /\ LockListing(r, "locked")
    /\ UNCHANGED <<now, listingVars, campaignVars, begun, sharing, period, faults>>

\* Mutant of Still: the lock is taken, and nothing looked at again.
StillAsPicked(t) == TRUE

\* The run looks at the listing again, under its lock, and compares its expiry with
\* the time its transaction began at.
Still(t) == t \in Runs => listing = "ACTIVE" /\ expires > begun[t]

\* Mutant of Enrolls: the window is compared with the time of the transaction.
EnrollsAtBegin(t) ==
    campaign = "ENROLLING" /\ WindowFrom <= begun[t] /\ begun[t] < WindowTo

\* The guard in the insert, by the clock.
Enrolls(t) == campaign = "ENROLLING" /\ InWindow

\* insertCampaignPromotionPeriod.
InsertGrant(t) ==
    /\ at[t] = "locked"
    /\ IF Still(t) /\ Enrolls(t) /\ ~Granted
       THEN Insert(t, now)
       ELSE Moves(t, "written") /\ UNCHANGED <<period, lockVars>>
    /\ UNCHANGED <<now, listingVars, campaignVars, begun, faults>>

----------------------------------------------------------------------------
(* Other transactions on the listing, under its lock *)

MoveListing(from, to) ==
    /\ ListingFree
    /\ listing = from /\ listing' = to
    /\ UNCHANGED <<now, campaignVars, at, begun, lockVars, period, faults>>

\* The seller takes it down, an administrator suspends it, the job expires it.
HideListing == MoveListing("ACTIVE", "HIDDEN") /\ UNCHANGED expires

\* The seller or an administrator brings it back while it is valid.
ShowListing == expires > now /\ MoveListing("HIDDEN", "ACTIVE") /\ UNCHANGED expires

\* A renewal is fulfilled.
RenewListing ==
    /\ expires <= now
    /\ MoveListing("HIDDEN", "ACTIVE")
    /\ expires' = now + Validity

\* The validity of a listing ends by the clock, without any lock.
Tick ==
    /\ now < Horizon
    /\ now' = now + 1
    /\ UNCHANGED <<listingVars, campaignVars, at, begun, lockVars, period, faults>>

Fulfillment(p) == BeginFulfillment(p) \/ LockForPromotion(p) \/ InsertPromotionPeriod(p)

Backfill(r) ==
    PickListing(r) \/ BeginGrant(r) \/ LockCampaignForGrant(r) \/ LockForGrant(r)

Next ==
    \/ OpenCampaign \/ StopCampaign \/ StopCommits
    \/ \E p \in Payments : Fulfillment(p)
    \/ BeginApproval \/ EnrollApprovedListing
    \/ \E r \in Runs : Backfill(r)
    \/ \E t \in Grants : InsertGrant(t)
    \/ \E t \in Transactions : Commit(t) \/ Rollback(t)
    \/ PromotionHousekeeping
    \/ HideListing \/ ShowListing \/ RenewListing
    \/ Tick

Spec == Init /\ [][Next]_vars

----------------------------------------------------------------------------
(* Properties *)

\* Two periods are apart, or one was over when the other was written: no coming
\* instant is sold or given twice, however long a transaction waited with the
\* time it began at (repositories/promotions.ts:194).
TimeIsSoldOnce ==
    \A t, u \in DOMAIN period :
        t # u => \/ period[t].to <= period[u].from \/ period[t].to <= period[u].written
                 \/ period[u].to <= period[t].from \/ period[u].to <= period[t].written

\* The exclusion constraint never refuses a period: it would undo the
\* settlement of a payment the bank has taken, or an approval
\* (repositories/promotions.ts, "defense in depth").
NobodyIsRefused == \A t \in Transactions : at[t] # "refused"

\* Nothing is granted once a stop has committed, by a run or by an approval
\* that read the campaign before (repositories/premium-campaigns.ts:106).
StoppedIsStopped ==
    [][campaign = "STOPPED" =>
          \A t \in Grants : Committed(t)' => Committed(t)]_vars

\* A grant is written inside the enrollment window by the clock.  The backfill
\* grants to a listing nobody has hidden when it commits, and whose validity had
\* not ended when its transaction began; it may end while the run waits for a lock
\* (premium-campaign.mts:197).
GrantsAreEligible ==
    /\ \A t \in Grants \cap DOMAIN period :
          WindowFrom <= period[t].written /\ period[t].written < WindowTo
    /\ \A r \in Runs : at[r] = "written" /\ r \in DOMAIN period =>
                         listing = "ACTIVE" /\ expires > begun[r]

----------------------------------------------------------------------------
(* A statement of the repository the code does not keep *)

\* premium-campaign.mts: every transaction re-checks listing eligibility under
\* lock, so a grant is never written for a listing whose validity is over.
GrantsReachTheValid ==
    \A r \in Runs : at[r] = "written" /\ r \in DOMAIN period => expires > period[r].written
=============================================================================
