------------------------ MODULE PremiumPeriods_proofs ------------------------
(***************************************************************************)
(* Proofs about PremiumPeriods, for any payments, runs, durations, window  *)
(* and bounds.                                                             *)
(***************************************************************************)
EXTENDS PremiumPeriods, WellFoundedInduction, TLAPS

USE DEF lockVars, listingVars, campaignVars, Transactions, Grants

\* What happens to the listing beside approval.
Others == HideListing \/ ShowListing \/ RenewListing

----------------------------------------------------------------------------
(* The inductive invariant *)

\* Which locks a transaction holds, and that a row is there only once written.
StepOf(t) ==
    /\ at[t] \in {"locked", "written"} => holder = t
    /\ t = Approval /\ at[t] = "begun" => holder = t
    /\ t \in Grants /\ at[t] \in {"enrolling", "locked"} => t \in sharing
    /\ t \in Grants /\ at[t] = "written" /\ t \in DOMAIN period => t \in sharing
    /\ t \in DOMAIN period => at[t] \in {"written", "done"}
    /\ at[t] # "refused"

StepInv == \A t \in Transactions : StepOf(t)

\* The shared lock keeps the campaign open: a stop waits.
ShareInv == sharing # {} => campaign = "ENROLLING" /\ ~stopping

\* The ends are bounded, so that there is a latest one.
Bounded == \E b \in Nat : \A t \in DOMAIN period : period[t].to <= b

\* What has expired is over.
ExpiredIsOver == \A t \in DOMAIN period : period[t].status = "EXPIRED" => period[t].to <= now

\* The rows: what a step may not disturb.
RowsInv ==
    /\ Bounded /\ ExpiredIsOver /\ TimeIsSoldOnce
    /\ \A t \in Grants \cap DOMAIN period :
          WindowFrom <= period[t].written /\ period[t].written < WindowTo

\* A run that has written its grant still holds the listing it looked at.
EligibleFor(r) == listing = "ACTIVE" /\ expires > begun[r]

VisibleInv == \A r \in Runs : at[r] = "written" /\ r \in DOMAIN period => EligibleFor(r)

IInv == TypeOK /\ StepInv /\ ShareInv /\ RowsInv /\ VisibleInv

----------------------------------------------------------------------------
(* Helpers *)

\* A set of numbers with a bound has a greatest element.
LEMMA Greatest ==
    ASSUME NEW S \in SUBSET Nat, S # {}, NEW b \in Nat, \A x \in S : x <= b
    PROVE  \E g \in S : \A x \in S : x <= g
  <1> DEFINE below == {b - x : x \in S}
  <1>1. below \in SUBSET Nat /\ below # {}
    <2>1. \A x \in S : b - x \in Nat
      OBVIOUS
    <2>2. below \subseteq Nat
      BY <2>1
    <2> QED BY <2>2
  <1>2. PICK n \in below : \A m \in below : n <= m
    <2> HIDE DEF below
    <2>1. PICK n \in below : \A m \in below : <<m, n>> \notin OpToRel(<, Nat)
      BY <1>1, WFMin, NatLessThanWellFounded, Zenon
    <2>2. \A m \in below : ~(m < n)
      BY <1>1, <2>1, Zenon DEF OpToRel
    <2> QED BY <1>1, <2>2
  <1>3. PICK g \in S : n = b - g
    OBVIOUS
  <1>4. ASSUME NEW x \in S PROVE x <= g
    <2>1. b - g <= b - x
      BY <1>2, <1>3
    <2>2. x \in Nat /\ g \in Nat
      OBVIOUS
    <2> QED BY <2>1, <2>2
  <1> QED BY <1>4

\* The base of a new period is not before its instant nor before a live end.
LEMMA BaseOf ==
    ASSUME IInv, NEW since \in Nat
    PROVE  /\ Base(since) \in Nat
           /\ since <= Base(since)
           /\ \A u \in Live : period[u].to <= Base(since)
  <1> DEFINE S == Ahead(since) \cup {since}
  <1>1. \A u \in Live : u \in DOMAIN period /\ period[u].to \in Nat
    BY DEF Live, IInv, TypeOK, Period
  <1>2. S \in SUBSET Nat /\ S # {}
    BY <1>1 DEF Ahead
  <1>3. PICK b \in Nat : \A t \in DOMAIN period : period[t].to <= b
    BY DEF IInv, RowsInv, Bounded
  <1>4. PICK c \in Nat : b <= c /\ since <= c
    <2>1. CASE b <= since
      BY <2>1
    <2>2. CASE ~(b <= since)
      BY <2>2
    <2> QED BY <2>1, <2>2
  <1>5. \A x \in S : x <= c
    <2>1. \A u \in Live : period[u].to <= c
      BY <1>1, <1>3, <1>4
    <2> QED BY <1>4, <2>1 DEF Ahead
  <1>6. PICK g \in S : \A x \in S : x <= g
    <2> HIDE DEF S
    <2> QED BY <1>2, <1>5, Greatest
  <1>7. Base(since) \in S /\ \A x \in S : x <= Base(since)
    BY <1>6 DEF Base
  <1>8. \A u \in Live : period[u].to > since => period[u].to \in S
    BY DEF Ahead
  <1>9. Base(since) \in Nat /\ since <= Base(since)
    BY <1>2, <1>7
  <1> HIDE DEF S
  <1>10. ASSUME NEW u \in Live PROVE period[u].to <= Base(since)
    <2>1. CASE period[u].to > since
      BY <1>7, <1>8, <2>1
    <2>2. CASE ~(period[u].to > since)
      BY <1>1, <1>9, <2>2
    <2> QED BY <2>1, <2>2
  <1> QED BY <1>9, <1>10

\* The row an insert adds: it begins after every live period, so that the
\* exclusion constraint accepts it.
LEMMA InsertOf ==
    ASSUME IInv, NEW t \in Transactions, NEW since \in Nat, Insert(t, since)
    PROVE  /\ Moves(t, "written") /\ UNCHANGED lockVars
           /\ \E row \in Period :
                 /\ period' = [u \in DOMAIN period \cup {t} |-> IF u = t THEN row ELSE period[u]]
                 /\ row.written = now /\ row.status # "EXPIRED"
                 /\ \A u \in Live : period[u].to <= row.from
  <1> DEFINE from == Base(since)
             row == [from |-> from, to |-> from + Days(t), written |-> now,
                     status |-> IF from <= since THEN "ACTIVE" ELSE "SCHEDULED"]
  <1>1. from \in Nat /\ \A u \in Live : period[u].to <= from
    BY BaseOf
  <1>2. \A u \in Live : period[u].to \in Nat
    BY DEF Live, IInv, TypeOK, Period
  <1>3. Days(t) \in Nat
    BY PeriodAssumption DEF Days
  <1>4. now \in Nat
    BY PeriodAssumption DEF IInv, TypeOK
  <1>5. row \in Period
    <2>1. (IF from <= since THEN "ACTIVE" ELSE "SCHEDULED") \in {"SCHEDULED", "ACTIVE", "EXPIRED"}
      OBVIOUS
    <2> QED BY <1>1, <1>3, <1>4, <2>1 DEF Period
  <1>6. row.written = now /\ row.status # "EXPIRED" /\ row.from = from
    OBVIOUS
  <1>7. ~\E u \in Live : from < period[u].to /\ period[u].from < from + Days(t)
    <2> HIDE DEF from
    <2> QED BY <1>1, <1>2
  <1>8. /\ Moves(t, "written") /\ UNCHANGED lockVars
        /\ period' = [u \in DOMAIN period \cup {t} |-> IF u = t THEN row ELSE period[u]]
    BY <1>7 DEF Insert
  <1> HIDE DEF row, from
  <1> QED BY <1>1, <1>5, <1>6, <1>8
\* The row a transaction adds, and the rows that were there.
LEMMA RowAdded ==
    ASSUME NEW t, NEW row,
           period' = [u \in DOMAIN period \cup {t} |-> IF u = t THEN row ELSE period[u]]
    PROVE  /\ DOMAIN period' = DOMAIN period \cup {t}
           /\ period'[t] = row
           /\ \A u \in DOMAIN period \ {t} : period'[u] = period[u]
OBVIOUS

\* Housekeeping changes statuses only, and expires only what is over.
LEMMA KeepsRow ==
    ASSUME TypeOK, NEW t \in DOMAIN period
    PROVE  LET p == period[t]
               q == HousekeepingOf(p)
           IN  /\ q \in Period
               /\ q.from = p.from /\ q.to = p.to /\ q.written = p.written
               /\ q.status = "EXPIRED" => p.status = "EXPIRED" \/ p.to <= now
BY DEF TypeOK, Period, HousekeepingOf

LEMMA HousekeepingKeeps ==
    ASSUME TypeOK, PromotionHousekeeping
    PROVE  /\ DOMAIN period' = DOMAIN period
           /\ \A t \in DOMAIN period :
                 /\ period'[t] \in Period
                 /\ period'[t].from = period[t].from /\ period'[t].to = period[t].to
                 /\ period'[t].written = period[t].written
                 /\ period'[t].status = "EXPIRED" =>
                       period[t].status = "EXPIRED" \/ period[t].to <= now
  <1>1. \A t \in DOMAIN period : period[t] \in Period
    BY DEF TypeOK
  <1>2. \A t \in DOMAIN period : period'[t] = HousekeepingOf(period[t]) \/ period'[t] = period[t]
    BY DEF PromotionHousekeeping
  <1>3. DOMAIN period' = DOMAIN period
    BY DEF PromotionHousekeeping
  <1> QED BY <1>1, <1>2, <1>3, KeepsRow

\* The two ways to insert, and the grant that is not made.
LEMMA InsertsOf ==
    ASSUME IInv, NEW t \in Transactions,
           (t \in Payments /\ InsertPromotionPeriod(t)) \/ (t \in Grants /\ InsertGrant(t))
    PROVE  /\ Moves(t, "written") /\ UNCHANGED lockVars /\ at[t] = "locked"
           /\ UNCHANGED <<now, listingVars, campaignVars, begun, faults>>
           /\ \/ UNCHANGED period
              \/ /\ \E row \in Period :
                       /\ period' = [u \in DOMAIN period \cup {t} |->
                                       IF u = t THEN row ELSE period[u]]
                       /\ row.written = now /\ row.status # "EXPIRED"
                       /\ \A u \in Live : period[u].to <= row.from
                 /\ t \in Grants => Enrolls(t) /\ Still(t)
  <1>1. now \in Nat /\ begun[t] \in Nat
    BY PeriodAssumption DEF IInv, TypeOK
  <1>2. CASE t \in Payments /\ InsertPromotionPeriod(t)
    <2>1. Insert(t, begun[t])
      BY <1>2 DEF InsertPromotionPeriod
    <2>2. t \notin Grants
      BY <1>2, PeriodAssumption
    <2> QED BY <1>1, <1>2, <2>1, <2>2, InsertOf DEF InsertPromotionPeriod
  <1>3. CASE t \in Grants /\ InsertGrant(t)
    <2>1. CASE Still(t) /\ Enrolls(t) /\ ~Granted
      <3>1. Insert(t, now)
        BY <1>3, <2>1 DEF InsertGrant
      <3> QED BY <1>1, <1>3, <2>1, <3>1, InsertOf DEF InsertGrant
    <2>2. CASE ~(Still(t) /\ Enrolls(t) /\ ~Granted)
      BY <1>3, <2>2 DEF InsertGrant
    <2> QED BY <2>1, <2>2
  <1> QED BY <1>2, <1>3

----------------------------------------------------------------------------
(* Types *)

LEMMA TypeStep == IInv /\ [Next]_vars => TypeOK'
  <1> SUFFICES ASSUME IInv, [Next]_vars PROVE TypeOK'
    OBVIOUS
  <1>t. TypeOK
    BY DEF IInv
  <1> USE PeriodAssumption
  <1>1. CASE OpenCampaign \/ StopCampaign \/ StopCommits
    BY <1>t, <1>1 DEF OpenCampaign, StopCampaign, StopCommits, TypeOK
  <1>2. ASSUME NEW p \in Payments, BeginFulfillment(p) \/ LockForPromotion(p) PROVE TypeOK'
    BY <1>t, <1>2 DEF BeginFulfillment, LockForPromotion, LockListing, Moves, TypeOK
  <1>3. ASSUME NEW t \in Transactions,
               (t \in Payments /\ InsertPromotionPeriod(t)) \/ (t \in Grants /\ InsertGrant(t))
        PROVE  TypeOK'
    <2>1. /\ Moves(t, "written") /\ UNCHANGED lockVars
          /\ UNCHANGED <<now, listingVars, campaignVars, begun, faults>>
      BY <1>3, InsertsOf
    <2>2. /\ DOMAIN period' \subseteq Transactions
          /\ \A u \in DOMAIN period' : period'[u] \in Period
      <3>1. CASE UNCHANGED period
        BY <1>t, <3>1 DEF TypeOK
      <3>2. CASE \E row \in Period : period' = [u \in DOMAIN period \cup {t} |->
                                                  IF u = t THEN row ELSE period[u]]
        BY <1>t, <3>2, RowAdded DEF TypeOK
      <3> QED BY <1>3, <3>1, <3>2, InsertsOf
    <2> QED BY <1>t, <2>1, <2>2 DEF Moves, TypeOK
  <1>4. CASE BeginApproval \/ EnrollApprovedListing
    BY <1>t, <1>4 DEF BeginApproval, EnrollApprovedListing, LockCampaign, LockListing, Moves, TypeOK
  <1>5. ASSUME NEW r \in Runs, Backfill(r) PROVE TypeOK'
    BY <1>t, <1>5 DEF Backfill, PickListing, BeginGrant, LockCampaignForGrant, LockForGrant, LockCampaign,
                      LockListing, Moves, TypeOK
  <1>6. ASSUME NEW t \in Transactions, Commit(t) \/ Rollback(t) PROVE TypeOK'
    <2>1. /\ DOMAIN period' \subseteq Transactions
          /\ \A u \in DOMAIN period' : period'[u] \in Period
      BY <1>t, <1>6 DEF Commit, Rollback, TypeOK
    <2> QED BY <1>t, <1>6, <2>1 DEF Commit, Rollback, Unlock, Moves, TypeOK
  <1>7. CASE PromotionHousekeeping
    BY <1>t, <1>7, HousekeepingKeeps DEF PromotionHousekeeping, TypeOK
  <1>8. CASE Others \/ Tick
    BY <1>t, <1>8 DEF Others, HideListing, ShowListing, RenewListing, MoveListing, Tick, TypeOK
  <1>9. CASE UNCHANGED vars
    BY <1>t, <1>9 DEF vars, TypeOK
  <1> QED BY <1>1, <1>2, <1>3, <1>4, <1>5, <1>6, <1>7, <1>8, <1>9 DEF Next, Fulfillment, Others
----------------------------------------------------------------------------
(* Locks *)

\* A transaction another one's step does not touch.
Kept(t) ==
    /\ at'[t] = at[t]
    /\ holder = t => holder' = t
    /\ t \in sharing => t \in sharing'
    /\ t \in DOMAIN period' => t \in DOMAIN period

LEMMA KeptStep ==
    ASSUME NEW t \in Transactions, StepOf(t), Kept(t)
    PROVE  StepOf(t)'
BY DEF StepOf, Kept

LEMMA StepStep == IInv /\ [Next]_vars => StepInv'
  <1> SUFFICES ASSUME IInv, [Next]_vars, NEW t \in Transactions PROVE StepOf(t)'
    BY DEF StepInv
  <1>t. TypeOK /\ StepOf(t)
    BY DEF IInv, StepInv
  <1>n. t # Nobody /\ Approval \notin Payments /\ Approval \notin Runs /\ Payments \cap Runs = {}
    BY PeriodAssumption
  <1>1. CASE UNCHANGED <<at, lockVars>> /\ DOMAIN period' = DOMAIN period
    BY <1>t, <1>1, KeptStep DEF Kept
  <1>2. ASSUME NEW p \in Payments, BeginFulfillment(p) \/ LockForPromotion(p) PROVE StepOf(t)'
    <2>1. CASE t = p
      <3>1. /\ \/ at'[t] = "begun"
               \/ at'[t] = "locked" /\ holder' = t
            /\ UNCHANGED period
        BY <1>t, <1>2, <2>1 DEF BeginFulfillment, LockForPromotion, LockListing, Moves, TypeOK
      <3>2. t \notin DOMAIN period
        BY <1>t, <1>2, <2>1 DEF BeginFulfillment, LockForPromotion, StepOf
      <3> QED BY <1>2, <1>n, <2>1, <3>1, <3>2 DEF StepOf
    <2>2. CASE t # p
      BY <1>t, <1>2, <1>n, <2>2, KeptStep
         DEF BeginFulfillment, LockForPromotion, LockListing, ListingFree, Moves, TypeOK, Kept
    <2> QED BY <2>1, <2>2
  <1>3. ASSUME NEW u \in Transactions,
               (u \in Payments /\ InsertPromotionPeriod(u)) \/ (u \in Grants /\ InsertGrant(u))
        PROVE  StepOf(t)'
    <2>1. /\ Moves(u, "written") /\ UNCHANGED lockVars /\ at[u] = "locked"
          /\ DOMAIN period' \subseteq DOMAIN period \cup {u}
      <3>1. CASE UNCHANGED period
        BY <1>3, <3>1, InsertsOf
      <3>2. CASE \E row \in Period : period' = [v \in DOMAIN period \cup {u} |->
                                                  IF v = u THEN row ELSE period[v]]
        BY <1>3, <3>2, RowAdded, InsertsOf
      <3> QED BY <1>3, <3>1, <3>2, InsertsOf
    <2>2. CASE t = u
      BY <1>t, <2>1, <2>2 DEF Moves, TypeOK, StepOf
    <2>3. CASE t # u
      BY <1>t, <2>1, <2>3, KeptStep DEF Moves, TypeOK, Kept
    <2> QED BY <2>2, <2>3
  <1>4. CASE BeginApproval \/ EnrollApprovedListing
    <2>1. CASE t = Approval
      <3>1. /\ \/ at'[t] = "begun" /\ holder' = t
               \/ at'[t] = "locked" /\ holder' = t /\ t \in sharing'
               \/ at'[t] = "written" /\ holder' = t
            /\ UNCHANGED period
        BY <1>t, <1>4, <2>1 DEF BeginApproval, EnrollApprovedListing, LockCampaign, LockListing,
                                Moves, TypeOK, StepOf
      <3>2. t \notin DOMAIN period
        BY <1>t, <1>4, <2>1 DEF BeginApproval, EnrollApprovedListing, StepOf
      <3> QED BY <3>1, <3>2 DEF StepOf
    <2>2. CASE t # Approval
      BY <1>t, <1>4, <1>n, <2>2, KeptStep
         DEF BeginApproval, EnrollApprovedListing, LockCampaign, LockListing, ListingFree, Moves,
             TypeOK, Kept
    <2> QED BY <2>1, <2>2
  <1>5. ASSUME NEW r \in Runs, Backfill(r) PROVE StepOf(t)'
    <2>1. CASE t = r
      <3>1. /\ \/ at'[t] \in {"picked", "begun", "done"}
               \/ at'[t] = "enrolling" /\ t \in sharing'
               \/ at'[t] = "locked" /\ holder' = t /\ t \in sharing'
            /\ UNCHANGED period
        <4>1. CASE PickListing(r)
          BY <1>t, <2>1, <4>1 DEF PickListing, Moves, TypeOK
        <4>4. CASE BeginGrant(r)
          BY <1>t, <2>1, <4>4 DEF BeginGrant, Moves, TypeOK
        <4>2. CASE LockCampaignForGrant(r)
          BY <1>t, <2>1, <4>2 DEF LockCampaignForGrant, LockCampaign, Moves, TypeOK
        <4>3. CASE LockForGrant(r)
          BY <1>t, <2>1, <4>3 DEF LockForGrant, LockListing, Moves, TypeOK, StepOf
        <4> QED BY <1>5, <4>1, <4>2, <4>3, <4>4 DEF Backfill
      <3>2. t \notin DOMAIN period
        BY <1>t, <1>5, <2>1 DEF Backfill, PickListing, BeginGrant, LockCampaignForGrant, LockForGrant, StepOf
      <3> QED BY <1>n, <2>1, <3>1, <3>2 DEF StepOf
    <2>2. CASE t # r
      BY <1>t, <1>5, <1>n, <2>2, KeptStep
         DEF Backfill, PickListing, BeginGrant, LockCampaignForGrant, LockForGrant, LockCampaign, LockListing,
             ListingFree, Moves, TypeOK, Kept
    <2> QED BY <2>1, <2>2
  <1>6. ASSUME NEW u \in Transactions, Commit(u) \/ Rollback(u) PROVE StepOf(t)'
    <2>1. CASE t = u
      <3>1. \/ at'[t] = "done"
            \/ at'[t] = "idle" /\ t \notin DOMAIN period'
        BY <1>t, <1>6, <2>1 DEF Commit, Rollback, Moves, TypeOK
      <3> QED BY <3>1 DEF StepOf
    <2>2. CASE t # u
      BY <1>t, <1>6, <2>2, KeptStep DEF Commit, Rollback, Unlock, Moves, TypeOK, Kept
    <2> QED BY <2>1, <2>2
  <1>7. CASE OpenCampaign \/ StopCampaign \/ StopCommits \/ Others \/ Tick
    BY <1>1, <1>7 DEF OpenCampaign, StopCampaign, StopCommits, Others, HideListing, ShowListing, RenewListing, MoveListing, Tick
  <1>8. CASE PromotionHousekeeping
    BY <1>1, <1>8 DEF PromotionHousekeeping
  <1>9. CASE UNCHANGED vars
    BY <1>1, <1>9 DEF vars
  <1> QED BY <1>2, <1>3, <1>4, <1>5, <1>6, <1>7, <1>8, <1>9 DEF Next, Fulfillment, Others

\* The only step that closes the campaign waits until nobody shares it.
LEMMA ShareStep == IInv /\ [Next]_vars => ShareInv'
  <1> SUFFICES ASSUME IInv, [Next]_vars PROVE ShareInv'
    OBVIOUS
  <1>i. ShareInv
    BY DEF IInv
  <1>1. CASE OpenCampaign \/ StopCampaign \/ StopCommits
    BY <1>i, <1>1 DEF OpenCampaign, StopCampaign, StopCommits, Stoppable, ShareInv
  <1>2. CASE UNCHANGED campaignVars /\ sharing' \subseteq sharing
    BY <1>i, <1>2 DEF ShareInv
  <1>3. ASSUME NEW t, NEW found, NEW otherwise, LockCampaign(t, found, otherwise),
               UNCHANGED campaignVars
        PROVE  ShareInv'
    BY <1>i, <1>3 DEF LockCampaign, CampaignLockable, ShareInv
  <1>4. ASSUME NEW p \in Payments, BeginFulfillment(p) \/ LockForPromotion(p) PROVE ShareInv'
    BY <1>2, <1>4 DEF BeginFulfillment, LockForPromotion
  <1>5. ASSUME NEW t \in Transactions,
               (t \in Payments /\ InsertPromotionPeriod(t)) \/ (t \in Grants /\ InsertGrant(t))
        PROVE  ShareInv'
    BY <1>2, <1>5, InsertsOf
  <1>6. CASE BeginApproval \/ EnrollApprovedListing
    BY <1>2, <1>3, <1>6 DEF BeginApproval, EnrollApprovedListing
  <1>7. ASSUME NEW r \in Runs, Backfill(r) PROVE ShareInv'
    BY <1>2, <1>3, <1>7 DEF Backfill, PickListing, BeginGrant, LockCampaignForGrant, LockForGrant
  <1>8. ASSUME NEW t \in Transactions, Commit(t) \/ Rollback(t) PROVE ShareInv'
    BY <1>2, <1>8 DEF Commit, Rollback, Unlock
  <1>9. CASE PromotionHousekeeping \/ Others \/ Tick \/ UNCHANGED vars
    BY <1>2, <1>9 DEF PromotionHousekeeping, Others, HideListing, ShowListing, RenewListing, MoveListing, Tick, vars
  <1> QED BY <1>1, <1>4, <1>5, <1>6, <1>7, <1>8, <1>9 DEF Next, Fulfillment, Others
----------------------------------------------------------------------------
(* Rows *)

\* A step that adds no row, moves none and expires only what is over.
LEMMA RowsKept ==
    ASSUME IInv, now' \in Nat, now <= now', DOMAIN period' \subseteq DOMAIN period,
           \A t \in DOMAIN period' :
              /\ period'[t].from = period[t].from /\ period'[t].to = period[t].to
              /\ period'[t].written = period[t].written
              /\ period'[t].status = "EXPIRED" =>
                    period[t].status = "EXPIRED" \/ period[t].to <= now
    PROVE  RowsInv'
  <1>1. now \in Nat /\ \A t \in DOMAIN period : period[t].to \in Nat
    BY PeriodAssumption DEF IInv, TypeOK, Period
  <1>2. Bounded'
    BY DEF IInv, RowsInv, Bounded
  <1>3. ExpiredIsOver'
    <2> SUFFICES ASSUME NEW t \in DOMAIN period', period'[t].status = "EXPIRED"
                 PROVE  period'[t].to <= now'
      BY DEF ExpiredIsOver
    <2>1. period[t].to <= now
      BY DEF IInv, RowsInv, ExpiredIsOver
    <2> QED BY <1>1, <2>1
  <1>4. TimeIsSoldOnce'
    BY DEF IInv, RowsInv, TimeIsSoldOnce
  <1>5. \A t \in Grants \cap DOMAIN period' :
            WindowFrom <= period'[t].written /\ period'[t].written < WindowTo
    BY DEF IInv, RowsInv
  <1> QED BY <1>2, <1>3, <1>4, <1>5 DEF RowsInv

\* A new row begins after every row that is not over: the others in the table
\* are committed, since the listing is locked.
LEMMA RowsGrow ==
    ASSUME IInv, NEW t \in Transactions, at[t] = "locked", NEW row \in Period,
           period' = [u \in DOMAIN period \cup {t} |-> IF u = t THEN row ELSE period[u]],
           row.written = now, row.status # "EXPIRED",
           \A u \in Live : period[u].to <= row.from,
           t \in Grants => Enrolls(t), now' = now
    PROVE  RowsInv'
  <1>t. TypeOK /\ RowsInv
    BY DEF IInv
  <1>1. /\ DOMAIN period' = DOMAIN period \cup {t} /\ period'[t] = row
        /\ \A u \in DOMAIN period \ {t} : period'[u] = period[u]
    BY RowAdded
  <1>2. now \in Nat /\ row.to \in Nat /\ \A u \in DOMAIN period : period[u].to \in Nat
    BY <1>t, PeriodAssumption DEF TypeOK, Period
  <1>3. t \notin DOMAIN period
    BY DEF IInv, StepInv, StepOf
  <1>4. ASSUME NEW u \in DOMAIN period
        PROVE  period[u].to <= row.from \/ period[u].to <= row.written
    <2>1. CASE u \in Live
      BY <2>1
    <2>2. CASE period[u].status = "EXPIRED"
      BY <1>t, <2>2 DEF RowsInv, ExpiredIsOver
    <2>3. CASE ~Committed(u)
      <3>1. u \in Transactions /\ at[u] = "written"
        BY <1>t, <2>3 DEF IInv, TypeOK, StepInv, StepOf, Committed
      <3>2. holder = u /\ holder = t
        BY <3>1 DEF IInv, StepInv, StepOf
      <3> QED BY <1>3, <3>2
    <2> QED BY <2>1, <2>2, <2>3 DEF Live
  <1>5. Bounded'
    <2>1. PICK b \in Nat : \A u \in DOMAIN period : period[u].to <= b
      BY <1>t DEF RowsInv, Bounded
    <2>2. b + row.to \in Nat /\ row.to <= b + row.to
      BY <1>2, <2>1
    <2>3. \A u \in DOMAIN period : period[u].to <= b + row.to
      BY <1>2, <2>1
    <2>4. \A u \in DOMAIN period' : period'[u].to <= b + row.to
      BY <1>1, <1>3, <2>2, <2>3
    <2> QED BY <2>2, <2>4 DEF Bounded
  <1>6. ExpiredIsOver'
    BY <1>t, <1>1, <1>3 DEF RowsInv, ExpiredIsOver
  <1>7. TimeIsSoldOnce'
    <2> SUFFICES ASSUME NEW u \in DOMAIN period', NEW v \in DOMAIN period', u # v
                 PROVE  \/ period'[u].to <= period'[v].from \/ period'[u].to <= period'[v].written
                        \/ period'[v].to <= period'[u].from \/ period'[v].to <= period'[u].written
      BY DEF TimeIsSoldOnce
    <2>1. CASE u = t
      BY <1>1, <1>4, <2>1
    <2>2. CASE v = t
      BY <1>1, <1>4, <2>2
    <2>3. CASE u # t /\ v # t
      BY <1>t, <1>1, <2>3 DEF RowsInv, TimeIsSoldOnce
    <2> QED BY <2>1, <2>2, <2>3
  <1>8. \A u \in Grants \cap DOMAIN period' :
            WindowFrom <= period'[u].written /\ period'[u].written < WindowTo
    BY <1>t, <1>1, <1>3 DEF RowsInv, Enrolls, InWindow
  <1> QED BY <1>5, <1>6, <1>7, <1>8 DEF RowsInv

LEMMA RowsStep == IInv /\ [Next]_vars => RowsInv'
  <1> SUFFICES ASSUME IInv, [Next]_vars PROVE RowsInv'
    OBVIOUS
  <1>t. TypeOK /\ now \in Nat
    BY PeriodAssumption DEF IInv, TypeOK
  <1>1. CASE UNCHANGED <<now, period>>
    BY <1>t, <1>1, RowsKept
  <1>2. ASSUME NEW t \in Transactions,
               (t \in Payments /\ InsertPromotionPeriod(t)) \/ (t \in Grants /\ InsertGrant(t))
        PROVE  RowsInv'
    <2>1. CASE UNCHANGED period
      BY <1>1, <1>2, <2>1, InsertsOf
    <2>2. CASE ~UNCHANGED period
      <3>1. PICK row \in Period :
              /\ period' = [u \in DOMAIN period \cup {t} |-> IF u = t THEN row ELSE period[u]]
              /\ row.written = now /\ row.status # "EXPIRED"
              /\ \A u \in Live : period[u].to <= row.from
        BY <1>2, <2>2, InsertsOf
      <3>2. at[t] = "locked" /\ now' = now /\ (t \in Grants => Enrolls(t))
        BY <1>2, <2>2, InsertsOf
      <3> QED BY <3>1, <3>2, RowsGrow
    <2> QED BY <2>1, <2>2
  <1>3. ASSUME NEW t \in Transactions, Commit(t) \/ Rollback(t) PROVE RowsInv'
    <2>1. CASE Commit(t)
      BY <1>1, <2>1 DEF Commit
    <2>2. CASE Rollback(t)
      BY <1>t, <2>2, RowsKept DEF Rollback
    <2> QED BY <1>3, <2>1, <2>2
  <1>4. CASE PromotionHousekeeping
    BY <1>t, <1>4, HousekeepingKeeps, RowsKept DEF PromotionHousekeeping
  <1>5. CASE Tick
    BY <1>t, <1>5, RowsKept DEF Tick
  <1>6. CASE OpenCampaign \/ StopCampaign \/ StopCommits \/ UNCHANGED vars
    BY <1>1, <1>6 DEF OpenCampaign, StopCampaign, StopCommits, vars
  <1>7. ASSUME NEW p \in Payments, BeginFulfillment(p) \/ LockForPromotion(p) PROVE RowsInv'
    BY <1>1, <1>7 DEF BeginFulfillment, LockForPromotion
  <1>8. CASE BeginApproval \/ EnrollApprovedListing
    BY <1>1, <1>8 DEF BeginApproval, EnrollApprovedListing
  <1>9. ASSUME NEW r \in Runs, Backfill(r) PROVE RowsInv'
    BY <1>1, <1>9 DEF Backfill, PickListing, BeginGrant, LockCampaignForGrant, LockForGrant
  <1>10. CASE Others
    BY <1>1, <1>10 DEF Others, HideListing, ShowListing, RenewListing, MoveListing
  <1> QED
    BY <1>2, <1>3, <1>4, <1>5, <1>6, <1>7, <1>8, <1>9, <1>10 DEF Next, Fulfillment, Others

\* While a run has written and not committed, nobody moves the listing, and the
\* run keeps the time it began at.
LEMMA VisibleStep == IInv /\ [Next]_vars => VisibleInv'
  <1> SUFFICES ASSUME IInv, [Next]_vars, NEW r \in Runs, at'[r] = "written", r \in DOMAIN period'
               PROVE  EligibleFor(r)'
    BY DEF VisibleInv
  <1>t. TypeOK /\ StepOf(r) /\ Approval # r /\ r \notin Payments /\ r # Nobody /\ r \in Grants
    BY PeriodAssumption DEF IInv, StepInv
  <1>1. CASE at[r] = "written" /\ r \in DOMAIN period
    <2> DEFINE Keeps == UNCHANGED listingVars /\ begun'[r] = begun[r]
    <2>1. EligibleFor(r) /\ holder = r /\ begun \in [Transactions -> Nat]
      BY <1>t, <1>1 DEF IInv, VisibleInv, StepOf, TypeOK
    <2>2. ASSUME NEW t \in Transactions,
                 (t \in Payments /\ InsertPromotionPeriod(t)) \/ (t \in Grants /\ InsertGrant(t))
          PROVE  Keeps
      BY <2>2, InsertsOf
    <2>3. ASSUME NEW q \in Runs, Backfill(q) PROVE Keeps
      <3>1. CASE BeginGrant(q)
        <4>1. q # r
          BY <1>1, <3>1 DEF BeginGrant
        <4> QED BY <1>t, <2>1, <3>1, <4>1 DEF BeginGrant
      <3>2. CASE PickListing(q) \/ LockCampaignForGrant(q) \/ LockForGrant(q)
        BY <3>2 DEF PickListing, LockCampaignForGrant, LockForGrant
      <3> QED BY <2>3, <3>1, <3>2 DEF Backfill
    <2>4. ASSUME NEW p \in Payments, BeginFulfillment(p) \/ LockForPromotion(p) PROVE Keeps
      <3>1. p # r
        BY <1>t
      <3>2. CASE BeginFulfillment(p)
        <4>1. begun'[r] = begun[r]
          BY <1>t, <2>1, <3>1, <3>2 DEF BeginFulfillment
        <4> QED BY <3>2, <4>1 DEF BeginFulfillment
      <3> QED BY <2>4, <3>2 DEF LockForPromotion
    <2>5. ASSUME BeginApproval \/ EnrollApprovedListing PROVE Keeps
      <3>1. CASE BeginApproval
        <4>1. begun'[r] = begun[r]
          BY <1>t, <2>1, <3>1 DEF BeginApproval
        <4> QED BY <3>1, <4>1 DEF BeginApproval
      <3> QED BY <2>5, <3>1 DEF EnrollApprovedListing
    <2>6. ASSUME \/ OpenCampaign \/ StopCampaign \/ StopCommits
                 \/ PromotionHousekeeping \/ Tick \/ UNCHANGED vars
          PROVE  Keeps
      BY <2>6 DEF OpenCampaign, StopCampaign, StopCommits, PromotionHousekeeping, Tick, vars
    <2>7. ASSUME NEW t \in Transactions, Commit(t) \/ Rollback(t) PROVE Keeps
      <3>1. t # Approval \/ ~Commit(t)
        <4>1. SUFFICES ASSUME t = Approval, at[Approval] = "written" PROVE FALSE
          BY DEF Commit
        <4>2. holder = Approval
          BY <2>7, <4>1 DEF IInv, StepInv, StepOf
        <4> QED BY <1>t, <2>1, <4>2
      <3> QED BY <2>7, <3>1 DEF Commit, Rollback
    <2>8. ~Others
      BY <1>t, <2>1 DEF Others, HideListing, ShowListing, RenewListing, MoveListing, ListingFree
    <2> HIDE DEF Keeps
    <2>9. Keeps
      BY <2>2, <2>3, <2>4, <2>5, <2>6, <2>7, <2>8 DEF Next, Fulfillment, Others
    <2> USE DEF Keeps
    <2> QED BY <2>1, <2>9 DEF EligibleFor
  <1>2. CASE ~(at[r] = "written" /\ r \in DOMAIN period)
    <2>1. ASSUME NEW t \in Transactions,
                 (t \in Payments /\ InsertPromotionPeriod(t)) \/ (t \in Grants /\ InsertGrant(t))
          PROVE  EligibleFor(r)'
      <3>1. t = r
        <4>1. SUFFICES ASSUME t # r PROVE FALSE
          OBVIOUS
        <4>2. at'[r] = at[r]
          <5>1. Moves(t, "written")
            BY <2>1, InsertsOf
          <5> QED BY <1>t, <4>1, <5>1 DEF Moves, TypeOK
        <4>3. DOMAIN period' \subseteq DOMAIN period \cup {t}
          <5>1. CASE UNCHANGED period
            BY <5>1
          <5>2. CASE ~UNCHANGED period
            BY <2>1, <5>2, InsertsOf, RowAdded
          <5> QED BY <5>1, <5>2
        <4> QED BY <1>2, <4>1, <4>2, <4>3
      <3>2. r \notin DOMAIN period
        BY <2>1, <3>1, InsertsOf DEF IInv, StepInv, StepOf
      <3>3. ~UNCHANGED period
        BY <3>2
      <3> QED BY <1>t, <2>1, <3>1, <3>3, InsertsOf DEF Still, EligibleFor
    <2>2. CASE at'[r] = at[r] /\ DOMAIN period' \subseteq DOMAIN period
      BY <1>2, <2>2
    <2>3. ASSUME NEW p \in Payments, BeginFulfillment(p) \/ LockForPromotion(p)
          PROVE  EligibleFor(r)'
      BY <1>t, <2>2, <2>3 DEF BeginFulfillment, LockForPromotion, LockListing, Moves, TypeOK
    <2>4. CASE BeginApproval \/ EnrollApprovedListing
      BY <1>t, <2>2, <2>4 DEF BeginApproval, EnrollApprovedListing, LockCampaign, LockListing,
                              Moves, TypeOK
    <2>5. ASSUME NEW q \in Runs, Backfill(q) PROVE EligibleFor(r)'
      <3>1. CASE q = r
        BY <1>t, <2>5, <3>1 DEF Backfill, PickListing, BeginGrant, LockCampaignForGrant, LockForGrant,
                                LockCampaign, LockListing, Moves, TypeOK
      <3>2. CASE q # r
        BY <1>t, <2>2, <2>5, <3>2 DEF Backfill, PickListing, BeginGrant, LockCampaignForGrant, LockForGrant,
                                      LockCampaign, LockListing, Moves, TypeOK
      <3> QED BY <3>1, <3>2
    <2>6. ASSUME NEW t \in Transactions, Commit(t) \/ Rollback(t) PROVE EligibleFor(r)'
      <3>1. CASE t = r
        BY <1>t, <2>6, <3>1 DEF Commit, Rollback, Moves, TypeOK
      <3>2. CASE t # r
        BY <1>t, <2>2, <2>6, <3>2 DEF Commit, Rollback, Moves, TypeOK
      <3> QED BY <3>1, <3>2
    <2>7. CASE OpenCampaign \/ StopCampaign \/ StopCommits \/ PromotionHousekeeping
               \/ Others \/ Tick \/ UNCHANGED vars
      BY <2>2, <2>7 DEF OpenCampaign, StopCampaign, StopCommits, PromotionHousekeeping,
                        Others, HideListing, ShowListing, RenewListing, MoveListing, Tick, vars
    <2> QED BY <2>1, <2>3, <2>4, <2>5, <2>6, <2>7 DEF Next, Fulfillment, Others
  <1> QED BY <1>1, <1>2

----------------------------------------------------------------------------
(* Theorems *)

LEMMA Starts == Init => IInv
  <1> SUFFICES ASSUME Init PROVE IInv
    OBVIOUS
  <1>1. DOMAIN period = {} /\ \A t \in Transactions : at[t] = "idle"
    BY DEF Init
  <1>2. TypeOK
    <2>1. at \in [Transactions -> {"idle", "picked", "begun", "enrolling", "locked",
                                   "written", "refused", "done"}]
      BY DEF Init
    <2>2. now \in 0..Horizon /\ faults \in 0..MaxFaults
      BY PeriodAssumption DEF Init
    <2>3. listing \in {"IN_REVIEW", "ACTIVE", "HIDDEN"} /\ expires \in Nat
      BY PeriodAssumption DEF Init
    <2> QED BY <1>1, <2>1, <2>2, <2>3 DEF Init, TypeOK
  <1>3. StepInv /\ VisibleInv
    BY <1>1 DEF StepInv, StepOf, VisibleInv
  <1>4. ShareInv
    BY DEF Init, ShareInv
  <1>5. RowsInv
    BY <1>1 DEF RowsInv, Bounded, ExpiredIsOver, TimeIsSoldOnce
  <1> QED BY <1>2, <1>3, <1>4, <1>5 DEF IInv

LEMMA Inductive == Spec => []IInv
  <1>1. IInv /\ [Next]_vars => IInv'
    BY TypeStep, StepStep, ShareStep, RowsStep, VisibleStep DEF IInv
  <1> QED BY Starts, <1>1, PTL DEF Spec

\* Every variable keeps its type: the steps and locks of the transactions, the
\* rows, the campaign.
THEOREM TypeCorrect == Spec => []TypeOK
  <1>1. IInv => TypeOK
    BY DEF IInv
  <1> QED BY <1>1, Inductive, PTL

\* No coming instant is sold or given twice, for any number of payments and
\* runs and any durations (repositories/promotions.ts insertPromotionPeriod).
THEOREM TimeIsSoldOnceHolds == Spec => []TimeIsSoldOnce
  <1>1. IInv => TimeIsSoldOnce
    BY DEF IInv, RowsInv
  <1> QED BY <1>1, Inductive, PTL

\* The exclusion constraint on the periods never refuses a paid period or an
\* approval.
THEOREM NobodyIsRefusedHolds == Spec => []NobodyIsRefused
  <1>1. IInv => NobodyIsRefused
    BY DEF IInv, StepInv, StepOf, NobodyIsRefused
  <1> QED BY <1>1, Inductive, PTL

\* A grant is written inside the window by the clock, and a run grants to a listing
\* nobody has hidden, valid when the run's transaction began.
THEOREM GrantsAreEligibleHolds == Spec => []GrantsAreEligible
  <1>1. IInv => GrantsAreEligible
    BY DEF IInv, RowsInv, VisibleInv, EligibleFor, GrantsAreEligible
  <1> QED BY <1>1, Inductive, PTL

\* Once a stop has committed no grant commits: a written grant shares the
\* campaign, and the stop waited for it.
THEOREM StoppedIsStoppedHolds == Spec => StoppedIsStopped
  <1>1. IInv /\ [Next]_vars =>
            (campaign = "STOPPED" => \A t \in Grants : Committed(t)' => Committed(t))
    <2> SUFFICES ASSUME IInv, [Next]_vars, campaign = "STOPPED",
                        NEW t \in Grants, Committed(t)', ~Committed(t)
                 PROVE  FALSE
      OBVIOUS
    <2>t. TypeOK /\ StepOf(t) /\ t \notin sharing
      BY DEF IInv, ShareInv, StepInv
    <2>1. CASE at'[t] = at[t] /\ DOMAIN period' \subseteq DOMAIN period
      BY <2>1 DEF Committed
    <2>2. ASSUME NEW u \in Transactions, Commit(u) \/ Rollback(u) PROVE FALSE
      <3>1. CASE u = t
        BY <2>t, <2>2, <3>1 DEF Commit, Rollback, Moves, TypeOK, Committed, StepOf
      <3>2. CASE u # t
        BY <2>t, <2>1, <2>2, <3>2 DEF Commit, Rollback, Moves, TypeOK
      <3> QED BY <3>1, <3>2
    <2>3. ASSUME NEW u \in Transactions,
                 (u \in Payments /\ InsertPromotionPeriod(u)) \/ (u \in Grants /\ InsertGrant(u))
          PROVE  FALSE
      <3>1. Moves(u, "written")
        BY <2>3, InsertsOf
      <3>2. at'[t] = "done"
        BY DEF Committed
      <3>3. u # t /\ at'[t] = at[t]
        BY <2>t, <3>1, <3>2 DEF Moves, TypeOK
      <3>4. DOMAIN period' \subseteq DOMAIN period \cup {u}
        <4>1. CASE UNCHANGED period
          BY <4>1
        <4>2. CASE ~UNCHANGED period
          BY <2>3, <4>2, InsertsOf, RowAdded
        <4> QED BY <4>1, <4>2
      <3> QED BY <3>3, <3>4 DEF Committed
    <2>4. CASE UNCHANGED period /\ t \notin DOMAIN period
      BY <2>4 DEF Committed
    <2>5. ASSUME NEW p \in Payments, BeginFulfillment(p) \/ LockForPromotion(p) PROVE FALSE
      BY <2>t, <2>1, <2>5, PeriodAssumption
         DEF BeginFulfillment, LockForPromotion, LockListing, Moves, TypeOK
    <2>6. CASE BeginApproval \/ EnrollApprovedListing
      <3>1. CASE t = Approval
        BY <2>t, <2>4, <2>6, <3>1 DEF BeginApproval, EnrollApprovedListing, StepOf
      <3>2. CASE t # Approval
        BY <2>t, <2>1, <2>6, <3>2 DEF BeginApproval, EnrollApprovedListing, LockCampaign,
                                      LockListing, Moves, TypeOK
      <3> QED BY <3>1, <3>2
    <2>7. ASSUME NEW r \in Runs, Backfill(r) PROVE FALSE
      <3>1. CASE t = r
        BY <2>t, <2>4, <2>7, <3>1
           DEF Backfill, PickListing, BeginGrant, LockCampaignForGrant, LockForGrant, StepOf
      <3>2. CASE t # r
        BY <2>t, <2>1, <2>7, <3>2
           DEF Backfill, PickListing, BeginGrant, LockCampaignForGrant, LockForGrant, LockCampaign,
               LockListing, Moves, TypeOK
      <3> QED BY <3>1, <3>2
    <2>8. CASE OpenCampaign \/ StopCampaign \/ StopCommits \/ PromotionHousekeeping
               \/ Others \/ Tick \/ UNCHANGED vars
      BY <2>1, <2>8 DEF OpenCampaign, StopCampaign, StopCommits, PromotionHousekeeping,
                        Others, HideListing, ShowListing, RenewListing, MoveListing, Tick, vars
    <2> QED BY <2>2, <2>3, <2>5, <2>6, <2>7, <2>8 DEF Next, Fulfillment, Others
  <1>2. IInv /\ [Next]_vars =>
            [campaign = "STOPPED" => \A t \in Grants : Committed(t)' => Committed(t)]_vars
    BY <1>1
  <1> QED BY <1>2, Inductive, PTL DEF Spec, StoppedIsStopped
=============================================================================
