----------------------- MODULE ListingLifecycle_proofs -----------------------
(***************************************************************************)
(* Theorems about ListingLifecycle, for every validity, renewal duration   *)
(* and length of the run.                                                  *)
(***************************************************************************)
EXTENDS ListingLifecycle, SequenceTheorems, TLAPS

----------------------------------------------------------------------------
(* Periods *)

NewPeriod(days) == [starts |-> now, ends |-> now + days, live |-> TRUE]
LapsedPeriods == [i \in DOMAIN periods |-> Lapse(periods[i])]

\* Granting a period appends it and keeps the earlier ones.
LEMMA PeriodGranted ==
    ASSUME TypeOK, NEW days \in Nat, GrantPeriod(days)
    PROVE  /\ periods' \in Seq(Period)
           /\ Len(periods') = Len(periods) + 1
           /\ DOMAIN periods = 1..Len(periods)
           /\ DOMAIN periods' = 1..(Len(periods) + 1)
           /\ \A i \in 1..Len(periods) : periods'[i] = periods[i]
           /\ periods'[Len(periods) + 1] = NewPeriod(days)
  <1>1. periods \in Seq(Period) /\ NewPeriod(days) \in Period
    BY DEF TypeOK, Period, NewPeriod
  <1>2. periods' = Append(periods, NewPeriod(days))
    BY DEF GrantPeriod, NewPeriod
  <1>. QED
    BY <1>1, <1>2

\* The expiry job changes nothing of a period but its status.
LEMMA PeriodsLapse ==
    ASSUME TypeOK, periods' = LapsedPeriods
    PROVE  /\ periods' \in Seq(Period)
           /\ Len(periods') = Len(periods)
           /\ DOMAIN periods = 1..Len(periods)
           /\ DOMAIN periods' = 1..Len(periods)
           /\ \A i \in 1..Len(periods) :
                 /\ periods'[i].starts = periods[i].starts
                 /\ periods'[i].ends = periods[i].ends
                 /\ periods'[i].live = (periods[i].live /\ periods[i].ends > now)
  <1>1. periods \in Seq(Period) /\ Len(periods) \in Nat /\ DOMAIN periods = 1..Len(periods)
    BY DEF TypeOK
  <1>2. \A i \in 1..Len(periods) : periods[i] \in Period
    BY <1>1
  <1>3. \A i \in 1..Len(periods) :
           /\ Lapse(periods[i]) \in Period
           /\ Lapse(periods[i]).starts = periods[i].starts
           /\ Lapse(periods[i]).ends = periods[i].ends
           /\ Lapse(periods[i]).live = (periods[i].live /\ periods[i].ends > now)
    BY <1>2 DEF Lapse, Period
  <1>4. periods' \in [1..Len(periods) -> Period]
    BY <1>1, <1>3 DEF LapsedPeriods
  <1>5. periods' \in Seq(Period) /\ Len(periods') = Len(periods)
    BY <1>1, <1>4
  <1>. QED
    BY <1>1, <1>3, <1>4, <1>5 DEF LapsedPeriods

----------------------------------------------------------------------------
(* Type correctness *)

\* Every step keeps the variables in their types.
LEMMA TypeStep == TypeOK /\ [Next]_vars => TypeOK'
  <1>. SUFFICES ASSUME TypeOK, [Next]_vars PROVE TypeOK'
    OBVIOUS
  <1>. USE DurationAssumption
  <1>1. CASE Tick
    BY <1>1 DEF TypeOK, Tick, validityVars, visibilityVars
  <1>2. CASE ApproveListing
    BY <1>2, PeriodGranted DEF TypeOK, ApproveListing, visibilityVars, ListingStatus
  <1>3. CASE ReturnToSeller \/ ResubmitListing \/ SuspendListing \/ UnsuspendListing
    BY <1>3 DEF TypeOK, ReturnToSeller, ResubmitListing, SuspendListing, UnsuspendListing,
                MoveStatus, validityVars, visibilityVars, ListingStatus
  <1>4. CASE ExpireListing
    <2>1. periods' = LapsedPeriods
      BY <1>4 DEF ExpireListing, LapsedPeriods
    <2>2. periods' \in Seq(Period)
      BY <2>1, PeriodsLapse
    <2>. QED
      BY <1>4, <2>2 DEF TypeOK, ExpireListing, visibilityVars, ListingStatus
  <1>5. CASE DeactivateListing \/ RepeatDeactivation \/ ReactivateListing
    BY <1>5 DEF TypeOK, DeactivateListing, RepeatDeactivation, ReactivateListing, Finalize,
                Gates, validityVars
  <1>6. CASE GetOrCreateEditRevision \/ CancelOpenEditRevision
                \/ \E activate \in BOOLEAN : SubmitEditRevision(activate)
    BY <1>6 DEF TypeOK, GetOrCreateEditRevision, CancelOpenEditRevision, SubmitEditRevision,
                MayRequest, ClearRequest, validityVars, visibilityVars
  <1>7. CASE ApproveEdit \/ RejectEdit \/ RequestEditCorrection
    BY <1>7 DEF TypeOK, ApproveEdit, RejectEdit, RequestEditCorrection, Finalize, Gates,
                ClearRequest, validityVars, visibilityVars
  <1>8. CASE CreateRenewalCheckout \/ RenewalRefunded
    BY <1>8 DEF TypeOK, CreateRenewalCheckout, RenewalRefunded, validityVars, visibilityVars
  <1>9. CASE FulfillRenewal
    <2>1. periods' \in Seq(Period)
      BY <1>9, PeriodGranted DEF FulfillRenewal
    <2>2. CASE status = "EXPIRED"
      BY <1>9, <2>1, <2>2 DEF TypeOK, FulfillRenewal, Finalize, Gates, Renewed, ListingStatus
    <2>3. CASE status # "EXPIRED"
      BY <1>9, <2>1, <2>3 DEF TypeOK, FulfillRenewal, Renewed
    <2>. QED
      BY <2>2, <2>3
  <1>10. CASE UNCHANGED vars
    BY <1>10 DEF TypeOK, vars
  <1>. QED
    BY <1>1, <1>2, <1>3, <1>4, <1>5, <1>6, <1>7, <1>8, <1>9, <1>10 DEF Next, Moderator, Seller

\* The listing a first submission creates is typed.
LEMMA InitTyped == Init => TypeOK
  <1>. SUFFICES ASSUME Init PROVE TypeOK
    OBVIOUS
  <1>1. <<>> \in Seq(Period)
    BY EmptySeq
  <1>2. periods \in Seq(Period)
    BY <1>1, Zenon DEF Init
  <1>3. /\ now \in Nat /\ status \in ListingStatus /\ expiresAt \in Nat
        /\ deactivated \in BOOLEAN /\ requested \in BOOLEAN
        /\ edit = "none" /\ renewal = "none" /\ intent = "hidden"
    BY DEF Init, ListingStatus
  <1>. QED
    BY <1>2, <1>3 DEF TypeOK

\* The variables of ListingLifecycle keep their types in every behaviour.
THEOREM TypeCorrect == Spec => []TypeOK
  BY InitTyped, TypeStep, PTL DEF Spec

----------------------------------------------------------------------------
(* The inductive invariant *)

Unpublished == status \in {"PENDING_MODERATION", "CORRECTION_REQUIRED", "REJECTED"}

\* Nothing of a publication exists before the first approval.
UnpublishedInv ==
    Unpublished => periods = <<>> /\ expiresAt = 0 /\ ~deactivated /\ edit = "none"

\* Afterwards the newest period ends when the listing does.
PublishedInv ==
    ~Unpublished => /\ Len(periods) > 0
                    /\ periods[Len(periods)].ends = expiresAt
                    /\ periods[Len(periods)].starts <= now

\* A listing is EXPIRED only once its validity is over.
ExpiredInv == status = "EXPIRED" => expiresAt <= now

\* No period outlasts the listing's validity.
WithinInv == \A i \in DOMAIN periods : periods[i].ends <= expiresAt

\* Only a lapsed period is closed.
LiveInv == \A i \in DOMAIN periods : periods[i].ends > now => periods[i].live

IInv ==
    /\ TypeOK
    /\ PaidRenewalFindsExpired
    /\ UnpublishedInv
    /\ PublishedInv
    /\ ExpiredInv
    /\ WithinInv
    /\ LiveInv
    /\ PeriodsDisjoint
    /\ RequestIsStanding

\* The conjuncts about time and periods.
PeriodInv == PublishedInv /\ WithinInv /\ LiveInv /\ PeriodsDisjoint

\* A period granted to a listing that is not valid any more (or not yet) keeps
\* the periods in order and becomes the one the listing's validity follows.
LEMMA GrantKeepsPeriods ==
    ASSUME IInv, NEW days \in Nat \ {0}, GrantPeriod(days), expiresAt <= now,
           expiresAt' = now + days, now' = now
    PROVE  PeriodInv'
  <1>. DEFINE n == Len(periods)
  <1>1. TypeOK /\ n \in Nat /\ now \in Nat /\ expiresAt \in Nat
    BY DEF IInv, TypeOK
  <1>2. /\ Len(periods') = n + 1
        /\ DOMAIN periods = 1..n
        /\ DOMAIN periods' = 1..(n + 1)
        /\ \A i \in 1..n : periods'[i] = periods[i]
        /\ periods'[n + 1] = NewPeriod(days)
    BY <1>1, PeriodGranted
  <1>3. /\ NewPeriod(days).starts = now
        /\ NewPeriod(days).ends = now + days
        /\ NewPeriod(days).live
    BY DEF NewPeriod
  <1>4. \A i \in 1..n : periods[i] \in Period
    BY <1>1, <1>2 DEF TypeOK
  <1>5. \A i \in 1..n : periods[i].ends \in Nat /\ periods[i].ends <= expiresAt
    BY <1>2, <1>4 DEF IInv, WithinInv, Period
  <1>6. PublishedInv'
    BY <1>1, <1>2, <1>3 DEF PublishedInv
  <1>7. WithinInv'
    <2>. SUFFICES ASSUME NEW i \in 1..(n + 1) PROVE periods'[i].ends <= expiresAt'
      BY <1>2 DEF WithinInv
    <2>1. CASE i = n + 1
      BY <2>1, <1>1, <1>2, <1>3
    <2>2. CASE i \in 1..n
      BY <2>2, <1>1, <1>2, <1>5
    <2>. QED
      BY <2>1, <2>2, <1>1
  <1>8. LiveInv'
    <2>. SUFFICES ASSUME NEW i \in 1..(n + 1), periods'[i].ends > now PROVE periods'[i].live
      BY <1>2 DEF LiveInv
    <2>1. CASE i = n + 1
      BY <2>1, <1>2, <1>3
    <2>2. CASE i \in 1..n
      BY <2>2, <1>1, <1>2, <1>5
    <2>. QED
      BY <2>1, <2>2, <1>1
  <1>9. PeriodsDisjoint'
    <2>. SUFFICES ASSUME NEW i \in 1..(n + 1), NEW j \in 1..(n + 1), i < j
                  PROVE  periods'[i].ends <= periods'[j].starts
      BY <1>2 DEF PeriodsDisjoint
    <2>1. i \in 1..n
      BY <1>1
    <2>2. CASE j = n + 1
      BY <2>1, <2>2, <1>1, <1>2, <1>3, <1>5
    <2>3. CASE j \in 1..n
      BY <2>1, <2>3, <1>2 DEF IInv, PeriodsDisjoint
    <2>. QED
      BY <2>2, <2>3, <1>1
  <1>. QED
    BY <1>6, <1>7, <1>8, <1>9 DEF PeriodInv

\* Steps that leave the validity alone keep the periods in order.
LEMMA IdleKeepsPeriods ==
    ASSUME IInv, UNCHANGED validityVars, now' \in Nat, now' >= now,
           Unpublished' = Unpublished
    PROVE  PeriodInv'
  <1>1. /\ TypeOK /\ now \in Nat /\ expiresAt \in Nat
        /\ Len(periods) \in Nat /\ DOMAIN periods = 1..Len(periods)
        /\ \A i \in 1..Len(periods) : periods[i] \in Period
    BY DEF IInv, TypeOK
  <1>2. periods' = periods /\ expiresAt' = expiresAt
    BY DEF validityVars
  <1>3. PublishedInv'
    <2>. SUFFICES ASSUME ~Unpublished
                  PROVE  /\ Len(periods) > 0
                         /\ periods[Len(periods)].ends = expiresAt
                         /\ periods[Len(periods)].starts <= now'
      BY <1>2 DEF PublishedInv
    <2>1. /\ Len(periods) > 0
          /\ periods[Len(periods)].ends = expiresAt
          /\ periods[Len(periods)].starts <= now
      BY DEF IInv, PublishedInv
    <2>2. periods[Len(periods)] \in Period
      BY <1>1, <2>1
    <2>. QED
      BY <1>1, <2>1, <2>2 DEF Period
  <1>4. WithinInv' /\ PeriodsDisjoint'
    BY <1>2 DEF IInv, WithinInv, PeriodsDisjoint
  <1>5. LiveInv'
    <2>. SUFFICES ASSUME NEW i \in DOMAIN periods, periods[i].ends > now'
                  PROVE  periods[i].live
      BY <1>2 DEF LiveInv
    <2>1. periods[i].ends > now
      BY <1>1 DEF Period
    <2>. QED
      BY <2>1 DEF IInv, LiveInv
  <1>. QED
    BY <1>3, <1>4, <1>5 DEF PeriodInv

\* Closing the lapsed periods of a listing keeps them in order.
LEMMA LapseKeepsPeriods ==
    ASSUME IInv, periods' = LapsedPeriods, UNCHANGED <<now, expiresAt>>,
           Unpublished' = Unpublished
    PROVE  PeriodInv'
  <1>1. /\ TypeOK /\ now \in Nat /\ expiresAt \in Nat /\ Len(periods) \in Nat
        /\ \A i \in 1..Len(periods) : periods[i] \in Period
    BY DEF IInv, TypeOK
  <1>2. /\ Len(periods') = Len(periods)
        /\ DOMAIN periods = 1..Len(periods)
        /\ DOMAIN periods' = 1..Len(periods)
        /\ \A i \in 1..Len(periods) :
              /\ periods'[i].starts = periods[i].starts
              /\ periods'[i].ends = periods[i].ends
              /\ periods'[i].live = (periods[i].live /\ periods[i].ends > now)
    BY <1>1, PeriodsLapse
  <1>3. PublishedInv'
    BY <1>1, <1>2 DEF IInv, PublishedInv
  <1>4. WithinInv' /\ PeriodsDisjoint'
    BY <1>2 DEF IInv, WithinInv, PeriodsDisjoint
  <1>5. LiveInv'
    BY <1>2 DEF IInv, LiveInv
  <1>. QED
    BY <1>3, <1>4, <1>5 DEF PeriodInv

\* Every step preserves the inductive invariant.
LEMMA InvariantStep == IInv /\ [Next]_vars => IInv'
  <1>. SUFFICES ASSUME IInv, [Next]_vars PROVE IInv'
    OBVIOUS
  <1>. USE DurationAssumption
  <1>1. TypeOK'
    BY TypeStep DEF IInv
  <1>2. TypeOK /\ now \in Nat /\ expiresAt \in Nat
    BY DEF IInv, TypeOK
  <1>. DEFINE StateInv == /\ PaidRenewalFindsExpired
                          /\ UnpublishedInv
                          /\ ExpiredInv
                          /\ RequestIsStanding
  <1>. HIDE DEF StateInv
  <1>3. SUFFICES PeriodInv' /\ StateInv'
    BY <1>1 DEF IInv, PeriodInv, StateInv
  <1>4. CASE Tick
    <2>1. PeriodInv'
      BY <1>2, <1>4, IdleKeepsPeriods DEF Tick, Unpublished
    <2>2. StateInv'
      BY <1>2, <1>4 DEF Tick, StateInv, IInv, PaidRenewalFindsExpired, UnpublishedInv, Unpublished,
                        ExpiredInv, RequestIsStanding, validityVars, visibilityVars
    <2>. QED
      BY <2>1, <2>2
  <1>5. CASE ApproveListing
    <2>1. expiresAt <= now
      BY <1>2, <1>5 DEF ApproveListing, IInv, UnpublishedInv, Unpublished
    <2>2. PeriodInv'
      BY <1>5, <2>1, GrantKeepsPeriods DEF ApproveListing
    <2>3. StateInv'
      BY <1>5 DEF ApproveListing, StateInv, IInv, PaidRenewalFindsExpired, UnpublishedInv,
                  Unpublished, ExpiredInv, RequestIsStanding, visibilityVars
    <2>. QED
      BY <2>2, <2>3
  <1>6. CASE ReturnToSeller \/ ResubmitListing \/ SuspendListing \/ UnsuspendListing
    <2>. USE DEF ReturnToSeller, ResubmitListing, SuspendListing, UnsuspendListing, MoveStatus
    <2>1. PeriodInv'
      BY <1>2, <1>6, IdleKeepsPeriods DEF Unpublished
    <2>2. StateInv'
      BY <1>2, <1>6 DEF StateInv, IInv, PaidRenewalFindsExpired, UnpublishedInv, Unpublished,
                        ExpiredInv, RequestIsStanding, TimeValid, validityVars, visibilityVars
    <2>. QED
      BY <2>1, <2>2
  <1>7. CASE ExpireListing
    <2>1. PeriodInv'
      BY <1>7, LapseKeepsPeriods DEF ExpireListing, LapsedPeriods, Unpublished
    <2>2. StateInv'
      BY <1>2, <1>7 DEF ExpireListing, StateInv, IInv, PaidRenewalFindsExpired, UnpublishedInv,
                        Unpublished, ExpiredInv, RequestIsStanding, TimeValid, visibilityVars
    <2>. QED
      BY <2>1, <2>2
  <1>8. CASE DeactivateListing \/ RepeatDeactivation \/ ReactivateListing
    <2>. USE DEF DeactivateListing, RepeatDeactivation, ReactivateListing
    <2>1. PeriodInv'
      <3>1. UNCHANGED <<now, status, validityVars>>
        BY <1>8
      <3>. HIDE DEF DeactivateListing, RepeatDeactivation, ReactivateListing
      <3>. QED
        BY <1>2, <3>1, IdleKeepsPeriods DEF Unpublished
    <2>2. StateInv'
      BY <1>8 DEF StateInv, IInv, PaidRenewalFindsExpired, UnpublishedInv, Unpublished,
                  ExpiredInv, RequestIsStanding, Finalize, Gates, validityVars, TypeOK
    <2>. QED
      BY <2>1, <2>2
  <1>9. CASE GetOrCreateEditRevision \/ CancelOpenEditRevision
                \/ \E activate \in BOOLEAN : SubmitEditRevision(activate)
    <2>. USE DEF GetOrCreateEditRevision, CancelOpenEditRevision, SubmitEditRevision
    <2>1. PeriodInv'
      BY <1>2, <1>9, IdleKeepsPeriods DEF Unpublished
    <2>2. StateInv'
      BY <1>9 DEF StateInv, IInv, PaidRenewalFindsExpired, UnpublishedInv, Unpublished, ExpiredInv,
                  RequestIsStanding, ClearRequest, MayRequest, validityVars, visibilityVars, TypeOK
    <2>. QED
      BY <2>1, <2>2
  <1>10. CASE ApproveEdit \/ RejectEdit \/ RequestEditCorrection
    <2>. USE DEF ApproveEdit, RejectEdit, RequestEditCorrection
    <2>1. PeriodInv'
      BY <1>2, <1>10, IdleKeepsPeriods DEF Unpublished
    <2>2. StateInv'
      BY <1>10 DEF StateInv, IInv, PaidRenewalFindsExpired, UnpublishedInv, Unpublished, ExpiredInv,
                   RequestIsStanding, ClearRequest, Finalize, Gates, validityVars, visibilityVars, TypeOK
    <2>. QED
      BY <2>1, <2>2
  <1>11. CASE CreateRenewalCheckout \/ RenewalRefunded
    <2>. USE DEF CreateRenewalCheckout, RenewalRefunded
    <2>1. PeriodInv'
      BY <1>2, <1>11, IdleKeepsPeriods DEF Unpublished
    <2>2. StateInv'
      BY <1>11 DEF StateInv, IInv, PaidRenewalFindsExpired, UnpublishedInv, Unpublished, ExpiredInv,
                   RequestIsStanding, validityVars, visibilityVars, TypeOK
    <2>. QED
      BY <2>1, <2>2
  <1>12. CASE FulfillRenewal
    <2>1. status = "EXPIRED" /\ expiresAt <= now
      BY <1>12 DEF FulfillRenewal, IInv, PaidRenewalFindsExpired, ExpiredInv
    <2>2. PeriodInv'
      BY <1>12, <2>1, GrantKeepsPeriods DEF FulfillRenewal, Renewed
    <2>3. StateInv'
      BY <1>12, <2>1 DEF FulfillRenewal, StateInv, IInv, PaidRenewalFindsExpired, UnpublishedInv,
                  Unpublished, ExpiredInv, RequestIsStanding, Finalize, Gates, TypeOK
    <2>. QED
      BY <2>2, <2>3
  <1>13. CASE UNCHANGED vars
    <2>1. PeriodInv'
      BY <1>2, <1>13, IdleKeepsPeriods DEF Unpublished, vars, validityVars
    <2>2. StateInv'
      BY <1>13 DEF vars, StateInv, IInv, PaidRenewalFindsExpired, UnpublishedInv, Unpublished,
                   ExpiredInv, RequestIsStanding
    <2>. QED
      BY <2>1, <2>2
  <1>. QED
    BY <1>4, <1>5, <1>6, <1>7, <1>8, <1>9, <1>10, <1>11, <1>12, <1>13 DEF Next, Moderator, Seller

\* The listing starts with no period and no open process.
LEMMA InvariantInit == Init => IInv
  <1>. SUFFICES ASSUME Init PROVE IInv
    OBVIOUS
  <1>1. TypeOK
    BY InitTyped
  <1>2. DOMAIN periods = {}
    BY DEF Init
  <1>3. WithinInv /\ LiveInv /\ PeriodsDisjoint
    BY <1>2 DEF WithinInv, LiveInv, PeriodsDisjoint
  <1>4. UnpublishedInv /\ PublishedInv /\ ExpiredInv
    BY DEF Init, UnpublishedInv, PublishedInv, ExpiredInv, Unpublished
  <1>5. PaidRenewalFindsExpired /\ RequestIsStanding
    BY DEF Init, PaidRenewalFindsExpired, RequestIsStanding
  <1>. QED
    BY <1>1, <1>3, <1>4, <1>5 DEF IInv

\* The invariant holds of every reachable state.
THEOREM Inductive == Spec => []IInv
  BY InvariantInit, InvariantStep, PTL DEF Spec

----------------------------------------------------------------------------
(* What the invariant gives *)

\* A paid renewal always finds its listing EXPIRED, so the branch of
\* fulfillRenewal that raises RENEWAL_NON_EXPIRED_STATUS is never taken.
THEOREM RenewalsFindExpired == Spec => []PaidRenewalFindsExpired
  <1>1. IInv => PaidRenewalFindsExpired
    BY DEF IInv
  <1>. QED
    BY <1>1, Inductive, PTL

\* A request is only given up with its intent: the finalizer or a cancelled or
\* rejected edit.
RequestKept == deactivated /\ intent # "hidden" => requested

\* Every step keeps a request with its intent.
LEMMA RequestKeptStep == TypeOK /\ RequestKept /\ [Next]_vars => RequestKept'
  <1>. SUFFICES ASSUME TypeOK, RequestKept, [Next]_vars PROVE RequestKept'
    OBVIOUS
  <1>. USE DEF RequestKept
  <1>1. CASE DeactivateListing \/ RepeatDeactivation
    BY <1>1 DEF TypeOK, DeactivateListing, RepeatDeactivation
  <1>2. CASE ReactivateListing \/ ApproveEdit
    <2>1. CASE ReactivateListing
      BY <2>1, Zenon DEF ReactivateListing, Finalize
    <2>2. CASE ApproveEdit
      <3>1. intent' = intent /\ Finalize(requested)
        BY <2>2 DEF ApproveEdit
      <3>. QED
        BY <3>1, Zenon DEF Finalize
    <2>. QED
      BY <1>2, <2>1, <2>2
  <1>3. CASE CancelOpenEditRevision \/ RejectEdit
    BY <1>3 DEF CancelOpenEditRevision, RejectEdit, ClearRequest
  <1>4. CASE \E activate \in BOOLEAN : SubmitEditRevision(activate)
    <2>1. PICK activate \in BOOLEAN : SubmitEditRevision(activate)
      BY <1>4
    <2>2. CASE MayRequest(activate)
      BY <2>1, <2>2, Zenon DEF SubmitEditRevision
    <2>3. CASE ~MayRequest(activate)
      BY <2>1, <2>3, Zenon DEF SubmitEditRevision
    <2>. QED
      BY <2>2, <2>3
  <1>5. CASE CreateRenewalCheckout
    BY <1>5 DEF TypeOK, CreateRenewalCheckout
  <1>6. CASE FulfillRenewal
    BY <1>6 DEF TypeOK, FulfillRenewal, Finalize
  <1>7. CASE UNCHANGED visibilityVars
    BY <1>7 DEF visibilityVars
  <1>8. CASE Tick \/ ExpireListing \/ UnsuspendListing \/ ApproveListing \/ ReturnToSeller
               \/ SuspendListing \/ ResubmitListing \/ RequestEditCorrection
               \/ GetOrCreateEditRevision \/ RenewalRefunded \/ UNCHANGED vars
    BY <1>7, <1>8 DEF Tick, ExpireListing, UnsuspendListing, ApproveListing, ReturnToSeller,
             SuspendListing, ResubmitListing, MoveStatus, RequestEditCorrection,
             GetOrCreateEditRevision, RenewalRefunded, vars, visibilityVars
  <1>. QED
    BY <1>1, <1>2, <1>3, <1>4, <1>5, <1>6, <1>8 DEF Next, Moderator, Seller

\* A fulfilled renewal shows the listing at once, unless its seller took it down
\* and keeps it so by an open edit or by one cancelled or rejected since.
THEOREM RenewalsBuyVisibility == Spec => RenewalBuysVisibility
  <1>. DEFINE Bought == RenewalFulfilled =>
                           \/ Visible'
                           \/ deactivated /\ (edit # "none" \/ intent = "hidden")
  <1>1. Spec => []RequestKept
    <2>1. Init => RequestKept
      BY DEF Init, RequestKept
    <2>. QED
      BY <2>1, TypeCorrect, RequestKeptStep, PTL DEF Spec
  <1>2. IInv /\ RequestKept /\ [Next]_vars => [Bought]_vars
    <2>. SUFFICES ASSUME IInv, RequestKept, Next, RenewalFulfilled,
                         ~(deactivated /\ (edit # "none" \/ intent = "hidden"))
                  PROVE  Visible'
      BY Zenon
    <2>1. now \in Nat /\ deactivated \in BOOLEAN /\ requested \in BOOLEAN
      BY DEF IInv, TypeOK
    <2>2. FulfillRenewal
      BY DEF RenewalFulfilled, Next, Moderator, Seller, Tick, ApproveListing, ReturnToSeller,
             ResubmitListing, SuspendListing, UnsuspendListing, MoveStatus, ExpireListing,
             DeactivateListing, RepeatDeactivation, ReactivateListing, GetOrCreateEditRevision,
             CancelOpenEditRevision, SubmitEditRevision, ApproveEdit, RejectEdit,
             RequestEditCorrection, CreateRenewalCheckout, RenewalRefunded, validityVars
    <2>3. status = "EXPIRED"
      BY <2>2 DEF FulfillRenewal, IInv, PaidRenewalFindsExpired
    <2>4. /\ status' = "ACTIVE" /\ expiresAt' = Renewed /\ now' = now /\ edit' = edit
          /\ deactivated' = (deactivated /\ ~Gates(requested))
      BY <2>2, <2>3 DEF FulfillRenewal, Finalize
    <2>5. expiresAt' > now /\ expiresAt' > now'
      BY <2>1, <2>4, DurationAssumption DEF Renewed
    <2>6. ~deactivated'
      <3>1. CASE ~deactivated
        BY <2>4, <3>1
      <3>2. CASE deactivated
        <4>1. requested /\ edit = "none"
          BY <3>2 DEF RequestKept
        <4>2. Gates(requested)
          BY <2>4, <2>5, <3>2, <4>1 DEF Gates
        <4>. QED
          BY <2>4, <4>2
      <3>. QED
        BY <3>1, <3>2
    <2>. QED
      BY <2>4, <2>5, <2>6 DEF Visible, TimeValid
  <1>. QED
    BY <1>1, <1>2, Inductive, PTL DEF Spec, RenewalBuysVisibility

\* Periods granted by approvals and renewals never overlap.
THEOREM PeriodsAreDisjoint == Spec => []PeriodsDisjoint
  <1>1. IInv => PeriodsDisjoint
    BY DEF IInv
  <1>. QED
    BY <1>1, Inductive, PTL

\* A publicly visible listing lies inside a live period that ends with it.
THEOREM VisibleListingsAreCovered == Spec => []VisibleIsCovered
  <1>1. IInv => VisibleIsCovered
    <2>. SUFFICES ASSUME IInv, Visible
                  PROVE  /\ periods # <<>>
                         /\ periods[Len(periods)].starts <= now
                         /\ periods[Len(periods)].ends = expiresAt
                         /\ periods[Len(periods)].live
      BY DEF VisibleIsCovered
    <2>1. /\ Len(periods) > 0
          /\ periods[Len(periods)].ends = expiresAt
          /\ periods[Len(periods)].starts <= now
      BY DEF IInv, PublishedInv, Visible, Unpublished
    <2>2. periods \in Seq(Period)
      BY DEF IInv, TypeOK
    <2>3. Len(periods) \in DOMAIN periods /\ periods # <<>>
      BY <2>1, <2>2
    <2>4. periods[Len(periods)].live
      BY <2>1, <2>3 DEF IInv, LiveInv, Visible, TimeValid
    <2>. QED
      BY <2>1, <2>3, <2>4
  <1>. QED
    BY <1>1, Inductive, PTL

\* A reactivation request belongs to a listing its seller took down and asked
\* to activate since.
THEOREM RequestsAreStanding == Spec => []RequestIsStanding
  <1>1. IInv => RequestIsStanding
    BY DEF IInv
  <1>. QED
    BY <1>1, Inductive, PTL

\* No operation shortens the validity of a listing.
THEOREM ExpiryNeverShrinks == Spec => ExpiryOnlyGrows
  <1>1. IInv /\ [Next]_vars => [expiresAt' >= expiresAt]_vars
    <2>. SUFFICES ASSUME IInv, Next PROVE expiresAt' >= expiresAt
      OBVIOUS
    <2>1. now \in Nat /\ expiresAt \in Nat
      BY DEF IInv, TypeOK
    <2>2. CASE ApproveListing
      <3>1. expiresAt = 0
        BY <2>2 DEF ApproveListing, IInv, UnpublishedInv, Unpublished
      <3>. QED
        BY <2>1, <2>2, <3>1, DurationAssumption DEF ApproveListing
    <2>3. CASE FulfillRenewal
      <3>1. status = "EXPIRED" /\ expiresAt <= now
        BY <2>3 DEF FulfillRenewal, IInv, PaidRenewalFindsExpired, ExpiredInv
      <3>. QED
        BY <2>1, <2>3, <3>1, DurationAssumption DEF FulfillRenewal, Renewed
    <2>4. CASE expiresAt' = expiresAt
      BY <2>1, <2>4
    <2>5. \/ ApproveListing
          \/ FulfillRenewal
          \/ expiresAt' = expiresAt
      BY DEF Next, Moderator, Seller, Tick, ReturnToSeller, ResubmitListing, SuspendListing,
             UnsuspendListing, MoveStatus, ExpireListing, DeactivateListing, RepeatDeactivation,
             ReactivateListing, GetOrCreateEditRevision, CancelOpenEditRevision,
             SubmitEditRevision, ApproveEdit, RejectEdit, RequestEditCorrection,
             CreateRenewalCheckout, RenewalRefunded, validityVars
    <2>. QED
      BY <2>2, <2>3, <2>4, <2>5
  <1>. QED
    BY <1>1, Inductive, PTL DEF Spec, ExpiryOnlyGrows

\* Only a listing that becomes publicly visible, with no edit open and out of
\* no suspension, stops being deactivated.
THEOREM ReturnsAreComplete == Spec => ReturnsComplete
  <1>. DEFINE Complete == deactivated /\ ~deactivated' =>
                            Visible' /\ edit' = "none" /\ status # "SUSPENDED"
  <1>1. IInv /\ [Next]_vars => [Complete]_vars
    <2>. SUFFICES ASSUME IInv, Next, deactivated, ~deactivated'
                  PROVE  Visible' /\ edit' = "none" /\ status # "SUSPENDED"
      BY Zenon
    <2>1. \/ ReactivateListing
          \/ ApproveEdit
          \/ FulfillRenewal /\ status = "EXPIRED"
      BY DEF Next, Moderator, Seller, Tick, ApproveListing, ReturnToSeller, ResubmitListing,
             SuspendListing, UnsuspendListing, MoveStatus, ExpireListing, DeactivateListing,
             RepeatDeactivation, GetOrCreateEditRevision, CancelOpenEditRevision, ClearRequest,
             SubmitEditRevision, RejectEdit, RequestEditCorrection, CreateRenewalCheckout,
             FulfillRenewal, RenewalRefunded, visibilityVars
    <2>2. now' = now /\ \E request : Gates(request)
      BY <2>1 DEF ReactivateListing, ApproveEdit, FulfillRenewal, Finalize
    <2>3. Visible' /\ edit' = "none"
      BY <2>2 DEF Gates, Visible, TimeValid
    <2>4. status # "SUSPENDED"
      BY <2>1, <2>2 DEF ReactivateListing, ApproveEdit, FulfillRenewal, Gates
    <2>. QED
      BY <2>3, <2>4
  <1>. QED
    BY <1>1, Inductive, PTL DEF Spec, ReturnsComplete

----------------------------------------------------------------------------
(* Refinement *)

\* A new listing is one whose validity has not begun.
LEMMA ValidityInit == Init => Validities!ListingInit
  BY DEF Init, Validities!ListingInit, PublishedStatus

\* Every handler moves the validity as ListingValidity allows, or not at all.
LEMMA ValidityStep == IInv /\ [Next]_vars => [Validities!ListingNext]_(Validities!listingVars)
  <1>. SUFFICES ASSUME IInv, [Next]_vars
                PROVE  Validities!ListingNext \/ UNCHANGED Validities!listingVars
    OBVIOUS
  <1>. USE DEF Validities!ListingNext, Validities!listingVars
  <1>1. /\ now \in Nat /\ expiresAt \in Nat /\ status \in ListingStatus
        /\ Len(periods) \in Nat /\ DOMAIN periods = 1..Len(periods)
        /\ \A i \in 1..Len(periods) : periods[i] \in Period
    BY DEF IInv, TypeOK
  <1>2. ASSUME UNCHANGED <<now, status, validityVars>>
        PROVE  UNCHANGED Validities!listingVars
    BY <1>2 DEF validityVars, PublishedStatus
  <1>3. CASE Tick
    BY <1>3 DEF Tick, Validities!Tick, validityVars, PublishedStatus
  <1>4. CASE ApproveListing
    BY <1>4 DEF ApproveListing, GrantPeriod, Validities!Publish, Validities!Grant, PublishedStatus
  <1>5. CASE ReturnToSeller \/ ResubmitListing
    BY <1>5 DEF ReturnToSeller, ResubmitListing, MoveStatus, validityVars, PublishedStatus
  <1>6. CASE SuspendListing
    BY <1>6 DEF SuspendListing, MoveStatus, Validities!Suspend, validityVars, PublishedStatus
  <1>7. CASE UnsuspendListing
    BY <1>7 DEF UnsuspendListing, MoveStatus, TimeValid, Validities!Restore, validityVars,
                PublishedStatus
  <1>8. CASE ExpireListing
    <2>1. /\ status = "ACTIVE" /\ status' = "EXPIRED" /\ expiresAt <= now
          /\ now' = now /\ expiresAt' = expiresAt
          /\ periods' = [i \in DOMAIN periods |-> Lapse(periods[i])]
      BY <1>1, <1>8 DEF ExpireListing, TimeValid
    <2>. QED
      BY <2>1 DEF Validities!Expire, Lapse, PublishedStatus
  <1>9. CASE DeactivateListing \/ RepeatDeactivation \/ ReactivateListing
    BY <1>2, <1>9 DEF DeactivateListing, RepeatDeactivation, ReactivateListing
  <1>10. CASE GetOrCreateEditRevision \/ CancelOpenEditRevision
                 \/ \E activate \in BOOLEAN : SubmitEditRevision(activate)
    BY <1>2, <1>10 DEF GetOrCreateEditRevision, CancelOpenEditRevision, SubmitEditRevision
  <1>11. CASE ApproveEdit \/ RejectEdit \/ RequestEditCorrection
    BY <1>2, <1>11 DEF ApproveEdit, RejectEdit, RequestEditCorrection
  <1>12. CASE CreateRenewalCheckout \/ RenewalRefunded
    BY <1>2, <1>12 DEF CreateRenewalCheckout, RenewalRefunded
  <1>13. CASE FulfillRenewal
    <2>1. status = "EXPIRED"
      BY <1>13 DEF FulfillRenewal, IInv, PaidRenewalFindsExpired
    <2>. QED
      BY <1>13, <2>1 DEF FulfillRenewal, Renewed, GrantPeriod, Validities!Renew, Validities!Grant,
                         PublishedStatus
  <1>14. CASE UNCHANGED vars
    BY <1>2, <1>14 DEF vars, validityVars
  <1>. QED
    BY <1>3, <1>4, <1>5, <1>6, <1>7, <1>8, <1>9, <1>10, <1>11, <1>12, <1>13, <1>14
       DEF Next, Moderator, Seller

\* The lifecycle implements ListingValidity, whatever the durations.
THEOREM LifecycleImplementsValidity == Spec => ImplementsValidity
  BY ValidityInit, ValidityStep, Inductive, PTL DEF Spec, ImplementsValidity, Validities!ListingSpec
=============================================================================
