---------------------- MODULE ModerationReview_proofs ----------------------
(* Proofs about ModerationReview, for any moderators and any bounds. *)
EXTENDS ModerationReview, TLAPS

USE DEF None

LEMMA OutcomeType ==
    ASSUME NEW decision \in Decisions, NEW approved
    PROVE  /\ decision = "APPROVED" => Outcome(decision, approved) = approved
           /\ decision # "APPROVED" => Outcome(decision, approved) \in Returned
           /\ decision = "REJECTED" => Outcome(decision, approved) = "REJECTED"
           /\ decision = "CORRECTION_REQUESTED" =>
                Outcome(decision, approved) = "CORRECTION_REQUIRED"
BY DEF Outcome, Decisions, Returned

LEMMA LatestType ==
    ASSUME NEW S, NEW s \in Seq(S), s # <<>>
    PROVE  Latest(s) \in S /\ Len(s) \in DOMAIN s /\ Len(s) \in Nat \ {0} /\ DOMAIN s = 1..Len(s)
BY DEF Latest

LEMMA AppendLatest ==
    ASSUME NEW S, NEW s \in Seq(S), NEW e \in S, NEW t, t = Append(s, e)
    PROVE  /\ t \in Seq(S) /\ Len(t) = Len(s) + 1 /\ t # <<>>
           /\ DOMAIN s = 1..Len(s) /\ DOMAIN t = 1..(Len(s) + 1)
           /\ Latest(t) = e
           /\ \A i \in DOMAIN s : t[i] = s[i]
BY DEF Latest

----------------------------------------------------------------------------
(* What the updates of a row do to its columns *)

LEMMA BumpedListing ==
    ASSUME NEW row \in Listing
    PROVE  /\ Bumped(row) \in Listing
           /\ Bumped(row).revision = row.revision + 1
           /\ Bumped(row).status = row.status /\ Bumped(row).content = row.content
           /\ Bumped(row).deactivated = row.deactivated
           /\ Bumped(row).requested = row.requested
  <1> DEFINE next == row.revision + 1
  <1>1. next \in Nat
    BY DEF Listing
  <1>2. Bumped(row) = [row EXCEPT !.revision = next]
    BY DEF Bumped
  <1> HIDE DEF next
  <1>3. /\ [row EXCEPT !.revision = next] \in Listing
        /\ [row EXCEPT !.revision = next].revision = next
        /\ \A f \in {"status", "content", "deactivated", "requested"} :
              [row EXCEPT !.revision = next][f] = row[f]
    BY <1>1 DEF Listing
  <1> QED BY <1>2, <1>3 DEF next

LEMMA BumpedEdit ==
    ASSUME NEW row \in Edit
    PROVE  /\ Bumped(row) \in Edit
           /\ Bumped(row).revision = row.revision + 1
           /\ Bumped(row).status = row.status /\ Bumped(row).data = row.data
  <1> DEFINE next == row.revision + 1
  <1>1. next \in Nat
    BY DEF Edit
  <1>2. Bumped(row) = [row EXCEPT !.revision = next]
    BY DEF Bumped
  <1> HIDE DEF next
  <1>3. /\ [row EXCEPT !.revision = next] \in Edit
        /\ [row EXCEPT !.revision = next].revision = next
        /\ \A f \in {"status", "data"} : [row EXCEPT !.revision = next][f] = row[f]
    BY <1>1 DEF Edit
  <1> QED BY <1>2, <1>3 DEF next

\* A save: a new working copy under the next counter, nothing else.
LEMMA SavedAdjustment ==
    ASSUME NEW row \in Adjustment, written' \in Nat
    PROVE  /\ Saved(row) \in Adjustment
           /\ Saved(row).revision = row.revision + 1
           /\ Saved(row).status = row.status /\ Saved(row).submitted = row.submitted
           /\ Saved(row).edit = row.edit /\ Saved(row).editRevision = row.editRevision
           /\ Saved(row).listingRevision = row.listingRevision
  <1> DEFINE next == row.revision + 1
             working == [row EXCEPT !.adjusted = written']
  <1>1. next \in Nat
    BY DEF Adjustment
  <1>2. working \in Adjustment /\ working.revision = row.revision
    BY DEF Adjustment
  <1>3. \A f \in {"status", "submitted", "edit", "editRevision", "listingRevision"} :
           working[f] = row[f]
    BY DEF Adjustment
  <1>4. Saved(row) = [working EXCEPT !.revision = next]
    BY <1>2 DEF Saved, Bumped
  <1> HIDE DEF next, working
  <1>5. /\ [working EXCEPT !.revision = next] \in Adjustment
        /\ [working EXCEPT !.revision = next].revision = next
        /\ \A f \in {"status", "submitted", "edit", "editRevision", "listingRevision"} :
              [working EXCEPT !.revision = next][f] = working[f]
    BY <1>1, <1>2 DEF Adjustment
  <1> QED BY <1>3, <1>4, <1>5 DEF next

LEMMA AppliedListing ==
    ASSUME NEW row \in Listing, ReviewedContent \in Nat
    PROVE  /\ Applied(row) \in Listing
           /\ Applied(row).content = ReviewedContent
           /\ Applied(row).revision = row.revision + 1
           /\ Applied(row).status = row.status
           /\ Applied(row).deactivated = row.deactivated
           /\ Applied(row).requested = row.requested
  <1> DEFINE copy == [row EXCEPT !.content = ReviewedContent]
  <1>1. /\ copy \in Listing /\ copy.content = ReviewedContent
        /\ copy.revision = row.revision /\ copy.status = row.status
        /\ copy.deactivated = row.deactivated /\ copy.requested = row.requested
    BY DEF Listing
  <1> HIDE DEF copy
  <1> QED BY <1>1, BumpedListing DEF Applied, copy

LEMMA WithoutRequestListing ==
    ASSUME NEW row \in Listing
    PROVE  /\ WithoutRequest(row) \in Listing
           /\ WithoutRequest(row).content = row.content
           /\ WithoutRequest(row).revision >= row.revision
           /\ WithoutRequest(row).status = row.status
           /\ WithoutRequest(row).deactivated = row.deactivated
           /\ WithoutRequest(row).requested = FALSE
           /\ ~row.requested => WithoutRequest(row) = row
  <1> DEFINE cleared == [row EXCEPT !.requested = FALSE]
  <1>1. /\ cleared \in Listing /\ cleared.content = row.content
        /\ cleared.revision = row.revision /\ cleared.status = row.status
        /\ cleared.deactivated = row.deactivated /\ cleared.requested = FALSE
    BY DEF Listing
  <1>2. row.revision \in Nat /\ row.requested \in BOOLEAN
    BY DEF Listing
  <1> HIDE DEF cleared
  <1>3. CASE row.requested
    <2>1. WithoutRequest(row) = Bumped(cleared)
      BY <1>3 DEF WithoutRequest, cleared
    <2> QED BY <1>1, <1>2, <1>3, <2>1, BumpedListing
  <1>4. CASE ~row.requested
    <2>1. WithoutRequest(row) = row
      BY <1>4 DEF WithoutRequest
    <2> QED BY <1>2, <1>4, <2>1
  <1> QED BY <1>3, <1>4

LEMMA FinalizedListing ==
    ASSUME NEW row \in Listing
    PROVE  /\ Finalized(row) \in Listing
           /\ Finalized(row).content = row.content
           /\ Finalized(row).revision >= row.revision
           /\ Finalized(row).status = row.status
  <1> DEFINE shown == [row EXCEPT !.requested = FALSE, !.deactivated = FALSE]
  <1>1. /\ shown \in Listing /\ shown.content = row.content
        /\ shown.revision = row.revision /\ shown.status = row.status
    BY DEF Listing
  <1>2. row.revision \in Nat
    BY DEF Listing
  <1> HIDE DEF shown
  <1>3. Finalized(row) = Bumped(shown) \/ Finalized(row) = row
    BY DEF Finalized, shown
  <1>4. CASE Finalized(row) = Bumped(shown)
    BY <1>1, <1>2, <1>4, BumpedListing
  <1>5. CASE Finalized(row) = row
    BY <1>2, <1>5
  <1> QED BY <1>3, <1>4, <1>5

----------------------------------------------------------------------------
(* Type correctness *)

LEMMA EditColumns ==
    ASSUME NEW row \in Edit
    PROVE  row.revision \in Nat /\ row.data \in Nat
BY DEF Edit

LEMMA AdjustmentColumns ==
    ASSUME NEW row \in Adjustment
    PROVE  row.revision \in Nat /\ row.adjusted \in Nat /\ row.submitted \in Nat
           /\ row.edit \in Nat
BY DEF Adjustment

LEMMA ListingColumns ==
    ASSUME NEW row \in Listing
    PROVE  /\ row.revision \in Nat /\ row.content \in Nat
           /\ row.deactivated \in BOOLEAN /\ row.requested \in BOOLEAN
BY DEF Listing

\* What the operators of a page and of a decision range over.
LEMMA DerivedTypes ==
    ASSUME TypeOK
    PROVE  /\ PendingEdit \in Nat /\ PendingEditRevision \in Nat
           /\ OpenAdjustment \in Nat /\ AdjustmentRevision \in Nat
           /\ SubmittedContent \in Nat /\ ReviewedContent \in Nat
           /\ edits # <<>> => Latest(edits) \in Edit
           /\ adjustments # <<>> => Latest(adjustments) \in Adjustment
  <1>1. edits # <<>> => Latest(edits) \in Edit /\ Len(edits) \in Nat
    BY LatestType DEF TypeOK
  <1>2. adjustments # <<>> => Latest(adjustments) \in Adjustment /\ Len(adjustments) \in Nat
    BY LatestType DEF TypeOK
  <1>3. listing.content \in Nat
    BY ListingColumns DEF TypeOK
  <1>4. SubmittedContent \in Nat /\ PendingEdit \in Nat /\ PendingEditRevision \in Nat
    BY <1>1, <1>3, EditColumns
       DEF SubmittedContent, PendingEdit, PendingEditRevision, EditPending, EditIs
  <1>5. OpenAdjustment \in Nat /\ AdjustmentRevision \in Nat /\ ReviewedContent \in Nat
    BY <1>2, <1>4, AdjustmentColumns
       DEF OpenAdjustment, AdjustmentRevision, ReviewedContent, AdjustmentOpen
  <1> QED BY <1>1, <1>2, <1>4, <1>5

\* What a decision records.
RecordOf(m, decision) ==
    [moderator |-> m, decision |-> decision, edit |-> PendingEdit,
     editRevision |-> PendingEditRevision, listingRevision |-> listing.revision,
     adjustment |-> OpenAdjustment, adjustmentRevision |-> AdjustmentRevision,
     page |-> screen[m], decided |-> ReviewedContent]

LEMMA RecordAppends ==
    ASSUME TypeOK, NEW m \in Moderators, NEW decision \in Decisions, Record(m, decision)
    PROVE  /\ reviews' \in Seq(Review) /\ Len(reviews') = Len(reviews) + 1
           /\ Len(reviews) \in Nat
           /\ DOMAIN reviews = 1..Len(reviews) /\ DOMAIN reviews' = 1..(Len(reviews) + 1)
           /\ \A i \in DOMAIN reviews : reviews'[i] = reviews[i]
           /\ reviews'[Len(reviews) + 1] = RecordOf(m, decision)
  <1>1. listing.revision \in Nat /\ screen[m] \in Screen
    BY ListingColumns DEF TypeOK
  <1>2. RecordOf(m, decision) \in Review
    BY <1>1, DerivedTypes DEF RecordOf, Review
  <1>3. reviews' = Append(reviews, RecordOf(m, decision)) /\ reviews \in Seq(Review)
    BY DEF Record, RecordOf, TypeOK
  <1> HIDE DEF RecordOf
  <1>4. Latest(reviews') = reviews'[Len(reviews')]
    BY DEF Latest
  <1> QED BY <1>2, <1>3, <1>4, AppendLatest

\* The newest adjustment gets a terminal status and keeps everything else.
LEMMA ClosedAdjustment ==
    ASSUME TypeOK, AdjustmentOpen, NEW st \in {"DISCARDED", "APPLIED"}, Close(st)
    PROVE  /\ adjustments' \in Seq(Adjustment) /\ DOMAIN adjustments' = DOMAIN adjustments
           /\ Len(adjustments') = Len(adjustments)
           /\ adjustments' # <<>> /\ Latest(adjustments').status = st
           /\ Latest(adjustments').revision = Latest(adjustments).revision
           /\ Latest(adjustments').adjusted = Latest(adjustments).adjusted
           /\ \A i \in DOMAIN adjustments : i # Len(adjustments) =>
                 adjustments'[i] = adjustments[i]
  <1> DEFINE row == Latest(adjustments)
             closed == [row EXCEPT !.status = st]
  <1>1. row \in Adjustment /\ adjustments # <<>> /\ adjustments \in Seq(Adjustment)
    BY DerivedTypes DEF AdjustmentOpen, TypeOK
  <1>2. /\ closed \in Adjustment /\ closed.status = st
        /\ closed.revision = row.revision /\ closed.adjusted = row.adjusted
    BY <1>1 DEF Adjustment
  <1>3. adjustments' = [adjustments EXCEPT ![Len(adjustments)] = closed]
    BY DEF Close, SetAdjustment
  <1> HIDE DEF row, closed
  <1> DEFINE t == adjustments'
  <1>4. t = [adjustments EXCEPT ![Len(adjustments)] = closed]
    BY <1>3
  <1> HIDE DEF t
  <1>5. /\ t \in Seq(Adjustment) /\ DOMAIN t = DOMAIN adjustments
        /\ Len(t) = Len(adjustments) /\ t # <<>> /\ Latest(t) = closed
        /\ \A i \in DOMAIN adjustments : i # Len(adjustments) => t[i] = adjustments[i]
    BY <1>1, <1>2, <1>4, LatestType DEF Latest
  <1> QED BY <1>2, <1>5 DEF row, t, Latest

LEMMA SettledAdjustments ==
    ASSUME TypeOK, NEW decision \in Decisions, SettleAdjustment(decision)
    PROVE  adjustments' \in Seq(Adjustment)
BY ClosedAdjustment DEF SettleAdjustment, TypeOK

\* The newest edit revision is replaced and every other one kept.
LEMMA ReplacedEdit ==
    ASSUME TypeOK, edits # <<>>, NEW row \in Edit, SetEdit(row)
    PROVE  /\ edits' \in Seq(Edit) /\ DOMAIN edits' = DOMAIN edits
           /\ Len(edits') = Len(edits) /\ edits' # <<>> /\ Latest(edits') = row
           /\ \A i \in DOMAIN edits : i # Len(edits) => edits'[i] = edits[i]
  <1> DEFINE t == edits'
  <1>1. t = [edits EXCEPT ![Len(edits)] = row] /\ edits \in Seq(Edit)
    BY DEF SetEdit, TypeOK
  <1> HIDE DEF t
  <1>2. /\ t \in Seq(Edit) /\ DOMAIN t = DOMAIN edits
        /\ Len(t) = Len(edits) /\ t # <<>> /\ Latest(t) = row
        /\ \A i \in DOMAIN edits : i # Len(edits) => t[i] = edits[i]
    BY <1>1, LatestType DEF Latest
  <1> QED BY <1>2 DEF t, Latest

\* Which rows the actions put in place of the newest edit revision.
LEMMA EditRows ==
    ASSUME TypeOK, edits # <<>>, written' \in Nat
    PROVE  /\ \A st \in {"PENDING_MODERATION", "APPROVED", "REJECTED", "CORRECTION_REQUIRED"} :
                /\ [Latest(edits) EXCEPT !.status = st] \in Edit
                /\ [Latest(edits) EXCEPT !.status = st].status = st
                /\ [Latest(edits) EXCEPT !.status = st].revision = Latest(edits).revision
                /\ [Latest(edits) EXCEPT !.status = st].data = Latest(edits).data
           /\ Bumped([Latest(edits) EXCEPT !.status = "CANCELLED"]) \in Edit
           /\ Bumped([Latest(edits) EXCEPT !.status = "CANCELLED"]).status = "CANCELLED"
           /\ Bumped([Latest(edits) EXCEPT !.status = "CANCELLED"]).revision =
                Latest(edits).revision + 1
           /\ Bumped([Latest(edits) EXCEPT !.data = written']) \in Edit
           /\ Bumped([Latest(edits) EXCEPT !.data = written']).status = Latest(edits).status
           /\ Bumped([Latest(edits) EXCEPT !.data = written']).revision =
                Latest(edits).revision + 1
  <1>1. Latest(edits) \in Edit
    BY DerivedTypes
  <1>2. \A st \in {"PENDING_MODERATION", "APPROVED", "REJECTED", "CORRECTION_REQUIRED",
                   "CANCELLED"} :
           /\ [Latest(edits) EXCEPT !.status = st] \in Edit
           /\ [Latest(edits) EXCEPT !.status = st].status = st
           /\ [Latest(edits) EXCEPT !.status = st].revision = Latest(edits).revision
           /\ [Latest(edits) EXCEPT !.status = st].data = Latest(edits).data
    BY <1>1 DEF Edit, OpenEditStatuses
  <1>3. /\ [Latest(edits) EXCEPT !.data = written'] \in Edit
        /\ [Latest(edits) EXCEPT !.data = written'].status = Latest(edits).status
        /\ [Latest(edits) EXCEPT !.data = written'].revision = Latest(edits).revision
    BY <1>1 DEF Edit
  <1>4. Bumped([Latest(edits) EXCEPT !.status = "CANCELLED"]) \in Edit
        /\ Bumped([Latest(edits) EXCEPT !.status = "CANCELLED"]).status = "CANCELLED"
        /\ Bumped([Latest(edits) EXCEPT !.status = "CANCELLED"]).revision =
                Latest(edits).revision + 1
    BY <1>2, BumpedEdit
  <1>5. Bumped([Latest(edits) EXCEPT !.data = written']) \in Edit
        /\ Bumped([Latest(edits) EXCEPT !.data = written']).status = Latest(edits).status
        /\ Bumped([Latest(edits) EXCEPT !.data = written']).revision =
                Latest(edits).revision + 1
    BY <1>3, BumpedEdit
  <1> QED BY <1>2, <1>4, <1>5

\* Which rows the actions put in place of the listing.
LEMMA ListingRows ==
    ASSUME TypeOK, written' \in Nat
    PROVE  /\ \A st \in {"PENDING_MODERATION", "ACTIVE"} \cup Returned :
                /\ [listing EXCEPT !.status = st] \in Listing
                /\ [listing EXCEPT !.status = st].status = st
                /\ [listing EXCEPT !.status = st].content = listing.content
                /\ [listing EXCEPT !.status = st].revision = listing.revision
                /\ [listing EXCEPT !.status = st].deactivated = listing.deactivated
           /\ \A st \in Returned :
                LET row == Bumped([listing EXCEPT !.content = written', !.status = st]) IN
                   /\ row \in Listing /\ row.status = st
                   /\ row.revision = listing.revision + 1
                   /\ row.deactivated = listing.deactivated
           /\ LET row == Bumped([listing EXCEPT !.requested = TRUE]) IN
                /\ row \in Listing /\ row.status = listing.status
                /\ row.content = listing.content /\ row.revision = listing.revision + 1
           /\ LET row == Bumped([listing EXCEPT !.deactivated = TRUE, !.requested = FALSE]) IN
                /\ row \in Listing /\ row.status = listing.status
                /\ row.content = listing.content /\ row.revision = listing.revision + 1
  <1>1. listing \in Listing
    BY DEF TypeOK
  <1>2. \A st \in {"PENDING_MODERATION", "ACTIVE"} \cup Returned :
           /\ [listing EXCEPT !.status = st] \in Listing
           /\ [listing EXCEPT !.status = st].status = st
           /\ [listing EXCEPT !.status = st].content = listing.content
           /\ [listing EXCEPT !.status = st].revision = listing.revision
           /\ [listing EXCEPT !.status = st].deactivated = listing.deactivated
    BY <1>1 DEF Listing
  <1>3. ASSUME NEW st \in Returned
        PROVE  LET row == [listing EXCEPT !.content = written', !.status = st] IN
                  /\ row \in Listing /\ row.status = st /\ row.content = written'
                  /\ row.revision = listing.revision
                  /\ row.deactivated = listing.deactivated
    BY <1>1 DEF Listing
  <1>4. LET row == [listing EXCEPT !.requested = TRUE] IN
           /\ row \in Listing /\ row.status = listing.status
           /\ row.content = listing.content /\ row.revision = listing.revision
    BY <1>1 DEF Listing
  <1>5. LET row == [listing EXCEPT !.deactivated = TRUE, !.requested = FALSE] IN
           /\ row \in Listing /\ row.status = listing.status
           /\ row.content = listing.content /\ row.revision = listing.revision
    BY <1>1 DEF Listing
  <1>6. ASSUME NEW st \in Returned
        PROVE  LET row == Bumped([listing EXCEPT !.content = written', !.status = st]) IN
                  /\ row \in Listing /\ row.status = st
                  /\ row.revision = listing.revision + 1
                  /\ row.deactivated = listing.deactivated
    <2> DEFINE row == [listing EXCEPT !.content = written', !.status = st]
    <2>1. /\ row \in Listing /\ row.status = st /\ row.revision = listing.revision
          /\ row.deactivated = listing.deactivated
      BY <1>3
    <2> HIDE DEF row
    <2>2. /\ Bumped(row) \in Listing /\ Bumped(row).status = st
          /\ Bumped(row).revision = listing.revision + 1
          /\ Bumped(row).deactivated = listing.deactivated
      BY <2>1, BumpedListing
    <2> QED BY <2>2 DEF row
  <1>7. LET row == Bumped([listing EXCEPT !.requested = TRUE]) IN
           /\ row \in Listing /\ row.status = listing.status
           /\ row.content = listing.content /\ row.revision = listing.revision + 1
    <2> DEFINE row == [listing EXCEPT !.requested = TRUE]
    <2>1. /\ row \in Listing /\ row.status = listing.status
          /\ row.content = listing.content /\ row.revision = listing.revision
      BY <1>4
    <2> HIDE DEF row
    <2>2. /\ Bumped(row) \in Listing /\ Bumped(row).status = listing.status
          /\ Bumped(row).content = listing.content
          /\ Bumped(row).revision = listing.revision + 1
      BY <2>1, BumpedListing
    <2> QED BY <2>2 DEF row
  <1>8. LET row == Bumped([listing EXCEPT !.deactivated = TRUE, !.requested = FALSE]) IN
           /\ row \in Listing /\ row.status = listing.status
           /\ row.content = listing.content /\ row.revision = listing.revision + 1
    <2> DEFINE row == [listing EXCEPT !.deactivated = TRUE, !.requested = FALSE]
    <2>1. /\ row \in Listing /\ row.status = listing.status
          /\ row.content = listing.content /\ row.revision = listing.revision
      BY <1>5
    <2> HIDE DEF row
    <2>2. /\ Bumped(row) \in Listing /\ Bumped(row).status = listing.status
          /\ Bumped(row).content = listing.content
          /\ Bumped(row).revision = listing.revision + 1
      BY <2>1, BumpedListing
    <2> QED BY <2>2 DEF row
  <1> QED BY <1>2, <1>6, <1>7, <1>8

\* Every step of the model keeps the types.
LEMMA TypeInduction == TypeOK /\ [Next]_vars => TypeOK'
  <1> SUFFICES ASSUME TypeOK, [Next]_vars PROVE TypeOK'
    OBVIOUS
  <1>0. CASE UNCHANGED vars
    BY <1>0 DEF vars, TypeOK
  <1>1. CASE ClaimExpires
    BY <1>1 DEF ClaimExpires, TypeOK, Claim
  <1>2. ASSUME NEW m \in Moderators, LoadPage(m) PROVE TypeOK'
    <2>1. listing.revision \in Nat
      BY ListingColumns DEF TypeOK
    <2>2. [edit |-> PendingEdit, listingRevision |-> listing.revision,
           editRevision |-> PendingEditRevision, adjustment |-> OpenAdjustment,
           adjustmentRevision |-> AdjustmentRevision, content |-> ReviewedContent] \in Screen
      BY <2>1, DerivedTypes DEF Screen
    <2>3. screen' \in [Moderators -> Screen]
      BY <1>2, <2>2 DEF LoadPage, TypeOK
    <2> QED BY <1>2, <2>3 DEF LoadPage, TypeOK
  <1>3. ASSUME NEW m \in Moderators, ClaimListing(m) PROVE TypeOK'
    BY <1>3 DEF ClaimListing, TypeOK, Claim
  <1>4. ASSUME NEW m \in Moderators, OpenAdjustmentBy(m) PROVE TypeOK'
    <2>1. written' \in Nat
      BY <1>4 DEF OpenAdjustmentBy, NewContent, TypeOK
    <2>2. listing.revision \in Nat
      BY ListingColumns DEF TypeOK
    <2>3. [edit |-> PendingEdit, listingRevision |-> listing.revision,
           editRevision |-> PendingEditRevision, submitted |-> SubmittedContent,
           adjusted |-> written', revision |-> 1, status |-> "OPEN"] \in Adjustment
      BY <2>1, <2>2, DerivedTypes DEF Adjustment
    <2>4. adjustments' \in Seq(Adjustment)
      BY <1>4, <2>3, AppendLatest DEF OpenAdjustmentBy, TypeOK
    <2> QED BY <1>4, <2>1, <2>4 DEF OpenAdjustmentBy, TypeOK
  <1>5. ASSUME NEW m \in Moderators, SaveAdjustment(m) PROVE TypeOK'
    <2>1. written' \in Nat
      BY <1>5 DEF SaveAdjustment, NewContent, TypeOK
    <2>2. Latest(adjustments) \in Adjustment
      BY <1>5, DerivedTypes DEF SaveAdjustment, AdjustmentOpen
    <2>3. Saved(Latest(adjustments)) \in Adjustment
      BY <2>1, <2>2, SavedAdjustment
    <2>4. adjustments' \in Seq(Adjustment)
      BY <1>5, <2>3 DEF SaveAdjustment, SetAdjustment, AdjustmentOpen, TypeOK
    <2> QED BY <1>5, <2>1, <2>4 DEF SaveAdjustment, TypeOK
  <1>6. ASSUME NEW m \in Moderators, DiscardAdjustment(m) PROVE TypeOK'
    <2>1. adjustments' \in Seq(Adjustment)
      BY <1>6, ClosedAdjustment DEF DiscardAdjustment
    <2> QED BY <1>6, <2>1 DEF DiscardAdjustment, TypeOK
  <1>7. ASSUME NEW m \in Moderators, NEW decision \in Decisions, Decide(m, decision)
        PROVE  TypeOK'
    <2> DEFINE decided == [listing EXCEPT !.status = Outcome(decision, "ACTIVE")]
    <2>1. Outcome(decision, "ACTIVE") \in {"PENDING_MODERATION", "ACTIVE"} \cup Returned
      BY OutcomeType
    <2>2. decided \in Listing
      BY <2>1 DEF TypeOK, Listing
    <2>3. Applied(decided) \in Listing
      BY <2>2, AppliedListing, DerivedTypes
    <2>4. listing' = Applied(decided) \/ listing' = decided
      BY <1>7 DEF Decide
    <2>5. reviews' \in Seq(Review) /\ adjustments' \in Seq(Adjustment)
      BY <1>7, RecordAppends, SettledAdjustments DEF Decide
    <2>6. claim' \in Claim
      BY <1>7 DEF Decide, ReleaseClaim, Unclaimed, Claim
    <2> HIDE DEF decided
    <2> QED BY <1>7, <2>2, <2>3, <2>4, <2>5, <2>6 DEF Decide, TypeOK
  <1>8. ASSUME NEW m \in Moderators, NEW decision \in Decisions, DecideEdit(m, decision)
        PROVE  TypeOK'
    <2>1. edits # <<>> /\ Latest(edits) \in Edit
      BY <1>8, DerivedTypes DEF DecideEdit, EditPending, EditIs
    <2>2. Outcome(decision, "APPROVED") \in
            {"APPROVED", "REJECTED", "CORRECTION_REQUIRED"}
      BY OutcomeType DEF Returned, Decisions
    <2>3. [Latest(edits) EXCEPT !.status = Outcome(decision, "APPROVED")] \in Edit
      BY <2>1, <2>2 DEF Edit, OpenEditStatuses
    <2>4. edits' \in Seq(Edit)
      BY <1>8, <2>1, <2>3, ReplacedEdit DEF DecideEdit
    <2>5. listing \in Listing
      BY DEF TypeOK
    <2>6. /\ Applied(listing) \in Listing /\ WithoutRequest(listing) \in Listing
          /\ Finalized(Applied(listing)) \in Listing
      BY <2>5, AppliedListing, WithoutRequestListing, FinalizedListing, DerivedTypes
    <2>7. listing' \in Listing
      BY <1>8, <2>5, <2>6 DEF DecideEdit
    <2>8. reviews' \in Seq(Review) /\ adjustments' \in Seq(Adjustment)
      BY <1>8, RecordAppends, SettledAdjustments DEF DecideEdit
    <2>9. claim' \in Claim
      BY <1>8 DEF DecideEdit, ReleaseClaim, Unclaimed, Claim
    <2> QED BY <1>8, <2>4, <2>7, <2>8, <2>9 DEF DecideEdit, TypeOK
  <1>9. CASE BeginPatch
    BY <1>9, ListingColumns DEF BeginPatch, Patch, TypeOK
  <1>10. ASSUME NEW columns \in BOOLEAN, WritePatch(columns) PROVE TypeOK'
    <2>1. written' \in Nat /\ patch' \in Patch
      BY <1>10 DEF WritePatch, NewContent, NoPatch, Patch, TypeOK
    <2>2. patch.status \in Returned /\ listing.status \in Returned
      BY <1>10 DEF WritePatch, TypeOK, Patch
    <2>3. PICK st \in Returned :
            listing' = Bumped([listing EXCEPT !.content = written', !.status = st])
      BY <1>10, <2>2 DEF WritePatch
    <2> QED BY <1>10, <2>1, <2>3, ListingRows DEF WritePatch, TypeOK
  <1>11. CASE DropPatch
    BY <1>11 DEF DropPatch, NoPatch, Patch, TypeOK
  <1>12. CASE ResubmitListing
    BY <1>12 DEF ResubmitListing, TypeOK, Listing
  <1>13. CASE OpenEdit
    <2>1. listing.content \in Nat
      BY ListingColumns DEF TypeOK
    <2>2. [status |-> "EDIT_DRAFT", revision |-> 1, data |-> listing.content] \in Edit
      BY <2>1 DEF Edit, OpenEditStatuses
    <2>3. edits' \in Seq(Edit)
      BY <1>13, <2>2, AppendLatest DEF OpenEdit, TypeOK
    <2> QED BY <1>13, <2>3 DEF OpenEdit, TypeOK
  <1>14. CASE UpdateEdit
    <2>1. written' \in Nat /\ edits # <<>>
      BY <1>14 DEF UpdateEdit, NewContent, EditIs, TypeOK
    <2>2. edits' \in Seq(Edit)
      BY <1>14, <2>1, EditRows, ReplacedEdit DEF UpdateEdit
    <2> QED BY <1>14, <2>1, <2>2 DEF UpdateEdit, TypeOK
  <1>15. ASSUME NEW activate \in BOOLEAN, SubmitEdit(activate) PROVE TypeOK'
    <2>1. written' \in Nat /\ edits # <<>>
      BY <1>15 DEF SubmitEdit, EditIs, TypeOK
    <2>2. edits' \in Seq(Edit)
      BY <1>15, <2>1, EditRows, ReplacedEdit DEF SubmitEdit
    <2>3. listing' \in Listing
      BY <1>15, <2>1, ListingRows DEF SubmitEdit, TypeOK
    <2> QED BY <1>15, <2>2, <2>3 DEF SubmitEdit, TypeOK
  <1>16. CASE CancelEdit
    <2>1. written' \in Nat /\ edits # <<>> /\ listing \in Listing
      BY <1>16 DEF CancelEdit, EditIs, TypeOK
    <2>2. edits' \in Seq(Edit)
      BY <1>16, <2>1, EditRows, ReplacedEdit DEF CancelEdit
    <2>3. listing' \in Listing
      BY <1>16, <2>1, WithoutRequestListing DEF CancelEdit
    <2> QED BY <1>16, <2>2, <2>3 DEF CancelEdit, TypeOK
  <1>17. CASE DeactivateListing
    <2>1. written' \in Nat
      BY <1>17 DEF DeactivateListing, TypeOK
    <2>2. listing' \in Listing
      BY <1>17, <2>1, ListingRows DEF DeactivateListing
    <2> QED BY <1>17, <2>2 DEF DeactivateListing, TypeOK
  <1>18. CASE ReactivateListing
    <2>1. written' \in Nat
      BY <1>18 DEF ReactivateListing, TypeOK
    <2>2. Bumped([listing EXCEPT !.requested = TRUE]) \in Listing
      BY <2>1, ListingRows
    <2>3. listing' \in Listing
      BY <1>18, <2>2, FinalizedListing DEF ReactivateListing
    <2> QED BY <1>18, <2>3 DEF ReactivateListing, TypeOK
  <1> QED BY <1>0, <1>1, <1>2, <1>3, <1>4, <1>5, <1>6, <1>7, <1>8, <1>9, <1>10, <1>11,
             <1>12, <1>13, <1>14, <1>15, <1>16, <1>17, <1>18
          DEF Next, Seller, Moderator

LEMMA TypeInit == Init => TypeOK
BY DEF Init, TypeOK, Listing, Claim, Unclaimed, BlankScreen, Screen, NoPatch, Patch

\* Every row of a listing under review keeps the shape its table gives it.
THEOREM TypeCorrect == Spec => []TypeOK
  <1> QED BY TypeInit, TypeInduction, PTL DEF Spec

----------------------------------------------------------------------------
(* What no step undoes: a row changes its content only under a new counter *)

\* Content under an unchanged revision is unchanged, and ACTIVE is never left.
Follows(row) ==
    /\ row.revision >= listing.revision
    /\ row.content # listing.content => row.revision > listing.revision
    /\ listing.status = "ACTIVE" => row.status = "ACTIVE"

LEMMA SameContentFollows ==
    ASSUME NEW row, row.content = listing.content, row.status = listing.status,
           row.revision >= listing.revision
    PROVE  Follows(row)
BY DEF Follows

LEMMA ListingMoves == ASSUME TypeOK, Next PROVE Follows(listing')
  <1>0. listing \in Listing /\ listing.revision \in Nat
    BY ListingColumns DEF TypeOK
  <1>1. CASE UNCHANGED listing
    BY <1>0, <1>1 DEF Follows
  <1>2. ASSUME NEW m \in Moderators, NEW decision \in Decisions, Decide(m, decision)
        PROVE  Follows(listing')
    <2> DEFINE st == Outcome(decision, "ACTIVE")
               decided == [listing EXCEPT !.status = st]
    <2>1. st \in {"PENDING_MODERATION", "ACTIVE"} \cup Returned
      BY OutcomeType
    <2>2. /\ decided \in Listing /\ decided.revision = listing.revision
          /\ decided.content = listing.content
      BY <2>1, <1>0 DEF Listing
    <2>3. listing.status = "PENDING_MODERATION"
      BY <1>2 DEF Decide
    <2>4. listing' = Applied(decided) \/ listing' = decided
      BY <1>2 DEF Decide
    <2> HIDE DEF decided
    <2>5. Applied(decided).revision = listing.revision + 1
      BY <2>2, AppliedListing, DerivedTypes
    <2> QED BY <1>0, <2>2, <2>3, <2>4, <2>5 DEF Follows
  <1>3. ASSUME NEW m \in Moderators, NEW decision \in Decisions, DecideEdit(m, decision)
        PROVE  Follows(listing')
    <2>1. /\ Applied(listing) \in Listing
          /\ Applied(listing).revision = listing.revision + 1
          /\ Applied(listing).status = listing.status
      BY <1>0, AppliedListing, DerivedTypes
    <2>2. /\ Finalized(Applied(listing)).revision >= listing.revision + 1
          /\ Finalized(Applied(listing)).status = listing.status
          /\ Finalized(Applied(listing)) \in Listing
      BY <2>1, FinalizedListing
    <2>3. Follows(Finalized(Applied(listing)))
      <3>1. Finalized(Applied(listing)).revision \in Nat
        BY <2>2, ListingColumns
      <3> QED BY <1>0, <2>2, <3>1 DEF Follows
    <2>4. Follows(WithoutRequest(listing)) /\ Follows(listing)
      <3>1. /\ WithoutRequest(listing).content = listing.content
            /\ WithoutRequest(listing).status = listing.status
            /\ WithoutRequest(listing).revision >= listing.revision
        BY <1>0, WithoutRequestListing
      <3> QED BY <1>0, <3>1, SameContentFollows
    <2> QED BY <1>3, <2>3, <2>4 DEF DecideEdit
  <1>4. ASSUME NEW columns \in BOOLEAN, WritePatch(columns) PROVE Follows(listing')
    <2>1. written' \in Nat
      BY <1>4 DEF WritePatch, NewContent, TypeOK
    <2>2. patch.status \in Returned /\ listing.status \in Returned
      BY <1>4 DEF WritePatch, TypeOK, Patch
    <2>3. PICK st \in Returned :
            listing' = Bumped([listing EXCEPT !.content = written', !.status = st])
      BY <1>4, <2>2 DEF WritePatch
    <2>4. listing'.revision = listing.revision + 1
      BY <2>1, <2>3, ListingRows
    <2> QED BY <1>0, <2>2, <2>4 DEF Follows, Returned
  <1>5. CASE ResubmitListing
    <2>1. listing'.content = listing.content /\ listing'.revision = listing.revision
      BY <1>0, <1>5 DEF ResubmitListing, Listing
    <2> QED BY <1>0, <1>5, <2>1 DEF ResubmitListing, Returned, Follows
  <1>6. ASSUME NEW activate \in BOOLEAN, SubmitEdit(activate) PROVE Follows(listing')
    <2>1. written' \in Nat
      BY <1>6 DEF SubmitEdit, TypeOK
    <2> DEFINE asked == Bumped([listing EXCEPT !.requested = TRUE])
    <2>2. /\ asked.content = listing.content /\ asked.status = listing.status
          /\ asked.revision = listing.revision + 1
      BY <2>1, ListingRows
    <2>3. listing' = asked \/ listing' = listing
      BY <1>6 DEF SubmitEdit
    <2> HIDE DEF asked
    <2> QED BY <1>0, <2>2, <2>3 DEF Follows
  <1>7. CASE CancelEdit
    BY <1>0, <1>7, WithoutRequestListing DEF CancelEdit, Follows
  <1>8. CASE DeactivateListing
    <2>1. written' \in Nat
      BY <1>8 DEF DeactivateListing, TypeOK
    <2> DEFINE hidden == Bumped([listing EXCEPT !.deactivated = TRUE, !.requested = FALSE])
    <2>2. /\ hidden.content = listing.content /\ hidden.status = listing.status
          /\ hidden.revision = listing.revision + 1
      BY <2>1, ListingRows
    <2>3. listing' = hidden
      BY <1>8 DEF DeactivateListing
    <2> HIDE DEF hidden
    <2> QED BY <1>0, <2>2, <2>3 DEF Follows
  <1>9. CASE ReactivateListing
    <2> DEFINE asked == Bumped([listing EXCEPT !.requested = TRUE])
    <2>1. written' \in Nat
      BY <1>9 DEF ReactivateListing, TypeOK
    <2>2. /\ asked \in Listing /\ asked.status = listing.status
          /\ asked.content = listing.content /\ asked.revision = listing.revision + 1
      BY <2>1, ListingRows
    <2>3. listing' = asked \/ listing' = Finalized(asked)
      BY <1>9 DEF ReactivateListing
    <2> HIDE DEF asked
    <2>4. /\ Finalized(asked) \in Listing /\ Finalized(asked).status = listing.status
          /\ Finalized(asked).content = listing.content
          /\ Finalized(asked).revision >= listing.revision + 1
      BY <2>2, FinalizedListing
    <2>5. Finalized(asked).revision \in Nat
      BY <2>4, ListingColumns
    <2> QED BY <1>0, <2>2, <2>3, <2>4, <2>5 DEF Follows
  <1> QED
    BY <1>1, <1>2, <1>3, <1>4, <1>5, <1>6, <1>7, <1>8, <1>9
    DEF Next, Seller, Moderator, ClaimExpires, LoadPage, ClaimListing, OpenAdjustmentBy,
        SaveAdjustment, DiscardAdjustment, BeginPatch, DropPatch, OpenEdit, UpdateEdit

ClosedEditStatuses == {"APPROVED", "REJECTED", "CANCELLED"}

EditsKept ==
    \A i \in DOMAIN edits :
        /\ i \in DOMAIN edits'
        /\ edits'[i].revision >= edits[i].revision
        /\ edits'[i].data # edits[i].data => edits'[i].revision > edits[i].revision
        /\ edits[i].status \in ClosedEditStatuses => edits'[i] = edits[i]

LEMMA EditReplacement ==
    ASSUME TypeOK, edits # <<>>, NEW row \in Edit, SetEdit(row),
           Latest(edits).status \in OpenEditStatuses,
           row.revision >= Latest(edits).revision,
           row.data # Latest(edits).data => row.revision > Latest(edits).revision
    PROVE  EditsKept
  <1>1. edits' = [edits EXCEPT ![Len(edits)] = row] /\ edits \in Seq(Edit)
    BY DEF SetEdit, TypeOK
  <1>2. SUFFICES ASSUME NEW i \in DOMAIN edits
        PROVE  /\ i \in DOMAIN edits'
               /\ edits'[i].revision >= edits[i].revision
               /\ edits'[i].data # edits[i].data => edits'[i].revision > edits[i].revision
               /\ edits[i].status \in ClosedEditStatuses => edits'[i] = edits[i]
    BY DEF EditsKept
  <1>3. edits[i] \in Edit /\ edits[i].revision \in Nat
    BY <1>1, EditColumns
  <1>4. CASE i = Len(edits)
    BY <1>1, <1>4 DEF Latest, OpenEditStatuses, ClosedEditStatuses
  <1>5. CASE i # Len(edits)
    BY <1>1, <1>3, <1>5
  <1> QED BY <1>4, <1>5

LEMMA EditMoves == ASSUME TypeOK, Next PROVE EditsKept
  <1>0. /\ edits \in Seq(Edit)
        /\ \A i \in DOMAIN edits : edits[i] \in Edit /\ edits[i].revision \in Nat
    BY EditColumns DEF TypeOK
  <1>1. CASE UNCHANGED edits
    BY <1>0, <1>1 DEF EditsKept
  <1>2. CASE OpenEdit
    <2> DEFINE row == [status |-> "EDIT_DRAFT", revision |-> 1, data |-> listing.content]
    <2>1. edits' = Append(edits, row)
      BY <1>2 DEF OpenEdit
    <2> HIDE DEF row
    <2>2. \A i \in DOMAIN edits : i \in DOMAIN edits' /\ edits'[i] = edits[i]
      BY <1>0, <2>1
    <2> QED BY <1>0, <2>2 DEF EditsKept
  <1>3. ASSUME NEW m \in Moderators, NEW decision \in Decisions, DecideEdit(m, decision)
        PROVE  EditsKept
    <2> DEFINE st == Outcome(decision, "APPROVED")
               row == [Latest(edits) EXCEPT !.status = st]
    <2>1. edits # <<>> /\ written' \in Nat /\ Latest(edits).status \in OpenEditStatuses
      BY <1>3 DEF DecideEdit, EditPending, EditIs, OpenEditStatuses, TypeOK
    <2>2. st \in {"PENDING_MODERATION", "APPROVED", "REJECTED", "CORRECTION_REQUIRED"}
      BY OutcomeType DEF Returned, Decisions
    <2> HIDE DEF st
    <2>3. /\ row \in Edit /\ row.revision = Latest(edits).revision
          /\ row.data = Latest(edits).data
      BY <2>1, <2>2, EditRows
    <2>4. SetEdit(row) /\ Latest(edits).revision \in Nat
      BY <1>3, <2>1, DerivedTypes, EditColumns DEF DecideEdit, st
    <2> HIDE DEF row
    <2> QED BY <2>1, <2>3, <2>4, EditReplacement
  <1>4. CASE UpdateEdit
    <2> DEFINE row == Bumped([Latest(edits) EXCEPT !.data = written'])
    <2>1. edits # <<>> /\ written' \in Nat /\ Latest(edits).status \in OpenEditStatuses
      BY <1>4 DEF UpdateEdit, NewContent, EditIs, EditableStatuses, OpenEditStatuses, TypeOK
    <2>2. /\ row \in Edit /\ row.revision = Latest(edits).revision + 1
      BY <2>1, EditRows
    <2>3. SetEdit(row) /\ Latest(edits).revision \in Nat
      BY <1>4, <2>1, DerivedTypes, EditColumns DEF UpdateEdit
    <2> HIDE DEF row
    <2> QED BY <2>1, <2>2, <2>3, EditReplacement
  <1>5. ASSUME NEW activate \in BOOLEAN, SubmitEdit(activate) PROVE EditsKept
    <2> DEFINE row == [Latest(edits) EXCEPT !.status = "PENDING_MODERATION"]
    <2>1. edits # <<>> /\ written' \in Nat /\ Latest(edits).status \in OpenEditStatuses
      BY <1>5 DEF SubmitEdit, EditIs, EditableStatuses, OpenEditStatuses, TypeOK
    <2>2. /\ row \in Edit /\ row.revision = Latest(edits).revision
          /\ row.data = Latest(edits).data
      BY <2>1, EditRows
    <2>3. SetEdit(row) /\ Latest(edits).revision \in Nat
      BY <1>5, <2>1, DerivedTypes, EditColumns DEF SubmitEdit
    <2> HIDE DEF row
    <2> QED BY <2>1, <2>2, <2>3, EditReplacement
  <1>6. CASE CancelEdit
    <2> DEFINE row == Bumped([Latest(edits) EXCEPT !.status = "CANCELLED"])
    <2>1. edits # <<>> /\ written' \in Nat /\ Latest(edits).status \in OpenEditStatuses
      BY <1>6 DEF CancelEdit, EditIs, EditableStatuses, OpenEditStatuses, TypeOK
    <2>2. /\ row \in Edit /\ row.revision = Latest(edits).revision + 1
      BY <2>1, EditRows
    <2>3. SetEdit(row) /\ Latest(edits).revision \in Nat
      BY <1>6, <2>1, DerivedTypes, EditColumns DEF CancelEdit
    <2> HIDE DEF row
    <2> QED BY <2>1, <2>2, <2>3, EditReplacement
  <1> QED
    BY <1>1, <1>2, <1>3, <1>4, <1>5, <1>6
    DEF Next, Seller, Moderator, ClaimExpires, LoadPage, ClaimListing, OpenAdjustmentBy,
        SaveAdjustment, DiscardAdjustment, Decide, BeginPatch, WritePatch, DropPatch,
        ResubmitListing, DeactivateListing, ReactivateListing

AdjustmentsKept ==
    \A i \in DOMAIN adjustments :
        /\ i \in DOMAIN adjustments'
        /\ adjustments'[i].revision >= adjustments[i].revision
        /\ adjustments'[i].adjusted # adjustments[i].adjusted =>
              adjustments'[i].revision > adjustments[i].revision
        /\ adjustments[i].status # "OPEN" => adjustments'[i] = adjustments[i]

\* An adjustment starts at counter 1.
NewAdjustmentsStart ==
    \A i \in DOMAIN adjustments' : i \in DOMAIN adjustments \/ adjustments'[i].revision = 1

LEMMA AdjustmentReplacement ==
    ASSUME TypeOK, AdjustmentOpen, NEW row \in Adjustment, SetAdjustment(row),
           row.revision >= Latest(adjustments).revision,
           row.adjusted # Latest(adjustments).adjusted =>
              row.revision > Latest(adjustments).revision
    PROVE  AdjustmentsKept
  <1>1. /\ adjustments' = [adjustments EXCEPT ![Len(adjustments)] = row]
        /\ adjustments \in Seq(Adjustment) /\ adjustments # <<>>
    BY DEF SetAdjustment, TypeOK, AdjustmentOpen
  <1>2. SUFFICES ASSUME NEW i \in DOMAIN adjustments
        PROVE  /\ i \in DOMAIN adjustments'
               /\ adjustments'[i].revision >= adjustments[i].revision
               /\ adjustments'[i].adjusted # adjustments[i].adjusted =>
                     adjustments'[i].revision > adjustments[i].revision
               /\ adjustments[i].status # "OPEN" => adjustments'[i] = adjustments[i]
    BY DEF AdjustmentsKept
  <1>3. adjustments[i] \in Adjustment /\ adjustments[i].revision \in Nat
    BY <1>1, AdjustmentColumns
  <1>4. CASE i = Len(adjustments)
    BY <1>1, <1>4 DEF Latest, AdjustmentOpen
  <1>5. CASE i # Len(adjustments)
    BY <1>1, <1>3, <1>5
  <1> QED BY <1>4, <1>5

LEMMA ClosedAdjustmentKept ==
    ASSUME TypeOK, AdjustmentOpen, NEW st \in {"DISCARDED", "APPLIED"}, Close(st)
    PROVE  AdjustmentsKept
  <1> DEFINE row == [Latest(adjustments) EXCEPT !.status = st]
  <1>1. Latest(adjustments) \in Adjustment /\ Latest(adjustments).revision \in Nat
    BY DerivedTypes, AdjustmentColumns DEF AdjustmentOpen
  <1>2. /\ row \in Adjustment /\ row.revision = Latest(adjustments).revision
        /\ row.adjusted = Latest(adjustments).adjusted
    BY <1>1 DEF Adjustment
  <1>3. SetAdjustment(row)
    BY DEF Close
  <1> HIDE DEF row
  <1> QED BY <1>1, <1>2, <1>3, AdjustmentReplacement

LEMMA AdjustmentMoves == ASSUME TypeOK, Next PROVE AdjustmentsKept
  <1>0. /\ adjustments \in Seq(Adjustment)
        /\ \A i \in DOMAIN adjustments :
              adjustments[i] \in Adjustment /\ adjustments[i].revision \in Nat
    BY AdjustmentColumns DEF TypeOK
  <1>1. CASE UNCHANGED adjustments
    BY <1>0, <1>1 DEF AdjustmentsKept
  <1>2. ASSUME NEW m \in Moderators, OpenAdjustmentBy(m) PROVE AdjustmentsKept
    <2>1. PICK row : adjustments' = Append(adjustments, row)
      BY <1>2 DEF OpenAdjustmentBy
    <2>2. \A i \in DOMAIN adjustments :
             i \in DOMAIN adjustments' /\ adjustments'[i] = adjustments[i]
      BY <1>0, <2>1
    <2> QED BY <1>0, <2>2 DEF AdjustmentsKept
  <1>3. ASSUME NEW m \in Moderators, SaveAdjustment(m) PROVE AdjustmentsKept
    <2> DEFINE row == Saved(Latest(adjustments))
    <2>1. written' \in Nat /\ AdjustmentOpen /\ SetAdjustment(row)
      BY <1>3 DEF SaveAdjustment, NewContent, TypeOK
    <2>2. Latest(adjustments) \in Adjustment /\ Latest(adjustments).revision \in Nat
      BY <2>1, DerivedTypes, AdjustmentColumns DEF AdjustmentOpen
    <2>3. row \in Adjustment /\ row.revision = Latest(adjustments).revision + 1
      BY <2>1, <2>2, SavedAdjustment
    <2> HIDE DEF row
    <2> QED BY <2>1, <2>2, <2>3, AdjustmentReplacement
  <1>4. ASSUME NEW m \in Moderators, DiscardAdjustment(m) PROVE AdjustmentsKept
    BY <1>4, ClosedAdjustmentKept DEF DiscardAdjustment
  <1>5. ASSUME NEW decision \in Decisions, SettleAdjustment(decision) PROVE AdjustmentsKept
    BY <1>1, <1>5, ClosedAdjustmentKept DEF SettleAdjustment
  <1> QED
    BY <1>1, <1>2, <1>3, <1>4, <1>5
    DEF Next, Seller, Moderator, ClaimExpires, LoadPage, ClaimListing, Decide, DecideEdit,
        BeginPatch, WritePatch, DropPatch, ResubmitListing, OpenEdit, UpdateEdit, SubmitEdit,
        CancelEdit, DeactivateListing, ReactivateListing

LEMMA NewAdjustments == ASSUME TypeOK, Next PROVE NewAdjustmentsStart
  <1>0. adjustments \in Seq(Adjustment)
    BY DEF TypeOK
  <1>1. CASE UNCHANGED adjustments
    BY <1>1 DEF NewAdjustmentsStart
  <1>2. ASSUME NEW row, AdjustmentOpen, SetAdjustment(row) PROVE NewAdjustmentsStart
    BY <1>0, <1>2 DEF SetAdjustment, NewAdjustmentsStart, AdjustmentOpen
  <1>3. ASSUME NEW m \in Moderators, OpenAdjustmentBy(m) PROVE NewAdjustmentsStart
    <2> DEFINE row == [edit |-> PendingEdit, listingRevision |-> listing.revision,
                       editRevision |-> PendingEditRevision, submitted |-> SubmittedContent,
                       adjusted |-> written', revision |-> 1, status |-> "OPEN"]
    <2>1. adjustments' = Append(adjustments, row) /\ row.revision = 1
      BY <1>3 DEF OpenAdjustmentBy
    <2> HIDE DEF row
    <2> QED BY <1>0, <2>1 DEF NewAdjustmentsStart
  <1>4. ASSUME NEW m \in Moderators,
               SaveAdjustment(m) \/ DiscardAdjustment(m)
        PROVE  NewAdjustmentsStart
    BY <1>2, <1>4 DEF SaveAdjustment, DiscardAdjustment, Close
  <1>5. ASSUME NEW decision \in Decisions, SettleAdjustment(decision)
        PROVE  NewAdjustmentsStart
    BY <1>1, <1>2, <1>5 DEF SettleAdjustment, Close
  <1> QED
    BY <1>1, <1>3, <1>4, <1>5
    DEF Next, Seller, Moderator, ClaimExpires, LoadPage, ClaimListing, Decide, DecideEdit,
        BeginPatch, WritePatch, DropPatch, ResubmitListing, OpenEdit, UpdateEdit, SubmitEdit,
        CancelEdit, DeactivateListing, ReactivateListing

\* A decision adds its review and every other step adds none.
LEMMA ReviewMoves ==
    ASSUME TypeOK, Next
    PROVE  \/ UNCHANGED reviews
           \/ \E m \in Moderators, decision \in Decisions :
                 (Decide(m, decision) \/ DecideEdit(m, decision)) /\ Record(m, decision)
BY DEF Next, Seller, Moderator, ClaimExpires, LoadPage, ClaimListing, OpenAdjustmentBy,
       SaveAdjustment, DiscardAdjustment, Decide, DecideEdit, BeginPatch, WritePatch,
       DropPatch, ResubmitListing, OpenEdit, UpdateEdit, SubmitEdit, CancelEdit,
       DeactivateListing, ReactivateListing

----------------------------------------------------------------------------
(* Edit revisions belong to a public listing; counters start at one *)

EditsOfActive == listing.status # "ACTIVE" => edits = <<>> /\ ~listing.deactivated

Counters ==
    /\ listing.revision >= 1
    /\ \A i \in DOMAIN adjustments : adjustments[i].revision >= 1

Base == TypeOK /\ EditsOfActive /\ Counters

LEMMA BaseInit == Init => Base
  <1> SUFFICES ASSUME Init PROVE EditsOfActive /\ Counters
    BY TypeInit DEF Base
  <1> QED BY DEF Init, EditsOfActive, Counters

LEMMA CountersInduction == ASSUME Base, Next PROVE Counters'
  <1>1. listing'.revision >= 1
    <2>1. listing.revision \in Nat /\ listing'.revision \in Nat
      BY TypeInduction, ListingColumns DEF Base, TypeOK
    <2> QED BY <2>1, ListingMoves DEF Base, Counters, Follows
  <1>2. \A i \in DOMAIN adjustments' : adjustments'[i].revision >= 1
    <2> SUFFICES ASSUME NEW i \in DOMAIN adjustments'
                 PROVE  adjustments'[i].revision >= 1
      OBVIOUS
    <2>1. CASE i \in DOMAIN adjustments
      <3>1. adjustments[i] \in Adjustment /\ adjustments'[i] \in Adjustment
        BY <2>1, TypeInduction DEF Base, TypeOK
      <3>2. adjustments[i].revision \in Nat /\ adjustments'[i].revision \in Nat
        BY <3>1, AdjustmentColumns
      <3> QED BY <2>1, <3>2, AdjustmentMoves DEF Base, Counters, AdjustmentsKept
    <2>2. CASE i \notin DOMAIN adjustments
      BY <2>2, NewAdjustments DEF Base, NewAdjustmentsStart
    <2> QED BY <2>1, <2>2
  <1> QED BY <1>1, <1>2 DEF Counters

LEMMA EditsOfActiveInduction == ASSUME Base, Next PROVE EditsOfActive'
  <1> SUFFICES ASSUME listing'.status # "ACTIVE" PROVE edits' = <<>> /\ ~listing'.deactivated
    BY DEF EditsOfActive
  <1>1. listing.status # "ACTIVE" /\ edits = <<>> /\ ~listing.deactivated /\ TypeOK
    BY ListingMoves DEF Base, EditsOfActive, Follows
  <1>2. UNCHANGED edits
    BY <1>1 DEF Next, Seller, Moderator, ClaimExpires, LoadPage, ClaimListing,
       OpenAdjustmentBy, SaveAdjustment, DiscardAdjustment, Decide, DecideEdit, BeginPatch,
       WritePatch, DropPatch, ResubmitListing, OpenEdit, UpdateEdit, SubmitEdit, CancelEdit,
       DeactivateListing, ReactivateListing, EditPending, EditIs
  <1>3. CASE UNCHANGED listing
    BY <1>1, <1>2, <1>3
  <1>4. ASSUME NEW m \in Moderators, NEW decision \in Decisions, Decide(m, decision)
        PROVE  ~listing'.deactivated
    <2> DEFINE st == Outcome(decision, "ACTIVE")
               decided == [listing EXCEPT !.status = st]
    <2>1. st \in {"PENDING_MODERATION", "ACTIVE"} \cup Returned
      BY OutcomeType
    <2>2. decided \in Listing /\ decided.deactivated = listing.deactivated
      BY <1>1, <2>1 DEF Listing, TypeOK
    <2>3. listing' = Applied(decided) \/ listing' = decided
      BY <1>4 DEF Decide
    <2> HIDE DEF decided
    <2>4. Applied(decided).deactivated = listing.deactivated
      BY <1>1, <2>2, AppliedListing, DerivedTypes
    <2> QED BY <1>1, <2>2, <2>3, <2>4
  <1>5. ASSUME NEW columns \in BOOLEAN, WritePatch(columns) PROVE ~listing'.deactivated
    <2>1. written' \in Nat /\ patch.status \in Returned /\ listing.status \in Returned
      BY <1>1, <1>5 DEF WritePatch, NewContent, TypeOK, Patch
    <2>2. PICK st \in Returned :
            listing' = Bumped([listing EXCEPT !.content = written', !.status = st])
      BY <1>5, <2>1 DEF WritePatch
    <2>3. listing'.deactivated = listing.deactivated
      BY <1>1, <2>1, <2>2, ListingRows
    <2> QED BY <1>1, <2>3
  <1>6. CASE ResubmitListing
    BY <1>1, <1>6 DEF ResubmitListing, TypeOK, Listing
  <1> QED
    BY <1>1, <1>2, <1>3, <1>4, <1>5, <1>6
    DEF Next, Seller, Moderator, ClaimExpires, LoadPage, ClaimListing, OpenAdjustmentBy,
        SaveAdjustment, DiscardAdjustment, DecideEdit, EditPending, EditIs, BeginPatch,
        DropPatch, OpenEdit, UpdateEdit, SubmitEdit, CancelEdit, DeactivateListing,
        ReactivateListing

LEMMA BaseInduction == Base /\ [Next]_vars => Base'
  <1>1. ASSUME Base, Next PROVE Base'
    BY <1>1, TypeInduction, CountersInduction, EditsOfActiveInduction DEF Base
  <1>2. ASSUME Base, UNCHANGED vars PROVE Base'
    BY <1>2 DEF vars, Base, TypeOK, Counters, EditsOfActive
  <1> QED BY <1>1, <1>2

----------------------------------------------------------------------------
(* Pages: as long as a counter of the page is current, so is its content *)

TruePage(page) ==
    /\ page.listingRevision <= listing.revision
    /\ page.adjustment = None => page.adjustmentRevision = 0
    /\ page.edit = None /\ page.adjustment = None /\ page.listingRevision = listing.revision
          => page.content = listing.content
    /\ page.edit # None =>
          /\ page.edit \in DOMAIN edits
          /\ page.editRevision <= edits[page.edit].revision
          /\ page.adjustment = None /\ page.editRevision = edits[page.edit].revision
                => page.content = edits[page.edit].data
    /\ page.adjustment # None =>
          /\ page.adjustment \in DOMAIN adjustments
          /\ page.adjustmentRevision \in 1..adjustments[page.adjustment].revision
          /\ page.adjustmentRevision = adjustments[page.adjustment].revision
                => page.content = adjustments[page.adjustment].adjusted

Pages == \A m \in Moderators : TruePage(screen[m])

LEMMA TruePageKept ==
    ASSUME Base, Next, NEW page \in Screen, TruePage(page)
    PROVE  TruePage(page)'
  <1>1. /\ listing.revision \in Nat /\ listing'.revision \in Nat
        /\ page.listingRevision \in Nat /\ page.editRevision \in Nat
        /\ page.adjustmentRevision \in Nat
    BY TypeInduction, ListingColumns DEF Base, TypeOK, Screen
  <1>2. /\ page.listingRevision <= listing'.revision
        /\ page.edit = None /\ page.adjustment = None
              /\ page.listingRevision = listing'.revision
              => page.content = listing'.content
    BY <1>1, ListingMoves DEF Base, Follows, TruePage
  <1>3. ASSUME page.edit # None
        PROVE  /\ page.edit \in DOMAIN edits'
               /\ page.editRevision <= edits'[page.edit].revision
               /\ page.adjustment = None /\ page.editRevision = edits'[page.edit].revision
                     => page.content = edits'[page.edit].data
    <2>1. page.edit \in DOMAIN edits /\ page.edit \in DOMAIN edits'
      BY <1>3, EditMoves DEF TruePage, Base, EditsKept
    <2>2. edits[page.edit].revision \in Nat /\ edits'[page.edit].revision \in Nat
      BY <2>1, TypeInduction, EditColumns DEF Base, TypeOK
    <2> QED BY <1>1, <1>3, <2>1, <2>2, EditMoves DEF TruePage, Base, EditsKept
  <1>4. ASSUME page.adjustment # None
        PROVE  /\ page.adjustment \in DOMAIN adjustments'
               /\ page.adjustmentRevision \in 1..adjustments'[page.adjustment].revision
               /\ page.adjustmentRevision = adjustments'[page.adjustment].revision
                     => page.content = adjustments'[page.adjustment].adjusted
    <2>1. page.adjustment \in DOMAIN adjustments /\ page.adjustment \in DOMAIN adjustments'
      BY <1>4, AdjustmentMoves DEF TruePage, Base, AdjustmentsKept
    <2>2. /\ adjustments[page.adjustment].revision \in Nat
          /\ adjustments'[page.adjustment].revision \in Nat
      BY <2>1, TypeInduction, AdjustmentColumns DEF Base, TypeOK
    <2> QED BY <1>1, <1>4, <2>1, <2>2, AdjustmentMoves DEF TruePage, Base, AdjustmentsKept
  <1> QED BY <1>2, <1>3, <1>4 DEF TruePage

LEMMA PagesInit == Init => Pages
  <1> SUFFICES ASSUME Init, NEW m \in Moderators PROVE TruePage(screen[m])
    BY DEF Pages
  <1>1. screen[m] = BlankScreen /\ listing.revision = 1
    BY DEF Init
  <1>2. /\ BlankScreen.edit = None /\ BlankScreen.adjustment = None
        /\ BlankScreen.listingRevision = 0 /\ BlankScreen.adjustmentRevision = 0
    BY DEF BlankScreen
  <1> QED BY <1>1, <1>2 DEF TruePage

LEMMA LoadedPage ==
    ASSUME Base, NEW page,
           page = [edit |-> PendingEdit, listingRevision |-> listing.revision,
                   editRevision |-> PendingEditRevision, adjustment |-> OpenAdjustment,
                   adjustmentRevision |-> AdjustmentRevision, content |-> ReviewedContent]
    PROVE  TruePage(page)
  <1>1. edits # <<>> => Len(edits) \in DOMAIN edits /\ Len(edits) # None
    BY LatestType DEF Base, TypeOK
  <1>2. adjustments # <<>> => Len(adjustments) \in DOMAIN adjustments /\ Len(adjustments) # None
    BY LatestType DEF Base, TypeOK
  <1>3. /\ listing.revision \in Nat
        /\ edits # <<>> => Latest(edits).revision \in Nat
        /\ adjustments # <<>> => Latest(adjustments).revision \in Nat
    BY DerivedTypes, ListingColumns, EditColumns, AdjustmentColumns DEF Base, TypeOK
  <1>4. adjustments # <<>> => Latest(adjustments).revision >= 1
    BY <1>2 DEF Base, Counters, Latest
  <1>5. CASE AdjustmentOpen
    BY <1>1, <1>2, <1>3, <1>4, <1>5
       DEF TruePage, PendingEdit, PendingEditRevision, OpenAdjustment, AdjustmentRevision,
           ReviewedContent, EditPending, EditIs, AdjustmentOpen, Latest
  <1>6. CASE ~AdjustmentOpen
    BY <1>1, <1>3, <1>6
       DEF TruePage, PendingEdit, PendingEditRevision, OpenAdjustment, AdjustmentRevision,
           ReviewedContent, SubmittedContent, EditPending, EditIs, Latest
  <1> QED BY <1>5, <1>6

LEMMA PagesInduction == Base /\ Pages /\ [Next]_vars => Pages'
  <1>1. ASSUME Base, Pages, Next PROVE Pages'
    <2> SUFFICES ASSUME NEW m \in Moderators PROVE TruePage(screen[m])'
      BY DEF Pages
    <2>1. CASE screen'[m] = screen[m]
      <3>1. screen[m] \in Screen /\ TruePage(screen[m])
        BY <1>1 DEF Pages, Base, TypeOK
      <3> QED BY <1>1, <2>1, <3>1, TruePageKept DEF TruePage
    <2>2. CASE screen'[m] # screen[m]
      <3>1. PICK n \in Moderators : LoadPage(n)
        BY <1>1, <2>2
           DEF Next, Seller, Moderator, ClaimExpires, ClaimListing, OpenAdjustmentBy,
               SaveAdjustment, DiscardAdjustment, Decide, DecideEdit, BeginPatch, WritePatch,
               DropPatch, ResubmitListing, OpenEdit, UpdateEdit, SubmitEdit, CancelEdit,
               DeactivateListing, ReactivateListing
      <3>2. screen'[m] = [edit |-> PendingEdit, listingRevision |-> listing.revision,
               editRevision |-> PendingEditRevision, adjustment |-> OpenAdjustment,
               adjustmentRevision |-> AdjustmentRevision, content |-> ReviewedContent]
        BY <1>1, <2>2, <3>1 DEF LoadPage, Base, TypeOK
      <3>3. TruePage(screen'[m])
        BY <1>1, <3>2, LoadedPage
      <3> QED BY <3>1, <3>3 DEF LoadPage, TruePage
    <2> QED BY <2>1, <2>2
  <1>2. ASSUME Pages, UNCHANGED vars PROVE Pages'
    BY <1>2 DEF vars, Pages, TruePage
  <1> QED BY <1>1, <1>2

----------------------------------------------------------------------------
(* A decision about the page's edit and adjustment is about the page's content *)

LEMMA CurrentPageContent ==
    ASSUME Base, Pages, NEW m \in Moderators, NEW decision \in Decisions,
           Decide(m, decision) \/ DecideEdit(m, decision),
           screen[m].edit = PendingEdit, screen[m].adjustment = OpenAdjustment
    PROVE  screen[m].content = ReviewedContent
  <1>1. TruePage(screen[m]) /\ screen[m].adjustmentRevision = AdjustmentRevision
    BY DEF Pages, Decide, DecideEdit, ExpectsAdjustment
  <1>2. CASE AdjustmentOpen
    <2>1. Len(adjustments) # None
      BY <1>2, LatestType DEF AdjustmentOpen, Base, TypeOK
    <2> QED BY <1>1, <1>2, <2>1
            DEF TruePage, OpenAdjustment, AdjustmentRevision, ReviewedContent, Latest
  <1>3. CASE ~AdjustmentOpen /\ EditPending
    <2>1. Len(edits) # None
      BY <1>3, LatestType DEF EditPending, EditIs, Base, TypeOK
    <2>2. screen[m].editRevision = PendingEditRevision
      BY <1>3 DEF Decide, DecideEdit, Base, EditsOfActive, EditPending, EditIs
    <2> QED BY <1>1, <1>3, <2>1, <2>2
            DEF TruePage, OpenAdjustment, PendingEdit, PendingEditRevision, ReviewedContent,
                SubmittedContent, Latest
  <1>4. CASE ~AdjustmentOpen /\ ~EditPending
    <2>1. screen[m].listingRevision = listing.revision
      BY <1>4 DEF Decide, DecideEdit
    <2> QED BY <1>1, <1>4, <2>1
            DEF TruePage, OpenAdjustment, PendingEdit, ReviewedContent, SubmittedContent
  <1> QED BY <1>2, <1>3, <1>4

LEMMA DecidedAsShownInduction ==
    Base /\ Pages /\ DecidedAsShown /\ [Next]_vars => DecidedAsShown'
  <1>1. ASSUME DecidedAsShown, UNCHANGED reviews PROVE DecidedAsShown'
    BY <1>1 DEF DecidedAsShown
  <1>2. ASSUME Base, Pages, DecidedAsShown, NEW m \in Moderators, NEW decision \in Decisions,
               Decide(m, decision) \/ DecideEdit(m, decision), Record(m, decision)
        PROVE  DecidedAsShown'
    <2>1. /\ DOMAIN reviews' = 1..(Len(reviews) + 1) /\ DOMAIN reviews = 1..Len(reviews)
          /\ Len(reviews) \in Nat
          /\ \A i \in DOMAIN reviews : reviews'[i] = reviews[i]
          /\ reviews'[Len(reviews) + 1] = RecordOf(m, decision)
      BY <1>2, RecordAppends DEF Base
    <2>2. /\ RecordOf(m, decision).page = screen[m]
          /\ RecordOf(m, decision).edit = PendingEdit
          /\ RecordOf(m, decision).adjustment = OpenAdjustment
          /\ RecordOf(m, decision).decided = ReviewedContent
      BY DEF RecordOf
    <2>3. ASSUME NEW i \in DOMAIN reviews', reviews'[i].page.edit = reviews'[i].edit,
                 reviews'[i].page.adjustment = reviews'[i].adjustment
          PROVE  reviews'[i].page.content = reviews'[i].decided
      <3>1. CASE i \in DOMAIN reviews
        BY <1>2, <2>1, <2>3, <3>1 DEF DecidedAsShown
      <3>2. CASE i = Len(reviews) + 1
        BY <1>2, <2>1, <2>2, <2>3, <3>2, CurrentPageContent
      <3> QED BY <2>1, <3>1, <3>2
    <2> QED BY <2>3 DEF DecidedAsShown
  <1> QED
    BY <1>1, <1>2, ReviewMoves DEF Base, vars

ReviewInv == Base /\ Pages /\ DecidedAsShown

LEMMA ReviewInvariant == Spec => []ReviewInv
  <1>1. Init => ReviewInv
    <2>1. Init => DecidedAsShown
      BY DEF Init, DecidedAsShown
    <2> QED BY <2>1, BaseInit, PagesInit DEF ReviewInv
  <1>2. ReviewInv /\ [Next]_vars => ReviewInv'
    BY BaseInduction, PagesInduction, DecidedAsShownInduction DEF ReviewInv
  <1> QED BY <1>1, <1>2, PTL DEF Spec

\* However old a moderator's page is, a decision that names the edit revision and
\* the adjustment on it is a decision about the content on it.
THEOREM DecidedAsShownHolds == Spec => []DecidedAsShown
  <1>1. ReviewInv => DecidedAsShown
    BY DEF ReviewInv
  <1> QED BY <1>1, ReviewInvariant, PTL

----------------------------------------------------------------------------
(* Claims and adjustments end with the pass they were made for *)

\* While a pass is under review its submission is frozen.
LEMMA FrozenUnderReview ==
    ASSUME Base, Next, UnderReview,
           ~\E m \in Moderators, decision \in Decisions :
               Decide(m, decision) \/ DecideEdit(m, decision)
    PROVE  /\ UNCHANGED edits /\ UnderReview'
           /\ PendingEdit' = PendingEdit /\ PendingEditRevision' = PendingEditRevision
           /\ SubmittedContent' = SubmittedContent
           /\ PendingEdit = None => UNCHANGED listing
  <1>0. TypeOK
    BY DEF Base
  <1>1. EditPending => ~EditIs(EditableStatuses) /\ EditOpen /\ listing.status = "ACTIVE"
    BY DEF EditPending, EditIs, EditableStatuses, EditOpen, OpenEditStatuses, Base, EditsOfActive
  <1>2. ~EditPending => listing.status = "PENDING_MODERATION" /\ edits = <<>>
                        /\ ~listing.deactivated
    BY DEF UnderReview, Base, EditsOfActive
  <1>3. UNCHANGED edits /\ (UNCHANGED listing \/ DeactivateListing \/ ReactivateListing)
    <2>1. ~OpenEdit /\ ~UpdateEdit /\ ~CancelEdit /\ \A activate \in BOOLEAN : ~SubmitEdit(activate)
      BY <1>1, <1>2 DEF OpenEdit, UpdateEdit, CancelEdit, SubmitEdit, EditIs
    <2>2. ~ResubmitListing /\ \A columns \in BOOLEAN : ~WritePatch(columns)
      BY <1>1, <1>2 DEF ResubmitListing, WritePatch, Returned
    <2> QED BY <2>1, <2>2
            DEF Next, Seller, Moderator, ClaimExpires, LoadPage, ClaimListing,
                OpenAdjustmentBy, SaveAdjustment, DiscardAdjustment, BeginPatch, DropPatch,
                DeactivateListing, ReactivateListing
  <1>4. EditPending' = EditPending
    BY <1>3 DEF EditPending, EditIs
  <1>5. CASE UNCHANGED listing
    BY <1>3, <1>4, <1>5
       DEF UnderReview, PendingEdit, PendingEditRevision, SubmittedContent
  <1>6. CASE DeactivateListing \/ ReactivateListing
    <2>1. EditPending
      BY <1>2, <1>6 DEF DeactivateListing, ReactivateListing
    <2>2. PendingEdit # None
      BY <2>1, <1>0, LatestType DEF PendingEdit, EditPending, EditIs, TypeOK
    <2> QED BY <1>3, <1>4, <2>1, <2>2
            DEF UnderReview, PendingEdit, PendingEditRevision, SubmittedContent
  <1> QED BY <1>3, <1>5, <1>6

LEMMA ClaimOfThisPassInduction ==
    Base /\ ClaimOfThisPass /\ [Next]_vars => ClaimOfThisPass'
  <1>1. ASSUME ClaimOfThisPass, UNCHANGED vars PROVE ClaimOfThisPass'
    BY <1>1 DEF vars, ClaimOfThisPass, UnderReview, EditPending, EditIs
  <1>2. ASSUME Base, ClaimOfThisPass, Next PROVE ClaimOfThisPass'
    <2>1. CASE \E m \in Moderators, decision \in Decisions :
                  Decide(m, decision) \/ DecideEdit(m, decision)
      BY <2>1 DEF Decide, DecideEdit, ReleaseClaim, ClaimOfThisPass, Unclaimed
    <2>2. CASE ~\E m \in Moderators, decision \in Decisions :
                   Decide(m, decision) \/ DecideEdit(m, decision)
      <3>1. SUFFICES ASSUME claim' # Unclaimed PROVE UnderReview'
        BY DEF ClaimOfThisPass, Unclaimed
      <3>2. UnderReview
        <4>1. CASE UNCHANGED claim
          BY <1>2, <3>1, <4>1 DEF ClaimOfThisPass
        <4>2. CASE ClaimExpires
          BY <1>2, <4>2 DEF ClaimExpires, ClaimOfThisPass, Unclaimed
        <4>3. ASSUME NEW m \in Moderators, ClaimListing(m) PROVE UnderReview
          BY <4>3 DEF ClaimListing
        <4> QED BY <1>2, <2>2, <4>1, <4>2, <4>3
                DEF Next, Seller, Moderator, LoadPage, OpenAdjustmentBy, SaveAdjustment,
                    DiscardAdjustment, BeginPatch, WritePatch, DropPatch, ResubmitListing,
                    OpenEdit, UpdateEdit, SubmitEdit, CancelEdit, DeactivateListing,
                    ReactivateListing
      <3> QED BY <1>2, <2>2, <3>2, FrozenUnderReview
    <2> QED BY <2>1, <2>2
  <1> QED BY <1>1, <1>2

\* The open adjustment of a decision is closed by it.
LEMMA DecisionClosesAdjustment ==
    ASSUME TypeOK, NEW decision \in Decisions, SettleAdjustment(decision)
    PROVE  ~AdjustmentOpen'
  <1>1. CASE AdjustmentOpen
    <2>1. PICK st \in {"DISCARDED", "APPLIED"} : Close(st)
      BY <1>1 DEF SettleAdjustment
    <2>2. Latest(adjustments').status = st
      BY <1>1, <2>1, ClosedAdjustment
    <2> QED BY <2>2 DEF AdjustmentOpen
  <1>2. CASE ~AdjustmentOpen
    BY <1>2 DEF SettleAdjustment, AdjustmentOpen
  <1> QED BY <1>1, <1>2

\* The columns of an adjustment that say what it is about.
SameOrigin(a, b) ==
    /\ a.edit = b.edit /\ a.editRevision = b.editRevision
    /\ a.listingRevision = b.listingRevision /\ a.submitted = b.submitted

LEMMA AdjustmentOfThisPassInduction ==
    Base /\ AdjustmentOfThisPass /\ [Next]_vars => AdjustmentOfThisPass'
  <1>1. ASSUME AdjustmentOfThisPass, UNCHANGED vars PROVE AdjustmentOfThisPass'
    BY <1>1 DEF vars, AdjustmentOfThisPass, AdjustmentOpen, UnderReview, PendingEdit,
                PendingEditRevision, SubmittedContent, EditPending, EditIs
  <1>2. ASSUME Base, AdjustmentOfThisPass, Next PROVE AdjustmentOfThisPass'
    <2>0. TypeOK
      BY <1>2 DEF Base
    <2>1. CASE \E m \in Moderators, decision \in Decisions :
                  Decide(m, decision) \/ DecideEdit(m, decision)
      <3>1. ~AdjustmentOpen'
        BY <2>0, <2>1, DecisionClosesAdjustment DEF Decide, DecideEdit
      <3> QED BY <3>1 DEF AdjustmentOfThisPass
    <2>2. CASE ~\E m \in Moderators, decision \in Decisions :
                   Decide(m, decision) \/ DecideEdit(m, decision)
      <3>1. ASSUME UnderReview, Latest(adjustments').edit = PendingEdit,
                   Latest(adjustments').editRevision = PendingEditRevision,
                   Latest(adjustments').submitted = SubmittedContent,
                   Latest(adjustments').edit = None =>
                      Latest(adjustments').listingRevision = listing.revision
            PROVE  AdjustmentOfThisPass'
        BY <1>2, <2>2, <3>1, FrozenUnderReview DEF AdjustmentOfThisPass, Latest
      <3>2. ASSUME AdjustmentOpen, SameOrigin(Latest(adjustments'), Latest(adjustments))
            PROVE  AdjustmentOfThisPass'
        BY <1>2, <3>1, <3>2 DEF AdjustmentOfThisPass, SameOrigin
      <3>3. CASE UNCHANGED adjustments
        BY <3>2, <3>3 DEF SameOrigin, AdjustmentOfThisPass, AdjustmentOpen
      <3>4. ASSUME NEW m \in Moderators, OpenAdjustmentBy(m) PROVE AdjustmentOfThisPass'
        <4> DEFINE row == [edit |-> PendingEdit, listingRevision |-> listing.revision,
                       editRevision |-> PendingEditRevision, submitted |-> SubmittedContent,
                       adjusted |-> written', revision |-> 1, status |-> "OPEN"]
        <4>1. adjustments' = Append(adjustments, row) /\ UnderReview
          BY <3>4 DEF OpenAdjustmentBy, SubjectIsCurrent
        <4>2. Latest(adjustments') = row
          BY <2>0, <4>1 DEF Latest, TypeOK
        <4> QED BY <3>1, <4>1, <4>2
      <3>5. ASSUME NEW m \in Moderators, SaveAdjustment(m) PROVE AdjustmentOfThisPass'
        <4> DEFINE row == Saved(Latest(adjustments))
        <4>1. /\ written' \in Nat /\ AdjustmentOpen
              /\ adjustments' = [adjustments EXCEPT ![Len(adjustments)] = row]
          BY <2>0, <3>5 DEF SaveAdjustment, NewContent, SetAdjustment, TypeOK
        <4>2. Latest(adjustments) \in Adjustment
          BY <2>0, <4>1, DerivedTypes DEF AdjustmentOpen
        <4>3. SameOrigin(row, Latest(adjustments))
          BY <4>1, <4>2, SavedAdjustment DEF SameOrigin
        <4> HIDE DEF row
        <4>4. Latest(adjustments') = row
          BY <2>0, <4>1, LatestType DEF Latest, AdjustmentOpen, TypeOK
        <4> QED BY <3>2, <4>1, <4>3, <4>4
      <3>6. ASSUME NEW m \in Moderators, DiscardAdjustment(m) PROVE AdjustmentOfThisPass'
        <4>1. Latest(adjustments').status = "DISCARDED"
          BY <2>0, <3>6, ClosedAdjustment DEF DiscardAdjustment
        <4> QED BY <4>1 DEF AdjustmentOfThisPass, AdjustmentOpen
      <3> QED BY <1>2, <2>2, <3>3, <3>4, <3>5, <3>6
              DEF Next, Seller, Moderator, ClaimExpires, LoadPage, ClaimListing, BeginPatch,
                  WritePatch, DropPatch, ResubmitListing, OpenEdit, UpdateEdit, SubmitEdit,
                  CancelEdit, DeactivateListing, ReactivateListing
    <2> QED BY <2>1, <2>2
  <1> QED BY <1>1, <1>2

PassInv == Base /\ ClaimOfThisPass /\ AdjustmentOfThisPass

LEMMA PassInvariant == Spec => []PassInv
  <1>1. Init => PassInv
    <2>1. Init => ClaimOfThisPass /\ AdjustmentOfThisPass
      BY DEF Init, ClaimOfThisPass, AdjustmentOfThisPass, AdjustmentOpen
    <2> QED BY <2>1, BaseInit DEF PassInv
  <1>2. PassInv /\ [Next]_vars => PassInv'
    BY BaseInduction, ClaimOfThisPassInduction, AdjustmentOfThisPassInduction DEF PassInv
  <1> QED BY <1>1, <1>2, PTL DEF Spec

\* A claim never covers a decision about a later pass than the one it was made for.
THEOREM ClaimOfThisPassHolds == Spec => []ClaimOfThisPass
  <1>1. PassInv => ClaimOfThisPass
    BY DEF PassInv
  <1> QED BY <1>1, PassInvariant, PTL

\* An open adjustment belongs to the pass under review and keeps its evidence.
THEOREM AdjustmentOfThisPassHolds == Spec => []AdjustmentOfThisPass
  <1>1. PassInv => AdjustmentOfThisPass
    BY DEF PassInv
  <1> QED BY <1>1, PassInvariant, PTL

----------------------------------------------------------------------------
(* Nobody but the claim's moderator ends it or decides under it *)

ClaimHeld == claim.live => claim.moderator # NoOne

LEMMA ClaimHeldInvariant == Spec => []ClaimHeld
  <1>1. Init => ClaimHeld
    BY DEF Init, ClaimHeld, Unclaimed
  <1>2. ClaimHeld /\ [Next]_vars => ClaimHeld'
    <2> SUFFICES ASSUME ClaimHeld, [Next]_vars PROVE ClaimHeld'
      OBVIOUS
    <2>1. CASE UNCHANGED claim
      BY <2>1 DEF ClaimHeld
    <2>2. CASE claim' = Unclaimed
      BY <2>2 DEF ClaimHeld, Unclaimed
    <2>3. ASSUME NEW m \in Moderators, ClaimListing(m) PROVE ClaimHeld'
      BY <2>3, NoOneAssumption DEF ClaimListing, ClaimHeld
    <2>4. CASE ClaimExpires
      BY <2>4 DEF ClaimExpires, ClaimHeld
    <2> QED
      BY <2>1, <2>2, <2>3, <2>4
      DEF vars, Next, Seller, Moderator, LoadPage, OpenAdjustmentBy, SaveAdjustment,
          DiscardAdjustment, Decide, DecideEdit, ReleaseClaim, BeginPatch, WritePatch,
          DropPatch, ResubmitListing, OpenEdit, UpdateEdit, SubmitEdit, CancelEdit,
          DeactivateListing, ReactivateListing
  <1> QED BY <1>1, <1>2, PTL DEF Spec

\* What ClaimIsExclusive says of one step.
ExclusiveStep ==
    claim.live =>
        /\ reviews' # reviews => Latest(reviews').moderator = claim.moderator
        /\ IF claim' = Unclaimed THEN reviews' # reviews
                                ELSE claim'.moderator = claim.moderator

LEMMA ExclusiveSteps == ASSUME TypeOK, ClaimHeld, [Next]_vars PROVE ExclusiveStep
  <1> SUFFICES ASSUME claim.live PROVE ExclusiveStep
    BY DEF ExclusiveStep
  <1>0. claim.moderator # NoOne
    BY DEF ClaimHeld
  <1>1. CASE UNCHANGED <<claim, reviews>>
    BY <1>0, <1>1 DEF ExclusiveStep, Unclaimed
  <1>2. ASSUME NEW m \in Moderators, ClaimListing(m) PROVE ExclusiveStep
    BY <1>2, NoOneAssumption DEF ClaimListing, ExclusiveStep, Unclaimed
  <1>3. CASE ClaimExpires
    <2>1. claim'.moderator = claim.moderator
      BY <1>3 DEF ClaimExpires, TypeOK, Claim
    <2> QED BY <1>0, <1>3, <2>1 DEF ClaimExpires, ExclusiveStep, Unclaimed
  <1>4. ASSUME NEW m \in Moderators, NEW decision \in Decisions,
               Decide(m, decision) \/ DecideEdit(m, decision)
        PROVE  ExclusiveStep
    <2>1. Owns(m) /\ Record(m, decision) /\ claim' = Unclaimed
      BY <1>4 DEF Decide, DecideEdit, ReleaseClaim
    <2>2. /\ Len(reviews') = Len(reviews) + 1 /\ Len(reviews) \in Nat
          /\ reviews'[Len(reviews) + 1] = RecordOf(m, decision)
      BY <2>1, RecordAppends
    <2>3. reviews' # reviews /\ Latest(reviews') = RecordOf(m, decision)
      BY <2>2 DEF Latest
    <2>4. RecordOf(m, decision).moderator = m
      BY DEF RecordOf
    <2> QED BY <2>1, <2>3, <2>4 DEF Owns, ExclusiveStep
  <1> QED
    BY <1>1, <1>2, <1>3, <1>4
    DEF vars, Next, Seller, Moderator, LoadPage, OpenAdjustmentBy, SaveAdjustment,
        DiscardAdjustment, BeginPatch, WritePatch, DropPatch, ResubmitListing, OpenEdit,
        UpdateEdit, SubmitEdit, CancelEdit, DeactivateListing, ReactivateListing

\* A live claim ends by expiring or by its moderator's decision, and nobody else
\* claims the listing or decides about it meanwhile.
THEOREM ClaimIsExclusiveHolds == Spec => ClaimIsExclusive
  <1>1. TypeOK /\ ClaimHeld /\ [Next]_vars => [ExclusiveStep]_vars
    BY ExclusiveSteps
  <1>2. [ExclusiveStep]_vars => [claim.live =>
          /\ reviews' # reviews => Latest(reviews').moderator = claim.moderator
          /\ IF claim' = Unclaimed THEN reviews' # reviews
                                  ELSE claim'.moderator = claim.moderator]_vars
    BY DEF ExclusiveStep
  <1> QED BY <1>1, <1>2, TypeCorrect, ClaimHeldInvariant, PTL DEF Spec, ClaimIsExclusive

----------------------------------------------------------------------------
(* The history: outcomes, and what is public *)

ReviewsName ==
    \A i \in DOMAIN reviews : /\ reviews[i].edit \in 0..Len(edits)
                             /\ reviews[i].adjustment \in 0..Len(adjustments)

\* The rows a decision leaves behind hold what its review records.
LEMMA DecidedRows ==
    ASSUME Base, NEW m \in Moderators, NEW decision \in Decisions,
           Decide(m, decision) \/ DecideEdit(m, decision)
    PROVE  /\ PendingEdit # None =>
                /\ PendingEdit \in DOMAIN edits /\ PendingEdit \in DOMAIN edits'
                /\ edits[PendingEdit].status = "PENDING_MODERATION"
                /\ edits'[PendingEdit].status = Outcome(decision, "APPROVED")
                /\ edits'[PendingEdit].revision = PendingEditRevision
                /\ edits'[PendingEdit].data = SubmittedContent
           /\ OpenAdjustment # None =>
                /\ OpenAdjustment \in DOMAIN adjustments
                /\ OpenAdjustment \in DOMAIN adjustments'
                /\ adjustments[OpenAdjustment].status = "OPEN"
                /\ adjustments'[OpenAdjustment].status =
                      IF decision = "APPROVED" THEN "APPLIED" ELSE "DISCARDED"
                /\ adjustments'[OpenAdjustment].revision = AdjustmentRevision
                /\ adjustments'[OpenAdjustment].adjusted = ReviewedContent
           /\ decision = "APPROVED" => listing'.content = ReviewedContent
  <1>0. TypeOK
    BY DEF Base
  <1>1. ASSUME PendingEdit # None
        PROVE  /\ PendingEdit \in DOMAIN edits /\ PendingEdit \in DOMAIN edits'
               /\ edits[PendingEdit].status = "PENDING_MODERATION"
               /\ edits'[PendingEdit].status = Outcome(decision, "APPROVED")
               /\ edits'[PendingEdit].revision = PendingEditRevision
               /\ edits'[PendingEdit].data = SubmittedContent
    <2>1. EditPending /\ edits # <<>> /\ PendingEdit = Len(edits)
      BY <1>1 DEF PendingEdit, EditPending, EditIs
    <2>2. DecideEdit(m, decision)
      BY <2>1 DEF Decide, Base, EditsOfActive
    <2> DEFINE st == Outcome(decision, "APPROVED")
               row == [Latest(edits) EXCEPT !.status = st]
    <2>3. st \in {"PENDING_MODERATION", "APPROVED", "REJECTED", "CORRECTION_REQUIRED"}
      BY OutcomeType DEF Returned, Decisions
    <2>4. Latest(edits) \in Edit /\ SetEdit(row)
      BY <1>0, <2>1, <2>2, DerivedTypes DEF DecideEdit
    <2> HIDE DEF st
    <2>5. /\ row \in Edit /\ row.status = st /\ row.revision = Latest(edits).revision
          /\ row.data = Latest(edits).data
      BY <2>3, <2>4 DEF Edit, OpenEditStatuses
    <2> HIDE DEF row
    <2>6. /\ DOMAIN edits' = DOMAIN edits /\ Len(edits') = Len(edits)
          /\ Latest(edits') = row
      BY <1>0, <2>1, <2>4, <2>5, ReplacedEdit
    <2>7. Len(edits) \in DOMAIN edits
      BY <1>0, <2>1, LatestType DEF TypeOK
    <2> QED BY <2>1, <2>5, <2>6, <2>7
            DEF Latest, EditPending, EditIs, PendingEditRevision, SubmittedContent, st
  <1>2. ASSUME OpenAdjustment # None
        PROVE  /\ OpenAdjustment \in DOMAIN adjustments
               /\ OpenAdjustment \in DOMAIN adjustments'
               /\ adjustments[OpenAdjustment].status = "OPEN"
               /\ adjustments'[OpenAdjustment].status =
                     IF decision = "APPROVED" THEN "APPLIED" ELSE "DISCARDED"
               /\ adjustments'[OpenAdjustment].revision = AdjustmentRevision
               /\ adjustments'[OpenAdjustment].adjusted = ReviewedContent
    <2>1. AdjustmentOpen /\ adjustments # <<>> /\ OpenAdjustment = Len(adjustments)
      BY <1>2 DEF OpenAdjustment, AdjustmentOpen
    <2> DEFINE st == IF decision = "APPROVED" THEN "APPLIED" ELSE "DISCARDED"
    <2>2. st \in {"DISCARDED", "APPLIED"} /\ Close(st)
      BY <2>1 DEF Decide, DecideEdit, SettleAdjustment
    <2> HIDE DEF st
    <2>3. /\ DOMAIN adjustments' = DOMAIN adjustments
          /\ Len(adjustments') = Len(adjustments)
          /\ Latest(adjustments').status = st
          /\ Latest(adjustments').revision = Latest(adjustments).revision
          /\ Latest(adjustments').adjusted = Latest(adjustments).adjusted
      BY <1>0, <2>1, <2>2, ClosedAdjustment
    <2>4. Len(adjustments) \in DOMAIN adjustments
      BY <1>0, <2>1, LatestType DEF TypeOK
    <2> QED BY <2>1, <2>3, <2>4
            DEF Latest, AdjustmentOpen, AdjustmentRevision, ReviewedContent, st
  <1>3. ASSUME decision = "APPROVED" PROVE listing'.content = ReviewedContent
    <2>0. listing \in Listing /\ ReviewedContent \in Nat
      BY <1>0, DerivedTypes DEF TypeOK
    <2>1. CASE Decide(m, decision)
      <3> DEFINE decided == [listing EXCEPT !.status = "ACTIVE"]
      <3>1. decided \in Listing /\ decided.content = listing.content
        BY <2>0 DEF Listing
      <3>2. listing' = IF AdjustmentOpen THEN Applied(decided) ELSE decided
        BY <1>3, <2>1 DEF Decide, Outcome
      <3>3. ~EditPending
        BY <2>1 DEF Decide, Base, EditsOfActive, EditPending, EditIs
      <3> HIDE DEF decided
      <3>4. Applied(decided).content = ReviewedContent
        BY <2>0, <3>1, AppliedListing
      <3>5. ~AdjustmentOpen => ReviewedContent = listing.content
        BY <3>3 DEF ReviewedContent, SubmittedContent
      <3> QED BY <3>1, <3>2, <3>4, <3>5
    <2>2. CASE DecideEdit(m, decision)
      <3>1. Applied(listing) \in Listing /\ Applied(listing).content = ReviewedContent
        BY <2>0, AppliedListing
      <3>2. Finalized(Applied(listing)).content = ReviewedContent
        BY <3>1, FinalizedListing
      <3> QED BY <1>3, <2>2, <3>2 DEF DecideEdit
    <2> QED BY <2>1, <2>2
  <1> QED BY <1>1, <1>2, <1>3

\* Rows are never removed.
LEMMA TablesGrow ==
    ASSUME Base, Next
    PROVE  /\ Len(edits') \in Nat /\ Len(edits) \in Nat /\ Len(edits') >= Len(edits)
           /\ Len(adjustments') \in Nat /\ Len(adjustments) \in Nat
           /\ Len(adjustments') >= Len(adjustments)
           /\ DOMAIN edits = 1..Len(edits) /\ DOMAIN edits' = 1..Len(edits')
           /\ DOMAIN adjustments = 1..Len(adjustments)
           /\ DOMAIN adjustments' = 1..Len(adjustments')
  <1>1. /\ edits \in Seq(Edit) /\ edits' \in Seq(Edit)
        /\ adjustments \in Seq(Adjustment) /\ adjustments' \in Seq(Adjustment)
    BY TypeInduction DEF Base, TypeOK
  <1>2. \A i \in DOMAIN edits : i \in DOMAIN edits'
    BY EditMoves DEF Base, EditsKept
  <1>3. \A i \in DOMAIN adjustments : i \in DOMAIN adjustments'
    BY AdjustmentMoves DEF Base, AdjustmentsKept
  <1> QED BY <1>1, <1>2, <1>3

LEMMA RecordColumns ==
    ASSUME NEW m, NEW decision
    PROVE  /\ RecordOf(m, decision).edit = PendingEdit
           /\ RecordOf(m, decision).editRevision = PendingEditRevision
           /\ RecordOf(m, decision).adjustment = OpenAdjustment
           /\ RecordOf(m, decision).adjustmentRevision = AdjustmentRevision
           /\ RecordOf(m, decision).decision = decision
           /\ RecordOf(m, decision).decided = ReviewedContent
BY DEF RecordOf

LEMMA ReviewsNameInduction == ASSUME Base, ReviewsName, Next PROVE ReviewsName'
  <1>1. CASE UNCHANGED reviews
    BY <1>1, TablesGrow DEF ReviewsName
  <1>2. ASSUME NEW m \in Moderators, NEW decision \in Decisions,
               Decide(m, decision) \/ DecideEdit(m, decision), Record(m, decision)
        PROVE  ReviewsName'
    <2>1. /\ DOMAIN reviews' = 1..(Len(reviews) + 1) /\ DOMAIN reviews = 1..Len(reviews)
          /\ Len(reviews) \in Nat
          /\ \A i \in DOMAIN reviews : reviews'[i] = reviews[i]
          /\ reviews'[Len(reviews) + 1] = RecordOf(m, decision)
      BY <1>2, RecordAppends DEF Base
    <2>2. PendingEdit \in 0..Len(edits) /\ OpenAdjustment \in 0..Len(adjustments)
      BY TablesGrow DEF PendingEdit, OpenAdjustment
    <2>3. ASSUME NEW i \in DOMAIN reviews'
          PROVE  /\ reviews'[i].edit \in 0..Len(edits')
                 /\ reviews'[i].adjustment \in 0..Len(adjustments')
      <3>1. CASE i \in DOMAIN reviews
        BY <2>1, <3>1, TablesGrow DEF ReviewsName
      <3>2. CASE i = Len(reviews) + 1
        BY <2>1, <2>2, <3>2, RecordColumns, TablesGrow
      <3> QED BY <2>1, <3>1, <3>2
    <2> QED BY <2>3 DEF ReviewsName
  <1> QED BY <1>1, <1>2, ReviewMoves DEF Base

\* An edit revision gets a moderator's final status from that decision only.
LEMMA NewOutcomes ==
    ASSUME Base, Next, NEW e \in DOMAIN edits', edits'[e].status \in {"APPROVED", "REJECTED"}
    PROVE  \/ e \in DOMAIN edits /\ edits[e].status = edits'[e].status
           \/ \E m \in Moderators, decision \in Decisions :
                 DecideEdit(m, decision) /\ e = PendingEdit
  <1>0. TypeOK /\ edits \in Seq(Edit)
    BY DEF Base, TypeOK
  <1>1. CASE UNCHANGED edits
    BY <1>1
  <1>2. ASSUME NEW row, edits # <<>>, SetEdit(row), row.status \notin {"APPROVED", "REJECTED"}
        PROVE  e \in DOMAIN edits /\ edits[e].status = edits'[e].status
    <2>1. e # Len(edits)
      BY <1>0, <1>2 DEF SetEdit
    <2> QED BY <1>0, <1>2, <2>1 DEF SetEdit
  <1>3. CASE OpenEdit
    <2> DEFINE row == [status |-> "EDIT_DRAFT", revision |-> 1, data |-> listing.content]
    <2>1. edits' = Append(edits, row) /\ row.status = "EDIT_DRAFT"
      BY <1>3 DEF OpenEdit
    <2> HIDE DEF row
    <2> QED BY <1>0, <2>1
  <1>4. CASE UpdateEdit
    <2> DEFINE row == Bumped([Latest(edits) EXCEPT !.data = written'])
    <2>1. edits # <<>> /\ written' \in Nat /\ SetEdit(row)
          /\ Latest(edits).status \in EditableStatuses
      BY <1>0, <1>4 DEF UpdateEdit, NewContent, EditIs, TypeOK
    <2>2. row.status = Latest(edits).status
      BY <1>0, <2>1, EditRows
    <2> HIDE DEF row
    <2> QED BY <1>2, <2>1, <2>2 DEF EditableStatuses
  <1>5. ASSUME NEW activate \in BOOLEAN, SubmitEdit(activate)
        PROVE  e \in DOMAIN edits /\ edits[e].status = edits'[e].status
    <2> DEFINE row == [Latest(edits) EXCEPT !.status = "PENDING_MODERATION"]
    <2>1. edits # <<>> /\ SetEdit(row) /\ written' \in Nat
      BY <1>0, <1>5 DEF SubmitEdit, EditIs, TypeOK
    <2>2. row.status = "PENDING_MODERATION"
      BY <1>0, <2>1, EditRows
    <2> HIDE DEF row
    <2> QED BY <1>2, <2>1, <2>2
  <1>6. CASE CancelEdit
    <2> DEFINE row == Bumped([Latest(edits) EXCEPT !.status = "CANCELLED"])
    <2>1. edits # <<>> /\ SetEdit(row) /\ written' \in Nat
      BY <1>0, <1>6 DEF CancelEdit, EditIs, TypeOK
    <2>2. row.status = "CANCELLED"
      BY <1>0, <2>1, EditRows
    <2> HIDE DEF row
    <2> QED BY <1>2, <2>1, <2>2
  <1>7. ASSUME NEW m \in Moderators, NEW decision \in Decisions, DecideEdit(m, decision)
        PROVE  \/ e \in DOMAIN edits /\ edits[e].status = edits'[e].status
               \/ e = PendingEdit
    BY <1>0, <1>7 DEF DecideEdit, SetEdit, PendingEdit, EditPending, EditIs
  <1> QED
    BY <1>1, <1>3, <1>4, <1>5, <1>6, <1>7
    DEF Next, Seller, Moderator, ClaimExpires, LoadPage, ClaimListing, OpenAdjustmentBy,
        SaveAdjustment, DiscardAdjustment, Decide, BeginPatch, WritePatch, DropPatch,
        ResubmitListing, DeactivateListing, ReactivateListing

\* The rows an earlier review names are terminal, hence as they were.
LEMMA NamedRowsKept ==
    ASSUME Base, ReviewsName, OutcomesAreReviewed, Next, NEW i \in DOMAIN reviews
    PROVE  /\ reviews[i].adjustment # None =>
                /\ reviews[i].adjustment \in DOMAIN adjustments
                /\ adjustments[reviews[i].adjustment].status # "OPEN"
                /\ adjustments'[reviews[i].adjustment] = adjustments[reviews[i].adjustment]
           /\ reviews[i].edit # None /\ Final(reviews[i]) =>
                /\ reviews[i].edit \in DOMAIN edits
                /\ edits[reviews[i].edit].status \in {"APPROVED", "REJECTED"}
                /\ edits'[reviews[i].edit] = edits[reviews[i].edit]
  <1>1. ASSUME reviews[i].adjustment # None
        PROVE  /\ reviews[i].adjustment \in DOMAIN adjustments
               /\ adjustments[reviews[i].adjustment].status # "OPEN"
               /\ adjustments'[reviews[i].adjustment] = adjustments[reviews[i].adjustment]
    <2>1. reviews[i].adjustment \in DOMAIN adjustments
      BY <1>1, TablesGrow DEF ReviewsName
    <2>2. adjustments[reviews[i].adjustment].status # "OPEN"
      BY <1>1 DEF OutcomesAreReviewed
    <2> QED BY <2>1, <2>2, AdjustmentMoves DEF Base, AdjustmentsKept
  <1>2. ASSUME reviews[i].edit # None, Final(reviews[i])
        PROVE  /\ reviews[i].edit \in DOMAIN edits
               /\ edits[reviews[i].edit].status \in {"APPROVED", "REJECTED"}
               /\ edits'[reviews[i].edit] = edits[reviews[i].edit]
    <2>1. reviews[i].edit \in DOMAIN edits
      BY <1>2, TablesGrow DEF ReviewsName
    <2>2. edits[reviews[i].edit].status \in {"APPROVED", "REJECTED"}
      BY <1>2 DEF OutcomesAreReviewed, Final
    <2> QED BY <2>1, <2>2, EditMoves DEF Base, EditsKept, ClosedEditStatuses
  <1> QED BY <1>1, <1>2

\* What OutcomesAreReviewed says of one review, and of one edit revision.
ReviewOutcome(i) ==
    LET review == reviews[i] IN
       /\ review.adjustment # None =>
            /\ adjustments[review.adjustment].revision = review.adjustmentRevision
            /\ adjustments[review.adjustment].status =
                 IF review.decision = "APPROVED" THEN "APPLIED" ELSE "DISCARDED"
       /\ review.edit # None /\ Final(review) =>
            /\ edits[review.edit].status = review.decision
            /\ edits[review.edit].revision = review.editRevision
            /\ \A j \in DOMAIN reviews : j > i => reviews[j].edit # review.edit

EditOutcome(e) ==
    edits[e].status \in {"APPROVED", "REJECTED"} =>
       \E i \in DOMAIN reviews : reviews[i].edit = e /\ Final(reviews[i])

LEMMA OutcomesByRow ==
    OutcomesAreReviewed <=> /\ \A i \in DOMAIN reviews : ReviewOutcome(i)
                            /\ \A e \in DOMAIN edits : EditOutcome(e)
BY DEF OutcomesAreReviewed, ReviewOutcome, EditOutcome

LEMMA OutcomesInduction ==
    ASSUME Base, ReviewsName, OutcomesAreReviewed, Next
    PROVE  OutcomesAreReviewed'
  <1>0. /\ \A i \in DOMAIN reviews : ReviewOutcome(i)
        /\ \A e \in DOMAIN edits : EditOutcome(e)
    BY OutcomesByRow
  <1>1. CASE ~\E m \in Moderators, decision \in Decisions :
                 Decide(m, decision) \/ DecideEdit(m, decision)
    <2>1. UNCHANGED reviews
      BY <1>1, ReviewMoves DEF Base
    <2>2. ASSUME NEW i \in DOMAIN reviews PROVE ReviewOutcome(i)'
      BY <1>0, <2>1, <2>2, NamedRowsKept DEF ReviewOutcome, Final
    <2>3. ASSUME NEW e \in DOMAIN edits' PROVE EditOutcome(e)'
      BY <1>0, <1>1, <2>1, <2>3, NewOutcomes DEF EditOutcome, Final
    <2> QED BY <2>1, <2>2, <2>3 DEF OutcomesAreReviewed, ReviewOutcome, EditOutcome
  <1>2. ASSUME NEW m \in Moderators, NEW decision \in Decisions,
               Decide(m, decision) \/ DecideEdit(m, decision)
        PROVE  OutcomesAreReviewed'
    <2>1. Record(m, decision)
      BY <1>2 DEF Decide, DecideEdit
    <2>0. PICK n : n = Len(reviews) + 1
      OBVIOUS
    <2>2. /\ DOMAIN reviews' = 1..n /\ DOMAIN reviews = 1..Len(reviews)
          /\ Len(reviews) \in Nat
          /\ \A i \in DOMAIN reviews : reviews'[i] = reviews[i]
          /\ reviews'[n] = RecordOf(m, decision)
      BY <2>0, <2>1, RecordAppends DEF Base
    <2>3. /\ reviews'[n].edit = PendingEdit /\ reviews'[n].editRevision = PendingEditRevision
          /\ reviews'[n].adjustment = OpenAdjustment
          /\ reviews'[n].adjustmentRevision = AdjustmentRevision
          /\ reviews'[n].decision = decision
      BY <2>2, RecordColumns
    <2>4. /\ n \in DOMAIN reviews' /\ n \notin DOMAIN reviews
          /\ \A i \in DOMAIN reviews' : i = n \/ i \in DOMAIN reviews
          /\ \A i \in DOMAIN reviews' : ~(i > n)
      BY <2>0, <2>2
    <2>5. ReviewOutcome(n)'
      <3>1. reviews'[n].adjustment # None =>
              /\ adjustments'[reviews'[n].adjustment].revision = reviews'[n].adjustmentRevision
              /\ adjustments'[reviews'[n].adjustment].status =
                   IF reviews'[n].decision = "APPROVED" THEN "APPLIED" ELSE "DISCARDED"
        BY <1>2, <2>3, DecidedRows
      <3>2. reviews'[n].edit # None /\ decision \in {"APPROVED", "REJECTED"} =>
              /\ edits'[reviews'[n].edit].status = decision
              /\ edits'[reviews'[n].edit].revision = reviews'[n].editRevision
        BY <1>2, <2>3, DecidedRows, OutcomeType
      <3>3. Final(reviews'[n]) => decision \in {"APPROVED", "REJECTED"}
        BY <2>3 DEF Final
      <3>4. \A j \in DOMAIN reviews' : j > n => reviews'[j].edit # reviews'[n].edit
        BY <2>4
      <3> QED BY <2>3, <3>1, <3>2, <3>3, <3>4 DEF ReviewOutcome, Final
    <2>6. ASSUME NEW i \in DOMAIN reviews PROVE ReviewOutcome(i)'
      <3>1. reviews'[i] = reviews[i] /\ ReviewOutcome(i)
        BY <1>0, <2>2
      <3>2. reviews[i].adjustment # None =>
              /\ adjustments'[reviews[i].adjustment].revision = reviews[i].adjustmentRevision
              /\ adjustments'[reviews[i].adjustment].status =
                   IF reviews[i].decision = "APPROVED" THEN "APPLIED" ELSE "DISCARDED"
        BY <3>1, NamedRowsKept DEF ReviewOutcome
      <3>3. ASSUME reviews[i].edit # None, Final(reviews[i])
            PROVE  /\ edits'[reviews[i].edit].status = reviews[i].decision
                   /\ edits'[reviews[i].edit].revision = reviews[i].editRevision
                   /\ \A j \in DOMAIN reviews' : j > i => reviews'[j].edit # reviews[i].edit
        <4>1. /\ edits[reviews[i].edit].status \in {"APPROVED", "REJECTED"}
              /\ edits'[reviews[i].edit] = edits[reviews[i].edit]
          BY <3>3, NamedRowsKept
        <4>2. PendingEdit # reviews[i].edit
          BY <1>2, <3>3, <4>1, DecidedRows
        <4>3. ASSUME NEW j \in DOMAIN reviews', j > i
              PROVE  reviews'[j].edit # reviews[i].edit
          BY <2>2, <2>3, <2>4, <3>1, <3>3, <4>2, <4>3 DEF ReviewOutcome
        <4> QED BY <3>1, <3>3, <4>1, <4>3 DEF ReviewOutcome
      <3> QED BY <3>1, <3>2, <3>3 DEF ReviewOutcome, Final
    <2>7. ASSUME NEW e \in DOMAIN edits' PROVE EditOutcome(e)'
      <3>1. SUFFICES ASSUME edits'[e].status \in {"APPROVED", "REJECTED"}
                     PROVE  \E i \in DOMAIN reviews' : reviews'[i].edit = e /\ Final(reviews'[i])
        BY DEF EditOutcome, Final
      <3>2. CASE e = PendingEdit
        <4>1. e # None
          BY TablesGrow
        <4>2. edits'[e].status = Outcome(decision, "APPROVED")
          BY <1>2, <3>2, <4>1, DecidedRows
        <4>3. decision \in {"APPROVED", "REJECTED"}
          BY <3>1, <4>2, OutcomeType DEF Decisions
        <4> QED BY <2>3, <2>4, <3>2, <4>3 DEF Final
      <3>3. CASE e # PendingEdit
        <4>1. e \in DOMAIN edits /\ edits[e].status = edits'[e].status
          BY <3>1, <3>3, NewOutcomes
        <4>2. PICK i \in DOMAIN reviews : reviews[i].edit = e /\ Final(reviews[i])
          BY <1>0, <3>1, <4>1 DEF EditOutcome
        <4> QED BY <2>2, <2>4, <4>2
      <3> QED BY <3>2, <3>3
    <2>8. \A i \in DOMAIN reviews' : ReviewOutcome(i)'
      BY <2>4, <2>5, <2>6
    <2> QED BY <2>7, <2>8 DEF OutcomesAreReviewed, ReviewOutcome, EditOutcome
  <1> QED BY <1>1, <1>2

\* Public content changes by an approval only.
LEMMA PublicMoves ==
    ASSUME Base, Next, listing'.status = "ACTIVE",
           \A m \in Moderators : ~Decide(m, "APPROVED") /\ ~DecideEdit(m, "APPROVED")
    PROVE  listing.status = "ACTIVE" /\ listing'.content = listing.content
  <1>0. TypeOK /\ listing \in Listing
    BY DEF Base, TypeOK
  <1>1. CASE UNCHANGED listing
    BY <1>1
  <1>2. ASSUME NEW m \in Moderators, NEW decision \in Decisions, Decide(m, decision)
        PROVE  FALSE
    <2> DEFINE st == Outcome(decision, "ACTIVE")
    <2>1. decision # "APPROVED"
      BY <1>2
    <2>2. st \in Returned
      BY <2>1, OutcomeType
    <2> HIDE DEF st
    <2>3. listing' = [listing EXCEPT !.status = st]
      BY <1>2, <2>1 DEF Decide, st
    <2>4. listing'.status = st
      BY <1>0, <2>3 DEF Listing
    <2> QED BY <2>2, <2>4 DEF Returned
  <1>3. ASSUME NEW m \in Moderators, NEW decision \in Decisions, DecideEdit(m, decision)
        PROVE  listing.status = "ACTIVE" /\ listing'.content = listing.content
    <2>1. listing' = WithoutRequest(listing) \/ listing' = listing
      BY <1>3 DEF DecideEdit
    <2> QED BY <1>0, <2>1, WithoutRequestListing
  <1>4. ASSUME NEW columns \in BOOLEAN, WritePatch(columns) PROVE FALSE
    <2>1. written' \in Nat /\ patch.status \in Returned /\ listing.status \in Returned
      BY <1>0, <1>4 DEF WritePatch, NewContent, TypeOK, Patch
    <2>2. PICK st \in Returned :
            listing' = Bumped([listing EXCEPT !.content = written', !.status = st])
      BY <1>4, <2>1 DEF WritePatch
    <2>3. listing'.status = st
      BY <1>0, <2>1, <2>2, ListingRows
    <2> QED BY <2>2, <2>3 DEF Returned
  <1>5. CASE ResubmitListing
    BY <1>0, <1>5 DEF ResubmitListing, Listing
  <1>6. ASSUME NEW activate \in BOOLEAN, SubmitEdit(activate)
        PROVE  listing.status = "ACTIVE" /\ listing'.content = listing.content
    <2> DEFINE asked == Bumped([listing EXCEPT !.requested = TRUE])
    <2>1. written' \in Nat
      BY <1>0, <1>6 DEF SubmitEdit, TypeOK
    <2>2. asked.content = listing.content /\ asked.status = listing.status
      BY <1>0, <2>1, ListingRows
    <2>3. listing' = asked \/ listing' = listing
      BY <1>6 DEF SubmitEdit
    <2> HIDE DEF asked
    <2> QED BY <2>2, <2>3
  <1>7. CASE CancelEdit
    BY <1>0, <1>7, WithoutRequestListing DEF CancelEdit
  <1>8. CASE DeactivateListing
    <2> DEFINE hidden == Bumped([listing EXCEPT !.deactivated = TRUE, !.requested = FALSE])
    <2>1. written' \in Nat
      BY <1>0, <1>8 DEF DeactivateListing, TypeOK
    <2>2. hidden.content = listing.content /\ hidden.status = listing.status
      BY <1>0, <2>1, ListingRows
    <2>3. listing' = hidden
      BY <1>8 DEF DeactivateListing
    <2> HIDE DEF hidden
    <2> QED BY <2>2, <2>3
  <1>9. CASE ReactivateListing
    <2> DEFINE asked == Bumped([listing EXCEPT !.requested = TRUE])
    <2>1. written' \in Nat
      BY <1>0, <1>9 DEF ReactivateListing, TypeOK
    <2>2. /\ asked \in Listing /\ asked.content = listing.content
          /\ asked.status = listing.status
      BY <1>0, <2>1, ListingRows
    <2>3. listing' = asked \/ listing' = Finalized(asked)
      BY <1>9 DEF ReactivateListing
    <2> HIDE DEF asked
    <2> QED BY <2>2, <2>3, FinalizedListing
  <1> QED
    BY <1>1, <1>2, <1>3, <1>4, <1>5, <1>6, <1>7, <1>8, <1>9
    DEF Next, Seller, Moderator, ClaimExpires, LoadPage, ClaimListing, OpenAdjustmentBy,
        SaveAdjustment, DiscardAdjustment, BeginPatch, DropPatch, OpenEdit, UpdateEdit

LEMMA PublicInduction ==
    ASSUME Base, ReviewsName, OutcomesAreReviewed, PublicIsApproved, Next
    PROVE  PublicIsApproved'
  <1> SUFFICES ASSUME listing'.status = "ACTIVE"
               PROVE  \E i \in DOMAIN reviews' :
                         /\ reviews'[i].decision = "APPROVED"
                         /\ \A j \in DOMAIN reviews' :
                               j > i => reviews'[j].decision # "APPROVED"
                         /\ Named(reviews[i])' = listing'.content
    BY DEF PublicIsApproved, Named
  <1>1. ASSUME NEW m \in Moderators, Decide(m, "APPROVED") \/ DecideEdit(m, "APPROVED")
        PROVE  \E i \in DOMAIN reviews' :
                  /\ reviews'[i].decision = "APPROVED"
                  /\ \A j \in DOMAIN reviews' : j > i => reviews'[j].decision # "APPROVED"
                  /\ Named(reviews[i])' = listing'.content
    <2>1. Record(m, "APPROVED") /\ "APPROVED" \in Decisions
      BY <1>1 DEF Decide, DecideEdit, Decisions
    <2>2. PICK n : n = Len(reviews) + 1
      OBVIOUS
    <2>3. /\ DOMAIN reviews' = 1..n /\ n \in Nat \ {0}
          /\ reviews'[n] = RecordOf(m, "APPROVED")
      BY <2>1, <2>2, RecordAppends DEF Base
    <2>4. /\ reviews'[n].edit = PendingEdit /\ reviews'[n].adjustment = OpenAdjustment
          /\ reviews'[n].decision = "APPROVED" /\ reviews'[n].decided = ReviewedContent
      BY <2>3, RecordColumns
    <2>5. ReviewedContent = IF AdjustmentOpen THEN Latest(adjustments).adjusted
                                              ELSE SubmittedContent
      BY DEF ReviewedContent
    <2>6. AdjustmentOpen => OpenAdjustment # None
      BY TablesGrow, LatestType DEF OpenAdjustment, AdjustmentOpen, Base, TypeOK
    <2>7. Named(reviews[n])' = ReviewedContent
      <3>1. CASE OpenAdjustment # None
        BY <1>1, <2>1, <2>4, <3>1, DecidedRows DEF Named
      <3>2. CASE OpenAdjustment = None /\ PendingEdit # None
        BY <1>1, <2>1, <2>4, <2>5, <2>6, <3>2, DecidedRows DEF Named
      <3>3. CASE OpenAdjustment = None /\ PendingEdit = None
        BY <2>4, <3>3 DEF Named
      <3> QED BY <3>1, <3>2, <3>3
    <2>8. listing'.content = ReviewedContent
      BY <1>1, <2>1, DecidedRows
    <2>9. n \in DOMAIN reviews' /\ \A j \in DOMAIN reviews' : ~(j > n)
      BY <2>3
    <2> QED BY <2>4, <2>7, <2>8, <2>9
  <1>2. ASSUME \A m \in Moderators : ~Decide(m, "APPROVED") /\ ~DecideEdit(m, "APPROVED")
        PROVE  \E i \in DOMAIN reviews' :
                  /\ reviews'[i].decision = "APPROVED"
                  /\ \A j \in DOMAIN reviews' : j > i => reviews'[j].decision # "APPROVED"
                  /\ Named(reviews[i])' = listing'.content
    <2>1. listing.status = "ACTIVE" /\ listing'.content = listing.content
      BY <1>2, PublicMoves
    <2>2. PICK i \in DOMAIN reviews :
             /\ reviews[i].decision = "APPROVED"
             /\ \A j \in DOMAIN reviews : j > i => reviews[j].decision # "APPROVED"
             /\ Named(reviews[i]) = listing.content
      BY <2>1 DEF PublicIsApproved
    <2>3. /\ \A j \in DOMAIN reviews : j \in DOMAIN reviews' /\ reviews'[j] = reviews[j]
          /\ \A j \in DOMAIN reviews' :
                j \notin DOMAIN reviews => reviews'[j].decision # "APPROVED"
      <3>1. CASE UNCHANGED reviews
        BY <3>1
      <3>2. ASSUME NEW m \in Moderators, NEW decision \in Decisions, decision # "APPROVED",
                   Record(m, decision)
            PROVE  /\ \A j \in DOMAIN reviews :
                         j \in DOMAIN reviews' /\ reviews'[j] = reviews[j]
                   /\ \A j \in DOMAIN reviews' :
                         j \notin DOMAIN reviews => reviews'[j].decision # "APPROVED"
        <4>1. /\ DOMAIN reviews' = 1..(Len(reviews) + 1) /\ DOMAIN reviews = 1..Len(reviews)
              /\ Len(reviews) \in Nat
              /\ \A j \in DOMAIN reviews : reviews'[j] = reviews[j]
              /\ reviews'[Len(reviews) + 1] = RecordOf(m, decision)
          BY <3>2, RecordAppends DEF Base
        <4>2. RecordOf(m, decision).decision = decision
          BY RecordColumns
        <4> QED BY <3>2, <4>1, <4>2
      <3> QED BY <1>2, <3>1, <3>2, ReviewMoves DEF Base
    <2>4. Named(reviews[i])' = Named(reviews[i])
      BY <2>2, <2>3, NamedRowsKept DEF Named, Final
    <2>5. reviews'[i].decision = "APPROVED" /\ i \in DOMAIN reviews'
      BY <2>2, <2>3
    <2>6. \A j \in DOMAIN reviews' : j > i => reviews'[j].decision # "APPROVED"
      BY <2>2, <2>3
    <2> QED BY <2>1, <2>2, <2>4, <2>5, <2>6
  <1> QED BY <1>1, <1>2

HistoryInv == Base /\ ReviewsName /\ OutcomesAreReviewed /\ PublicIsApproved

LEMMA HistoryInvariant == Spec => []HistoryInv
  <1>1. Init => HistoryInv
    <2>1. Init => ReviewsName /\ OutcomesAreReviewed /\ PublicIsApproved
      BY DEF Init, ReviewsName, OutcomesAreReviewed, PublicIsApproved
    <2> QED BY <2>1, BaseInit DEF HistoryInv
  <1>2. HistoryInv /\ [Next]_vars => HistoryInv'
    <2>1. ASSUME HistoryInv, Next PROVE HistoryInv'
      BY <2>1, BaseInduction, ReviewsNameInduction, OutcomesInduction, PublicInduction
         DEF HistoryInv
    <2>2. ASSUME HistoryInv, UNCHANGED vars PROVE HistoryInv'
      <3>1. Base'
        BY <2>2, BaseInduction DEF HistoryInv
      <3> QED BY <2>2, <3>1
              DEF HistoryInv, vars, ReviewsName, OutcomesAreReviewed, PublicIsApproved, Named,
                  Final
    <2> QED BY <2>1, <2>2
  <1> QED BY <1>1, <1>2, PTL DEF Spec

\* Reviews, edit revisions and adjustments agree about every outcome.
THEOREM OutcomesAreReviewedHolds == Spec => []OutcomesAreReviewed
  <1>1. HistoryInv => OutcomesAreReviewed
    BY DEF HistoryInv
  <1> QED BY <1>1, HistoryInvariant, PTL

\* The public content is what the last approval names, still stored unchanged.
THEOREM PublicIsApprovedHolds == Spec => []PublicIsApproved
  <1>1. HistoryInv => PublicIsApproved
    BY DEF HistoryInv
  <1> QED BY <1>1, HistoryInvariant, PTL

=============================================================================
