------------------------- MODULE DraftImages_proofs -------------------------
(***************************************************************************)
(* Proofs about DraftImages, for any uploads, confirmations, cleanup runs  *)
(* and bounds, and that it implements ImageLife.                           *)
(***************************************************************************)
EXTENDS DraftImages, FiniteSetTheorems, TLAPS

USE DEF draftVars, rowVars, cleanupVars

----------------------------------------------------------------------------
(* The inductive invariant *)

\* Whoever left the start has an upload.
RequestInv == \A r \in Requests : request[r].at # "unused" => request[r].upload \in Uploads

\* No confirmation that may still insert or discard its object is named by a
\* row, an event or a run, or dropped.
SpentInv ==
    /\ \A u \in DOMAIN image : Ended(image[u].path)
    /\ \A p \in dropping \cup event.images : Ended(p)
    /\ \A w \in Workers : \A p \in work[w].images : Ended(p)

\* Two images never share an object, for each is its upload's.
PathInv == \A u \in DOMAIN image : request[image[u].path].upload = u

\* A confirmation about to insert has its object, and nothing drops one named.
StoreInv ==
    /\ \A r \in Requests : At(r, "stored") => r \in objects
    /\ \A u \in DOMAIN image : image[u].path \notin dropping

\* The event is that of a draft that is gone, with its images.
GoneInv ==
    /\ listing # "GONE" => /\ event.status = "none" /\ event.images = {}
                           /\ event.claims = 0
    /\ listing = "GONE" => DOMAIN image = {}

\* The claims of the runs are different generations of the event's.
ClaimInv ==
    /\ \A w \in Workers : /\ work[w].claim <= event.claims
                          /\ work[w].claim = 0 => work[w] = NoWork
    /\ \A w, v \in Workers : work[w].claim = work[v].claim /\ work[w].claim # 0 => w = v

\* A run still has before it every recorded object that exists.
SweptInv == \A w \in Workers :
    work[w].claim # 0 => objects \cap event.images \subseteq work[w].images

\* Of the images, if any, exactly one is the primary one.
OnePrimary ==
    DOMAIN image # {} =>
        \E u \in DOMAIN image :
            /\ image[u].primary
            /\ \A v \in DOMAIN image : image[v].primary => v = u

\* The gallery never exceeds its limit.
GalleryFits == IsFiniteSet(DOMAIN image) /\ Cardinality(DOMAIN image) <= ImageMax

IInv ==
    /\ TypeOK /\ RequestInv
    /\ SpentInv /\ PathInv /\ StoreInv /\ GoneInv /\ ClaimInv /\ SweptInv
    /\ ImageHasItsObject /\ ImageIsOfItsUpload /\ OrphansAreExplained
    /\ HolderIsUndisturbed /\ OnePrimary /\ GalleryFits

----------------------------------------------------------------------------
(* Types *)

Steps == {"unused", "expiring", "failing", "read", "fetched", "stored",
          "inserted", "superseded", "refused", "done"}
Confirmation == [at : Steps, upload : Uploads \cup {Nothing}]
Run == [claim : 0..MaxClaims, images : SUBSET Requests, temps : SUBSET Uploads]
Condemnation == [status : {"none", "PENDING", "PROCESSING", "PROCESSED", "FAILED"},
                 images : SUBSET Requests, temps : SUBSET Uploads,
                 claims : 0..MaxClaims, held : BOOLEAN]

LEMMA Bounds == MaxClaims \in Nat \ {0} /\ MaxFaults \in Nat /\ ImageMax \in Nat \ {0}
BY DraftAssumption DEF DraftAssumption

\* A move changes where one request is and nothing else of it.
LEMMA Moved ==
    ASSUME TypeOK, NEW r \in Requests, NEW step \in Steps, Moves(r, step)
    PROVE  /\ request' \in [Requests -> Confirmation]
           /\ request'[r].at = step /\ request'[r].upload = request[r].upload
           /\ \A q \in Requests \ {r} : request'[q] = request[q]
  <1> DEFINE entry == [request[r] EXCEPT !.at = step]
  <1>1. request \in [Requests -> Confirmation]
    BY DEF TypeOK, Confirmation, Steps
  <1>2. entry \in Confirmation /\ entry.at = step /\ entry.upload = request[r].upload
    BY <1>1 DEF Confirmation
  <1>3. request' = [request EXCEPT ![r] = entry]
    BY DEF Moves
  <1> HIDE DEF entry
  <1> QED
    BY <1>1, <1>2, <1>3

\* A confirmation under way moves, or reads its upload.
MovesOn(r) ==
    \E step \in Steps : /\ Moves(r, step)
                        /\ request[r].at # "unused"
                        /\ Ended(r) => step = "done"

LEMMA ConfirmMoves ==
    ASSUME TypeOK, NEW r \in Requests, Confirm(r)
    PROVE  \/ \E u \in Uploads : ReadUpload(r, u)
           \/ MovesOn(r)
  <1>1. CASE FetchBytes(r)
    BY <1>1, Zenon DEF FetchBytes, MovesOn, Steps, Ended, At
  <1>2. CASE FailUpload(r)
    BY <1>2, Zenon DEF FailUpload, MovesOn, Steps, Ended, At
  <1>3. CASE StoreObject(r)
    BY <1>3 DEF StoreObject, MovesOn, Steps, Ended, At
  <1>4. CASE InsertImage(r)
    BY <1>4 DEF InsertImage, MovesOn, Steps, Ended, At
  <1>5. CASE FindImage(r)
    BY <1>5 DEF FindImage, MovesOn, Steps, Ended, At
  <1>6. CASE RefuseImage(r)
    BY <1>6 DEF RefuseImage, MovesOn, Steps, Ended, At
  <1>7. CASE EndConfirmation(r)
    BY <1>7 DEF EndConfirmation, MovesOn, Steps, Ended, At
  <1>8. CASE CrashConfirmation(r)
    BY <1>8 DEF CrashConfirmation, MovesOn, Steps, Ended, At
  <1> QED
    BY <1>1, <1>2, <1>3, <1>4, <1>5, <1>6, <1>7, <1>8, Zenon DEF Confirm

\* Only a confirmation moves, its own request.
LEMMA RequestSteps ==
    ASSUME [Next]_vars
    PROVE  request' = request \/ \E r \in Requests : Confirm(r)
  <1>1. ASSUME NEW u \in Uploads, Seller(u) PROVE request' = request
    BY <1>1, Zenon DEF Seller, CreateUploadAuthorization, PutBytes, UploadLapses,
                       DeleteImage, SetPrimary
  <1>2. ASSUME NEW w \in Workers, Cleanup(w) PROVE request' = request
    BY <1>2, Zenon DEF Cleanup, ClaimGuestCleanupEvent, MarkProcessed, MarkRetryOrFailed,
                       CrashCleanup, SweepImage, SweepTemp
  <1>3. ASSUME NEW p \in Requests, DropObject(p) PROVE request' = request
    BY <1>3 DEF DropObject
  <1>4. CASE \/ Submit \/ ReturnToSeller \/ SessionAges
             \/ CondemnExpiredGuestListing \/ HoldEnds \/ RetireAbandoned
    BY <1>4, Zenon DEF Submit, ReturnToSeller, SessionAges, CondemnExpiredGuestListing,
                       HoldEnds, RetireAbandoned
  <1>5. CASE UNCHANGED vars
    BY <1>5 DEF vars
  <1> QED
    BY <1>1, <1>2, <1>3, <1>4, <1>5, Zenon DEF Next

\* A request goes on: it keeps its upload once it has one, and what is spent
\* stays spent.
RequestsGoOn ==
    /\ request' \in [Requests -> Confirmation]
    /\ \A r \in Requests : /\ Ended(r) => Ended(r)'
                           /\ request[r].at # "unused" =>
                                 request'[r].upload = request[r].upload

LEMMA RequestsOnly == ASSUME TypeOK, [Next]_vars PROVE RequestsGoOn
  <1>0. request \in [Requests -> Confirmation]
    BY DEF TypeOK, Confirmation, Steps
  <1>1. CASE request' = request
    BY <1>0, <1>1 DEF RequestsGoOn, Ended
  <1>2. ASSUME NEW r \in Requests, Confirm(r) PROVE RequestsGoOn
    <2>1. ASSUME NEW u \in Uploads, ReadUpload(r, u) PROVE RequestsGoOn
      <3> DEFINE entry == [at |-> IF upload[u].over THEN "expiring" ELSE "read",
                           upload |-> u]
      <3>1. entry \in Confirmation
        BY DEF Confirmation, Steps
      <3>2. request[r].at = "unused" /\ request' = [request EXCEPT ![r] = entry]
        BY <2>1 DEF ReadUpload, At
      <3> HIDE DEF entry
      <3> QED
        BY <1>0, <3>1, <3>2 DEF RequestsGoOn, Ended
    <2>2. CASE MovesOn(r)
      <3>1. PICK step \in Steps : /\ Moves(r, step)
                                  /\ request[r].at # "unused"
                                  /\ Ended(r) => step = "done"
        BY <2>2 DEF MovesOn
      <3> QED
        BY <3>1, Moved DEF RequestsGoOn, Ended
    <2> QED
      BY <1>2, <2>1, <2>2, ConfirmMoves
  <1> QED
    BY <1>1, <1>2, RequestSteps

Row == [path : Requests, primary : BOOLEAN]

LEMMA TypeParts ==
    ASSUME TypeOK
    PROVE  /\ upload \in [Uploads -> UploadRow]
           /\ DOMAIN image \subseteq Uploads /\ image \in [DOMAIN image -> Row]
           /\ request \in [Requests -> Confirmation]
           /\ event \in Condemnation /\ work \in [Workers -> Run]
BY DEF TypeOK, Row, Confirmation, Steps, Condemnation, Run

\* The insertion adds the row of an upload that had none.
LEMMA InsertOf ==
    ASSUME TypeOK, RequestInv, ImageIsOfItsUpload, NEW r \in Requests, InsertImage(r)
    PROVE  LET u == request[r].upload IN
           /\ u \in Uploads \ DOMAIN image /\ DOMAIN image' = DOMAIN image \cup {u}
           /\ image' \in [DOMAIN image' -> Row]
           /\ image'[u].path = r /\ image'[u].primary = (DOMAIN image = {})
           /\ \A v \in DOMAIN image : image'[v] = image[v]
           /\ upload' = [upload EXCEPT ![u].status = "COMPLETED", ![u].linked = TRUE]
           /\ request[r].at = "stored"
           /\ request'[r].at = "inserted" /\ request'[r].upload = u
           /\ Cardinality(DOMAIN image) < ImageMax
  <1> DEFINE u == request[r].upload
  <1>1. request[r].at = "stored" /\ ~upload[u].linked
    BY DEF InsertImage, At
  <1>2. u \in Uploads \ DOMAIN image
    BY <1>1 DEF RequestInv, ImageIsOfItsUpload
  <1>3. image' = [v \in DOMAIN image \cup {u} |->
                    IF v = u THEN [path |-> r, primary |-> DOMAIN image = {}] ELSE image[v]]
    BY DEF InsertImage, FinalPath
  <1>4. [path |-> r, primary |-> DOMAIN image = {}] \in Row
    BY DEF Row
  <1>5. image \in [DOMAIN image -> Row]
    BY TypeParts
  <1>6. upload' = [upload EXCEPT ![u].status = "COMPLETED", ![u].linked = TRUE]
    BY DEF InsertImage
  <1>7. request'[r].at = "inserted" /\ request'[r].upload = u
    <2>1. Moves(r, "inserted")
      BY DEF InsertImage
    <2> QED
      BY <2>1, Moved DEF Steps
  <1>8. Cardinality(DOMAIN image) < ImageMax
    BY DEF InsertImage, Fits
  <1> HIDE DEF u
  <1>9. /\ DOMAIN image' = DOMAIN image \cup {u} /\ image' \in [DOMAIN image' -> Row]
        /\ image'[u].path = r /\ image'[u].primary = (DOMAIN image = {})
        /\ \A v \in DOMAIN image : image'[v] = image[v]
    BY <1>2, <1>3, <1>4, <1>5
  <1> QED
    BY <1>1, <1>2, <1>6, <1>7, <1>8, <1>9 DEF u

\* The deletion removes one row; of the others, one may become the primary one.
LEMMA DeleteOf ==
    ASSUME TypeOK, NEW u \in Uploads, DeleteImage(u)
    PROVE  /\ u \in DOMAIN image /\ DOMAIN image' = DOMAIN image \ {u}
           /\ image' \in [DOMAIN image' -> Row]
           /\ \A v \in DOMAIN image' : image'[v].path = image[v].path
           /\ IF image[u].primary /\ DOMAIN image # {u}
              THEN \E v \in DOMAIN image' :
                      /\ image'[v].primary
                      /\ \A x \in DOMAIN image' \ {v} : image'[x] = image[x]
              ELSE \A v \in DOMAIN image' : image'[v] = image[v]
  <1> DEFINE rest == [v \in DOMAIN image \ {u} |-> image[v]]
  <1>1. u \in DOMAIN image
    BY DEF DeleteImage
  <1>2. image \in [DOMAIN image -> Row]
    BY TypeParts
  <1>3. /\ DOMAIN rest = DOMAIN image \ {u} /\ rest \in [DOMAIN rest -> Row]
        /\ \A v \in DOMAIN rest : rest[v] = image[v]
    BY <1>2
  <1>4. image' \in IF image[u].primary THEN PromoteNextPrimary(rest) ELSE {rest}
    BY DEF DeleteImage
  <1> HIDE DEF rest
  <1>5. CASE image' = rest /\ ~(image[u].primary /\ DOMAIN image # {u})
    BY <1>1, <1>3, <1>5
  <1>6. ASSUME NEW v \in DOMAIN rest, image' = [rest EXCEPT ![v].primary = TRUE],
               image[u].primary /\ DOMAIN image # {u}
        PROVE  /\ DOMAIN image' = DOMAIN image \ {u}
               /\ image' \in [DOMAIN image' -> Row]
               /\ \A x \in DOMAIN image' : image'[x].path = image[x].path
               /\ image'[v].primary
               /\ \A x \in DOMAIN image' \ {v} : image'[x] = image[x]
    <2> DEFINE entry == [rest[v] EXCEPT !.primary = TRUE]
    <2>1. entry \in Row /\ entry.path = rest[v].path /\ entry.primary
      BY <1>3 DEF Row
    <2>2. image' = [rest EXCEPT ![v] = entry]
      BY <1>6
    <2> HIDE DEF entry
    <2> QED
      BY <1>3, <2>1, <2>2
  <1>7. CASE image[u].primary /\ DOMAIN image # {u}
    <2>1. DOMAIN rest # {}
      BY <1>1, <1>3, <1>7
    <2>2. PICK v \in DOMAIN rest : image' = [rest EXCEPT ![v].primary = TRUE]
      BY <1>4, <1>7, <2>1 DEF PromoteNextPrimary
    <2>3. v \in DOMAIN image'
      BY <1>3, <1>6, <1>7, <2>2
    <2> QED
      BY <1>1, <1>6, <1>7, <2>2, <2>3
  <1>8. CASE ~(image[u].primary /\ DOMAIN image # {u})
    <2>1. image' = rest
      BY <1>1, <1>3, <1>4, <1>8 DEF PromoteNextPrimary
    <2> QED
      BY <1>5, <1>8, <2>1
  <1> QED
    BY <1>7, <1>8

\* The choice of the primary image changes that alone.
LEMMA SetOf ==
    ASSUME TypeOK, NEW u \in Uploads, SetPrimary(u)
    PROVE  /\ u \in DOMAIN image /\ DOMAIN image' = DOMAIN image
           /\ image' \in [DOMAIN image' -> Row]
           /\ \A v \in DOMAIN image : /\ image'[v].path = image[v].path
                                      /\ image'[v].primary = (v = u)
  <1>1. image \in [DOMAIN image -> Row]
    BY TypeParts
  <1>2. image' = [v \in DOMAIN image |-> [image[v] EXCEPT !.primary = (v = u)]]
    BY DEF SetPrimary
  <1>3. ASSUME NEW v \in DOMAIN image
        PROVE  LET entry == [image[v] EXCEPT !.primary = (v = u)] IN
               /\ entry \in Row /\ entry.path = image[v].path
               /\ entry.primary = (v = u)
    BY <1>1 DEF Row
  <1>4. u \in DOMAIN image
    BY DEF SetPrimary
  <1> QED
    BY <1>2, <1>3, <1>4

\* Which steps touch the images.
LEMMA ImageSteps ==
    ASSUME [Next]_vars
    PROVE  \/ image' = image
           \/ \E r \in Requests : InsertImage(r)
           \/ \E u \in Uploads : DeleteImage(u) \/ SetPrimary(u)
           \/ CondemnExpiredGuestListing
  <1>1. ASSUME NEW r \in Requests, Confirm(r) PROVE image' = image \/ InsertImage(r)
    BY <1>1, Zenon DEF Confirm, ReadUpload, FetchBytes, FailUpload, StoreObject, FindImage,
                       RefuseImage, EndConfirmation, CrashConfirmation
  <1>2. ASSUME NEW u \in Uploads, Seller(u)
        PROVE  image' = image \/ DeleteImage(u) \/ SetPrimary(u)
    BY <1>2, Zenon DEF Seller, CreateUploadAuthorization, PutBytes, UploadLapses
  <1>3. ASSUME NEW w \in Workers, Cleanup(w) PROVE image' = image
    BY <1>3, Zenon DEF Cleanup, ClaimGuestCleanupEvent, MarkProcessed, MarkRetryOrFailed,
                       CrashCleanup, SweepImage, SweepTemp
  <1>4. ASSUME NEW p \in Requests, DropObject(p) PROVE image' = image
    BY <1>4 DEF DropObject
  <1>5. CASE \/ Submit \/ ReturnToSeller \/ SessionAges
             \/ HoldEnds \/ RetireAbandoned
    BY <1>5, Zenon DEF Submit, ReturnToSeller, SessionAges, HoldEnds, RetireAbandoned
  <1>6. CASE UNCHANGED vars
    BY <1>6 DEF vars
  <1> QED
    BY <1>1, <1>2, <1>3, <1>4, <1>5, <1>6, Zenon DEF Next

\* No row is new and none changes its object.
RowsKept ==
    /\ DOMAIN image' \subseteq DOMAIN image
    /\ image' \in [DOMAIN image' -> Row]
    /\ \A u \in DOMAIN image' : image'[u].path = image[u].path

LEMMA RowSteps ==
    ASSUME TypeOK, [Next]_vars
    PROVE  RowsKept \/ \E r \in Requests : InsertImage(r)
  <1>1. CASE image' = image
    BY <1>1, TypeParts DEF RowsKept
  <1>2. ASSUME NEW u \in Uploads, DeleteImage(u) PROVE RowsKept
    BY <1>2, DeleteOf DEF RowsKept
  <1>3. ASSUME NEW u \in Uploads, SetPrimary(u) PROVE RowsKept
    BY <1>3, SetOf DEF RowsKept
  <1>4. CASE CondemnExpiredGuestListing
    BY <1>4 DEF CondemnExpiredGuestListing, RowsKept
  <1> QED
    BY <1>1, <1>2, <1>3, <1>4, ImageSteps

\* Which steps touch the uploads.
LEMMA UploadSteps ==
    ASSUME [Next]_vars
    PROVE  \/ upload' = upload
           \/ \E u \in Uploads : \/ CreateUploadAuthorization(u) \/ UploadLapses(u)
                                 \/ DeleteImage(u)
           \/ \E r \in Requests : FailUpload(r) \/ InsertImage(r)
           \/ Submit \/ CondemnExpiredGuestListing
  <1>1. ASSUME NEW r \in Requests, Confirm(r)
        PROVE  upload' = upload \/ FailUpload(r) \/ InsertImage(r)
    BY <1>1, Zenon DEF Confirm, ReadUpload, FetchBytes, StoreObject, FindImage,
                       RefuseImage, EndConfirmation, CrashConfirmation
  <1>2. ASSUME NEW u \in Uploads, Seller(u)
        PROVE  \/ upload' = upload
               \/ CreateUploadAuthorization(u) \/ UploadLapses(u) \/ DeleteImage(u)
    BY <1>2, Zenon DEF Seller, PutBytes, SetPrimary
  <1>3. ASSUME NEW w \in Workers, Cleanup(w) PROVE upload' = upload
    BY <1>3, Zenon DEF Cleanup, ClaimGuestCleanupEvent, MarkProcessed, MarkRetryOrFailed,
                       CrashCleanup, SweepImage, SweepTemp
  <1>4. ASSUME NEW p \in Requests, DropObject(p) PROVE upload' = upload
    BY <1>4 DEF DropObject
  <1>5. CASE ReturnToSeller \/ SessionAges \/ HoldEnds \/ RetireAbandoned
    BY <1>5, Zenon DEF ReturnToSeller, SessionAges, HoldEnds, RetireAbandoned
  <1>6. CASE UNCHANGED vars
    BY <1>6 DEF vars
  <1> QED
    BY <1>1, <1>2, <1>3, <1>4, <1>5, <1>6, Zenon DEF Next

\* The images and the uploads keep their types and stay each other's.
UploadsFit == upload' \in [Uploads -> UploadRow] /\ ImageIsOfItsUpload'

LEMMA ImageOfUpload ==
    ASSUME TypeOK, RequestInv, ImageIsOfItsUpload, [Next]_vars PROVE UploadsFit
  <1>0. upload \in [Uploads -> UploadRow] /\ DOMAIN image \subseteq Uploads
    BY TypeParts
  <1>1. CASE upload' = upload /\ DOMAIN image' = DOMAIN image
    BY <1>0, <1>1 DEF UploadsFit, ImageIsOfItsUpload
  <1>2. ASSUME NEW u \in Uploads, CreateUploadAuthorization(u) PROVE UploadsFit
    <2>1. PICK outcome \in {"PENDING", "FAILED"} :
             upload' = [upload EXCEPT ![u].status = outcome]
      BY <1>2 DEF CreateUploadAuthorization
    <2> DEFINE row == [upload[u] EXCEPT !.status = outcome]
    <2>2. row \in UploadRow /\ row.linked = upload[u].linked
      BY <1>0 DEF UploadRow
    <2>3. upload' = [upload EXCEPT ![u] = row]
      BY <2>1
    <2> HIDE DEF row
    <2>4. upload[u].status = "NONE" /\ image' = image
      BY <1>2 DEF CreateUploadAuthorization
    <2> QED
      BY <1>0, <2>2, <2>3, <2>4 DEF UploadsFit, ImageIsOfItsUpload
  <1>3. ASSUME NEW u \in Uploads, UploadLapses(u) PROVE UploadsFit
    <2> DEFINE row == [upload[u] EXCEPT !.over = TRUE]
    <2>1. /\ row \in UploadRow /\ row.linked = upload[u].linked
          /\ row.status = upload[u].status
      BY <1>0 DEF UploadRow
    <2>2. upload' = [upload EXCEPT ![u] = row] /\ image' = image
      BY <1>3 DEF UploadLapses
    <2> HIDE DEF row
    <2> QED
      BY <1>0, <2>1, <2>2 DEF UploadsFit, ImageIsOfItsUpload
  <1>4. ASSUME NEW u \in Uploads, DeleteImage(u) PROVE UploadsFit
    <2> DEFINE row == [upload[u] EXCEPT !.linked = FALSE]
    <2>1. row \in UploadRow /\ row.linked = FALSE
      BY <1>0 DEF UploadRow
    <2>2. upload' = [upload EXCEPT ![u] = row]
      BY <1>4 DEF DeleteImage
    <2> HIDE DEF row
    <2>3. DOMAIN image' = DOMAIN image \ {u}
      BY <1>4, DeleteOf
    <2> QED
      BY <1>0, <2>1, <2>2, <2>3 DEF UploadsFit, ImageIsOfItsUpload
  <1>5. ASSUME NEW u \in Uploads, SetPrimary(u) PROVE UploadsFit
    BY <1>1, <1>5, SetOf DEF SetPrimary
  <1>6. ASSUME NEW r \in Requests, FailUpload(r) PROVE UploadsFit
    <2> DEFINE u == request[r].upload
               status == IF At(r, "failing") THEN "FAILED" ELSE "EXPIRED"
               row == [upload[u] EXCEPT !.status = status]
    <2>1. u \in Uploads /\ image' = image
      BY <1>6 DEF FailUpload, RequestInv
    <2>2. CASE ~Markable(u)
      BY <1>1, <1>6, <2>2 DEF FailUpload
    <2>3. CASE Markable(u)
      <3>1. row \in UploadRow /\ row.linked = upload[u].linked
        BY <1>0, <2>1 DEF UploadRow
      <3>2. upload' = [upload EXCEPT ![u] = row]
        BY <1>6, <2>3 DEF FailUpload
      <3>3. upload[u].status = "PENDING"
        BY <2>3 DEF Markable
      <3> HIDE DEF row, u
      <3> QED
        BY <1>0, <2>1, <3>1, <3>2, <3>3 DEF UploadsFit, ImageIsOfItsUpload
    <2> QED
      BY <2>2, <2>3
  <1>7. ASSUME NEW r \in Requests, InsertImage(r) PROVE UploadsFit
    <2> DEFINE u == request[r].upload
               row == [upload[u] EXCEPT !.status = "COMPLETED", !.linked = TRUE]
    <2>1. /\ u \in Uploads \ DOMAIN image /\ DOMAIN image' = DOMAIN image \cup {u}
          /\ upload' = [upload EXCEPT ![u].status = "COMPLETED", ![u].linked = TRUE]
      BY <1>7, InsertOf
    <2>2. row \in UploadRow /\ row.status = "COMPLETED" /\ row.linked = TRUE
      BY <1>0, <2>1 DEF UploadRow
    <2>3. upload' = [upload EXCEPT ![u] = row]
      BY <1>0, <2>1
    <2> HIDE DEF row, u
    <2>4. /\ upload' \in [Uploads -> UploadRow]
          /\ upload'[u].status = "COMPLETED" /\ upload'[u].linked
          /\ \A v \in Uploads \ {u} : upload'[v] = upload[v]
      <3>1. upload \in [Uploads -> UploadRow] /\ u \in Uploads
        BY <1>0, <2>1
      <3>2. upload'[u] = row /\ \A v \in Uploads \ {u} : upload'[v] = upload[v]
        BY <2>3, <3>1
      <3>3. upload' \in [Uploads -> UploadRow]
        BY <2>2, <2>3, <3>1
      <3> QED
        BY <2>2, <3>2, <3>3
    <2> QED
      BY <1>0, <2>1, <2>4 DEF UploadsFit, ImageIsOfItsUpload
  <1>8. CASE Submit
    <2>1. ASSUME NEW u \in Uploads
          PROVE  LET row == [upload[u] EXCEPT !.status = "EXPIRED"] IN
                 row \in UploadRow /\ row.linked = upload[u].linked
      BY <1>0 DEF UploadRow
    <2>2. /\ upload' = [u \in Uploads |-> IF upload[u].status = "PENDING"
                                          THEN [upload[u] EXCEPT !.status = "EXPIRED"]
                                          ELSE upload[u]]
          /\ image' = image
      BY <1>8 DEF Submit
    <2>3. ASSUME NEW u \in Uploads
          PROVE  /\ upload'[u] \in UploadRow /\ upload'[u].linked = upload[u].linked
                 /\ upload[u].status = "COMPLETED" => upload'[u] = upload[u]
      BY <1>0, <2>1, <2>2
    <2> QED
      BY <1>0, <2>2, <2>3 DEF UploadsFit, ImageIsOfItsUpload
  <1>9. CASE CondemnExpiredGuestListing
    <2>1. /\ upload' = [u \in Uploads |->
                           [upload[u] EXCEPT !.status = "NONE", !.linked = FALSE]]
          /\ DOMAIN image' = {}
      BY <1>9 DEF CondemnExpiredGuestListing
    <2>2. ASSUME NEW u \in Uploads PROVE upload'[u] \in UploadRow /\ ~upload'[u].linked
      BY <1>0, <2>1 DEF UploadRow
    <2> QED
      BY <2>1, <2>2 DEF UploadsFit, ImageIsOfItsUpload
  <1> QED
    BY <1>1, <1>2, <1>3, <1>4, <1>5, <1>6, <1>7, <1>8, <1>9,
       ImageSteps, UploadSteps, Zenon

\* The types of the variables no lemma above is about.
RestOK ==
    /\ owner \in {"user", "guest"}
    /\ listing \in {"EDITABLE", "IN_REVIEW", "GONE"}
    /\ session \in {"live", "expired", "condemnable"}
    /\ temps \subseteq Uploads /\ objects \subseteq Requests
    /\ dropping \subseteq Requests /\ abandoned \subseteq Requests
    /\ faults \in 0..MaxFaults

LEMMA FaultCounted ==
    ASSUME TypeOK, faults < MaxFaults, faults' = faults + 1 PROVE faults' \in 0..MaxFaults
  <1> DEFINE next == faults + 1
  <1>1. next \in 0..MaxFaults
    BY Bounds DEF TypeOK
  <1> QED
    BY <1>1

LEMMA DeletesOf ==
    ASSUME TypeOK, NEW paths \in SUBSET Requests, Deletes(paths)
    PROVE  /\ objects' \subseteq objects /\ objects \ objects' \subseteq paths
           /\ abandoned \subseteq abandoned' /\ abandoned' \subseteq abandoned \cup paths
           /\ faults' \in 0..MaxFaults
           /\ paths \cap objects' \subseteq abandoned'
  <1>1. CASE objects' = objects \ paths /\ UNCHANGED <<abandoned, faults>>
    BY <1>1 DEF TypeOK
  <1>2. CASE /\ faults < MaxFaults /\ faults' = faults + 1
             /\ abandoned' = abandoned \cup paths /\ UNCHANGED objects
    BY <1>2, FaultCounted
  <1> QED
    BY <1>1, <1>2 DEF Deletes

LEMMA DiscardedOf ==
    ASSUME NEW r \in Requests
    PROVE  Discarded(r) = IF request[r].at \in {"refused", "superseded"} THEN {r} ELSE {}
BY DEF Discarded, FinalPath

LEMMA RestStep ==
    ASSUME TypeOK, RequestInv, [Next]_vars PROVE RestOK'
  <1>0. RestOK /\ DOMAIN image \subseteq Uploads
    BY DEF TypeOK, RestOK
  <1>1. ASSUME NEW r \in Requests, Confirm(r) PROVE RestOK'
    <2>1. ASSUME NEW u \in Uploads, ReadUpload(r, u) PROVE RestOK'
      BY <1>0, <2>1 DEF ReadUpload, RestOK
    <2>2. CASE FetchBytes(r) \/ InsertImage(r) \/ FindImage(r)
      BY <1>0, <2>2 DEF FetchBytes, InsertImage, FindImage, RestOK
    <2>3. CASE FailUpload(r)
      BY <1>0, <2>3 DEF FailUpload, RestOK
    <2>4. CASE StoreObject(r)
      BY <1>0, <2>4 DEF StoreObject, FinalPath, RestOK
    <2>5. CASE RefuseImage(r)
      <3>1. faults' \in 0..MaxFaults
        BY <1>0, <2>5, FaultCounted DEF RefuseImage, RestOK
      <3> QED
        BY <1>0, <2>5, <3>1 DEF RefuseImage, RestOK
    <2>6. CASE EndConfirmation(r)
      <3>1. Deletes(Discarded(r)) /\ Discarded(r) \in SUBSET Requests
        BY <2>6, DiscardedOf DEF EndConfirmation
      <3>2. temps' \subseteq temps /\ UNCHANGED <<owner, listing, session, dropping>>
        BY <2>6 DEF EndConfirmation
      <3> QED
        BY <1>0, <3>1, <3>2, DeletesOf DEF RestOK
    <2>7. CASE CrashConfirmation(r)
      <3>1. faults' \in 0..MaxFaults
        BY <2>7, FaultCounted DEF CrashConfirmation
      <3> QED
        BY <1>0, <2>7, <3>1 DEF CrashConfirmation, FinalPath, RestOK
    <2> QED
      BY <1>1, <2>1, <2>2, <2>3, <2>4, <2>5, <2>6, <2>7, Zenon DEF Confirm
  <1>2. ASSUME NEW u \in Uploads, Seller(u) PROVE RestOK'
    <2>1. CASE \/ CreateUploadAuthorization(u) \/ PutBytes(u) \/ UploadLapses(u)
               \/ SetPrimary(u)
      BY <1>0, <2>1 DEF CreateUploadAuthorization, PutBytes, UploadLapses, SetPrimary, RestOK
    <2>2. CASE DeleteImage(u)
      <3>1. image[u].path \in Requests
        BY <2>2, TypeParts, DeleteOf DEF Row
      <3> QED
        BY <1>0, <2>2, <3>1 DEF DeleteImage, RestOK
    <2> QED
      BY <1>2, <2>1, <2>2, Zenon DEF Seller
  <1>3. ASSUME NEW p \in Requests, DropObject(p) PROVE RestOK'
    <2>1. Deletes({p}) /\ {p} \in SUBSET Requests
      BY <1>3 DEF DropObject
    <2>2. dropping' \subseteq dropping /\ UNCHANGED <<owner, listing, session, temps>>
      BY <1>3 DEF DropObject
    <2> QED
      BY <1>0, <2>1, <2>2, DeletesOf DEF RestOK
  <1>4. CASE Submit \/ ReturnToSeller \/ SessionAges
    BY <1>0, <1>4 DEF Submit, ReturnToSeller, SessionAges, RestOK
  <1>5. CASE CondemnExpiredGuestListing \/ HoldEnds \/ RetireAbandoned
    BY <1>0, <1>5 DEF CondemnExpiredGuestListing, HoldEnds, RetireAbandoned, RestOK
  <1>6. ASSUME NEW w \in Workers, Cleanup(w) PROVE RestOK'
    <2>1. CASE ClaimGuestCleanupEvent(w) \/ MarkProcessed(w)
      BY <1>0, <2>1 DEF ClaimGuestCleanupEvent, MarkProcessed, RestOK
    <2>2. CASE MarkRetryOrFailed(w)
      <3>1. faults' \in 0..MaxFaults
        BY <2>2, FaultCounted DEF MarkRetryOrFailed
      <3> QED
        BY <1>0, <2>2, <3>1 DEF MarkRetryOrFailed, RestOK
    <2>3. CASE CrashCleanup(w)
      <3>1. faults' \in 0..MaxFaults
        BY <2>3, FaultCounted DEF CrashCleanup
      <3> QED
        BY <1>0, <2>3, <3>1 DEF CrashCleanup, RestOK
    <2>4. ASSUME NEW p \in Requests, SweepImage(w, p) PROVE RestOK'
      BY <1>0, <2>4 DEF SweepImage, RestOK
    <2>5. ASSUME NEW u \in Uploads, SweepTemp(w, u) PROVE RestOK'
      BY <1>0, <2>5 DEF SweepTemp, RestOK
    <2> QED
      BY <1>6, <2>1, <2>2, <2>3, <2>4, <2>5, Zenon DEF Cleanup
  <1>7. CASE UNCHANGED vars
    BY <1>0, <1>7 DEF vars, RestOK
  <1> QED
    BY <1>1, <1>2, <1>3, <1>4, <1>5, <1>6, <1>7, Zenon DEF Next

----------------------------------------------------------------------------
(* The event and the runs *)

\* Which steps touch them.
LEMMA CleanupSteps ==
    ASSUME [Next]_vars
    PROVE  \/ event' = event /\ work' = work
           \/ CondemnExpiredGuestListing \/ HoldEnds \/ RetireAbandoned
           \/ \E w \in Workers : Cleanup(w)
  <1>1. ASSUME NEW r \in Requests, Confirm(r) PROVE event' = event /\ work' = work
    BY <1>1, Zenon DEF Confirm, ReadUpload, FetchBytes, FailUpload, StoreObject, InsertImage,
                       FindImage, RefuseImage, EndConfirmation, CrashConfirmation
  <1>2. ASSUME NEW u \in Uploads, Seller(u) PROVE event' = event /\ work' = work
    BY <1>2, Zenon DEF Seller, CreateUploadAuthorization, PutBytes, UploadLapses,
                       DeleteImage, SetPrimary
  <1>3. ASSUME NEW p \in Requests, DropObject(p) PROVE event' = event /\ work' = work
    BY <1>3 DEF DropObject
  <1>4. CASE Submit \/ ReturnToSeller \/ SessionAges
    BY <1>4, Zenon DEF Submit, ReturnToSeller, SessionAges
  <1>5. CASE UNCHANGED vars
    BY <1>5 DEF vars
  <1> QED
    BY <1>1, <1>2, <1>3, <1>4, <1>5, Zenon DEF Next

\* What a cleanup action makes of the event and of the run.
Claims(w) ==
    /\ work[w] = NoWork
    /\ event.status \in {"PENDING", "PROCESSING"} /\ event.claims < MaxClaims
    /\ event' \in Condemnation /\ event'.status = "PROCESSING"
    /\ event'.claims = event.claims + 1 /\ event'.images = event.images
    /\ \E run \in Run : /\ work' = [work EXCEPT ![w] = run]
                        /\ run.claim = event.claims + 1 /\ run.images = event.images

Ends(w) ==
    /\ work[w] # NoWork
    /\ event' \in Condemnation
    /\ event'.claims = event.claims /\ event'.images = event.images
    /\ event'.status # event.status => Holds(w)
    /\ event'.status \in {event.status, "PENDING", "FAILED"} \/ work[w].images = {}
    /\ work' = [work EXCEPT ![w] = NoWork]

Sweeps(w) ==
    /\ event' = event
    /\ \E run \in Run : /\ work' = [work EXCEPT ![w] = run]
                        /\ run.claim = work[w].claim
                        /\ run.images \subseteq work[w].images
                        /\ \A p \in work[w].images \ run.images :
                              p \in objects' => p \in Paths
    /\ work[w] # NoWork
    /\ objects' \subseteq objects
    /\ objects \ objects' \subseteq work[w].images \ Paths

LEMMA NoWorkIsRun == NoWork \in Run /\ NoWork.claim = 0 /\ NoWork.images = {}
BY Bounds DEF NoWork, Run

LEMMA SweepOf ==
    ASSUME TypeOK, NEW w \in Workers, NEW p \in Requests, SweepImage(w, p)
    PROVE  Sweeps(w)
  <1>0. work \in [Workers -> Run] /\ work[w] \in Run
    BY TypeParts
  <1> DEFINE run == [work[w] EXCEPT !.images = work[w].images \ {p}]
  <1>1. run \in Run /\ run.claim = work[w].claim /\ run.images = work[w].images \ {p}
    BY <1>0 DEF Run
  <1>2. /\ work' = [work EXCEPT ![w] = run] /\ event' = event /\ p \in work[w].images
        /\ objects' = IF p \in Paths THEN objects ELSE objects \ {p}
    BY <1>0 DEF SweepImage
  <1> HIDE DEF run
  <1>3. work[w] # NoWork
    BY <1>2, NoWorkIsRun
  <1>4. /\ objects' \subseteq objects
        /\ objects \ objects' \subseteq work[w].images \ Paths
        /\ p \in objects' => p \in Paths
    BY <1>2
  <1> QED
    BY <1>1, <1>2, <1>3, <1>4 DEF Sweeps

LEMMA CleanupOf ==
    ASSUME TypeOK, NEW w \in Workers, Cleanup(w)
    PROVE  Claims(w) \/ Ends(w) \/ Sweeps(w)
  <1>0. event \in Condemnation /\ work \in [Workers -> Run] /\ work[w] \in Run
    BY TypeParts
  <1>1. CASE ClaimGuestCleanupEvent(w)
    <2> DEFINE next == event.claims + 1
               run == [claim |-> next, images |-> event.images, temps |-> event.temps]
               entry == [event EXCEPT !.status = "PROCESSING", !.claims = next,
                                      !.held = TRUE]
    <2>1. /\ work[w] = NoWork /\ event.status \in {"PENDING", "PROCESSING"}
          /\ event.claims < MaxClaims /\ event' = entry
          /\ work' = [work EXCEPT ![w] = run]
      BY <1>1 DEF ClaimGuestCleanupEvent, Open
    <2>2. next \in 0..MaxClaims
      BY <1>0, <2>1, Bounds DEF Condemnation
    <2> HIDE DEF next
    <2>3. run \in Run /\ run.claim = next /\ run.images = event.images
      BY <1>0, <2>2 DEF Run, Condemnation
    <2>4. /\ entry \in Condemnation /\ entry.status = "PROCESSING" /\ entry.claims = next
          /\ entry.images = event.images
      BY <1>0, <2>2 DEF Condemnation
    <2> HIDE DEF run, entry
    <2>5. next = event.claims + 1
      BY DEF next
    <2> QED
      BY <2>1, <2>3, <2>4, <2>5 DEF Claims
  <1>2. CASE MarkProcessed(w)
    <2> DEFINE entry == [event EXCEPT !.status = "PROCESSED"]
    <2>1. /\ entry \in Condemnation /\ entry.claims = event.claims
          /\ entry.images = event.images
      BY <1>0 DEF Condemnation
    <2>2. /\ event' = IF Holds(w) THEN entry ELSE event
          /\ work' = [work EXCEPT ![w] = NoWork]
          /\ work[w].claim # 0 /\ work[w].images = {}
      BY <1>2 DEF MarkProcessed
    <2> HIDE DEF entry
    <2> QED
      BY <1>0, <2>1, <2>2, NoWorkIsRun DEF Ends
  <1>3. CASE MarkRetryOrFailed(w)
    <2> DEFINE failed == [event EXCEPT !.status = "FAILED"]
               again == [event EXCEPT !.status = "PENDING", !.held = TRUE]
    <2>1. /\ failed \in Condemnation /\ failed.claims = event.claims
          /\ failed.images = event.images /\ failed.status = "FAILED"
          /\ again \in Condemnation /\ again.claims = event.claims
          /\ again.images = event.images /\ again.status = "PENDING"
      BY <1>0 DEF Condemnation
    <2>2. /\ event' = IF ~Holds(w) THEN event
                      ELSE IF work[w].claim = MaxClaims THEN failed ELSE again
          /\ work' = [work EXCEPT ![w] = NoWork]
          /\ work[w].images \cup work[w].temps # {}
      BY <1>3 DEF MarkRetryOrFailed
    <2>3. work[w] # NoWork
      BY <2>2 DEF NoWork
    <2> HIDE DEF failed, again
    <2> QED
      BY <1>0, <2>1, <2>2, <2>3 DEF Ends
  <1>4. CASE CrashCleanup(w)
    BY <1>0, <1>4 DEF CrashCleanup, Ends
  <1>5. ASSUME NEW p \in Requests, SweepImage(w, p) PROVE Sweeps(w)
    BY <1>5, SweepOf
  <1>6. ASSUME NEW u \in Uploads, SweepTemp(w, u) PROVE Sweeps(w)
    <2> DEFINE run == [work[w] EXCEPT !.temps = work[w].temps \ {u}]
    <2>1. run \in Run /\ run.claim = work[w].claim /\ run.images = work[w].images
      BY <1>0 DEF Run
    <2>2. /\ work' = [work EXCEPT ![w] = run] /\ event' = event /\ u \in work[w].temps
          /\ objects' = objects
      BY <1>0, <1>6 DEF SweepTemp
    <2>3. work[w] # NoWork
      BY <2>2 DEF NoWork
    <2> HIDE DEF run
    <2> QED
      BY <2>1, <2>2, <2>3 DEF Sweeps
  <1> QED
    BY <1>1, <1>2, <1>3, <1>4, <1>5, <1>6, Zenon DEF Cleanup

\* The steps of the event alone: a hold ends, or nobody may claim it any more.
Waits ==
    /\ work' = work /\ event' \in Condemnation
    /\ event'.claims = event.claims /\ event'.images = event.images
    /\ \/ event'.status = event.status
       \/ event.claims = MaxClaims /\ event'.status = "FAILED"

LEMMA WaitsOf == ASSUME TypeOK, HoldEnds \/ RetireAbandoned PROVE Waits
  <1>0. event \in Condemnation
    BY TypeParts
  <1>1. CASE HoldEnds
    BY <1>0, <1>1 DEF HoldEnds, Waits, Condemnation
  <1>2. CASE RetireAbandoned
    BY <1>0, <1>2 DEF RetireAbandoned, Waits, Condemnation
  <1> QED
    BY <1>1, <1>2

\* The event of a condemned draft takes its images over.
Condemns ==
    /\ work' = work /\ event' \in Condemnation /\ event'.claims = event.claims
    /\ \/ event' = event /\ DOMAIN image = {}
       \/ event'.images = Paths /\ event'.status = "PENDING"
    /\ listing # "GONE" /\ listing' = "GONE" /\ DOMAIN image' = {}
    /\ UNCHANGED <<objects, request, dropping, abandoned>>

LEMMA CondemnsOf ==
    ASSUME TypeOK, ImageIsOfItsUpload, CondemnExpiredGuestListing PROVE Condemns
  <1> DEFINE entry == [event EXCEPT !.status = "PENDING", !.images = Paths,
                                    !.temps = Issued]
  <1>1. Paths \subseteq Requests /\ Issued \subseteq Uploads
    BY TypeParts DEF Paths, Issued, Row
  <1>2. event \in Condemnation
    BY TypeParts
  <1>3. /\ entry \in Condemnation /\ entry.claims = event.claims /\ entry.images = Paths
        /\ entry.status = "PENDING"
    BY <1>1, <1>2 DEF Condemnation
  <1>4. Issued = {} => DOMAIN image = {}
    BY TypeParts DEF Issued, HasRow, ImageIsOfItsUpload
  <1>5. event' = IF Issued = {} THEN event ELSE entry
    BY DEF CondemnExpiredGuestListing
  <1>6. /\ work' = work /\ listing # "GONE" /\ listing' = "GONE" /\ DOMAIN image' = {}
        /\ UNCHANGED <<objects, request, dropping, abandoned>>
    BY DEF CondemnExpiredGuestListing
  <1> HIDE DEF entry
  <1> QED
    BY <1>2, <1>3, <1>4, <1>5, <1>6 DEF Condemns

\* Every step, as far as the event and the runs go.
LEMMA CleanupCases ==
    ASSUME TypeOK, ImageIsOfItsUpload, [Next]_vars
    PROVE  \/ event' = event /\ work' = work
           \/ Condemns \/ Waits
           \/ \E w \in Workers : Claims(w) \/ Ends(w) \/ Sweeps(w)
BY CleanupSteps, CondemnsOf, WaitsOf, CleanupOf

LEMMA CleanupTypes ==
    ASSUME TypeOK, ImageIsOfItsUpload, [Next]_vars
    PROVE  event' \in Condemnation /\ work' \in [Workers -> Run]
  <1>0. event \in Condemnation /\ work \in [Workers -> Run]
    BY TypeParts
  <1>1. CASE (event' = event /\ work' = work) \/ Condemns \/ Waits
    BY <1>0, <1>1 DEF Condemns, Waits
  <1>2. ASSUME NEW w \in Workers, Claims(w)
        PROVE  event' \in Condemnation /\ work' \in [Workers -> Run]
    BY <1>0, <1>2 DEF Claims
  <1>3. ASSUME NEW w \in Workers, Ends(w)
        PROVE  event' \in Condemnation /\ work' \in [Workers -> Run]
    BY <1>0, <1>3, NoWorkIsRun DEF Ends
  <1>4. ASSUME NEW w \in Workers, Sweeps(w)
        PROVE  event' \in Condemnation /\ work' \in [Workers -> Run]
    BY <1>0, <1>4 DEF Sweeps
  <1> QED
    BY <1>1, <1>2, <1>3, <1>4, CleanupCases

LEMMA TypeStep ==
    ASSUME TypeOK, RequestInv, ImageIsOfItsUpload, [Next]_vars PROVE TypeOK'
  <1>1. RestOK' /\ upload' \in [Uploads -> UploadRow] /\ RequestsGoOn
    BY RestStep, ImageOfUpload, RequestsOnly DEF UploadsFit
  <1>2. event' \in Condemnation /\ work' \in [Workers -> Run]
    BY CleanupTypes
  <1>3. DOMAIN image' \subseteq Uploads /\ image' \in [DOMAIN image' -> Row]
    <2>1. CASE RowsKept
      BY <2>1, TypeParts DEF RowsKept
    <2>2. ASSUME NEW r \in Requests, InsertImage(r)
          PROVE  DOMAIN image' \subseteq Uploads /\ image' \in [DOMAIN image' -> Row]
      <3> DEFINE u == request[r].upload
      <3>1. /\ u \in Uploads /\ DOMAIN image' = DOMAIN image \cup {u}
            /\ image' \in [DOMAIN image' -> Row]
        BY <2>2, InsertOf
      <3> HIDE DEF u
      <3> QED
        BY <3>1, TypeParts
    <2> QED
      BY <2>1, <2>2, RowSteps
  <1> QED
    BY <1>1, <1>2, <1>3
       DEF TypeOK, RestOK, RequestsGoOn, Confirmation, Steps, Row, Condemnation, Run

LEMMA RequestStep == ASSUME TypeOK, RequestInv, [Next]_vars PROVE RequestInv'
  <1>0. request \in [Requests -> Confirmation]
    BY TypeParts
  <1>1. CASE request' = request
    BY <1>1 DEF RequestInv
  <1>2. ASSUME NEW r \in Requests, NEW u \in Uploads, ReadUpload(r, u) PROVE RequestInv'
    <2> DEFINE entry == [at |-> IF upload[u].over THEN "expiring" ELSE "read",
                         upload |-> u]
    <2>1. request' = [request EXCEPT ![r] = entry] /\ entry.upload = u
      BY <1>2 DEF ReadUpload
    <2> HIDE DEF entry
    <2> QED
      BY <1>0, <2>1 DEF RequestInv
  <1>3. ASSUME NEW r \in Requests, MovesOn(r) PROVE RequestInv'
    <2>1. PICK step \in Steps : Moves(r, step) /\ request[r].at # "unused"
      BY <1>3 DEF MovesOn
    <2> QED
      BY <2>1, Moved DEF RequestInv
  <1> QED
    BY <1>1, <1>2, <1>3, RequestSteps, ConfirmMoves

----------------------------------------------------------------------------
(* The named parts of the invariant *)

\* A condemned draft stays condemned, and only a condemnation makes it so.
LEMMA ListingSteps ==
    ASSUME [Next]_vars
    PROVE  CondemnExpiredGuestListing \/ (listing' = "GONE" <=> listing = "GONE")
  <1>1. ASSUME NEW r \in Requests, Confirm(r) PROVE listing' = listing
    BY <1>1, Zenon DEF Confirm, ReadUpload, FetchBytes, FailUpload, StoreObject, InsertImage,
                       FindImage, RefuseImage, EndConfirmation, CrashConfirmation
  <1>2. ASSUME NEW u \in Uploads, Seller(u) PROVE listing' = listing
    BY <1>2, Zenon DEF Seller, CreateUploadAuthorization, PutBytes, UploadLapses,
                       DeleteImage, SetPrimary
  <1>3. ASSUME NEW w \in Workers, Cleanup(w) PROVE listing' = listing
    BY <1>3, Zenon DEF Cleanup, ClaimGuestCleanupEvent, MarkProcessed, MarkRetryOrFailed,
                       CrashCleanup, SweepImage, SweepTemp
  <1>4. ASSUME NEW p \in Requests, DropObject(p) PROVE listing' = listing
    BY <1>4 DEF DropObject
  <1>5. CASE SessionAges \/ HoldEnds \/ RetireAbandoned \/ UNCHANGED vars
    BY <1>5 DEF SessionAges, HoldEnds, RetireAbandoned, vars
  <1>6. CASE Submit \/ ReturnToSeller
    BY <1>6 DEF Submit, ReturnToSeller
  <1> QED
    BY <1>1, <1>2, <1>3, <1>4, <1>5, <1>6, Zenon DEF Next

LEMMA GoneStep ==
    ASSUME TypeOK, RequestInv, ImageIsOfItsUpload, GoneInv, ClaimInv, [Next]_vars
    PROVE  GoneInv'
  <1>1. CASE CondemnExpiredGuestListing
    BY <1>1, CondemnsOf DEF Condemns, GoneInv
  <1>2. CASE ~CondemnExpiredGuestListing
    <2>1. listing' = "GONE" <=> listing = "GONE"
      BY <1>2, ListingSteps
    <2>2. ASSUME listing = "GONE" PROVE DOMAIN image' = {}
      <3>1. ASSUME NEW r \in Requests PROVE ~InsertImage(r)
        BY <2>2 DEF InsertImage, Editable
      <3> QED
        BY <2>2, <3>1, RowSteps DEF RowsKept, GoneInv
    <2>3. ASSUME listing # "GONE"
          PROVE  event'.status = "none" /\ event'.images = {} /\ event'.claims = 0
      <3>1. event.status = "none" /\ event.images = {} /\ event.claims = 0
        BY <2>3 DEF GoneInv
      <3>2. ASSUME NEW w \in Workers PROVE work[w] = NoWork
        BY <3>1, TypeParts DEF ClaimInv, Run
      <3>3. ASSUME NEW w \in Workers PROVE ~Claims(w) /\ ~Ends(w) /\ ~Sweeps(w)
        BY <3>1, <3>2 DEF Claims, Ends, Sweeps
      <3>4. CASE Waits
        BY <3>1, <3>4, Bounds DEF Waits
      <3>5. CASE Condemns
        BY <1>2, <2>1, <2>3, <3>5 DEF Condemns
      <3> QED
        BY <3>1, <3>3, <3>4, <3>5, CleanupCases
    <2> QED
      BY <2>1, <2>2, <2>3 DEF GoneInv
  <1> QED
    BY <1>1, <1>2

LEMMA ClaimStep ==
    ASSUME TypeOK, ImageIsOfItsUpload, ClaimInv, [Next]_vars
    PROVE  ClaimInv'
  <1>0. /\ event \in Condemnation /\ work \in [Workers -> Run]
        /\ event.claims \in Nat /\ \A w \in Workers : work[w].claim \in Nat
    BY TypeParts, Bounds DEF Condemnation, Run
  <1>1. CASE (event' = event /\ work' = work) \/ Condemns \/ Waits
    BY <1>1 DEF Condemns, Waits, ClaimInv
  <1>2. ASSUME NEW w \in Workers, Claims(w) PROVE ClaimInv'
    <2>1. PICK run \in Run : /\ work' = [work EXCEPT ![w] = run]
                             /\ run.claim = event.claims + 1
      BY <1>2 DEF Claims
    <2>2. event'.claims = event.claims + 1
      BY <1>2 DEF Claims
    <2>3. /\ work'[w].claim = event.claims + 1
          /\ \A v \in Workers \ {w} : work'[v] = work[v] /\ work[v].claim <= event.claims
      BY <1>0, <2>1 DEF ClaimInv
    <2> QED
      BY <1>0, <2>2, <2>3 DEF ClaimInv
  <1>3. ASSUME NEW w \in Workers, Ends(w) PROVE ClaimInv'
    <2>1. /\ work'[w] = NoWork /\ \A v \in Workers \ {w} : work'[v] = work[v]
          /\ event'.claims = event.claims
      BY <1>0, <1>3 DEF Ends
    <2> QED
      BY <1>0, <2>1, NoWorkIsRun DEF ClaimInv
  <1>4. ASSUME NEW w \in Workers, Sweeps(w) PROVE ClaimInv'
    <2>1. PICK run \in Run : work' = [work EXCEPT ![w] = run] /\ run.claim = work[w].claim
      BY <1>4 DEF Sweeps
    <2>2. work[w].claim # 0 /\ event' = event
      BY <1>4 DEF Sweeps, ClaimInv
    <2>3. /\ work'[w].claim = work[w].claim
          /\ \A v \in Workers \ {w} : work'[v] = work[v]
      BY <1>0, <2>1
    <2> QED
      BY <1>0, <2>2, <2>3 DEF ClaimInv
  <1> QED
    BY <1>1, <1>2, <1>3, <1>4, CleanupCases

LEMMA HolderStep ==
    ASSUME TypeOK, ImageIsOfItsUpload, GoneInv, ClaimInv, HolderIsUndisturbed,
           [Next]_vars
    PROVE  HolderIsUndisturbed'
  <1>0. /\ event \in Condemnation /\ work \in [Workers -> Run]
        /\ event.claims \in Nat /\ \A w \in Workers : work[w].claim \in Nat
    BY TypeParts, Bounds DEF Condemnation, Run
  <1>1. CASE event' = event /\ work' = work
    BY <1>1 DEF HolderIsUndisturbed
  <1>2. CASE Condemns
    <2>1. ASSUME NEW w \in Workers PROVE work'[w] = NoWork
      BY <1>0, <1>2 DEF Condemns, GoneInv, ClaimInv
    <2> QED
      BY <2>1 DEF HolderIsUndisturbed
  <1>3. CASE Waits
    BY <1>3 DEF Waits, HolderIsUndisturbed
  <1>4. ASSUME NEW w \in Workers, Claims(w) PROVE HolderIsUndisturbed'
    <2>1. event'.status = "PROCESSING"
      BY <1>4 DEF Claims
    <2> QED
      BY <2>1 DEF HolderIsUndisturbed
  <1>5. ASSUME NEW w \in Workers, Ends(w) PROVE HolderIsUndisturbed'
    <2>1. /\ work'[w] = NoWork /\ \A v \in Workers \ {w} : work'[v] = work[v]
          /\ event'.claims = event.claims
      BY <1>0, <1>5 DEF Ends
    <2>2. ASSUME NEW v \in Workers, work'[v].claim = event'.claims, work'[v] # NoWork
          PROVE  event'.status = event.status
      <3>1. v # w /\ work[v].claim = event.claims
        BY <2>1, <2>2
      <3>2. work[w].claim # 0 /\ work[w].claim # work[v].claim
        BY <1>5, <3>1 DEF Ends, ClaimInv
      <3> QED
        BY <1>5, <3>1, <3>2 DEF Ends, Holds
    <2> QED
      BY <2>1, <2>2 DEF HolderIsUndisturbed
  <1>6. ASSUME NEW w \in Workers, Sweeps(w) PROVE HolderIsUndisturbed'
    <2>1. PICK run \in Run : work' = [work EXCEPT ![w] = run] /\ run.claim = work[w].claim
      BY <1>6 DEF Sweeps
    <2>2. work[w] # NoWork /\ event' = event
      BY <1>6 DEF Sweeps
    <2>3. /\ work'[w].claim = work[w].claim
          /\ \A v \in Workers \ {w} : work'[v] = work[v]
      BY <1>0, <2>1
    <2> QED
      BY <2>2, <2>3 DEF HolderIsUndisturbed
  <1> QED
    BY <1>1, <1>2, <1>3, <1>4, <1>5, <1>6, CleanupCases

\* What the event records and what the runs have left only came from the rows.
LEMMA RecordedSteps ==
    ASSUME TypeOK, ImageIsOfItsUpload, [Next]_vars
    PROVE  /\ event'.images \subseteq event.images \cup Paths
           /\ \A w \in Workers : work'[w].images \subseteq work[w].images \cup event.images
  <1>0. work \in [Workers -> Run]
    BY TypeParts
  <1>1. CASE (event' = event /\ work' = work) \/ Condemns \/ Waits
    BY <1>1 DEF Condemns, Waits
  <1>2. ASSUME NEW w \in Workers, Claims(w) \/ Ends(w) \/ Sweeps(w)
        PROVE  /\ event'.images = event.images
               /\ \A v \in Workers :
                     work'[v].images \subseteq work[v].images \cup event.images
    <2>1. \E run \in Run : /\ work' = [work EXCEPT ![w] = run]
                           /\ run.images \subseteq work[w].images \cup event.images
      <3>1. CASE Claims(w)
        BY <3>1 DEF Claims
      <3>2. CASE Ends(w)
        BY <3>2, NoWorkIsRun DEF Ends
      <3>3. CASE Sweeps(w)
        BY <3>3 DEF Sweeps
      <3> QED
        BY <1>2, <3>1, <3>2, <3>3
    <2>2. event'.images = event.images
      BY <1>2 DEF Claims, Ends, Sweeps
    <2> QED
      BY <1>0, <2>1, <2>2
  <1> QED
    BY <1>1, <1>2, CleanupCases

----------------------------------------------------------------------------
(* Rows and objects *)

\* Only a deletion makes something to drop, of its image.
LEMMA DroppingSteps ==
    ASSUME [Next]_vars
    PROVE  \/ dropping' \subseteq dropping
           \/ \E u \in Uploads : DeleteImage(u)
  <1>1. ASSUME NEW r \in Requests, Confirm(r) PROVE dropping' = dropping
    BY <1>1, Zenon DEF Confirm, ReadUpload, FetchBytes, FailUpload, StoreObject, InsertImage,
                       FindImage, RefuseImage, EndConfirmation, CrashConfirmation
  <1>2. ASSUME NEW u \in Uploads, Seller(u) PROVE dropping' = dropping \/ DeleteImage(u)
    BY <1>2, Zenon DEF Seller, CreateUploadAuthorization, PutBytes, UploadLapses, SetPrimary
  <1>3. ASSUME NEW w \in Workers, Cleanup(w) PROVE dropping' = dropping
    BY <1>3, Zenon DEF Cleanup, ClaimGuestCleanupEvent, MarkProcessed, MarkRetryOrFailed,
                       CrashCleanup, SweepImage, SweepTemp
  <1>4. ASSUME NEW p \in Requests, DropObject(p) PROVE dropping' \subseteq dropping
    BY <1>4 DEF DropObject
  <1>5. CASE \/ Submit \/ ReturnToSeller \/ SessionAges
             \/ CondemnExpiredGuestListing \/ HoldEnds \/ RetireAbandoned
    BY <1>5, Zenon DEF Submit, ReturnToSeller, SessionAges, CondemnExpiredGuestListing,
                       HoldEnds, RetireAbandoned
  <1>6. CASE UNCHANGED vars
    BY <1>6 DEF vars
  <1> QED
    BY <1>1, <1>2, <1>3, <1>4, <1>5, <1>6, Zenon DEF Next

LEMMA SpentStep ==
    ASSUME TypeOK, RequestInv, ImageIsOfItsUpload, SpentInv, [Next]_vars
    PROVE  SpentInv'
  <1>0. /\ \A u \in DOMAIN image : image[u].path \in Requests
        /\ event \in Condemnation /\ work \in [Workers -> Run]
        /\ event.images \subseteq Requests /\ dropping \subseteq Requests
        /\ \A w \in Workers : work[w].images \subseteq Requests
    BY TypeParts DEF TypeOK, Row, Condemnation, Run
  <1>1. \A r \in Requests : Ended(r) => Ended(r)'
    BY RequestsOnly DEF RequestsGoOn
  <1>2. ASSUME NEW p \in Paths PROVE p \in Requests /\ Ended(p)
    BY <1>0 DEF SpentInv, Paths
  <1>3. ASSUME NEW u \in DOMAIN image' PROVE Ended(image[u].path)'
    <2>1. CASE RowsKept
      <3>1. image'[u].path = image[u].path /\ u \in DOMAIN image
        BY <2>1 DEF RowsKept
      <3>2. Ended(image[u].path) /\ image[u].path \in Requests
        BY <1>0, <3>1 DEF SpentInv
      <3> QED
        BY <1>1, <3>1, <3>2 DEF Ended
    <2>2. ASSUME NEW r \in Requests, InsertImage(r) PROVE Ended(image[u].path)'
      <3> DEFINE v == request[r].upload
      <3>1. /\ DOMAIN image' = DOMAIN image \cup {v} /\ image'[v].path = r
            /\ \A x \in DOMAIN image : image'[x] = image[x]
        BY <2>2, InsertOf
      <3>2. request'[r].at = "inserted"
        BY <2>2, InsertOf
      <3> HIDE DEF v
      <3>3. CASE u = v
        BY <3>1, <3>2, <3>3 DEF Ended
      <3>4. CASE u \in DOMAIN image
        <4>1. image'[u].path = image[u].path
          BY <3>1, <3>4
        <4>2. Ended(image[u].path) /\ image[u].path \in Requests
          BY <1>0, <3>4 DEF SpentInv
        <4> QED
          BY <1>1, <4>1, <4>2 DEF Ended
      <3> QED
        BY <3>1, <3>3, <3>4
    <2> QED
      BY <2>1, <2>2, RowSteps
  <1>4. ASSUME NEW p \in event'.images PROVE Ended(p)'
    <2>1. p \in event.images \cup Paths
      BY RecordedSteps
    <2>2. p \in Requests /\ Ended(p)
      BY <1>0, <1>2, <2>1 DEF SpentInv
    <2> QED
      BY <1>1, <2>2
  <1>5. ASSUME NEW p \in dropping' PROVE Ended(p)'
    <2>1. p \in dropping \cup Paths
      <3>1. ASSUME NEW u \in Uploads, DeleteImage(u)
            PROVE  dropping' \subseteq dropping \cup Paths
        BY <3>1, DeleteOf DEF DeleteImage, Paths
      <3> QED
        BY <3>1, DroppingSteps
    <2>2. p \in Requests /\ Ended(p)
      BY <1>0, <1>2, <2>1 DEF SpentInv
    <2> QED
      BY <1>1, <2>2
  <1>6. ASSUME NEW w \in Workers, NEW p \in work'[w].images PROVE Ended(p)'
    <2>1. p \in work[w].images \cup event.images
      BY RecordedSteps
    <2>2. p \in Requests /\ Ended(p)
      BY <1>0, <2>1 DEF SpentInv
    <2> QED
      BY <1>1, <2>2
  <1> QED
    BY <1>3, <1>4, <1>5, <1>6 DEF SpentInv

LEMMA PathStep ==
    ASSUME TypeOK, RequestInv, ImageIsOfItsUpload, SpentInv, PathInv, [Next]_vars
    PROVE  PathInv'
  <1>0. \A u \in DOMAIN image : /\ image[u].path \in Requests
                                /\ request'[image[u].path].upload = u
    <2>1. ASSUME NEW u \in DOMAIN image
          PROVE  image[u].path \in Requests /\ request[image[u].path].at # "unused"
      BY TypeParts DEF Row, SpentInv, Ended
    <2> QED
      BY <2>1, RequestsOnly DEF RequestsGoOn, PathInv
  <1>1. CASE RowsKept
    BY <1>0, <1>1 DEF RowsKept, PathInv
  <1>2. ASSUME NEW r \in Requests, InsertImage(r) PROVE PathInv'
    <2> DEFINE v == request[r].upload
    <2>1. /\ DOMAIN image' = DOMAIN image \cup {v} /\ image'[v].path = r
          /\ \A x \in DOMAIN image : image'[x] = image[x]
      BY <1>2, InsertOf
    <2>2. request'[r].upload = v
      BY <1>2, InsertOf
    <2> HIDE DEF v
    <2> QED
      BY <1>0, <2>1, <2>2 DEF PathInv
  <1> QED
    BY <1>1, <1>2, RowSteps

\* Which steps touch the objects of the images bucket.
LEMMA ObjectSteps ==
    ASSUME TypeOK, [Next]_vars
    PROVE  \/ objects' = objects
           \/ \E r \in Requests : \/ StoreObject(r) \/ EndConfirmation(r)
                                  \/ DropObject(r)
           \/ \E w \in Workers : Sweeps(w)
  <1>1. ASSUME NEW r \in Requests, Confirm(r)
        PROVE  objects' = objects \/ StoreObject(r) \/ EndConfirmation(r)
    BY <1>1, Zenon DEF Confirm, ReadUpload, FetchBytes, FailUpload, InsertImage, FindImage,
                       RefuseImage, CrashConfirmation
  <1>2. ASSUME NEW u \in Uploads, Seller(u) PROVE objects' = objects
    BY <1>2, Zenon DEF Seller, CreateUploadAuthorization, PutBytes, UploadLapses,
                       DeleteImage, SetPrimary
  <1>3. ASSUME NEW w \in Workers, Cleanup(w) PROVE objects' = objects \/ Sweeps(w)
    <2>1. CASE \/ ClaimGuestCleanupEvent(w) \/ MarkProcessed(w)
               \/ MarkRetryOrFailed(w) \/ CrashCleanup(w)
      BY <2>1, Zenon DEF ClaimGuestCleanupEvent, MarkProcessed, MarkRetryOrFailed,
                         CrashCleanup
    <2>2. ASSUME NEW u \in Uploads, SweepTemp(w, u) PROVE objects' = objects
      BY <2>2 DEF SweepTemp
    <2>3. ASSUME NEW p \in Requests, SweepImage(w, p) PROVE Sweeps(w)
      BY <2>3, SweepOf
    <2> QED
      BY <1>3, <2>1, <2>2, <2>3, Zenon DEF Cleanup
  <1>4. CASE \/ Submit \/ ReturnToSeller \/ SessionAges
             \/ CondemnExpiredGuestListing \/ HoldEnds \/ RetireAbandoned
    BY <1>4, Zenon DEF Submit, ReturnToSeller, SessionAges, CondemnExpiredGuestListing,
                       HoldEnds, RetireAbandoned
  <1>5. CASE UNCHANGED vars
    BY <1>5 DEF vars
  <1> QED
    BY <1>1, <1>2, <1>3, <1>4, <1>5, Zenon DEF Next

\* Only a confirmation makes an object, its own; what removes one has it from a
\* deletion, is the confirmation that discards it, or has checked the rows.
Removable(p) ==
    \/ p \in dropping \/ request[p].at \in {"refused", "superseded"}
    \/ p \notin Paths /\ Ended(p)

ObjectsMove ==
    /\ \A p \in objects' \ objects : p \in Requests /\ StoreObject(p)
    /\ \A p \in objects \ objects' : Removable(p)

LEMMA ObjectMoves == ASSUME TypeOK, SpentInv, [Next]_vars PROVE ObjectsMove
  <1>1. CASE objects' = objects
    BY <1>1 DEF ObjectsMove
  <1>2. ASSUME NEW r \in Requests, StoreObject(r) PROVE ObjectsMove
    BY <1>2 DEF StoreObject, FinalPath, ObjectsMove
  <1>3. ASSUME NEW r \in Requests, EndConfirmation(r) PROVE ObjectsMove
    <2>1. Deletes(Discarded(r)) /\ Discarded(r) \in SUBSET Requests
      BY <1>3, DiscardedOf DEF EndConfirmation
    <2>2. objects' \subseteq objects /\ objects \ objects' \subseteq Discarded(r)
      BY <2>1, DeletesOf
    <2> QED
      BY <2>2, DiscardedOf DEF ObjectsMove, Removable
  <1>4. ASSUME NEW r \in Requests, DropObject(r) PROVE ObjectsMove
    <2>1. Deletes({r}) /\ {r} \in SUBSET Requests /\ r \in dropping
      BY <1>4 DEF DropObject
    <2>2. objects' \subseteq objects /\ objects \ objects' \subseteq {r}
      BY <2>1, DeletesOf
    <2> QED
      BY <2>1, <2>2 DEF ObjectsMove, Removable
  <1>5. ASSUME NEW w \in Workers, Sweeps(w) PROVE ObjectsMove
    <2>1. /\ objects' \subseteq objects
          /\ objects \ objects' \subseteq work[w].images \ Paths
      BY <1>5 DEF Sweeps
    <2>2. \A p \in work[w].images : Ended(p)
      BY DEF SpentInv
    <2> QED
      BY <2>1, <2>2 DEF ObjectsMove, Removable
  <1> QED
    BY <1>1, <1>2, <1>3, <1>4, <1>5, ObjectSteps

\* A confirmation moves no request but its own.
LEMMA ConfirmsAlone ==
    ASSUME TypeOK, NEW q \in Requests, Confirm(q)
    PROVE  \A r \in Requests \ {q} : request'[r] = request[r]
  <1>0. request \in [Requests -> Confirmation]
    BY TypeParts
  <1>1. ASSUME NEW u \in Uploads, ReadUpload(q, u)
        PROVE  \A r \in Requests \ {q} : request'[r] = request[r]
    BY <1>0, <1>1 DEF ReadUpload
  <1>2. CASE MovesOn(q)
    <2>1. PICK step \in Steps : Moves(q, step)
      BY <1>2 DEF MovesOn
    <2> QED
      BY <2>1, Moved
  <1> QED
    BY <1>1, <1>2, ConfirmMoves

\* Where a confirmation that has stored its object comes from and goes to.
LEMMA StoredSteps ==
    ASSUME TypeOK, [Next]_vars, NEW r \in Requests
    PROVE  /\ At(r, "stored")' => At(r, "stored") \/ StoreObject(r)
           /\ request[r].at \in {"stored", "superseded", "refused"} =>
                 \/ request'[r].at \in {"stored", "superseded", "refused"}
                 \/ InsertImage(r) \/ EndConfirmation(r) \/ CrashConfirmation(r)
  <1>0. request \in [Requests -> Confirmation]
    BY TypeParts
  <1>1. CASE request'[r] = request[r]
    BY <1>1 DEF At
  <1>2. ASSUME NEW q \in Requests, Confirm(q), q # r PROVE request'[r] = request[r]
    BY <1>2, ConfirmsAlone
  <1>3. CASE Confirm(r)
    <2>1. ASSUME NEW u \in Uploads, ReadUpload(r, u)
          PROVE  ~At(r, "stored")' /\ request[r].at = "unused"
      BY <1>0, <2>1 DEF ReadUpload, At
    <2>2. CASE FetchBytes(r)
      <3>1. \E step \in {"failing", "fetched", "done"} : Moves(r, step)
        BY <2>2, Zenon DEF FetchBytes
      <3>2. request'[r].at \in {"failing", "fetched", "done"}
        BY <3>1, Moved DEF Steps
      <3> QED
        BY <2>2, <3>2 DEF FetchBytes, At
    <2>3. CASE FailUpload(r)
      <3>1. request'[r].at = "done"
        BY <2>3, Moved DEF FailUpload, Steps
      <3> QED
        BY <2>3, <3>1 DEF FailUpload, At
    <2>4. CASE FindImage(r) \/ RefuseImage(r)
      <3>1. request'[r].at \in {"superseded", "refused"}
        BY <2>4, Moved DEF FindImage, RefuseImage, Steps
      <3> QED
        BY <3>1 DEF At
    <2>5. CASE InsertImage(r)
      <3>1. Moves(r, "inserted")
        BY <2>5 DEF InsertImage
      <3> QED
        BY <2>5, <3>1, Moved DEF Steps, At
    <2>6. CASE EndConfirmation(r) \/ CrashConfirmation(r)
      <3>1. Moves(r, "done")
        BY <2>6 DEF EndConfirmation, CrashConfirmation
      <3> QED
        BY <2>6, <3>1, Moved DEF Steps, At
    <2>7. CASE StoreObject(r)
      BY <2>7 DEF StoreObject, At
    <2> QED
      BY <1>3, <2>1, <2>2, <2>3, <2>4, <2>5, <2>6, <2>7 DEF Confirm
  <1> QED
    BY <1>1, <1>2, <1>3, RequestSteps

LEMMA PathsAreSpent ==
    ASSUME TypeOK, SpentInv
    PROVE  \A u \in DOMAIN image : image[u].path \in Requests /\ Ended(image[u].path)
BY TypeParts DEF SpentInv, Row

LEMMA StoreStep ==
    ASSUME TypeOK, RequestInv, ImageIsOfItsUpload, SpentInv, PathInv, StoreInv,
           [Next]_vars
    PROVE  StoreInv'
  <1>1. ASSUME NEW r \in Requests, At(r, "stored")' PROVE r \in objects'
    <2>1. CASE StoreObject(r)
      BY <2>1 DEF StoreObject, FinalPath
    <2>2. CASE At(r, "stored")
      <3>1. r \in objects /\ ~Removable(r)
        BY <2>2 DEF StoreInv, Removable, SpentInv, Ended, At
      <3> QED
        BY <3>1, ObjectMoves DEF ObjectsMove
    <2> QED
      BY <1>1, <2>1, <2>2, StoredSteps
  <1>2. ASSUME NEW u \in DOMAIN image' PROVE image'[u].path \notin dropping'
    <2>1. ASSUME NEW r \in Requests, InsertImage(r) PROVE image'[u].path \notin dropping'
      <3> DEFINE v == request[r].upload
      <3>1. /\ DOMAIN image' = DOMAIN image \cup {v} /\ image'[v].path = r
            /\ \A x \in DOMAIN image : image'[x] = image[x]
            /\ request[r].at = "stored"
        BY <2>1, InsertOf
      <3>2. dropping' = dropping /\ r \notin dropping
        BY <2>1, <3>1 DEF InsertImage, SpentInv, Ended
      <3> HIDE DEF v
      <3> QED
        BY <3>1, <3>2 DEF StoreInv
    <2>2. ASSUME NEW v \in Uploads, DeleteImage(v) PROVE image'[u].path \notin dropping'
      <3>1. /\ v \in DOMAIN image /\ u \in DOMAIN image \ {v}
            /\ image'[u].path = image[u].path
        BY <2>2, DeleteOf
      <3>2. dropping' = dropping \cup {image[v].path}
        BY <2>2 DEF DeleteImage
      <3>3. image[u].path # image[v].path
        BY <3>1 DEF PathInv
      <3> QED
        BY <3>1, <3>2, <3>3 DEF StoreInv
    <2>3. CASE RowsKept /\ dropping' \subseteq dropping
      BY <2>3 DEF RowsKept, StoreInv
    <2> QED
      BY <2>1, <2>2, <2>3, RowSteps, DroppingSteps
  <1> QED
    BY <1>1, <1>2 DEF StoreInv

LEMMA HasStep ==
    ASSUME TypeOK, RequestInv, ImageIsOfItsUpload, SpentInv, StoreInv,
           ImageHasItsObject, [Next]_vars
    PROVE  ImageHasItsObject'
  <1>1. ASSUME NEW u \in DOMAIN image PROVE image[u].path \in objects'
    <2>1. /\ image[u].path \in objects /\ image[u].path \notin dropping
          /\ image[u].path \in Paths /\ Ended(image[u].path)
      BY PathsAreSpent DEF ImageHasItsObject, StoreInv, Paths
    <2>2. ~Removable(image[u].path)
      BY <2>1 DEF Removable, Ended
    <2> QED
      BY <2>1, <2>2, ObjectMoves DEF ObjectsMove
  <1>2. CASE RowsKept
    BY <1>1, <1>2 DEF RowsKept, ImageHasItsObject
  <1>3. ASSUME NEW r \in Requests, InsertImage(r) PROVE ImageHasItsObject'
    <2> DEFINE v == request[r].upload
    <2>1. /\ DOMAIN image' = DOMAIN image \cup {v} /\ image'[v].path = r
          /\ \A x \in DOMAIN image : image'[x] = image[x]
          /\ request[r].at = "stored"
      BY <1>3, InsertOf
    <2>2. r \in objects'
      BY <1>3, <2>1 DEF InsertImage, StoreInv, At
    <2> HIDE DEF v
    <2> QED
      BY <1>1, <2>1, <2>2 DEF ImageHasItsObject
  <1> QED
    BY <1>2, <1>3, RowSteps

LEMMA SweptStep ==
    ASSUME TypeOK, ImageIsOfItsUpload, SpentInv, GoneInv, ClaimInv, SweptInv,
           [Next]_vars
    PROVE  SweptInv'
  <1>0. work \in [Workers -> Run]
    BY TypeParts
  <1>1. \A p \in event.images : p \in objects' => p \in objects
    <2>1. ASSUME NEW p \in event.images PROVE ~(p \in Requests /\ StoreObject(p))
      BY DEF SpentInv, Ended, StoreObject, At
    <2> QED
      BY <2>1, ObjectMoves DEF ObjectsMove
  <1>2. ASSUME event'.images = event.images,
               NEW w \in Workers, work'[w] = work[w], work'[w].claim # 0
        PROVE  objects' \cap event'.images \subseteq work'[w].images
    BY <1>1, <1>2 DEF SweptInv
  <1>3. CASE (event' = event /\ work' = work) \/ Waits
    BY <1>2, <1>3 DEF Waits, SweptInv
  <1>4. CASE Condemns
    <2>1. ASSUME NEW w \in Workers PROVE work'[w].claim = 0
      <3>1. event.claims = 0 /\ work[w].claim <= event.claims /\ work' = work
        BY <1>4 DEF Condemns, GoneInv, ClaimInv
      <3>2. work[w].claim \in Nat
        BY <1>0, Bounds DEF Run
      <3> QED
        BY <3>1, <3>2
    <2> QED
      BY <2>1 DEF SweptInv
  <1>5. ASSUME NEW w \in Workers, Claims(w) PROVE SweptInv'
    <2>1. PICK run \in Run : work' = [work EXCEPT ![w] = run] /\ run.images = event.images
      BY <1>5 DEF Claims
    <2>2. /\ work'[w].images = event.images /\ event'.images = event.images
          /\ \A v \in Workers \ {w} : work'[v] = work[v]
      BY <1>0, <1>5, <2>1 DEF Claims
    <2> QED
      BY <1>2, <2>2 DEF SweptInv
  <1>6. ASSUME NEW w \in Workers, Ends(w) PROVE SweptInv'
    <2>1. /\ work'[w].claim = 0 /\ event'.images = event.images
          /\ \A v \in Workers \ {w} : work'[v] = work[v]
      BY <1>0, <1>6, NoWorkIsRun DEF Ends
    <2> QED
      BY <1>2, <2>1 DEF SweptInv
  <1>7. ASSUME NEW w \in Workers, Sweeps(w) PROVE SweptInv'
    <2>1. PICK run \in Run :
             /\ work' = [work EXCEPT ![w] = run]
             /\ \A p \in work[w].images \ run.images : p \in objects' => p \in Paths
      BY <1>7 DEF Sweeps
    <2>2. /\ work'[w].images = run.images /\ event' = event /\ work[w].claim # 0
          /\ \A v \in Workers \ {w} : work'[v] = work[v]
      BY <1>0, <1>7, <2>1 DEF Sweeps, ClaimInv
    <2>3. Paths = {}
      <3>1. event.claims # 0
        BY <1>0, <2>2, TypeParts, Bounds DEF ClaimInv, Run, Condemnation
      <3> QED
        BY <3>1 DEF GoneInv, Paths
    <2>4. objects' \cap event.images \subseteq work'[w].images
      BY <1>1, <2>1, <2>2, <2>3 DEF SweptInv
    <2> QED
      BY <1>2, <2>2, <2>4 DEF SweptInv
  <1> QED
    BY <1>3, <1>4, <1>5, <1>6, <1>7, CleanupCases

\* Where an object nothing names may come from.
Confirming(p) == request[p].at \in {"stored", "superseded", "refused"}
Recorded(p) == p \in event.images /\ event.status # "PROCESSED"
Explained(p) ==
    p \in Paths \/ p \in dropping \/ p \in abandoned \/ Confirming(p) \/ Recorded(p)

LEMMA OrphansExplained ==
    ASSUME TypeOK PROVE OrphansAreExplained <=> \A p \in objects : Explained(p)
BY DEF OrphansAreExplained, Explained, Confirming, Recorded, FinalPath, TypeOK

LEMMA PathsStay ==
    ASSUME TypeOK, RequestInv, ImageIsOfItsUpload, [Next]_vars, NEW p \in Paths
    PROVE  p \in Paths' \/ p \in dropping' \/ Recorded(p)'
  <1>1. PICK u \in DOMAIN image : p = image[u].path
    BY DEF Paths
  <1>2. CASE image' = image
    BY <1>2 DEF Paths
  <1>3. ASSUME NEW r \in Requests, InsertImage(r) PROVE p \in Paths'
    <2> DEFINE v == request[r].upload
    <2>1. /\ DOMAIN image' = DOMAIN image \cup {v}
          /\ \A x \in DOMAIN image : image'[x] = image[x]
      BY <1>3, InsertOf
    <2> HIDE DEF v
    <2> QED
      BY <1>1, <2>1 DEF Paths
  <1>4. ASSUME NEW v \in Uploads, DeleteImage(v) PROVE p \in Paths' \/ p \in dropping'
    <2>1. /\ DOMAIN image' = DOMAIN image \ {v}
          /\ \A x \in DOMAIN image' : image'[x].path = image[x].path
          /\ dropping' = dropping \cup {image[v].path}
      BY <1>4, DeleteOf DEF DeleteImage
    <2>2. CASE u = v
      BY <1>1, <2>1, <2>2
    <2>3. CASE u # v
      BY <1>1, <2>1, <2>3 DEF Paths
    <2> QED
      BY <2>2, <2>3
  <1>5. ASSUME NEW v \in Uploads, SetPrimary(v) PROVE p \in Paths'
    BY <1>1, <1>5, SetOf DEF Paths
  <1>6. CASE CondemnExpiredGuestListing
    BY <1>1, <1>6, CondemnsOf DEF Condemns, Recorded
  <1> QED
    BY <1>2, <1>3, <1>4, <1>5, <1>6, ImageSteps

\* What a fault leaves stays known, and what is dropped goes or becomes known.
LEMMA DroppedSteps ==
    ASSUME TypeOK, [Next]_vars
    PROVE  /\ abandoned \subseteq abandoned'
           /\ \A p \in dropping : p \in dropping' \/ p \notin objects' \/ p \in abandoned'
  <1>1. ASSUME NEW r \in Requests, Confirm(r)
        PROVE  abandoned \subseteq abandoned' /\ dropping' = dropping
    <2>1. CASE EndConfirmation(r)
      <3>1. /\ Deletes(Discarded(r)) /\ Discarded(r) \in SUBSET Requests
            /\ dropping' = dropping
        BY <2>1, DiscardedOf DEF EndConfirmation
      <3> QED
        BY <3>1, DeletesOf
    <2>2. CASE CrashConfirmation(r)
      BY <2>2 DEF CrashConfirmation
    <2>3. CASE ~EndConfirmation(r) /\ ~CrashConfirmation(r)
      <3>1. abandoned' = abandoned /\ dropping' = dropping
        BY <1>1, <2>3, Zenon DEF Confirm, ReadUpload, FetchBytes, FailUpload, StoreObject,
                                 InsertImage, FindImage, RefuseImage
      <3> QED
        BY <3>1
    <2> QED
      BY <2>1, <2>2, <2>3
  <1>2. ASSUME NEW u \in Uploads, Seller(u)
        PROVE  abandoned \subseteq abandoned' /\ dropping \subseteq dropping'
    BY <1>2 DEF Seller, CreateUploadAuthorization, PutBytes, UploadLapses, DeleteImage,
                SetPrimary
  <1>3. ASSUME NEW w \in Workers, Cleanup(w)
        PROVE  abandoned' = abandoned /\ dropping' = dropping
    BY <1>3, Zenon DEF Cleanup, ClaimGuestCleanupEvent, MarkProcessed, MarkRetryOrFailed,
                       CrashCleanup, SweepImage, SweepTemp
  <1>4. ASSUME NEW q \in Requests, DropObject(q)
        PROVE  /\ abandoned \subseteq abandoned'
               /\ \A p \in dropping :
                     p \in dropping' \/ p \notin objects' \/ p \in abandoned'
    <2>1. Deletes({q}) /\ {q} \in SUBSET Requests /\ dropping' = dropping \ {q}
      BY <1>4 DEF DropObject
    <2>2. abandoned \subseteq abandoned' /\ {q} \cap objects' \subseteq abandoned'
      BY <2>1, DeletesOf
    <2> QED
      BY <2>1, <2>2
  <1>5. CASE \/ Submit \/ ReturnToSeller \/ SessionAges
             \/ CondemnExpiredGuestListing \/ HoldEnds \/ RetireAbandoned
    <2>1. abandoned' = abandoned /\ dropping' = dropping
      BY <1>5, Zenon DEF Submit, ReturnToSeller, SessionAges, CondemnExpiredGuestListing,
                         HoldEnds, RetireAbandoned
    <2> QED
      BY <2>1
  <1>6. CASE UNCHANGED vars
    BY <1>6 DEF vars
  <1> QED
    BY <1>1, <1>2, <1>3, <1>4, <1>5, <1>6, Zenon DEF Next

LEMMA ConfirmingSteps ==
    ASSUME TypeOK, RequestInv, ImageIsOfItsUpload, [Next]_vars,
           NEW p \in Requests, Confirming(p)
    PROVE  Confirming(p)' \/ p \in Paths' \/ p \notin objects' \/ p \in abandoned'
  <1>1. CASE InsertImage(p)
    <2> DEFINE u == request[p].upload
    <2>1. DOMAIN image' = DOMAIN image \cup {u} /\ image'[u].path = p
      BY <1>1, InsertOf
    <2> HIDE DEF u
    <2> QED
      BY <2>1 DEF Paths
  <1>2. CASE EndConfirmation(p)
    <2>1. Discarded(p) = {p} /\ Deletes({p})
      BY <1>2, DiscardedOf DEF EndConfirmation, Confirming
    <2>2. {p} \cap objects' \subseteq abandoned'
      BY <2>1, DeletesOf
    <2> QED
      BY <2>2
  <1>3. CASE CrashConfirmation(p)
    BY <1>3 DEF CrashConfirmation, Confirming, FinalPath
  <1> QED
    BY <1>1, <1>2, <1>3, StoredSteps DEF Confirming

LEMMA RecordedStays ==
    ASSUME TypeOK, ImageIsOfItsUpload, GoneInv, ClaimInv, SweptInv, [Next]_vars,
           NEW p \in objects, Recorded(p)
    PROVE  Recorded(p)'
  <1>0. p \in event.images /\ event.status # "PROCESSED"
    BY DEF Recorded
  <1>1. CASE event' = event \/ Waits
    BY <1>0, <1>1 DEF Waits, Recorded
  <1>2. CASE Condemns
    BY <1>0, <1>2 DEF Condemns, GoneInv
  <1>3. ASSUME NEW w \in Workers, Claims(w) PROVE Recorded(p)'
    BY <1>0, <1>3 DEF Claims, Recorded
  <1>4. ASSUME NEW w \in Workers, Ends(w) PROVE Recorded(p)'
    <2>1. work[w].images # {}
      <3>1. work[w].claim # 0
        BY <1>4 DEF Ends, ClaimInv
      <3> QED
        BY <1>0, <3>1 DEF SweptInv
    <2> QED
      BY <1>0, <1>4, <2>1 DEF Ends, Recorded
  <1>5. ASSUME NEW w \in Workers, Sweeps(w) PROVE Recorded(p)'
    BY <1>1, <1>5 DEF Sweeps
  <1> QED
    BY <1>1, <1>2, <1>3, <1>4, <1>5, CleanupCases

LEMMA OrphanStep ==
    ASSUME TypeOK, RequestInv, ImageIsOfItsUpload, SpentInv, GoneInv, ClaimInv,
           SweptInv, OrphansAreExplained, [Next]_vars
    PROVE  OrphansAreExplained'
  <1>0. TypeOK'
    BY TypeStep
  <1>1. ASSUME NEW p \in objects' PROVE Explained(p)'
    <2>0. objects \subseteq Requests /\ \A q \in objects : Explained(q)
      BY OrphansExplained DEF TypeOK
    <2>1. CASE p \notin objects
      <3>1. p \in Requests /\ StoreObject(p)
        BY <1>1, <2>1, ObjectMoves DEF ObjectsMove
      <3>2. request'[p].at = "stored"
        BY <3>1, Moved DEF StoreObject, Steps
      <3> QED
        BY <3>2 DEF Explained, Confirming
    <2>2. CASE p \in objects
      <3>0. p \in Requests /\ Explained(p)
        BY <2>0, <2>2
      <3>1. CASE p \in Paths
        BY <3>1, PathsStay DEF Explained
      <3>2. CASE p \in dropping \/ p \in abandoned
        BY <1>1, <3>2, DroppedSteps DEF Explained
      <3>3. CASE Confirming(p)
        BY <1>1, <3>0, <3>3, ConfirmingSteps DEF Explained
      <3>4. CASE Recorded(p)
        BY <2>2, <3>4, RecordedStays DEF Explained
      <3> QED
        BY <3>0, <3>1, <3>2, <3>3, <3>4, Zenon DEF Explained
    <2> QED
      BY <2>1, <2>2
  <1>2. TypeOK' => (OrphansAreExplained' <=> \A p \in objects' : Explained(p)')
    BY DEF OrphansAreExplained, Explained, Confirming, Recorded, FinalPath, TypeOK
  <1> QED
    BY <1>0, <1>1, <1>2

----------------------------------------------------------------------------
(* The gallery *)

LEMMA PrimaryStep ==
    ASSUME TypeOK, RequestInv, ImageIsOfItsUpload, OnePrimary, [Next]_vars
    PROVE  OnePrimary'
  <1>0. image \in [DOMAIN image -> Row]
    BY TypeParts
  <1>1. CASE image' = image
    BY <1>1 DEF OnePrimary
  <1>2. ASSUME NEW r \in Requests, InsertImage(r) PROVE OnePrimary'
    <2> DEFINE u == request[r].upload
    <2>1. /\ DOMAIN image' = DOMAIN image \cup {u} /\ u \notin DOMAIN image
          /\ image'[u].primary = (DOMAIN image = {})
          /\ \A x \in DOMAIN image : image'[x] = image[x]
      BY <1>2, InsertOf
    <2> HIDE DEF u
    <2>2. CASE DOMAIN image = {}
      BY <2>1, <2>2 DEF OnePrimary
    <2>3. CASE DOMAIN image # {}
      <3>1. PICK v \in DOMAIN image : /\ image[v].primary
                                      /\ \A x \in DOMAIN image : image[x].primary => x = v
        BY <2>3 DEF OnePrimary
      <3> QED
        BY <2>1, <2>3, <3>1 DEF OnePrimary
    <2> QED
      BY <2>2, <2>3
  <1>3. ASSUME NEW u \in Uploads, DeleteImage(u) PROVE OnePrimary'
    <2>1. u \in DOMAIN image /\ DOMAIN image' = DOMAIN image \ {u}
      BY <1>3, DeleteOf
    <2>2. PICK p \in DOMAIN image : /\ image[p].primary
                                    /\ \A x \in DOMAIN image : image[x].primary => x = p
      BY <2>1 DEF OnePrimary
    <2>3. CASE image[u].primary /\ DOMAIN image # {u}
      <3>1. PICK v \in DOMAIN image' : /\ image'[v].primary
                                       /\ \A x \in DOMAIN image' \ {v} :
                                             image'[x] = image[x]
        BY <1>3, <2>3, DeleteOf
      <3> QED
        BY <2>1, <2>2, <2>3, <3>1 DEF OnePrimary
    <2>4. CASE DOMAIN image = {u}
      BY <2>1, <2>4 DEF OnePrimary
    <2>5. CASE ~image[u].primary
      <3>1. \A x \in DOMAIN image' : image'[x] = image[x]
        BY <1>3, <2>5, DeleteOf
      <3> QED
        BY <2>1, <2>2, <2>5, <3>1 DEF OnePrimary
    <2> QED
      BY <2>3, <2>4, <2>5
  <1>4. ASSUME NEW u \in Uploads, SetPrimary(u) PROVE OnePrimary'
    BY <1>4, SetOf DEF OnePrimary
  <1>5. CASE CondemnExpiredGuestListing
    BY <1>5 DEF CondemnExpiredGuestListing, OnePrimary
  <1> QED
    BY <1>1, <1>2, <1>3, <1>4, <1>5, ImageSteps

LEMMA FitsStep ==
    ASSUME TypeOK, RequestInv, ImageIsOfItsUpload, GalleryFits, [Next]_vars
    PROVE  GalleryFits'
  <1>0. /\ IsFiniteSet(DOMAIN image) /\ Cardinality(DOMAIN image) <= ImageMax
        /\ Cardinality(DOMAIN image) \in Nat /\ ImageMax \in Nat
    BY Bounds, FS_CardinalityType DEF GalleryFits
  <1>1. CASE RowsKept
    <2>1. /\ IsFiniteSet(DOMAIN image')
          /\ Cardinality(DOMAIN image') <= Cardinality(DOMAIN image)
      BY <1>0, <1>1, FS_Subset DEF RowsKept
    <2>2. Cardinality(DOMAIN image') \in Nat
      BY <2>1, FS_CardinalityType
    <2> QED
      BY <1>0, <2>1, <2>2 DEF GalleryFits
  <1>2. ASSUME NEW r \in Requests, InsertImage(r) PROVE GalleryFits'
    <2> DEFINE u == request[r].upload
    <2>1. /\ DOMAIN image' = DOMAIN image \cup {u} /\ u \notin DOMAIN image
          /\ Cardinality(DOMAIN image) < ImageMax
      BY <1>2, InsertOf
    <2> HIDE DEF u
    <2>2. /\ IsFiniteSet(DOMAIN image \cup {u})
          /\ Cardinality(DOMAIN image \cup {u}) = Cardinality(DOMAIN image) + 1
      BY <1>0, <2>1, FS_AddElement
    <2> QED
      BY <1>0, <2>1, <2>2 DEF GalleryFits
  <1> QED
    BY <1>1, <1>2, RowSteps

----------------------------------------------------------------------------
(* The theorems *)

LEMMA Start == Init => IInv
  <1> SUFFICES ASSUME Init PROVE IInv
    OBVIOUS
  <1>1. DOMAIN image = {} /\ Paths = {}
    BY DEF Init, Paths
  <1>2. TypeOK
    BY <1>1, Bounds DEF Init, TypeOK, UploadRow, Idle, NoWork
  <1>3. RequestInv /\ SpentInv /\ PathInv /\ StoreInv /\ GoneInv
    BY <1>1 DEF Init, RequestInv, SpentInv, PathInv, StoreInv, GoneInv, Idle, NoWork, At
  <1>4. ClaimInv /\ SweptInv /\ HolderIsUndisturbed
    BY DEF Init, ClaimInv, SweptInv, HolderIsUndisturbed, NoWork
  <1>5. ImageHasItsObject /\ ImageIsOfItsUpload /\ OrphansAreExplained /\ OnePrimary
    BY <1>1 DEF Init, ImageHasItsObject, ImageIsOfItsUpload, OrphansAreExplained, OnePrimary
  <1>6. GalleryFits
    BY <1>1, Bounds, FS_EmptySet DEF GalleryFits
  <1> QED
    BY <1>2, <1>3, <1>4, <1>5, <1>6 DEF IInv

LEMMA Step == IInv /\ [Next]_vars => IInv'
  <1> SUFFICES ASSUME IInv, [Next]_vars PROVE IInv'
    OBVIOUS
  <1> USE DEF IInv
  <1>1. TypeOK' /\ RequestInv' /\ ImageIsOfItsUpload'
    BY TypeStep, RequestStep, ImageOfUpload DEF UploadsFit
  <1>2. SpentInv' /\ PathInv' /\ StoreInv'
    BY SpentStep, PathStep, StoreStep
  <1>3. GoneInv' /\ ClaimInv' /\ SweptInv' /\ HolderIsUndisturbed'
    BY GoneStep, ClaimStep, SweptStep, HolderStep
  <1>4. ImageHasItsObject' /\ OrphansAreExplained'
    BY HasStep, OrphanStep
  <1>5. OnePrimary' /\ GalleryFits'
    BY PrimaryStep, FitsStep
  <1> QED
    BY <1>1, <1>2, <1>3, <1>4, <1>5

\* The invariant of a draft's images holds, for any uploads, confirmations and
\* cleanup runs (listing-images.ts, guest-draft-cleanup.ts).
THEOREM Inductive == Spec => []IInv
BY Start, Step, PTL DEF Spec

\* Every variable keeps its type.
THEOREM DraftTypeCorrect == Spec => []TypeOK
  <1>1. IInv => TypeOK
    BY DEF IInv
  <1> QED
    BY <1>1, Inductive, PTL

----------------------------------------------------------------------------
(* The refinement of ImageLife *)

phases == [r \in Requests |-> PhaseOf(r)]

\* How the phase of one object may change on its own.
Edges == {<<"none", "loose">>, <<"none", "over">>, <<"loose", "named">>,
          <<"loose", "dropped">>, <<"loose", "over">>, <<"dropped", "over">>}

\* All phases but those of some objects stay.
OthersKeep(os) == \A q \in Requests \ os : PhaseOf(q)' = PhaseOf(q)

\* A step that moves one object along an edge is a step of ImageLife.
LEMMA OneMoves ==
    ASSUME NEW r \in Requests, OthersKeep({r}),
           PhaseOf(r)' = PhaseOf(r) \/ <<PhaseOf(r), PhaseOf(r)'>> \in Edges
    PROVE  [Life!LifeNext]_phases
  <1>1. CASE PhaseOf(r)' = PhaseOf(r)
    <2>1. \A q \in Requests : PhaseOf(q)' = PhaseOf(q)
      BY <1>1 DEF OthersKeep
    <2> QED
      BY <2>1 DEF phases
  <1>2. CASE <<PhaseOf(r), PhaseOf(r)'>> \in Edges
    <2> DEFINE from == PhaseOf(r)
               to == PhaseOf(r)'
    <2>1. phases \in [Requests -> {phases[q] : q \in Requests}] /\ phases[r] = from
      BY DEF phases
    <2>2. phases' = [phases EXCEPT ![r] = to]
      BY DEF phases, OthersKeep
    <2>3. <<from, to>> \in Edges
      BY <1>2
    <2> HIDE DEF from, to
    <2>4. \/ (from = "none" /\ to = "loose") \/ (from = "none" /\ to = "over")
          \/ (from = "loose" /\ to = "named") \/ (from = "loose" /\ to = "dropped")
          \/ (from \in {"loose", "dropped"} /\ to = "over")
      BY <2>3 DEF Edges
    <2>5. \/ Life!Store(r) \/ Life!Forgo(r) \/ Life!Name(r) \/ Life!Leave(r)
          \/ Life!Remove(r)
      BY <2>1, <2>2, <2>4
         DEF phases, Life!Store, Life!Forgo, Life!Name, Life!Leave, Life!Remove,
             Life!Advance
    <2> QED
      BY <2>5 DEF Life!LifeNext
  <1> QED
    BY <1>1, <1>2

\* What leaves images, objects and requests alone is a stutter.
LEMMA NoneMoves ==
    ASSUME Paths' = Paths, objects' = objects, request' = request
    PROVE  [Life!LifeNext]_phases
  <1>1. \A q \in Requests : PhaseOf(q)' = PhaseOf(q)
    BY DEF PhaseOf, Ended
  <1> QED
    BY <1>1 DEF phases

\* Objects that agree on what the phase is computed from.
LEMMA SamePhase ==
    ASSUME NEW q \in Requests, q \in Paths' <=> q \in Paths,
           q \in objects' <=> q \in objects, Ended(q)' <=> Ended(q)
    PROVE  PhaseOf(q)' = PhaseOf(q)
BY DEF PhaseOf

\* A named object is there, and its confirmation is over.
LEMMA NamedOf ==
    ASSUME IInv
    PROVE  Paths \subseteq Requests /\ \A p \in Paths : p \in objects /\ Ended(p)
BY PathsAreSpent DEF IInv, Paths, ImageHasItsObject

\* Letting go of some named objects at once, and of nothing else, is a Release.
LEMMA Releases ==
    ASSUME IInv, NEW os \in SUBSET Paths, os # {}, Paths' = Paths \ os,
           objects' = objects, request' = request
    PROVE  Life!LifeNext
  <1>1. os \in SUBSET Requests /\ \A p \in Paths : p \in objects /\ Ended(p)
    BY NamedOf
  <1>2. \A p \in os : PhaseOf(p) = "named" /\ PhaseOf(p)' = "dropped"
    BY <1>1 DEF PhaseOf, Ended
  <1>3. \A q \in Requests \ os : PhaseOf(q)' = PhaseOf(q)
    BY DEF PhaseOf, Ended
  <1>4. /\ \A o \in os : phases[o] = "named"
        /\ phases' = [o \in Requests |-> IF o \in os THEN "dropped" ELSE phases[o]]
    BY <1>1, <1>2, <1>3 DEF phases
  <1>5. Life!Release(os)
    BY <1>4 DEF phases, Life!Release
  <1> QED
    BY <1>1, <1>5 DEF Life!LifeNext

\* The transaction of a confirmation names its own object.
LEMMA InsertNames ==
    ASSUME IInv, NEW r \in Requests, InsertImage(r) PROVE [Life!LifeNext]_phases
  <1> DEFINE u == request[r].upload
  <1>1. /\ DOMAIN image' = DOMAIN image \cup {u} /\ image'[u].path = r
        /\ \A x \in DOMAIN image : image'[x] = image[x]
        /\ request[r].at = "stored" /\ request'[r].at = "inserted"
    BY InsertOf DEF IInv
  <1> HIDE DEF u
  <1>2. Paths' = Paths \cup {r}
    BY <1>1 DEF Paths
  <1>3. r \in objects /\ r \notin Paths /\ objects' = objects /\ Confirm(r)
    BY <1>1, NamedOf DEF IInv, StoreInv, At, Ended, InsertImage, Confirm
  <1>4. \A q \in Requests \ {r} : request'[q] = request[q]
    BY <1>3, ConfirmsAlone DEF IInv
  <1>5. OthersKeep({r})
    BY <1>2, <1>3, <1>4, SamePhase DEF OthersKeep, Ended
  <1>6. PhaseOf(r) = "loose" /\ PhaseOf(r)' = "named"
    BY <1>1, <1>2, <1>3 DEF PhaseOf, Ended
  <1> QED
    BY <1>5, <1>6, OneMoves DEF Edges

\* The phases of a confirmation that inserts nothing: its object comes before
\* its transaction is over, and goes with that.
LEMMA ConfirmLives ==
    ASSUME IInv, [Next]_vars, NEW r \in Requests, Confirm(r), ~InsertImage(r)
    PROVE  [Life!LifeNext]_phases
  <1>1. image' = image
    BY Zenon DEF Confirm, ReadUpload, FetchBytes, FailUpload, StoreObject, FindImage,
                 RefuseImage, EndConfirmation, CrashConfirmation
  <1>2. Paths' = Paths /\ \A p \in Paths : p \in objects /\ Ended(p)
    BY <1>1, NamedOf DEF Paths
  <1>3. \A q \in Requests \ {r} : request'[q] = request[q]
    BY ConfirmsAlone DEF IInv
  <1>4. Ended(r) => Ended(r)'
    BY RequestsOnly DEF IInv, RequestsGoOn
  <1>5. CASE StoreObject(r)
    <2>1. objects' = objects \cup {r} /\ ~Ended(r) /\ Moves(r, "stored")
      BY <1>5 DEF StoreObject, FinalPath, At, Ended
    <2>2. ~Ended(r)'
      BY <2>1, Moved DEF IInv, Steps, Ended
    <2>3. OthersKeep({r})
      BY <1>2, <1>3, <2>1, SamePhase DEF OthersKeep, Ended
    <2>4. PhaseOf(r)' = "loose" /\ PhaseOf(r) \in {"none", "loose"}
      BY <1>2, <2>1, <2>2 DEF PhaseOf
    <2> QED
      BY <2>3, <2>4, OneMoves DEF Edges
  <1>6. CASE EndConfirmation(r)
    <2>1. Deletes(Discarded(r)) /\ Discarded(r) \in SUBSET Requests
      BY <1>6, DiscardedOf DEF EndConfirmation
    <2>2. /\ objects' \subseteq objects /\ objects \ objects' \subseteq {r}
          /\ Ended(r) => objects' = objects
      BY <2>1, DeletesOf, DiscardedOf DEF IInv, Ended
    <2>3. Ended(r)'
      BY <1>6, Moved DEF EndConfirmation, IInv, Steps, Ended
    <2>4. OthersKeep({r})
      BY <1>2, <1>3, <2>2, SamePhase DEF OthersKeep, Ended
    <2>5. CASE Ended(r)
      <3>1. PhaseOf(r)' = PhaseOf(r)
        BY <1>2, <2>2, <2>3, <2>5, SamePhase
      <3> QED
        BY <2>4, <3>1, OneMoves
    <2>6. CASE ~Ended(r)
      <3>1. /\ PhaseOf(r) \in {"none", "loose"}
            /\ PhaseOf(r)' \in {"dropped", "over"}
            /\ PhaseOf(r) = "none" => PhaseOf(r)' = "over"
        BY <1>2, <2>2, <2>3, <2>6 DEF PhaseOf
      <3> QED
        BY <2>4, <3>1, OneMoves DEF Edges
    <2> QED
      BY <2>5, <2>6
  <1>7. CASE objects' = objects
    <2>1. OthersKeep({r})
      BY <1>2, <1>3, <1>7, SamePhase DEF OthersKeep, Ended
    <2>2. CASE Ended(r)' <=> Ended(r)
      <3>1. PhaseOf(r)' = PhaseOf(r)
        BY <1>2, <1>7, <2>2, SamePhase
      <3> QED
        BY <2>1, <3>1, OneMoves
    <2>3. CASE ~Ended(r) /\ Ended(r)'
      <3>1. \/ (PhaseOf(r) = "none" /\ PhaseOf(r)' = "over")
            \/ (PhaseOf(r) = "loose" /\ PhaseOf(r)' = "dropped")
        BY <1>2, <1>7, <2>3 DEF PhaseOf
      <3> QED
        BY <2>1, <3>1, OneMoves DEF Edges
    <2> QED
      BY <1>4, <2>2, <2>3
  <1>8. objects' = objects \/ StoreObject(r) \/ EndConfirmation(r)
    BY Zenon DEF Confirm, ReadUpload, FetchBytes, FailUpload, FindImage, RefuseImage,
                 CrashConfirmation
  <1> QED
    BY <1>5, <1>6, <1>7, <1>8

\* What removes an object from outside its confirmation removes one that was
\* dropped.
LEMMA OutsideRemoves ==
    ASSUME IInv, NEW p \in Requests, p \notin Paths, Ended(p),
           Paths' = Paths, request' = request,
           objects' \subseteq objects, objects \ objects' \subseteq {p}
    PROVE  [Life!LifeNext]_phases
  <1>1. OthersKeep({p})
    BY SamePhase DEF OthersKeep, Ended
  <1>2. /\ PhaseOf(p) \in {"dropped", "over"} /\ PhaseOf(p)' \in {"dropped", "over"}
        /\ PhaseOf(p) = "over" => PhaseOf(p)' = "over"
    BY DEF PhaseOf, Ended
  <1> QED
    BY <1>1, <1>2, OneMoves DEF Edges

\* The deletion after a commit removes an object that was let go.
LEMMA DropLives ==
    ASSUME IInv, NEW p \in Requests, DropObject(p) PROVE [Life!LifeNext]_phases
  <1>1. /\ p \in dropping /\ Deletes({p}) /\ {p} \in SUBSET Requests
        /\ image' = image /\ request' = request
    BY DEF DropObject
  <1>2. p \notin Paths /\ Ended(p)
    BY <1>1 DEF IInv, StoreInv, SpentInv, Paths
  <1>3. objects' \subseteq objects /\ objects \ objects' \subseteq {p} /\ Paths' = Paths
    BY <1>1, DeletesOf DEF IInv, Paths
  <1> QED
    BY <1>1, <1>2, <1>3, OutsideRemoves

\* A cleanup run removes only objects that were let go.
LEMMA CleanupLives ==
    ASSUME IInv, NEW w \in Workers, Cleanup(w) PROVE [Life!LifeNext]_phases
  <1>1. image' = image /\ request' = request
    BY Zenon DEF Cleanup, ClaimGuestCleanupEvent, MarkProcessed, MarkRetryOrFailed,
                 CrashCleanup, SweepImage, SweepTemp
  <1>2. Paths' = Paths
    BY <1>1 DEF Paths
  <1>3. CASE objects' = objects
    BY <1>1, <1>2, <1>3, NoneMoves
  <1>4. ASSUME NEW p \in Requests, SweepImage(w, p) PROVE [Life!LifeNext]_phases
    <2>1. Ended(p) /\ objects' = IF p \in Paths THEN objects ELSE objects \ {p}
      BY <1>4 DEF SweepImage, IInv, SpentInv
    <2>2. CASE p \in Paths
      BY <1>3, <2>1, <2>2
    <2>3. CASE p \notin Paths
      BY <1>1, <1>2, <2>1, <2>3, OutsideRemoves
    <2> QED
      BY <2>2, <2>3
  <1>5. objects' = objects \/ \E p \in Requests : SweepImage(w, p)
    BY Zenon DEF Cleanup, ClaimGuestCleanupEvent, MarkProcessed, MarkRetryOrFailed,
                 CrashCleanup, SweepTemp
  <1> QED
    BY <1>3, <1>4, <1>5

\* A deleted image lets go of its object; nothing else of the seller's does.
LEMMA SellerLives ==
    ASSUME IInv, NEW u \in Uploads, Seller(u) PROVE [Life!LifeNext]_phases
  <1>1. objects' = objects /\ request' = request
    BY Zenon DEF Seller, CreateUploadAuthorization, PutBytes, UploadLapses, DeleteImage,
                 SetPrimary
  <1>2. CASE DeleteImage(u)
    <2>1. /\ u \in DOMAIN image /\ DOMAIN image' = DOMAIN image \ {u}
          /\ \A v \in DOMAIN image' : image'[v].path = image[v].path
      BY <1>2, DeleteOf DEF IInv
    <2>2. \A v \in DOMAIN image' : image[v].path # image[u].path
      BY <2>1 DEF IInv, PathInv
    <2>3. Paths' = Paths \ {image[u].path} /\ image[u].path \in Paths
      BY <2>1, <2>2 DEF Paths
    <2>4. Life!LifeNext
      BY <1>1, <2>3, Releases
    <2> QED
      BY <2>4
  <1>3. CASE SetPrimary(u)
    <2>1. Paths' = Paths
      BY <1>3, SetOf DEF IInv, Paths
    <2> QED
      BY <1>1, <2>1, NoneMoves
  <1>4. CASE image' = image
    BY <1>1, <1>4, NoneMoves DEF Paths
  <1>5. image' = image \/ DeleteImage(u) \/ SetPrimary(u)
    BY Zenon DEF Seller, CreateUploadAuthorization, PutBytes, UploadLapses
  <1> QED
    BY <1>2, <1>3, <1>4, <1>5

\* A condemned draft lets go of all its objects.
LEMMA CondemnLives ==
    ASSUME IInv, CondemnExpiredGuestListing PROVE [Life!LifeNext]_phases
  <1>1. DOMAIN image' = {} /\ objects' = objects /\ request' = request
    BY CondemnsOf DEF IInv, Condemns
  <1>2. Paths' = {}
    BY <1>1 DEF Paths
  <1>3. CASE Paths = {}
    BY <1>1, <1>2, <1>3, NoneMoves
  <1>4. CASE Paths # {}
    <2>1. Life!LifeNext
      BY <1>1, <1>2, <1>4, Releases
    <2> QED
      BY <2>1
  <1> QED
    BY <1>3, <1>4

\* Each step of the drafts is one of ImageLife or a stutter.
LEMMA LifeStep == IInv /\ [Next]_vars => [Life!LifeNext]_phases
  <1> SUFFICES ASSUME IInv, [Next]_vars PROVE [Life!LifeNext]_phases
    OBVIOUS
  <1>1. ASSUME NEW r \in Requests, Confirm(r) PROVE [Life!LifeNext]_phases
    BY <1>1, InsertNames, ConfirmLives
  <1>2. CASE \/ Submit \/ ReturnToSeller \/ SessionAges
             \/ HoldEnds \/ RetireAbandoned \/ UNCHANGED vars
    <2>1. image' = image /\ objects' = objects /\ request' = request
      BY <1>2, Zenon DEF Submit, ReturnToSeller, SessionAges, HoldEnds, RetireAbandoned,
                         vars
    <2> QED
      BY <2>1, NoneMoves DEF Paths
  <1> QED
    BY <1>1, <1>2, SellerLives, DropLives, CleanupLives, CondemnLives, Zenon DEF Next

\* At first no object is stored.
LEMMA LifeStart == Init => Life!LifeInit
  <1> SUFFICES ASSUME Init PROVE Life!LifeInit
    OBVIOUS
  <1>1. \A r \in Requests : PhaseOf(r) = "none"
    BY DEF Init, PhaseOf, Ended, Paths, Idle
  <1> QED
    BY <1>1 DEF Life!LifeInit

\* Every object a draft's confirmations store lives the life of ImageLife:
\* stored once, named at most once, removed only while no image names it
\* (listing-images.ts, guest-draft-cleanup.ts).
THEOREM DraftImplementsLife == Spec => ImplementsImageLife
  <1>1. IInv /\ [Next]_vars => [Life!LifeNext]_phases
    BY LifeStep
  <1> QED
    BY <1>1, LifeStart, Inductive, PTL
       DEF Spec, ImplementsImageLife, Life!LifeSpec, phases

\* Every image of a draft has the object its row names, whatever the
\* confirmations, deletions and cleanups that overlap (listing-images.ts
\* confirmUploadFor, deleteImageFor; guest-draft-cleanup.ts).
THEOREM ImagesHaveTheirObjects == Spec => []ImageHasItsObject
  <1>1. IInv => ImageHasItsObject
    BY DEF IInv
  <1> QED
    BY <1>1, Inductive, PTL

\* Of every object no image names, a request, the event or a fault is known
\* (listing-images.ts, compensating deletes; guest-draft-cleanup.ts).
THEOREM OrphansAreAlwaysExplained == Spec => []OrphansAreExplained
  <1>1. IInv => OrphansAreExplained
    BY DEF IInv
  <1> QED
    BY <1>1, Inductive, PTL

\* The images are those of the completed uploads, for no late failure or
\* expiry takes one back (repositories/listing-images.ts
\* markImageUploadStatusScoped, completeImageUpload).
THEOREM ImagesAreOfTheirUploads == Spec => []ImageIsOfItsUpload
  <1>1. IInv => ImageIsOfItsUpload
    BY DEF IInv
  <1> QED
    BY <1>1, Inductive, PTL

\* A run with the current claim of the guest cleanup event is not disturbed by
\* one whose lease ended (repositories/guest-drafts.ts, fenced marks).
THEOREM HoldersAreUndisturbed == Spec => []HolderIsUndisturbed
  <1>1. IInv => HolderIsUndisturbed
    BY DEF IInv
  <1> QED
    BY <1>1, Inductive, PTL

\* A gallery with images has exactly one primary image and never more images
\* than its limit, whichever confirmations and deletions overlap
\* (listing-images.ts confirmUploadFor, deleteImageFor, setPrimaryImageFor).
THEOREM GalleriesAreSound == Spec => [](OnePrimary /\ GalleryFits)
  <1>1. IInv => OnePrimary /\ GalleryFits
    BY DEF IInv
  <1> QED
    BY <1>1, Inductive, PTL

\* A draft the cleanup has condemned never has an image again: a confirmation
\* that was under way cannot bring one (guest-draft-cleanup.ts phase 1).
THEOREM CondemnedStaysEmpty == Spec => [](listing = "GONE" => DOMAIN image = {})
  <1>1. IInv => (listing = "GONE" => DOMAIN image = {})
    BY DEF IInv, GoneInv
  <1> QED
    BY <1>1, Inductive, PTL

\* Once an event is settled nothing claims or moves it.
SettledEventStays ==
    event.status \in {"PROCESSED", "FAILED"} =>
        event'.status = event.status /\ event'.claims = event.claims

LEMMA SettledStep == IInv /\ [Next]_vars => SettledEventStays
  <1> SUFFICES ASSUME IInv, [Next]_vars, event.status \in {"PROCESSED", "FAILED"}
               PROVE  event'.status = event.status /\ event'.claims = event.claims
    BY DEF SettledEventStays
  <1>1. CASE event' = event
    BY <1>1
  <1>2. ~Condemns
    BY DEF IInv, GoneInv, Condemns
  <1>3. CASE HoldEnds \/ RetireAbandoned
    BY <1>3, TypeParts DEF IInv, HoldEnds, RetireAbandoned, Open, Condemnation
  <1>4. ASSUME NEW w \in Workers, Claims(w) \/ Ends(w) \/ Sweeps(w)
        PROVE  event'.status = event.status /\ event'.claims = event.claims
    BY <1>4 DEF Claims, Ends, Sweeps, Holds
  <1> QED
    BY <1>1, <1>2, <1>3, <1>4, CleanupSteps, CondemnsOf, CleanupOf DEF IInv

\* The guest cleanup settles an event once: a processed or failed event is not
\* claimed, retried or marked again, by a late run either
\* (repositories/guest-drafts.ts claimGuestCleanupEvent, fenced marks).
THEOREM SettledEventsStay == Spec => [][SettledEventStays]_vars
  <1>1. IInv /\ [Next]_vars => [SettledEventStays]_vars
    BY SettledStep
  <1> QED
    BY <1>1, Inductive, PTL DEF Spec

\* What was once named, or never will be, is not named anew.
NamedOnce == \A p \in Requests : Ended(p) /\ p \notin Paths => p \notin Paths'

LEMMA NamedOnceStep == IInv /\ [Next]_vars => NamedOnce
  <1> SUFFICES ASSUME IInv, [Next]_vars,
                      NEW p \in Requests, Ended(p), p \notin Paths
               PROVE  p \notin Paths'
    BY DEF NamedOnce
  <1>1. CASE RowsKept
    BY <1>1 DEF RowsKept, Paths
  <1>2. ASSUME NEW r \in Requests, InsertImage(r) PROVE p \notin Paths'
    <2> DEFINE u == request[r].upload
    <2>1. /\ DOMAIN image' = DOMAIN image \cup {u} /\ image'[u].path = r
          /\ \A x \in DOMAIN image : image'[x] = image[x]
          /\ request[r].at = "stored"
      BY <1>2, InsertOf DEF IInv
    <2>2. p # r
      BY <2>1 DEF Ended
    <2> HIDE DEF u
    <2> QED
      BY <2>1, <2>2 DEF Paths
  <1> QED
    BY <1>1, <1>2, RowSteps DEF IInv

\* An object whose image was deleted, or whose confirmation is over, is never
\* named by an image again, so that deleting it later is safe
\* (listing-images.ts, the nonce of confirmUploadFor's paths).
THEOREM ObjectsAreNamedOnce == Spec => [][NamedOnce]_vars
  <1>1. IInv /\ [Next]_vars => [NamedOnce]_vars
    BY NamedOnceStep
  <1> QED
    BY <1>1, Inductive, PTL DEF Spec

=============================================================================
