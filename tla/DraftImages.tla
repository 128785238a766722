----------------------------- MODULE DraftImages -----------------------------
(***************************************************************************)
(* The images of one unpublished listing, owned by a seller or by a guest  *)
(* session (services/listing-images.ts): issuing of uploads, concurrent    *)
(* confirmations, deletion and choice of the primary image; submission and *)
(* correction; the end of a guest session and the cleanup of its drafts    *)
(* (services/guest-draft-cleanup.ts).                                      *)
(*                                                                         *)
(* A confirmation reads the upload without a lock, works on the bytes,     *)
(* stores the processed object and only then runs its transaction: each is *)
(* an action.  The final object of a confirmation has a name of its own,   *)
(* the confirmation itself here; a temporary object has its upload's name. *)
(* Order, sizes and the revision of the listing are left out: no image     *)
(* operation is conditional on them.                                       *)
(***************************************************************************)
EXTENDS Naturals, FiniteSets

CONSTANTS
    Uploads,     \* rows of listing_image_uploads, and their images
    Requests,    \* confirmation requests
    Workers,     \* overlapping runs of the guest cleanup
    Nothing,     \* stands for no upload
    ImageMax,    \* listing.image_max
    PendingMax,  \* maxPendingUploads
    MaxClaims,   \* CLEANUP_MAX_ATTEMPTS
    MaxFaults    \* bound: crashes and failed storage deletions

ASSUME DraftAssumption ==
    /\ Nothing \notin Uploads
    /\ ImageMax \in Nat \ {0} /\ PendingMax \in Nat \ {0}
    /\ MaxClaims \in Nat \ {0} /\ MaxFaults \in Nat

VARIABLES
    owner,     \* who owns the draft: the capability of a guest or a user
    listing,   \* EDITABLE: DRAFT, CORRECTION_REQUIRED, REJECTED; IN_REVIEW; GONE
    session,   \* of a guest: live, expired, condemnable (past the grace window)
    upload,    \* listing_image_uploads
    image,     \* listing_images: the confirmation that stored it, is_primary
    temps,     \* objects of the uploads bucket
    objects,   \* objects of the images bucket
    request,   \* of a confirmation: where it is, and its upload
    dropping,  \* objects a request is about to delete after its commit
    event,     \* the GUEST_DRAFT_DELETED event of the listing
    work,      \* of a cleanup run: its claim and the objects left to it
    abandoned, \* history: objects a crash or a failed deletion left behind
    faults     \* history: faults so far

draftVars == <<owner, listing, session>>
rowVars == <<upload, image>>
cleanupVars == <<event, work>>
vars == <<draftVars, rowVars, temps, objects, request, dropping, cleanupVars,
          abandoned, faults>>

UploadRow == [status : {"NONE", "PENDING", "COMPLETED", "FAILED", "EXPIRED"},
              linked : BOOLEAN,   \* image_id is not null
              over : BOOLEAN]     \* expires_at has passed

Idle == [at |-> "unused", upload |-> Nothing]
NoWork == [claim |-> 0, images |-> {}, temps |-> {}]

TypeOK ==
    /\ owner \in {"user", "guest"}
    /\ listing \in {"EDITABLE", "IN_REVIEW", "GONE"}
    /\ session \in {"live", "expired", "condemnable"}
    /\ upload \in [Uploads -> UploadRow]
    /\ DOMAIN image \subseteq Uploads
    /\ image \in [DOMAIN image -> [path : Requests, primary : BOOLEAN]]
    /\ temps \subseteq Uploads
    /\ objects \subseteq Requests
    /\ request \in [Requests ->
          [at : {"unused", "expiring", "failing", "read", "fetched", "stored",
                 "inserted", "superseded", "refused", "done"},
           upload : Uploads \cup {Nothing}]]
    /\ dropping \subseteq Requests
    /\ event \in [status : {"none", "PENDING", "PROCESSING", "PROCESSED", "FAILED"},
                  images : SUBSET Requests, temps : SUBSET Uploads,
                  claims : 0..MaxClaims, held : BOOLEAN]
    /\ work \in [Workers -> [claim : 0..MaxClaims, images : SUBSET Requests,
                             temps : SUBSET Uploads]]
    /\ abandoned \subseteq Requests
    /\ faults \in 0..MaxFaults

Init ==
    /\ owner \in {"user", "guest"}
    /\ listing = "EDITABLE"
    /\ session = "live"
    /\ upload = [u \in Uploads |-> [status |-> "NONE", linked |-> FALSE, over |-> FALSE]]
    /\ image = [u \in {} |-> 0]
    /\ temps = {}
    /\ objects = {}
    /\ request = [r \in Requests |-> Idle]
    /\ dropping = {}
    /\ event = [status |-> "none", images |-> {}, temps |-> {}, claims |-> 0, held |-> FALSE]
    /\ work = [w \in Workers |-> NoWork]
    /\ abandoned = {}
    /\ faults = 0

----------------------------------------------------------------------------
(* Issuing an upload *)

\* getScopedListingForUpdate and isSellerEditable: the actor still owns the
\* draft, through a session that has not expired when it is a guest.
Editable ==
    /\ listing = "EDITABLE"
    /\ owner = "guest" => session = "live"

Pending == {u \in Uploads : upload[u].status = "PENDING" /\ ~upload[u].over}

\* The row is inserted; a URL that cannot be signed marks it FAILED.
CreateUploadAuthorization(u) ==
    /\ Editable
    /\ upload[u].status = "NONE"
    /\ Cardinality(DOMAIN image) + Cardinality(Pending) < ImageMax
    /\ Cardinality(Pending) < PendingMax
    /\ \E outcome \in {"PENDING", "FAILED"} :
          upload' = [upload EXCEPT ![u].status = outcome]
    /\ UNCHANGED <<draftVars, image, temps, objects, request, dropping, cleanupVars,
                   abandoned, faults>>

\* The browser puts the bytes at the signed URL.
PutBytes(u) ==
    /\ upload[u].status = "PENDING" /\ ~upload[u].over
    /\ u \notin temps
    /\ temps' = temps \cup {u}
    /\ UNCHANGED <<draftVars, rowVars, objects, request, dropping, cleanupVars,
                   abandoned, faults>>

UploadLapses(u) ==
    /\ upload[u].status # "NONE" /\ ~upload[u].over
    /\ upload' = [upload EXCEPT ![u].over = TRUE]
    /\ UNCHANGED <<draftVars, image, temps, objects, request, dropping, cleanupVars,
                   abandoned, faults>>

----------------------------------------------------------------------------
(* Confirmation *)

At(r, step) == request[r].at = step
Moves(r, step) == request' = [request EXCEPT ![r].at = step]

\* A completed upload answers with its image, a failed or expired one with an
\* error: only the reads that go on are steps.
ReadUpload(r, u) ==
    /\ At(r, "unused")
    /\ Editable
    /\ upload[u].status \in {"PENDING", "COMPLETED"} /\ ~upload[u].linked
    /\ request' = [request EXCEPT ![r] =
          [at |-> IF upload[u].over THEN "expiring" ELSE "read", upload |-> u]]
    /\ UNCHANGED <<draftVars, rowVars, temps, objects, dropping, cleanupVars,
                   abandoned, faults>>

\* The bytes are missing, unacceptable, or processed.
FetchBytes(r) ==
    /\ At(r, "read")
    /\ IF request[r].upload \in temps
       THEN \E step \in {"failing", "fetched"} : Moves(r, step)
       ELSE Moves(r, "done")
    /\ UNCHANGED <<draftVars, rowVars, temps, objects, dropping, cleanupVars,
                   abandoned, faults>>

\* Mutant of Markable: the mark of markImageUploadStatus, of any status.
MarkableAlways(u) == upload[u].status # "NONE"

\* markImageUploadStatusScoped.
Markable(u) == upload[u].status = "PENDING"

\* failUploadScoped: the temporary object goes only if the mark was made.
FailUpload(r) ==
    LET u == request[r].upload IN
    /\ request[r].at \in {"expiring", "failing"}
    /\ IF Markable(u)
       THEN /\ upload' = [upload EXCEPT ![u].status =
                             IF At(r, "failing") THEN "FAILED" ELSE "EXPIRED"]
            /\ temps' \in {temps, temps \ {u}}
       ELSE UNCHANGED <<upload, temps>>
    /\ Moves(r, "done")
    /\ UNCHANGED <<draftVars, image, objects, dropping, cleanupVars, abandoned, faults>>

\* Mutant of FinalPath: the confirmations of an upload share an object.
FinalPathOfUpload(r) ==
    CHOOSE q \in Requests : request[q].upload = request[r].upload

\* The nonce of the attempt makes its path its own.
FinalPath(r) == r

StoreObject(r) ==
    /\ At(r, "fetched")
    /\ objects' = objects \cup {FinalPath(r)}
    /\ Moves(r, "stored")
    /\ UNCHANGED <<draftVars, rowVars, temps, dropping, cleanupVars, abandoned, faults>>

HasRow(u) == upload[u].status # "NONE"

Fits == Cardinality(DOMAIN image) < ImageMax

InsertImage(r) ==
    LET u == request[r].upload IN
    /\ At(r, "stored")
    /\ Editable /\ HasRow(u) /\ ~upload[u].linked /\ Fits
    /\ image' = [v \in DOMAIN image \cup {u} |->
                    IF v = u THEN [path |-> FinalPath(r), primary |-> DOMAIN image = {}]
                             ELSE image[v]]
    /\ upload' = [upload EXCEPT ![u].status = "COMPLETED", ![u].linked = TRUE]
    /\ Moves(r, "inserted")
    /\ UNCHANGED <<draftVars, temps, objects, dropping, cleanupVars, abandoned, faults>>

\* A concurrent confirmation already completed the upload.
FindImage(r) ==
    /\ At(r, "stored")
    /\ Editable /\ HasRow(request[r].upload) /\ upload[request[r].upload].linked
    /\ Moves(r, "superseded")
    /\ UNCHANGED <<draftVars, rowVars, temps, objects, dropping, cleanupVars,
                   abandoned, faults>>

\* The draft or the upload is no longer the actor's, the gallery is full, or
\* the transaction fails.
RefuseImage(r) ==
    /\ At(r, "stored")
    /\ \/ ~Editable \/ ~HasRow(request[r].upload)
       \/ ~upload[request[r].upload].linked /\ ~Fits
       \/ faults < MaxFaults
    /\ faults' = IF \/ ~Editable \/ ~HasRow(request[r].upload)
                    \/ ~upload[request[r].upload].linked /\ ~Fits
                 THEN faults ELSE faults + 1
    /\ Moves(r, "refused")
    /\ UNCHANGED <<draftVars, rowVars, temps, objects, dropping, cleanupVars, abandoned>>

\* A deletion of objects in storage, which may fail without anyone noticing.
Deletes(paths) ==
    \/ objects' = objects \ paths /\ UNCHANGED <<abandoned, faults>>
    \/ /\ paths # {} /\ faults < MaxFaults
       /\ faults' = faults + 1
       /\ abandoned' = abandoned \cup paths
       /\ UNCHANGED objects

\* Mutant of Discarded: the loser of a race leaves its object.
DiscardedOnRefusal(r) == IF At(r, "refused") THEN {FinalPath(r)} ELSE {}

Discarded(r) ==
    IF request[r].at \in {"refused", "superseded"} THEN {FinalPath(r)} ELSE {}

\* The end of a confirmation: its own object goes unless its transaction
\* inserted it, the temporary object unless its transaction failed.
EndConfirmation(r) ==
    /\ request[r].at \in {"inserted", "superseded", "refused"}
    /\ Deletes(Discarded(r))
    /\ IF At(r, "refused") THEN UNCHANGED temps
                           ELSE temps' \in {temps, temps \ {request[r].upload}}
    /\ Moves(r, "done")
    /\ UNCHANGED <<draftVars, rowVars, dropping, cleanupVars>>

\* The process dies: what it had stored and not referenced stays.
CrashConfirmation(r) ==
    /\ request[r].at \notin {"unused", "done"}
    /\ faults < MaxFaults
    /\ faults' = faults + 1
    /\ abandoned' = IF request[r].at \in {"stored", "superseded", "refused"}
                    THEN abandoned \cup {FinalPath(r)} ELSE abandoned
    /\ Moves(r, "done")
    /\ UNCHANGED <<draftVars, rowVars, temps, objects, dropping, cleanupVars>>

----------------------------------------------------------------------------
(* Deletion and primary image *)

\* promoteNextPrimaryImage: another image becomes the primary one, if any.
PromoteNextPrimary(rest) ==
    IF DOMAIN rest = {} THEN {rest}
    ELSE {[rest EXCEPT ![v].primary = TRUE] : v \in DOMAIN rest}

\* The transaction of deleteImageFor; the foreign key forgets the image.
DeleteImage(u) ==
    LET rest == [v \in DOMAIN image \ {u} |-> image[v]] IN
    /\ Editable
    /\ u \in DOMAIN image
    /\ image' \in IF image[u].primary THEN PromoteNextPrimary(rest) ELSE {rest}
    /\ upload' = [upload EXCEPT ![u].linked = FALSE]
    /\ dropping' = dropping \cup {image[u].path}
    /\ UNCHANGED <<draftVars, temps, objects, request, cleanupVars, abandoned, faults>>

\* Then, outside it, the object.
DropObject(p) ==
    /\ p \in dropping
    /\ Deletes({p})
    /\ dropping' = dropping \ {p}
    /\ UNCHANGED <<draftVars, rowVars, temps, request, cleanupVars>>

SetPrimary(u) ==
    /\ Editable
    /\ u \in DOMAIN image /\ ~image[u].primary
    /\ image' = [v \in DOMAIN image |-> [image[v] EXCEPT !.primary = (v = u)]]
    /\ UNCHANGED <<draftVars, upload, temps, objects, request, dropping, cleanupVars,
                   abandoned, faults>>

----------------------------------------------------------------------------
(* Submission, correction, session *)

\* Of a user's listing: complete with one primary image; what was not
\* confirmed by now expires.
Submit ==
    /\ owner = "user"
    /\ listing = "EDITABLE"
    /\ Cardinality({u \in DOMAIN image : image[u].primary}) = 1
    /\ listing' = "IN_REVIEW"
    /\ upload' = [u \in Uploads |-> IF upload[u].status = "PENDING"
                                    THEN [upload[u] EXCEPT !.status = "EXPIRED"]
                                    ELSE upload[u]]
    /\ UNCHANGED <<owner, session, image, temps, objects, request, dropping, cleanupVars,
                   abandoned, faults>>

\* A moderator returns it.
ReturnToSeller ==
    /\ listing = "IN_REVIEW"
    /\ listing' = "EDITABLE"
    /\ UNCHANGED <<owner, session, rowVars, temps, objects, request, dropping,
                   cleanupVars, abandoned, faults>>

SessionAges ==
    /\ owner = "guest"
    /\ \/ session = "live" /\ session' = "expired"
       \/ session = "expired" /\ session' = "condemnable"
    /\ UNCHANGED <<owner, listing, rowVars, temps, objects, request, dropping,
                   cleanupVars, abandoned, faults>>

----------------------------------------------------------------------------
(* Cleanup of guest drafts *)

Paths == {image[u].path : u \in DOMAIN image}
Issued == {u \in Uploads : HasRow(u)}

\* One transaction: the row goes, its images and uploads with it, and the
\* event records their objects.
CondemnExpiredGuestListing ==
    /\ owner = "guest" /\ listing # "GONE" /\ session = "condemnable"
    /\ listing' = "GONE"
    /\ image' = [u \in {} |-> 0]
    /\ upload' = [u \in Uploads |-> [upload[u] EXCEPT !.status = "NONE", !.linked = FALSE]]
    /\ event' = IF Issued = {} THEN event
                ELSE [event EXCEPT !.status = "PENDING", !.images = Paths, !.temps = Issued]
    /\ UNCHANGED <<owner, session, temps, objects, request, dropping, work,
                   abandoned, faults>>

\* A lease or a backoff runs out.
HoldEnds ==
    /\ event.held
    /\ event' = [event EXCEPT !.held = FALSE]
    /\ UNCHANGED <<draftVars, rowVars, temps, objects, request, dropping, work,
                   abandoned, faults>>

Open == event.status \in {"PENDING", "PROCESSING"} /\ ~event.held

ClaimGuestCleanupEvent(w) ==
    /\ work[w] = NoWork
    /\ Open /\ event.claims < MaxClaims
    /\ event' = [event EXCEPT !.status = "PROCESSING", !.claims = @ + 1, !.held = TRUE]
    /\ work' = [work EXCEPT ![w] = [claim |-> event.claims + 1, images |-> event.images,
                                    temps |-> event.temps]]
    /\ UNCHANGED <<draftVars, rowVars, temps, objects, request, dropping,
                   abandoned, faults>>

\* markAbandonedGuestCleanupEventsFailed: no claim is left.
RetireAbandoned ==
    /\ Open /\ event.claims = MaxClaims
    /\ event' = [event EXCEPT !.status = "FAILED"]
    /\ UNCHANGED <<draftVars, rowVars, temps, objects, request, dropping, work,
                   abandoned, faults>>

\* One object of the images bucket; a referenced one is retained.
SweepImage(w, p) ==
    /\ p \in work[w].images
    /\ objects' = IF p \in Paths THEN objects ELSE objects \ {p}
    /\ work' = [work EXCEPT ![w].images = @ \ {p}]
    /\ UNCHANGED <<draftVars, rowVars, temps, request, dropping, event, abandoned, faults>>

\* One object of the uploads bucket.
SweepTemp(w, u) ==
    /\ u \in work[w].temps
    /\ temps' = IF HasRow(u) THEN temps ELSE temps \ {u}
    /\ work' = [work EXCEPT ![w].temps = @ \ {u}]
    /\ UNCHANGED <<draftVars, rowVars, objects, request, dropping, event, abandoned, faults>>

\* Mutant of Holds: the status guards of the shared helpers, without the fence.
HoldsUnfenced(w) == event.status = "PROCESSING"

\* The mark is fenced to the generation of the claim.
Holds(w) == event.status = "PROCESSING" /\ event.claims = work[w].claim

MarkProcessed(w) ==
    /\ work[w].claim # 0 /\ work[w].images = {} /\ work[w].temps = {}
    /\ event' = IF Holds(w) THEN [event EXCEPT !.status = "PROCESSED"] ELSE event
    /\ work' = [work EXCEPT ![w] = NoWork]
    /\ UNCHANGED <<draftVars, rowVars, temps, objects, request, dropping,
                   abandoned, faults>>

\* The storage refuses a deletion: back off, or give up after the last claim.
MarkRetryOrFailed(w) ==
    /\ work[w].images \cup work[w].temps # {}
    /\ faults < MaxFaults
    /\ faults' = faults + 1
    /\ event' = IF ~Holds(w) THEN event
                ELSE IF work[w].claim = MaxClaims THEN [event EXCEPT !.status = "FAILED"]
                ELSE [event EXCEPT !.status = "PENDING", !.held = TRUE]
    /\ work' = [work EXCEPT ![w] = NoWork]
    /\ UNCHANGED <<draftVars, rowVars, temps, objects, request, dropping, abandoned>>

CrashCleanup(w) ==
    /\ work[w] # NoWork
    /\ faults < MaxFaults
    /\ faults' = faults + 1
    /\ work' = [work EXCEPT ![w] = NoWork]
    /\ UNCHANGED <<draftVars, rowVars, temps, objects, request, dropping, event, abandoned>>

----------------------------------------------------------------------------
Confirm(r) ==
    \/ \E u \in Uploads : ReadUpload(r, u)
    \/ FetchBytes(r) \/ FailUpload(r) \/ StoreObject(r)
    \/ InsertImage(r) \/ FindImage(r) \/ RefuseImage(r)
    \/ EndConfirmation(r) \/ CrashConfirmation(r)

Seller(u) ==
    \/ CreateUploadAuthorization(u) \/ PutBytes(u) \/ UploadLapses(u)
    \/ DeleteImage(u) \/ SetPrimary(u)

Cleanup(w) ==
    \/ ClaimGuestCleanupEvent(w) \/ MarkProcessed(w) \/ MarkRetryOrFailed(w)
    \/ CrashCleanup(w)
    \/ \E p \in Requests : SweepImage(w, p)
    \/ \E u \in Uploads : SweepTemp(w, u)

Next ==
    \/ \E r \in Requests : Confirm(r)
    \/ \E u \in Uploads : Seller(u)
    \/ \E p \in Requests : DropObject(p)
    \/ Submit \/ ReturnToSeller \/ SessionAges
    \/ CondemnExpiredGuestListing \/ HoldEnds \/ RetireAbandoned
    \/ \E w \in Workers : Cleanup(w)

Spec == Init /\ [][Next]_vars

----------------------------------------------------------------------------
(* The life of an object *)

\* The transaction of the confirmation is behind it.
Ended(r) == request[r].at \in {"inserted", "done"}

\* A named object that is missing has no phase in ImageLife.
PhaseOf(r) ==
    IF r \in Paths THEN IF r \in objects THEN "named" ELSE "lost"
    ELSE IF r \in objects THEN IF Ended(r) THEN "dropped" ELSE "loose"
    ELSE IF Ended(r) THEN "over" ELSE "none"

Life == INSTANCE ImageLife
    WITH Objects <- Requests, phase <- [r \in Requests |-> PhaseOf(r)]

----------------------------------------------------------------------------
(* Properties *)

\* Every image of the listing has the object its row names: no confirmation
\* that loses a race or fails, no deletion and no cleanup removes the bytes of
\* another one (listing-images.ts confirmUploadFor, its per-attempt paths).
ImageHasItsObject == \A u \in DOMAIN image : image[u].path \in objects

\* An object no image names belongs to a request that is still running, is
\* recorded by the event of a condemned draft, or was left behind by a fault
\* (listing-images.ts, compensating deletes; guest-draft-cleanup.ts phase 1).
OrphansAreExplained ==
    objects \subseteq
        UNION {Paths, dropping, abandoned,
               {FinalPath(r) : r \in {q \in Requests :
                    request[q].at \in {"stored", "superseded", "refused"}}},
               IF event.status = "PROCESSED" THEN {} ELSE event.images}

\* Every object lives the life ImageLife describes, however confirmations,
\* deletions, the end of the guest session and overlapping cleanup runs
\* interleave (listing-images.ts, guest-draft-cleanup.ts).
ImplementsImageLife == Life!LifeSpec

\* The images are those of the completed uploads: a failure or an expiry that
\* comes late takes nothing back (repositories/listing-images.ts
\* markImageUploadStatusScoped, completeImageUpload).
ImageIsOfItsUpload ==
    /\ DOMAIN image = {u \in Uploads : upload[u].linked}
    /\ \A u \in DOMAIN image : upload[u].status = "COMPLETED"

\* While a cleanup run holds the current claim of an event, no run whose
\* lease ended moves the event; only the retirement of an event without
\* claims left does (repositories/guest-drafts.ts, fenced marks).
HolderIsUndisturbed ==
    \A w \in Workers :
        (work[w].claim = event.claims /\ work[w] # NoWork) =>
            \/ event.status = "PROCESSING"
            \/ event.status = "FAILED" /\ event.claims = MaxClaims
=============================================================================
