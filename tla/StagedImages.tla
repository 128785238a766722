---------------------------- MODULE StagedImages ----------------------------
(***************************************************************************)
(* The gallery of one published listing, the staged galleries of its edit  *)
(* revisions and the moderator's image plan over them                      *)
(* (services/listing-edit-images.ts, listing-lifecycle.ts,                 *)
(* moderation-edit.ts, moderation-adjustments.ts), and the worker that     *)
(* deletes the storage objects nothing references any more                 *)
(* (services/lifecycle-jobs.ts runImageCleanup).                           *)
(*                                                                         *)
(* Galleries share objects by path.  The object of an upload has the       *)
(* upload's name, whichever confirmation stored it.  Transactions are      *)
(* single actions under the lock of the listing; the storage is called     *)
(* between them.                                                           *)
(***************************************************************************)
EXTENDS Naturals, Sequences, FiniteSets

CONSTANTS
    Originals,   \* objects of the gallery that was first approved
    Uploads,     \* uploads into staged galleries, and their objects
    Requests,    \* confirmation requests
    Workers,     \* overlapping runs of the cleanup
    Nothing,     \* stands for no upload and no object
    ImageMax,    \* listing.image_max
    MaxClaims,   \* CLEANUP_MAX_ATTEMPTS
    MaxEdits,    \* bound: edit revisions
    MaxEvents,   \* bound: outbox events that name candidates
    MaxFaults    \* bound: crashes, failed transactions and deletions

ASSUME StagedAssumption ==
    /\ Originals \cap Uploads = {} /\ Nothing \notin Originals \cup Uploads
    /\ ImageMax \in Nat \ {0} /\ MaxClaims \in Nat \ {0}
    /\ MaxEdits \in Nat /\ MaxEvents \in Nat /\ MaxFaults \in Nat

VARIABLES
    gallery,  \* listing_images, the public gallery
    edit,     \* the last edit revision: its number and status
    staged,   \* listing_edit_images of every revision; kept as history
    plan,     \* the images the open adjustment keeps, or Nothing
    frozen,   \* paths in submitted_images of any adjustment, open or not
    upload,   \* listing_image_uploads
    temps,    \* objects of the uploads bucket
    objects,  \* objects of the images bucket
    request,  \* of a confirmation: where it is, and its upload
    events,   \* outbox events with cleanup candidates
    work,     \* of a cleanup run: its event, what is left, the object it checked
    undone,   \* history: objects removed by the compensation of a confirmation
    stranded, \* history: events whose run died, objects left behind by a fault
    faults    \* history: faults so far

editVars == <<edit, staged, plan, frozen>>
uploadVars == <<upload, temps>>
workVars == <<events, work>>
historyVars == <<undone, stranded, faults>>
vars == <<gallery, editVars, uploadVars, objects, request, workVars, historyVars>>

Path == Originals \cup Uploads

Event == [paths : SUBSET Path, status : {"PENDING", "PROCESSING", "PROCESSED", "FAILED"},
          ripe : BOOLEAN,   \* the grace interval has passed
          held : BOOLEAN,   \* available_at is ahead
          claims : 0..MaxClaims]

Work == [event : 0..MaxEvents, left : SUBSET Path, checked : Path \cup {Nothing},
         failed : BOOLEAN]
NoWork == [event |-> 0, left |-> {}, checked |-> Nothing, failed |-> FALSE]

TypeOK ==
    /\ gallery \subseteq Path
    /\ edit \in [no : 0..MaxEdits,
                 status : {"NONE", "EDIT_DRAFT", "PENDING_MODERATION",
                           "CORRECTION_REQUIRED", "CLOSED"}]
    /\ staged \in [1..MaxEdits -> SUBSET Path]
    /\ plan \in {Nothing} \cup SUBSET Path
    /\ frozen \subseteq Path
    /\ upload \in [Uploads ->
          [status : {"NONE", "PENDING", "COMPLETED", "FAILED", "EXPIRED"},
           home : 0..MaxEdits,   \* revision of edit_image_id, 0 when it is null
           over : BOOLEAN]]      \* expires_at has passed
    /\ temps \subseteq Uploads
    /\ objects \subseteq Path
    /\ request \in [Requests ->
          [at : {"unused", "expiring", "failing", "read", "fetched", "stored", "refused",
                 "staged", "done"},
           upload : Uploads \cup {Nothing}]]
    /\ events \in Seq(Event) /\ Len(events) <= MaxEvents
    /\ work \in [Workers -> Work]
    /\ undone \subseteq Path
    /\ stranded \in [events : SUBSET (1..MaxEvents), paths : SUBSET Path]
    /\ faults \in 0..MaxFaults

Init ==
    /\ gallery = Originals
    /\ edit = [no |-> 0, status |-> "NONE"]
    /\ staged = [n \in 1..MaxEdits |-> {}]
    /\ plan = Nothing
    /\ frozen = {}
    /\ upload = [u \in Uploads |-> [status |-> "NONE", home |-> 0, over |-> FALSE]]
    /\ temps = {}
    /\ objects = Originals
    /\ request = [r \in Requests |-> [at |-> "unused", upload |-> Nothing]]
    /\ events = <<>>
    /\ work = [w \in Workers |-> NoWork]
    /\ undone = {}
    /\ stranded = [events |-> {}, paths |-> {}]
    /\ faults = 0

----------------------------------------------------------------------------
(* The seller's edit *)

OpenEdit == edit.status \in {"EDIT_DRAFT", "PENDING_MODERATION", "CORRECTION_REQUIRED"}

\* lockEditableRevision.
Editable == edit.status \in {"EDIT_DRAFT", "CORRECTION_REQUIRED"}

Images == staged[edit.no]

\* insertOutboxEvent; an event that names nothing is never claimed.
Emit(paths) ==
    IF paths = {} THEN UNCHANGED events
    ELSE /\ Len(events) < MaxEvents
         /\ events' = Append(events, [paths |-> paths, status |-> "PENDING",
                                      ripe |-> FALSE, held |-> FALSE, claims |-> 0])

\* getOrCreateEditRevision, snapshotApprovedImages.
CreateEditRevision ==
    /\ ~OpenEdit
    /\ edit.no < MaxEdits
    /\ edit' = [no |-> edit.no + 1, status |-> "EDIT_DRAFT"]
    /\ staged' = [staged EXCEPT ![edit.no + 1] = gallery]
    /\ UNCHANGED <<gallery, plan, frozen, uploadVars, objects, request, workVars, historyVars>>

\* The staged row goes, its object does not.
DeleteStagedImage(p) ==
    /\ Editable
    /\ p \in Images
    /\ staged' = [staged EXCEPT ![edit.no] = @ \ {p}]
    /\ upload' = [u \in Uploads |-> IF u = p /\ upload[u].home = edit.no
                                    THEN [upload[u] EXCEPT !.home = 0] ELSE upload[u]]
    /\ Emit({p})
    /\ UNCHANGED <<gallery, edit, plan, frozen, temps, objects, request, work, historyVars>>

SubmitEditRevision ==
    /\ Editable
    /\ Images # {}
    /\ edit' = [edit EXCEPT !.status = "PENDING_MODERATION"]
    /\ upload' = [u \in Uploads |-> IF upload[u].status = "PENDING"
                                    THEN [upload[u] EXCEPT !.status = "EXPIRED"]
                                    ELSE upload[u]]
    /\ UNCHANGED <<gallery, staged, plan, frozen, temps, objects, request, workVars,
                   historyVars>>

\* The staged rows stay as history: their paths are candidates all the same.
CancelEditRevision ==
    /\ Editable
    /\ edit' = [edit EXCEPT !.status = "CLOSED"]
    /\ Emit(Images)
    /\ UNCHANGED <<gallery, staged, plan, frozen, uploadVars, objects, request, work,
                   historyVars>>

----------------------------------------------------------------------------
(* The moderator *)

\* The first save freezes the submitted gallery; each save chooses what is kept.
SaveAdjustment(kept) ==
    /\ edit.status = "PENDING_MODERATION"
    /\ kept \subseteq Images /\ kept # {} /\ kept # plan
    /\ plan' = kept
    /\ frozen' = IF plan = Nothing THEN frozen \cup Images ELSE frozen
    /\ UNCHANGED <<gallery, edit, staged, uploadVars, objects, request, workVars, historyVars>>

DiscardAdjustment ==
    /\ edit.status = "PENDING_MODERATION"
    /\ plan # Nothing
    /\ plan' = Nothing
    /\ UNCHANGED <<gallery, edit, staged, frozen, uploadVars, objects, request, workVars,
                   historyVars>>

\* Mutant of Leaving: the paths that leave the gallery are forgotten.
LeavingNothing(kept) == {}

\* The candidates of an approval: what was public or proposed and is not kept.
Leaving(kept) == (gallery \cup IF plan = Nothing THEN {} ELSE Images) \ kept

\* The public gallery becomes the staged one, or what the plan keeps of it.
ApproveEdit ==
    LET kept == IF plan = Nothing THEN Images ELSE plan IN
    /\ edit.status = "PENDING_MODERATION"
    /\ gallery' = kept
    /\ Emit(Leaving(kept))
    /\ edit' = [edit EXCEPT !.status = "CLOSED"]
    /\ plan' = Nothing
    /\ UNCHANGED <<staged, frozen, uploadVars, objects, request, work, historyVars>>

\* Correction or rejection; an open adjustment becomes history.
ReturnEdit ==
    /\ edit.status = "PENDING_MODERATION"
    /\ \E status \in {"CORRECTION_REQUIRED", "CLOSED"} :
          edit' = [edit EXCEPT !.status = status]
    /\ plan' = Nothing
    /\ UNCHANGED <<gallery, staged, frozen, uploadVars, objects, request, workVars,
                   historyVars>>

----------------------------------------------------------------------------
(* Uploads and confirmations *)

Pending == {u \in Uploads : upload[u].status = "PENDING" /\ ~upload[u].over}

\* The signed URL is handed out and the browser puts the bytes there, or no URL
\* can be signed.  maxPendingUploads is left out: it only refuses more.
CreateEditUpload(u) ==
    /\ Editable
    /\ upload[u].status = "NONE"
    /\ Cardinality(Images) + Cardinality(Pending) < ImageMax
    /\ \/ upload' = [upload EXCEPT ![u].status = "PENDING"] /\ temps' = temps \cup {u}
       \/ upload' = [upload EXCEPT ![u].status = "FAILED"] /\ UNCHANGED temps
    /\ UNCHANGED <<gallery, editVars, objects, request, workVars, historyVars>>

UploadLapses(u) ==
    /\ upload[u].status # "NONE" /\ ~upload[u].over
    /\ upload' = [upload EXCEPT ![u].over = TRUE]
    /\ UNCHANGED <<gallery, editVars, temps, objects, request, workVars, historyVars>>

At(r, step) == request[r].at = step
Moves(r, step) == request' = [request EXCEPT ![r].at = step]

\* The unlocked read of the upload; the reads that answer at once are no steps.
ReadUpload(r, u) ==
    /\ At(r, "unused")
    /\ upload[u].status \in {"PENDING", "COMPLETED"} /\ upload[u].home = 0
    /\ request' = [request EXCEPT ![r] =
          [at |-> IF upload[u].over THEN "expiring" ELSE "read", upload |-> u]]
    /\ UNCHANGED <<gallery, editVars, uploadVars, objects, workVars, historyVars>>

FetchBytes(r) ==
    /\ At(r, "read")
    /\ IF request[r].upload \in temps
       THEN \E step \in {"failing", "fetched"} : Moves(r, step)
       ELSE Moves(r, "done")
    /\ UNCHANGED <<gallery, editVars, uploadVars, objects, workVars, historyVars>>

\* markImageUploadStatus, whatever the status is by now, and the temporary object.
FailUpload(r) ==
    LET u == request[r].upload IN
    /\ request[r].at \in {"expiring", "failing"}
    /\ upload' = [upload EXCEPT ![u].status =
                     IF At(r, "failing") THEN "FAILED" ELSE "EXPIRED"]
    /\ temps' \in {temps, temps \ {u}}
    /\ Moves(r, "done")
    /\ UNCHANGED <<gallery, editVars, objects, workVars, historyVars>>

StoreObject(r) ==
    /\ At(r, "fetched")
    /\ objects' = objects \cup {request[r].upload}
    /\ Moves(r, "stored")
    /\ UNCHANGED <<gallery, editVars, uploadVars, workVars, historyVars>>

\* What the transaction of the confirmation requires.
Accepted(u) ==
    /\ Editable
    /\ \/ upload[u].home = 0 /\ Cardinality(Images) < ImageMax
       \/ upload[u].home = edit.no

StageImage(r) ==
    LET u == request[r].upload IN
    /\ At(r, "stored")
    /\ Accepted(u)
    /\ IF upload[u].home = 0
       THEN /\ staged' = [staged EXCEPT ![edit.no] = @ \cup {u}]
            /\ upload' = [upload EXCEPT ![u].status = "COMPLETED", ![u].home = edit.no]
       ELSE UNCHANGED <<staged, upload>>
    /\ Moves(r, "staged")
    /\ UNCHANGED <<gallery, edit, plan, frozen, temps, objects, workVars, historyVars>>

\* It throws: the edit is submitted or closed, the gallery full, the staged
\* image of another revision, or the database fails.
RefuseImage(r) ==
    /\ At(r, "stored")
    /\ ~Accepted(request[r].upload) \/ faults < MaxFaults
    /\ faults' = IF Accepted(request[r].upload) THEN faults + 1 ELSE faults
    /\ Moves(r, "refused")
    /\ UNCHANGED <<gallery, editVars, uploadVars, objects, workVars, undone, stranded>>

\* The compensation deletes the object of the upload, or fails to.
UndoStore(r) ==
    LET u == request[r].upload IN
    /\ At(r, "refused")
    /\ \/ /\ objects' = objects \ {u}
          /\ undone' = undone \cup {u}
          /\ UNCHANGED <<stranded, faults>>
       \/ /\ faults < MaxFaults
          /\ faults' = faults + 1
          /\ stranded' = [stranded EXCEPT !.paths = @ \cup {u}]
          /\ UNCHANGED <<objects, undone>>
    /\ Moves(r, "done")
    /\ UNCHANGED <<gallery, editVars, uploadVars, workVars>>

EndConfirmation(r) ==
    /\ At(r, "staged")
    /\ temps' \in {temps, temps \ {request[r].upload}}
    /\ Moves(r, "done")
    /\ UNCHANGED <<gallery, editVars, upload, objects, workVars, historyVars>>

CrashConfirmation(r) ==
    /\ request[r].at \notin {"unused", "done"}
    /\ faults < MaxFaults
    /\ faults' = faults + 1
    /\ stranded' = IF request[r].at \in {"stored", "refused"}
                   THEN [stranded EXCEPT !.paths = @ \cup {request[r].upload}]
                   ELSE stranded
    /\ Moves(r, "done")
    /\ UNCHANGED <<gallery, editVars, uploadVars, objects, workVars, undone>>

----------------------------------------------------------------------------
(* Cleanup *)

\* The grace of a day outlives every request and signed URL that was alive when
\* the event was written: no confirmation of one of its objects is running.
GraceEnds(e) ==
    /\ ~events[e].ripe
    /\ \A u \in events[e].paths \cap Uploads :
          /\ upload[u].over
          /\ \A r \in Requests : request[r].upload = u => At(r, "done")
    /\ events' = [events EXCEPT ![e].ripe = TRUE]
    /\ UNCHANGED <<gallery, editVars, uploadVars, objects, request, work, historyVars>>

BackoffEnds(e) ==
    /\ events[e].held
    /\ events' = [events EXCEPT ![e].held = FALSE]
    /\ UNCHANGED <<gallery, editVars, uploadVars, objects, request, work, historyVars>>

\* Mutant of Claimable: events in processing are claimed again, without a lease.
ClaimableTwice(e) ==
    /\ events[e].status \in {"PENDING", "PROCESSING"} /\ events[e].claims < MaxClaims
    /\ events[e].ripe /\ ~events[e].held

Claimable(e) == events[e].status = "PENDING" /\ events[e].ripe /\ ~events[e].held

\* claimCleanupEvents, with a batch of one.
ClaimCleanupEvent(w, e) ==
    /\ work[w] = NoWork
    /\ Claimable(e)
    /\ events' = [events EXCEPT ![e].status = "PROCESSING", ![e].claims = @ + 1]
    /\ work' = [work EXCEPT ![w] = [NoWork EXCEPT !.event = e, !.left = events[e].paths]]
    /\ UNCHANGED <<gallery, editVars, uploadVars, objects, request, historyVars>>

\* isImagePathReferenced.
Referenced == UNION {gallery, frozen, UNION {staged[n] : n \in 1..MaxEdits}}

\* Mutant of Retained: only what is public or frozen is retained.
RetainedIfPublic(p) == p \in gallery \cup frozen

Retained(p) == p \in Referenced

\* The check of one candidate: a referenced object is retained.
CheckCandidate(w, p) ==
    /\ work[w].checked = Nothing
    /\ p \in work[w].left
    /\ work' = IF Retained(p) THEN [work EXCEPT ![w].left = @ \ {p}]
                              ELSE [work EXCEPT ![w].checked = p]
    /\ UNCHANGED <<gallery, editVars, uploadVars, objects, request, events, historyVars>>

\* Then its deletion, which may fail.
DeleteCandidate(w) ==
    LET p == work[w].checked IN
    /\ p # Nothing
    /\ \/ /\ objects' = objects \ {p}
          /\ work' = [work EXCEPT ![w].left = @ \ {p}, ![w].checked = Nothing]
          /\ UNCHANGED faults
       \/ /\ faults < MaxFaults
          /\ faults' = faults + 1
          /\ work' = [work EXCEPT ![w].left = @ \ {p}, ![w].checked = Nothing,
                                  ![w].failed = TRUE]
          /\ UNCHANGED objects
    /\ UNCHANGED <<gallery, editVars, uploadVars, request, events, undone, stranded>>

Outcome(e, failed) ==
    IF ~failed THEN "PROCESSED"
    ELSE IF events[e].claims >= MaxClaims THEN "FAILED" ELSE "PENDING"

MarkCleanupEvent(w) ==
    LET e == work[w].event IN
    /\ e # 0 /\ work[w].left = {}
    /\ events' = [events EXCEPT ![e].status = Outcome(e, work[w].failed),
                                ![e].held = work[w].failed]
    /\ work' = [work EXCEPT ![w] = NoWork]
    /\ UNCHANGED <<gallery, editVars, uploadVars, objects, request, historyVars>>

\* The event of a run that dies stays PROCESSING: nothing claims it again.
CrashCleanup(w) ==
    /\ work[w] # NoWork
    /\ faults < MaxFaults
    /\ faults' = faults + 1
    /\ stranded' = [stranded EXCEPT !.events = @ \cup {work[w].event}]
    /\ work' = [work EXCEPT ![w] = NoWork]
    /\ UNCHANGED <<gallery, editVars, uploadVars, objects, request, events, undone>>

----------------------------------------------------------------------------
Seller ==
    \/ CreateEditRevision \/ SubmitEditRevision \/ CancelEditRevision
    \/ \E p \in Path : DeleteStagedImage(p)
    \/ \E u \in Uploads : CreateEditUpload(u)

Moderator ==
    \/ \E kept \in SUBSET Path : SaveAdjustment(kept)
    \/ DiscardAdjustment \/ ApproveEdit \/ ReturnEdit

Confirm(r) ==
    \/ \E u \in Uploads : ReadUpload(r, u)
    \/ FetchBytes(r) \/ FailUpload(r) \/ StoreObject(r) \/ StageImage(r)
    \/ RefuseImage(r) \/ UndoStore(r) \/ EndConfirmation(r) \/ CrashConfirmation(r)

Sweep(w) ==
    \/ \E p \in Path : CheckCandidate(w, p)
    \/ DeleteCandidate(w) \/ MarkCleanupEvent(w)

Claims == \E w \in Workers, e \in DOMAIN events : ClaimCleanupEvent(w, e)

Time ==
    \/ \E u \in Uploads : UploadLapses(u)
    \/ \E e \in DOMAIN events : GraceEnds(e) \/ BackoffEnds(e)

Next ==
    \/ Seller \/ Moderator \/ Claims \/ Time
    \/ \E r \in Requests : Confirm(r)
    \/ \E w \in Workers : Sweep(w) \/ CrashCleanup(w)

Spec == Init /\ [][Next]_vars

----------------------------------------------------------------------------
(* Properties *)

\* What the galleries and the frozen submissions name has its object, unless
\* the compensation of a confirmation removed it: no approval, cancellation,
\* removal or cleanup run deletes what is or becomes referenced again
\* (repositories/lifecycle-jobs.ts isImagePathReferenced).
ReferencedAreKept == Referenced \ objects \subseteq undone

\* An object nothing names is a candidate of an event that is not done, the
\* work of a running confirmation, or was left behind by a fault: every flow
\* that lets go of a path announces it (services/lifecycle-jobs.ts:256).
OrphansAreAnnounced ==
    objects \ Referenced \subseteq
        UNION {UNION {events[e].paths : e \in {d \in DOMAIN events :
                                                  events[d].status # "PROCESSED"}},
               {request[r].upload : r \in {q \in Requests :
                    request[q].at \in {"stored", "refused"}}},
               stranded.paths}

\* An event in processing is in the hands of exactly one run, or its run died
\* (repositories/lifecycle-jobs.ts claimCleanupEvents).
OneRunPerEvent ==
    \A e \in DOMAIN events :
        LET holders == {w \in Workers : work[w].event = e} IN
        /\ Cardinality(holders) <= 1
        /\ events[e].status = "PROCESSING" <=> holders # {} \/ e \in stranded.events

\* The public gallery has its objects: the comment of the module says that
\* "storage objects shared with the approved gallery are never deletable"
\* (services/listing-lifecycle.ts:167).
PublicImagesExist == gallery \subseteq objects
=============================================================================
