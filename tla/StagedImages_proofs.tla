------------------------ MODULE StagedImages_proofs ------------------------
(***************************************************************************)
(* Proofs about StagedImages, for any images, requests, runs and bounds.   *)
(***************************************************************************)
EXTENDS StagedImages, FiniteSetTheorems, TLAPS

USE DEF editVars, uploadVars, workVars, historyVars

----------------------------------------------------------------------------
(* The inductive invariant *)

\* Only revisions up to the last one have a gallery, and an open adjustment
\* keeps images of the edit under review.
EditInv ==
    /\ OpenEdit => edit.no # 0
    /\ \A n \in 1..MaxEdits : n > edit.no => staged[n] = {}
    /\ plan # Nothing => edit.status = "PENDING_MODERATION" /\ plan \subseteq Images

\* An upload that knows its image has a staged row, and a request that stored
\* an object can count on it unless another one's compensation removed it.
UploadInv ==
    /\ \A u \in Uploads : upload[u].home # 0 => u \in staged[upload[u].home]
    /\ \A r \in Requests : request[r].at # "unused" => request[r].upload \in Uploads
    /\ \A r \in Requests : At(r, "stored") => request[r].upload \in objects \cup undone

\* No upload among the paths can be staged any more.
Quiet(paths) ==
    \A u \in paths \cap Uploads :
        /\ upload[u].over
        /\ \A r \in Requests : request[r].upload = u =>
              request[r].at \in {"unused", "expiring", "done"}

RipeInv == \A e \in DOMAIN events : events[e].ripe => Quiet(events[e].paths)

\* What a run may rely on: the event is its own and what it found unreferenced
\* stays so.
HeldOf(w) ==
    LET e == work[w].event IN
    /\ e = 0 => work[w] = NoWork
    /\ e # 0 => /\ e \in DOMAIN events /\ e \notin stranded.events
                /\ events[e].status = "PROCESSING" /\ events[e].ripe
                /\ work[w].left \subseteq events[e].paths
    /\ work[w].checked # Nothing => work[w].checked \in work[w].left \ Referenced

Held(e) == \E w \in Workers : work[w].event = e

HoldInv ==
    /\ \A w \in Workers : HeldOf(w)
    /\ \A v, w \in Workers : work[v].event = work[w].event /\ work[v].event # 0 => v = w
    /\ stranded.events \subseteq DOMAIN events
    /\ \A e \in DOMAIN events :
          /\ events[e].status = "PROCESSING" <=> Held(e) \/ e \in stranded.events
          /\ events[e].status = "PENDING" => events[e].claims < MaxClaims

\* The event will still look at the object, or failed to delete it.
Awaits(e, p) ==
    /\ p \in events[e].paths /\ events[e].status # "PROCESSED"
    /\ \A w \in Workers : work[w].event = e => p \in work[w].left \/ work[w].failed

InRequest(p) ==
    \E r \in Requests : request[r].at \in {"stored", "refused"} /\ request[r].upload = p

AwaitedInv ==
    \A p \in objects \ Referenced :
        \/ \E e \in DOMAIN events : Awaits(e, p)
        \/ InRequest(p)
        \/ p \in stranded.paths

IInv == /\ TypeOK /\ EditInv /\ UploadInv /\ RipeInv /\ HoldInv
        /\ ReferencedAreKept /\ AwaitedInv
----------------------------------------------------------------------------
(* What the operators do *)

\* Events are numbered from one.
LEMMA EventsOf ==
    ASSUME TypeOK
    PROVE  /\ DOMAIN events = 1..Len(events) /\ Len(events) \in Nat
           /\ DOMAIN events \subseteq 1..MaxEvents
           /\ \A e \in DOMAIN events : events[e] \in Event
  <1>1. Len(events) \in Nat /\ Len(events) <= MaxEvents /\ MaxEvents \in Nat
    BY StagedAssumption DEF TypeOK
  <1>2. DOMAIN events = 1..Len(events) /\ \A e \in DOMAIN events : events[e] \in Event
    BY DEF TypeOK
  <1> QED BY <1>1, <1>2

\* A new event is the last one and nothing has happened to it.
Fresh(e, paths) ==
    /\ events[e].paths = paths /\ events[e].status = "PENDING" /\ ~events[e].ripe
    /\ ~events[e].held /\ events[e].claims = 0

LEMMA EmitOf ==
    ASSUME TypeOK, NEW paths \in SUBSET Path, Emit(paths)
    PROVE  /\ events' \in Seq(Event) /\ Len(events') <= MaxEvents
           /\ DOMAIN events \subseteq DOMAIN events'
           /\ \A e \in DOMAIN events : events'[e] = events[e]
           /\ \A e \in DOMAIN events' \ DOMAIN events : Fresh(e, paths)'
           /\ paths # {} => \E e \in DOMAIN events' \ DOMAIN events : Fresh(e, paths)'
  <1>1. CASE paths = {}
    BY <1>1 DEF Emit, TypeOK
  <1>2. CASE paths # {}
    <2> DEFINE entry == [paths |-> paths, status |-> "PENDING", ripe |-> FALSE,
                         held |-> FALSE, claims |-> 0]
    <2>1. entry \in Event
      BY StagedAssumption DEF Event
    <2>2. events' = Append(events, entry) /\ Len(events) < MaxEvents
      BY <1>2 DEF Emit
    <2>3. /\ entry.paths = paths /\ entry.status = "PENDING" /\ ~entry.ripe
          /\ ~entry.held /\ entry.claims = 0
      OBVIOUS
    <2> HIDE DEF entry
    <2>4. /\ events \in Seq(Event) /\ Len(events) \in Nat /\ MaxEvents \in Nat
          /\ DOMAIN events = 1..Len(events)
      BY EventsOf, StagedAssumption DEF TypeOK
    <2>5. /\ events' \in Seq(Event) /\ Len(events') = Len(events) + 1
          /\ \A e \in 1..Len(events) : events'[e] = events[e]
          /\ events'[Len(events) + 1] = entry
      BY <2>1, <2>2, <2>4
    <2>6. /\ DOMAIN events' = 1..Len(events) + 1
          /\ DOMAIN events' \ DOMAIN events = {Len(events) + 1}
      BY <2>4, <2>5
    <2> QED BY <2>2, <2>3, <2>4, <2>5, <2>6 DEF Fresh
  <1> QED BY <1>1, <1>2

\* One request moves.
LEMMA MovesOf ==
    ASSUME TypeOK, NEW r \in Requests,
           NEW step \in {"failing", "fetched", "stored", "refused", "staged", "done"},
           Moves(r, step)
    PROVE  /\ request' \in [Requests ->
                 [at : {"unused", "expiring", "failing", "read", "fetched", "stored", "refused",
                        "staged", "done"},
                  upload : Uploads \cup {Nothing}]]
           /\ request'[r].at = step /\ request'[r].upload = request[r].upload
           /\ \A q \in Requests \ {r} : request'[q] = request[q]
  <1> DEFINE entry == [request[r] EXCEPT !.at = step]
  <1>1. /\ entry \in [at : {"unused", "expiring", "failing", "read", "fetched", "stored",
                            "refused", "staged", "done"},
                      upload : Uploads \cup {Nothing}]
        /\ entry.at = step /\ entry.upload = request[r].upload
    BY DEF TypeOK
  <1>2. request' = [request EXCEPT ![r] = entry]
    BY DEF Moves, TypeOK
  <1> HIDE DEF entry
  <1> QED BY <1>1, <1>2 DEF TypeOK

\* One event changes, in its status, its holds or its count of claims.
LEMMA EventChanges ==
    ASSUME TypeOK, NEW e \in DOMAIN events, NEW entry \in Event,
           events' = [events EXCEPT ![e] = entry]
    PROVE  /\ events' \in Seq(Event) /\ Len(events') = Len(events)
           /\ DOMAIN events' = DOMAIN events
           /\ events'[e] = entry
           /\ \A d \in DOMAIN events \ {e} : events'[d] = events[d]
BY EventsOf DEF TypeOK

\* One run changes.
LEMMA WorkChanges ==
    ASSUME TypeOK, NEW w \in Workers, NEW entry \in Work,
           work' = [work EXCEPT ![w] = entry]
    PROVE  /\ work' \in [Workers -> Work] /\ work'[w] = entry
           /\ \A v \in Workers \ {w} : work'[v] = work[v]
BY DEF TypeOK

LEMMA NoWorkIsWork == NoWork \in Work
BY StagedAssumption DEF NoWork, Work

\* What a claim makes of the event.
LEMMA ClaimOf ==
    ASSUME TypeOK, HoldInv, NEW w \in Workers, NEW e \in DOMAIN events,
           ClaimCleanupEvent(w, e)
    PROVE  LET entry == [events[e] EXCEPT !.status = "PROCESSING", !.claims = @ + 1]
               run == [NoWork EXCEPT !.event = e, !.left = events[e].paths]
           IN /\ entry \in Event /\ run \in Work
              /\ events' = [events EXCEPT ![e] = entry]
              /\ work' = [work EXCEPT ![w] = run]
              /\ run.event = e /\ run.left = events[e].paths
              /\ run.checked = Nothing /\ run.failed = FALSE
              /\ entry.paths = events[e].paths /\ entry.status = "PROCESSING"
              /\ entry.ripe = events[e].ripe
  <1>1. events[e] \in Event /\ e \in 0..MaxEvents /\ MaxClaims \in Nat
    BY EventsOf, StagedAssumption
  <1>2. events[e].status = "PENDING" /\ events[e].claims < MaxClaims
    BY DEF ClaimCleanupEvent, Claimable, HoldInv
  <1>3. events[e].claims + 1 \in 0..MaxClaims
    BY <1>1, <1>2 DEF Event
  <1>4. [events[e] EXCEPT !.status = "PROCESSING", !.claims = @ + 1] \in Event
    BY <1>1, <1>3 DEF Event
  <1>5. [NoWork EXCEPT !.event = e, !.left = events[e].paths] \in Work
    BY <1>1 DEF Event, NoWork, Work
  <1>6. events' = [events EXCEPT ![e] = [events[e] EXCEPT !.status = "PROCESSING",
                                                          !.claims = @ + 1]]
    BY <1>1 DEF ClaimCleanupEvent, Event
  <1> QED BY <1>1, <1>4, <1>5, <1>6 DEF ClaimCleanupEvent, NoWork, Event

\* The same, naming the two new records.
LEMMA ClaimMakes ==
    ASSUME TypeOK, HoldInv, NEW w \in Workers, NEW e \in DOMAIN events,
           ClaimCleanupEvent(w, e)
    PROVE  \E entry \in Event, run \in Work :
              /\ events' = [events EXCEPT ![e] = entry]
              /\ work' = [work EXCEPT ![w] = run]
              /\ run.event = e /\ run.left = events[e].paths
              /\ entry.status = "PROCESSING"
  <1> DEFINE entry == [events[e] EXCEPT !.status = "PROCESSING", !.claims = @ + 1]
             run == [NoWork EXCEPT !.event = e, !.left = events[e].paths]
  <1>1. /\ entry \in Event /\ run \in Work
        /\ events' = [events EXCEPT ![e] = entry]
        /\ work' = [work EXCEPT ![w] = run]
        /\ run.event = e /\ run.left = events[e].paths
        /\ entry.status = "PROCESSING"
    BY ClaimOf
  <1> HIDE DEF entry, run
  <1> QED BY <1>1

\* The mark that ends a run.
LEMMA MarkOf ==
    ASSUME TypeOK, NEW w \in Workers, HeldOf(w), MarkCleanupEvent(w)
    PROVE  LET e == work[w].event IN
           /\ e \in DOMAIN events
           /\ \E entry \in Event :
                 /\ events' = [events EXCEPT ![e] = entry]
                 /\ entry.paths = events[e].paths /\ entry.ripe = events[e].ripe
                 /\ entry.claims = events[e].claims
                 /\ entry.status = Outcome(e, work[w].failed)
  <1> DEFINE e == work[w].event
  <1>1. e \in DOMAIN events /\ events[e] \in Event
    BY EventsOf DEF MarkCleanupEvent, HeldOf
  <1>2. work[w].failed \in BOOLEAN
    BY DEF TypeOK, Work
  <1>3. Outcome(e, work[w].failed) \in {"PROCESSED", "FAILED", "PENDING"}
    BY DEF Outcome
  <1>4. [events[e] EXCEPT !.status = Outcome(e, work[w].failed), !.held = work[w].failed] \in Event
    BY <1>1, <1>2, <1>3 DEF Event
  <1>5. events' = [events EXCEPT ![e] = [events[e] EXCEPT !.status = Outcome(e, work[w].failed),
                                                          !.held = work[w].failed]]
    BY <1>1 DEF MarkCleanupEvent, Event
  <1> DEFINE entry == [events[e] EXCEPT !.status = Outcome(e, work[w].failed),
                                        !.held = work[w].failed]
  <1>6. /\ entry.paths = events[e].paths /\ entry.ripe = events[e].ripe
        /\ entry.claims = events[e].claims /\ entry.status = Outcome(e, work[w].failed)
    BY <1>1 DEF Event
  <1>7. entry \in Event /\ events' = [events EXCEPT ![e] = entry]
    BY <1>4, <1>5
  <1> HIDE DEF entry
  <1> QED BY <1>1, <1>6, <1>7

----------------------------------------------------------------------------
(* Types *)

\* An open edit has a gallery.
LEMMA ImagesOf ==
    ASSUME TypeOK, EditInv, OpenEdit
    PROVE  edit.no \in 1..MaxEdits /\ Images \subseteq Path /\ Images \subseteq Referenced
  <1>1. edit.no \in 1..MaxEdits
    BY StagedAssumption DEF TypeOK, EditInv
  <1> QED BY <1>1 DEF TypeOK, Images, Referenced

UploadRow ==
    [status : {"NONE", "PENDING", "COMPLETED", "FAILED", "EXPIRED"},
     home : 0..MaxEdits, over : BOOLEAN]

\* An upload's row in its type.
LEMMA UploadChanges ==
    ASSUME TypeOK, NEW u \in Uploads,
           NEW entry \in UploadRow,
           upload' = [upload EXCEPT ![u] = entry]
    PROVE  /\ upload' \in [Uploads -> UploadRow]
           /\ upload'[u] = entry
           /\ \A v \in Uploads \ {u} : upload'[v] = upload[v]
BY DEF TypeOK, UploadRow

\* A new status, of one upload.
LEMMA StatusChanges ==
    ASSUME TypeOK, NEW u \in Uploads,
           NEW status \in {"PENDING", "FAILED", "EXPIRED"},
           upload' = [upload EXCEPT ![u].status = status]
    PROVE  /\ upload' \in [Uploads -> UploadRow]
           /\ \A v \in Uploads : /\ upload'[v].home = upload[v].home
                                 /\ upload'[v].over = upload[v].over
  <1> DEFINE entry == [upload[u] EXCEPT !.status = status]
  <1>1. /\ entry \in UploadRow
        /\ entry.home = upload[u].home /\ entry.over = upload[u].over
    BY DEF TypeOK, UploadRow
  <1>2. upload' = [upload EXCEPT ![u] = entry]
    BY DEF TypeOK
  <1> HIDE DEF entry
  <1> QED BY <1>1, <1>2, UploadChanges

\* The row of an upload as its steps leave it.
LEMMA StagedRow ==
    ASSUME TypeOK, EditInv, UploadInv, NEW r \in Requests, StageImage(r),
           upload[request[r].upload].home = 0
    PROVE  LET u == request[r].upload
               entry == [upload[u] EXCEPT !.status = "COMPLETED", !.home = edit.no]
           IN /\ u \in Uploads /\ edit.no \in 1..MaxEdits
              /\ entry \in UploadRow
              /\ upload' = [upload EXCEPT ![u] = entry]
              /\ entry.home = edit.no /\ entry.over = upload[u].over
              /\ staged' = [staged EXCEPT ![edit.no] = @ \cup {u}]
  <1>1. request[r].upload \in Uploads
    BY DEF StageImage, At, UploadInv
  <1>2. edit.no \in 1..MaxEdits
    BY ImagesOf DEF StageImage, Accepted, Editable, OpenEdit
  <1>3. upload[request[r].upload] \in UploadRow
    BY <1>1 DEF TypeOK, UploadRow
  <1>4. [upload[request[r].upload] EXCEPT !.status = "COMPLETED", !.home = edit.no] \in UploadRow
    <2>1. edit.no \in 0..MaxEdits
      BY DEF TypeOK
    <2> QED BY <1>3, <2>1 DEF UploadRow
  <1>5. upload' = [upload EXCEPT ![request[r].upload] =
                     [upload[request[r].upload] EXCEPT !.status = "COMPLETED", !.home = edit.no]]
    BY <1>1 DEF StageImage, TypeOK
  <1> QED BY <1>1, <1>2, <1>3, <1>4, <1>5 DEF StageImage, UploadRow

LEMMA TypeStep == IInv /\ [Next]_vars => TypeOK'
  <1> SUFFICES ASSUME IInv, [Next]_vars PROVE TypeOK'
    OBVIOUS
  <1>t. TypeOK /\ EditInv /\ UploadInv /\ HoldInv
    BY DEF IInv
  <1>f. MaxEdits \in Nat /\ MaxEvents \in Nat /\ MaxFaults \in Nat
    BY StagedAssumption
  <1>1. CASE CreateEditRevision
    <2>1. edit.no + 1 \in 0..MaxEdits
      BY <1>t, <1>f, <1>1 DEF TypeOK, CreateEditRevision
    <2> QED BY <1>t, <1>1, <2>1 DEF TypeOK, CreateEditRevision
  <1>2. CASE SubmitEditRevision
    <2>1. upload' \in [Uploads -> UploadRow]
      <3>0. \A u \in Uploads : upload[u] \in UploadRow
        BY <1>t DEF TypeOK, UploadRow
      <3>1. \A u \in Uploads : /\ upload[u] \in UploadRow
                               /\ [upload[u] EXCEPT !.status = "EXPIRED"] \in UploadRow
        BY <3>0 DEF UploadRow
      <3>2. \A u \in Uploads : (IF upload[u].status = "PENDING"
                               THEN [upload[u] EXCEPT !.status = "EXPIRED"]
                               ELSE upload[u]) \in UploadRow
        BY <3>1
      <3> QED BY <1>2, <3>2 DEF SubmitEditRevision
    <2>2. edit' \in [no : 0..MaxEdits,
                    status : {"NONE", "EDIT_DRAFT", "PENDING_MODERATION",
                              "CORRECTION_REQUIRED", "CLOSED"}]
      BY <1>t, <1>2 DEF TypeOK, SubmitEditRevision
    <2> QED BY <1>t, <1>2, <2>1, <2>2 DEF TypeOK, SubmitEditRevision, UploadRow
  <1>3. CASE CancelEditRevision
    <2>1. Images \in SUBSET Path
      BY <1>t, <1>3, ImagesOf DEF CancelEditRevision, Editable, OpenEdit
    <2> QED BY <1>t, <1>3, <2>1, EmitOf DEF TypeOK, CancelEditRevision
  <1>4. ASSUME NEW p \in Path, DeleteStagedImage(p) PROVE TypeOK'
    <2>1. /\ events' \in Seq(Event) /\ Len(events') <= MaxEvents
      BY <1>t, <1>4, EmitOf DEF DeleteStagedImage
    <2>2. upload' \in [Uploads -> UploadRow]
      <3>1. \A u \in Uploads : /\ upload[u] \in UploadRow
                               /\ [upload[u] EXCEPT !.home = 0] \in UploadRow
        <4>1. 0 \in 0..MaxEdits
          BY <1>f
        <4>2. \A u \in Uploads : upload[u] \in UploadRow
          BY <1>t DEF TypeOK, UploadRow
        <4> QED BY <4>1, <4>2 DEF UploadRow
      <3> QED BY <1>4, <3>1 DEF DeleteStagedImage
    <2>3. staged' \in [1..MaxEdits -> SUBSET Path]
      BY <1>t, <1>4 DEF TypeOK, DeleteStagedImage
    <2> QED BY <1>t, <1>4, <2>1, <2>2, <2>3 DEF TypeOK, DeleteStagedImage, UploadRow
  <1>5. ASSUME NEW u \in Uploads, CreateEditUpload(u) PROVE TypeOK'
    <2>1. upload' \in [Uploads -> UploadRow]
      BY <1>t, <1>5, StatusChanges DEF CreateEditUpload
    <2> QED BY <1>t, <1>5, <2>1 DEF TypeOK, CreateEditUpload, UploadRow
  <1>6. CASE Moderator
    <2>1. ASSUME NEW kept \in SUBSET Path, SaveAdjustment(kept) PROVE TypeOK'
      <3>1. Images \subseteq Path
        BY <1>t, <2>1, ImagesOf DEF SaveAdjustment, OpenEdit
      <3> QED BY <1>t, <2>1, <3>1 DEF TypeOK, SaveAdjustment
    <2>2. CASE DiscardAdjustment
      BY <1>t, <2>2 DEF TypeOK, DiscardAdjustment
    <2>3. CASE ApproveEdit
      <3> DEFINE kept == IF plan = Nothing THEN Images ELSE plan
      <3>1. Images \subseteq Path
        BY <1>t, <2>3, ImagesOf DEF ApproveEdit, OpenEdit
      <3>2. kept \subseteq Path /\ Leaving(kept) \in SUBSET Path
        BY <1>t, <3>1 DEF TypeOK, Leaving
      <3>3. events' \in Seq(Event) /\ Len(events') <= MaxEvents
        BY <1>t, <2>3, <3>2, EmitOf DEF ApproveEdit
      <3> QED BY <1>t, <2>3, <3>2, <3>3 DEF TypeOK, ApproveEdit
    <2>4. CASE ReturnEdit
      BY <1>t, <2>4 DEF TypeOK, ReturnEdit
    <2> QED BY <1>6, <2>1, <2>2, <2>3, <2>4 DEF Moderator
  <1>7. ASSUME NEW w \in Workers, NEW e \in DOMAIN events, ClaimCleanupEvent(w, e) PROVE TypeOK'
    <2>1. \E entry \in Event, run \in Work : /\ events' = [events EXCEPT ![e] = entry]
                                              /\ work' = [work EXCEPT ![w] = run]
      <3> DEFINE entry == [events[e] EXCEPT !.status = "PROCESSING", !.claims = @ + 1]
                 run == [NoWork EXCEPT !.event = e, !.left = events[e].paths]
      <3>1. /\ entry \in Event /\ run \in Work
            /\ events' = [events EXCEPT ![e] = entry] /\ work' = [work EXCEPT ![w] = run]
        BY <1>t, <1>7, ClaimOf
      <3> HIDE DEF entry, run
      <3> QED BY <3>1
    <2>2. events' \in Seq(Event) /\ Len(events') <= MaxEvents /\ work' \in [Workers -> Work]
      BY <1>t, <2>1, EventChanges, WorkChanges DEF TypeOK
    <2> QED BY <1>t, <1>7, <2>2 DEF TypeOK, ClaimCleanupEvent
  <1>8. CASE Time
    <2>1. ASSUME NEW u \in Uploads, UploadLapses(u) PROVE TypeOK'
      <3>0. upload[u] \in UploadRow
        BY <1>t DEF TypeOK, UploadRow
      <3>1. [upload[u] EXCEPT !.over = TRUE] \in UploadRow
        BY <3>0 DEF UploadRow
      <3>2. upload' = [upload EXCEPT ![u] = [upload[u] EXCEPT !.over = TRUE]]
        BY <1>t, <2>1 DEF TypeOK, UploadLapses
      <3>3. upload' \in [Uploads -> UploadRow]
        BY <1>t, <3>1, <3>2 DEF TypeOK, UploadRow
      <3> QED BY <1>t, <2>1, <3>3 DEF TypeOK, UploadLapses, UploadRow
    <2>2. ASSUME NEW e \in DOMAIN events, GraceEnds(e) \/ BackoffEnds(e) PROVE TypeOK'
      <3>1. events[e] \in Event
        BY <1>t, EventsOf
      <3>2. /\ [events[e] EXCEPT !.ripe = TRUE] \in Event
            /\ [events[e] EXCEPT !.held = FALSE] \in Event
        BY <3>1 DEF Event
      <3> QED BY <1>t, <2>2, <3>2, EventChanges DEF TypeOK, GraceEnds, BackoffEnds
    <2> QED BY <1>8, <2>1, <2>2 DEF Time
  <1>9. ASSUME NEW r \in Requests, Confirm(r) PROVE TypeOK'
    <2>1. ASSUME NEW u \in Uploads, ReadUpload(r, u) PROVE TypeOK'
      BY <1>t, <2>1 DEF TypeOK, ReadUpload
    <2>2. CASE FetchBytes(r) \/ StoreObject(r) \/ EndConfirmation(r) \/ RefuseImage(r)
      <3>1. request' \in [Requests ->
              [at : {"unused", "expiring", "failing", "read", "fetched", "stored", "refused",
                     "staged", "done"},
               upload : Uploads \cup {Nothing}]]
        BY <1>t, <2>2, MovesOf DEF FetchBytes, StoreObject, EndConfirmation, RefuseImage
      <3>2. At(r, "fetched") => request[r].upload \in Uploads
        BY <1>t DEF UploadInv, At
      <3> QED BY <1>t, <1>f, <2>2, <3>1, <3>2
              DEF TypeOK, FetchBytes, StoreObject, EndConfirmation, RefuseImage, Path
    <2>3. CASE FailUpload(r)
      <3>1. request[r].upload \in Uploads
        BY <1>t, <2>3 DEF FailUpload, UploadInv
      <3>2. upload' \in [Uploads -> UploadRow]
        BY <1>t, <2>3, <3>1, StatusChanges DEF FailUpload
      <3> QED BY <1>t, <2>3, <3>2, MovesOf DEF TypeOK, FailUpload, UploadRow
    <2>4. CASE StageImage(r)
      <3>1. CASE upload[request[r].upload].home = 0
        <4>1. staged' \in [1..MaxEdits -> SUBSET Path]
          <5>1. /\ staged' = [staged EXCEPT ![edit.no] = @ \cup {request[r].upload}]
                /\ request[r].upload \in Path
            BY <1>t, <2>4, <3>1, StagedRow DEF Path
          <5> QED BY <1>t, <5>1 DEF TypeOK
        <4>2. upload' \in [Uploads -> UploadRow]
          BY <1>t, <2>4, <3>1, StagedRow, UploadChanges
        <4> QED BY <1>t, <2>4, <4>1, <4>2, MovesOf DEF TypeOK, StageImage, UploadRow
      <3>2. CASE upload[request[r].upload].home # 0
        BY <1>t, <2>4, <3>2, MovesOf DEF TypeOK, StageImage
      <3> QED BY <3>1, <3>2
    <2>5. CASE UndoStore(r)
      <3>1. request[r].upload \in Path
        BY <1>t, <2>5 DEF UndoStore, UploadInv, At, Path
      <3>2. CASE UNCHANGED <<stranded, faults>>
        BY <1>t, <2>5, <3>1, <3>2, MovesOf DEF TypeOK, UndoStore
      <3>3. CASE faults < MaxFaults /\ faults' = faults + 1
                 /\ stranded' = [stranded EXCEPT !.paths = @ \cup {request[r].upload}]
        <4>1. stranded' \in [events : SUBSET (1..MaxEvents), paths : SUBSET Path]
          BY <1>t, <3>1, <3>3 DEF TypeOK
        <4>2. faults' \in 0..MaxFaults
          BY <1>t, <1>f, <3>3 DEF TypeOK
        <4> QED BY <1>t, <2>5, <3>1, <4>1, <4>2, MovesOf DEF TypeOK, UndoStore
      <3> QED BY <2>5, <3>2, <3>3 DEF UndoStore
    <2>6. CASE CrashConfirmation(r)
      <3>1. request[r].upload \in Path
        BY <1>t, <2>6 DEF CrashConfirmation, UploadInv, Path
      <3>2. stranded' \in [events : SUBSET (1..MaxEvents), paths : SUBSET Path]
        BY <1>t, <2>6, <3>1 DEF TypeOK, CrashConfirmation
      <3>3. faults' \in 0..MaxFaults
        BY <1>t, <1>f, <2>6 DEF TypeOK, CrashConfirmation
      <3> QED BY <1>t, <2>6, <3>2, <3>3, MovesOf DEF TypeOK, CrashConfirmation
    <2> QED BY <1>9, <2>1, <2>2, <2>3, <2>4, <2>5, <2>6 DEF Confirm
  <1>10. ASSUME NEW w \in Workers, Sweep(w) \/ CrashCleanup(w) PROVE TypeOK'
    <2>1. ASSUME NEW p \in Path, CheckCandidate(w, p) PROVE TypeOK'
      <3>0. work[w] \in Work
        BY <1>t DEF TypeOK
      <3>1. /\ [work[w] EXCEPT !.left = @ \ {p}] \in Work
            /\ [work[w] EXCEPT !.checked = p] \in Work
        BY <3>0 DEF Work
      <3>2. \E run \in Work : work' = [work EXCEPT ![w] = run]
        <4>1. CASE Retained(p)
          <5>1. work' = [work EXCEPT ![w] = [work[w] EXCEPT !.left = @ \ {p}]]
            BY <1>t, <2>1, <4>1 DEF CheckCandidate, TypeOK
          <5> QED BY <3>1, <5>1
        <4>2. CASE ~Retained(p)
          <5>1. work' = [work EXCEPT ![w] = [work[w] EXCEPT !.checked = p]]
            BY <1>t, <2>1, <4>2 DEF CheckCandidate, TypeOK
          <5> QED BY <3>1, <5>1
        <4> QED BY <4>1, <4>2
      <3>3. work' \in [Workers -> Work]
        BY <1>t, <3>2, WorkChanges
      <3> QED BY <1>t, <2>1, <3>3 DEF TypeOK, CheckCandidate
    <2>2. CASE DeleteCandidate(w)
      <3> DEFINE p == work[w].checked
      <3>0. work[w] \in Work
        BY <1>t DEF TypeOK
      <3>1. /\ [work[w] EXCEPT !.left = @ \ {p}, !.checked = Nothing] \in Work
            /\ [work[w] EXCEPT !.left = @ \ {p}, !.checked = Nothing, !.failed = TRUE] \in Work
        BY <3>0 DEF Work
      <3>2. work' \in [Workers -> Work]
        <4>1. \E run \in Work : work' = [work EXCEPT ![w] = run]
          <5> DEFINE gone == [work[w] EXCEPT !.left = @ \ {p}, !.checked = Nothing]
                     kept == [work[w] EXCEPT !.left = @ \ {p}, !.checked = Nothing,
                                             !.failed = TRUE]
          <5>1. work' = [work EXCEPT ![w] = gone] \/ work' = [work EXCEPT ![w] = kept]
            BY <1>t, <2>2 DEF DeleteCandidate, TypeOK
          <5> HIDE DEF gone, kept
          <5> QED BY <3>1, <5>1 DEF gone, kept
        <4> QED BY <1>t, <4>1, WorkChanges
      <3>3. objects' \subseteq Path /\ faults' \in 0..MaxFaults
        BY <1>t, <1>f, <2>2 DEF TypeOK, DeleteCandidate
      <3> QED BY <1>t, <2>2, <3>2, <3>3 DEF TypeOK, DeleteCandidate
    <2>3. CASE MarkCleanupEvent(w)
      <3>1. events' \in Seq(Event) /\ Len(events') <= MaxEvents
        <4>1. \E e \in DOMAIN events, entry \in Event : events' = [events EXCEPT ![e] = entry]
          <5>1. HeldOf(w)
            BY <1>t DEF HoldInv
          <5> QED BY <1>t, <2>3, <5>1, MarkOf
        <4> QED BY <1>t, <4>1, EventChanges DEF TypeOK
      <3>2. work' \in [Workers -> Work]
        BY <1>t, <2>3, NoWorkIsWork, WorkChanges DEF MarkCleanupEvent
      <3> QED BY <1>t, <2>3, <3>1, <3>2 DEF TypeOK, MarkCleanupEvent
    <2>4. CASE CrashCleanup(w)
      <3>1. work[w].event \in 1..MaxEvents
        BY <1>t, <2>4, EventsOf DEF CrashCleanup, HoldInv, HeldOf
      <3>2. stranded' \in [events : SUBSET (1..MaxEvents), paths : SUBSET Path]
        BY <1>t, <2>4, <3>1 DEF TypeOK, CrashCleanup
      <3>3. faults' \in 0..MaxFaults
        BY <1>t, <1>f, <2>4 DEF TypeOK, CrashCleanup
      <3>4. work' \in [Workers -> Work]
        BY <1>t, <2>4, NoWorkIsWork, WorkChanges DEF CrashCleanup
      <3> QED BY <1>t, <2>4, <3>2, <3>3, <3>4 DEF TypeOK, CrashCleanup
    <2> QED BY <1>10, <2>1, <2>2, <2>3, <2>4 DEF Sweep
  <1>11. CASE UNCHANGED vars
    BY <1>t, <1>11 DEF vars, TypeOK
  <1> QED BY <1>1, <1>2, <1>3, <1>4, <1>5, <1>6, <1>7, <1>8, <1>9, <1>10, <1>11
          DEF Next, Seller, Claims
----------------------------------------------------------------------------
(* The edit *)

LEMMA EditStep == IInv /\ [Next]_vars => EditInv'
  <1> SUFFICES ASSUME IInv, [Next]_vars PROVE EditInv'
    OBVIOUS
  <1>t. TypeOK /\ EditInv /\ UploadInv
    BY DEF IInv
  <1>0. ASSUME UNCHANGED <<edit, staged, plan>> PROVE EditInv'
    BY <1>t, <1>0 DEF EditInv, OpenEdit, Images
  <1>1. CASE CreateEditRevision
    <2>1. plan = Nothing
      BY <1>t, <1>1 DEF CreateEditRevision, EditInv, OpenEdit
    <2>2. edit'.no = edit.no + 1 /\ edit.no \in Nat
      BY <1>t, <1>1, StagedAssumption DEF CreateEditRevision, TypeOK
    <2>3. ASSUME NEW n \in 1..MaxEdits, n > edit'.no PROVE staged'[n] = {}
      BY <1>t, <1>1, <2>2, <2>3 DEF CreateEditRevision, EditInv, TypeOK
    <2> QED BY <1>1, <2>1, <2>2, <2>3 DEF CreateEditRevision, EditInv
  <1>2. CASE SubmitEditRevision \/ CancelEditRevision
    <2>1. plan = Nothing /\ edit.no # 0 /\ edit'.no = edit.no
      BY <1>t, <1>2 DEF SubmitEditRevision, CancelEditRevision, Editable, EditInv, OpenEdit, TypeOK
    <2> QED BY <1>t, <1>2, <2>1 DEF SubmitEditRevision, CancelEditRevision, EditInv
  <1>3. ASSUME NEW p \in Path, DeleteStagedImage(p) PROVE EditInv'
    <2>1. plan = Nothing /\ edit.no # 0
      BY <1>t, <1>3 DEF DeleteStagedImage, Editable, EditInv, OpenEdit
    <2>2. ASSUME NEW n \in 1..MaxEdits, n > edit.no PROVE staged'[n] = {}
      BY <1>t, <1>3, <2>2 DEF DeleteStagedImage, EditInv, TypeOK
    <2> QED BY <1>t, <1>3, <2>1, <2>2 DEF DeleteStagedImage, EditInv
  <1>4. CASE Moderator
    <2>1. ASSUME NEW kept \in SUBSET Path, SaveAdjustment(kept) PROVE EditInv'
      <3>1. /\ UNCHANGED <<edit, staged>> /\ edit.status = "PENDING_MODERATION"
            /\ plan' \subseteq Images
        BY <2>1 DEF SaveAdjustment
      <3> QED BY <1>t, <3>1 DEF EditInv, OpenEdit, Images
    <2>2. CASE DiscardAdjustment
      BY <1>t, <2>2 DEF DiscardAdjustment, EditInv, OpenEdit, Images
    <2>3. CASE ApproveEdit \/ ReturnEdit
      <3>1. edit.no # 0 /\ edit'.no = edit.no /\ plan' = Nothing /\ UNCHANGED staged
        BY <1>t, <2>3 DEF ApproveEdit, ReturnEdit, EditInv, OpenEdit, TypeOK
      <3> QED BY <1>t, <3>1 DEF EditInv
    <2> QED BY <1>4, <2>1, <2>2, <2>3 DEF Moderator
  <1>5. ASSUME NEW r \in Requests, StageImage(r) PROVE EditInv'
    <2>1. plan = Nothing /\ edit.no # 0
      BY <1>t, <1>5 DEF StageImage, Accepted, Editable, EditInv, OpenEdit
    <2>2. CASE upload[request[r].upload].home = 0
      <3>1. staged' = [staged EXCEPT ![edit.no] = @ \cup {request[r].upload}]
        BY <1>t, <1>5, <2>2, StagedRow
      <3>2. ASSUME NEW n \in 1..MaxEdits, n > edit.no PROVE staged'[n] = {}
        BY <1>t, <3>1, <3>2 DEF EditInv, TypeOK
      <3> QED BY <1>5, <2>1, <3>2 DEF StageImage, EditInv
    <2>3. CASE upload[request[r].upload].home # 0
      BY <1>0, <1>5, <2>3 DEF StageImage
    <2> QED BY <2>2, <2>3
  <1>6. ASSUME NEW r \in Requests, Confirm(r), ~StageImage(r) PROVE EditInv'
    BY <1>0, <1>6 DEF Confirm, ReadUpload, FetchBytes, FailUpload, StoreObject, RefuseImage,
                      UndoStore, EndConfirmation, CrashConfirmation
  <1>7. ASSUME NEW w \in Workers, Sweep(w) \/ CrashCleanup(w) PROVE EditInv'
    BY <1>0, <1>7 DEF Sweep, CheckCandidate, DeleteCandidate, MarkCleanupEvent, CrashCleanup
  <1>8. CASE Claims \/ Time \/ UNCHANGED vars
    BY <1>0, <1>8 DEF Claims, ClaimCleanupEvent, Time, UploadLapses, GraceEnds, BackoffEnds, vars
  <1>9. ASSUME NEW u \in Uploads, CreateEditUpload(u) PROVE EditInv'
    BY <1>0, <1>9 DEF CreateEditUpload
  <1> QED BY <1>1, <1>2, <1>3, <1>4, <1>5, <1>6, <1>7, <1>8, <1>9 DEF Next, Seller

----------------------------------------------------------------------------
(* What any step does to events, references and objects *)

\* Events stay, name what they named and ripen for good; a verdict is final; a
\* new event has not been touched.
EventsGoOn ==
    /\ DOMAIN events \subseteq DOMAIN events'
    /\ \A e \in DOMAIN events :
          /\ events'[e].paths = events[e].paths
          /\ events[e].ripe => events'[e].ripe
          /\ events'[e].ripe # events[e].ripe => GraceEnds(e)
          /\ events[e].status \in {"PROCESSED", "FAILED"} =>
                events'[e].status = events[e].status
    /\ \A e \in DOMAIN events' \ DOMAIN events :
          ~events'[e].ripe /\ events'[e].status = "PENDING" /\ events'[e].claims = 0

LEMMA EventSteps == IInv /\ [Next]_vars => EventsGoOn
  <1> SUFFICES ASSUME IInv, [Next]_vars PROVE EventsGoOn
    OBVIOUS
  <1>t. TypeOK /\ EditInv /\ HoldInv
    BY DEF IInv
  <1>0. ASSUME UNCHANGED events PROVE EventsGoOn
    BY <1>0 DEF EventsGoOn
  <1>1. ASSUME NEW paths \in SUBSET Path, Emit(paths) PROVE EventsGoOn
    BY <1>t, <1>1, EmitOf DEF Fresh, EventsGoOn
  <1>2. ASSUME NEW e \in DOMAIN events, NEW entry \in Event,
               events' = [events EXCEPT ![e] = entry],
               entry.paths = events[e].paths, events[e].ripe => entry.ripe,
               entry.ripe # events[e].ripe => GraceEnds(e),
               events[e].status \in {"PROCESSED", "FAILED"} => entry.status = events[e].status
        PROVE  EventsGoOn
    BY <1>t, <1>2, EventChanges DEF EventsGoOn
  <1>3. CASE CancelEditRevision
    <2>1. Images \in SUBSET Path
      BY <1>t, <1>3, ImagesOf DEF CancelEditRevision, Editable, OpenEdit
    <2> QED BY <1>1, <1>3, <2>1 DEF CancelEditRevision
  <1>4. ASSUME NEW p \in Path, DeleteStagedImage(p) PROVE EventsGoOn
    BY <1>1, <1>4 DEF DeleteStagedImage
  <1>5. CASE ApproveEdit
    <2> DEFINE kept == IF plan = Nothing THEN Images ELSE plan
    <2>1. Images \subseteq Path
      BY <1>t, <1>5, ImagesOf DEF ApproveEdit, OpenEdit
    <2>2. Leaving(kept) \in SUBSET Path
      BY <1>t, <2>1 DEF TypeOK, Leaving
    <2> QED BY <1>1, <1>5, <2>2 DEF ApproveEdit
  <1>6. ASSUME NEW w \in Workers, NEW e \in DOMAIN events, ClaimCleanupEvent(w, e) PROVE EventsGoOn
    <2> DEFINE entry == [events[e] EXCEPT !.status = "PROCESSING", !.claims = @ + 1]
    <2>1. /\ entry \in Event /\ events' = [events EXCEPT ![e] = entry]
          /\ entry.paths = events[e].paths /\ entry.ripe = events[e].ripe
          /\ events[e].status = "PENDING"
      BY <1>t, <1>6, ClaimOf DEF ClaimCleanupEvent, Claimable
    <2> HIDE DEF entry
    <2> QED BY <1>2, <2>1
  <1>7. ASSUME NEW e \in DOMAIN events, GraceEnds(e) \/ BackoffEnds(e) PROVE EventsGoOn
    <2>1. events[e] \in Event
      BY <1>t, EventsOf
    <2>2. CASE GraceEnds(e)
      <3> DEFINE entry == [events[e] EXCEPT !.ripe = TRUE]
      <3>1. /\ entry \in Event /\ events' = [events EXCEPT ![e] = entry]
            /\ entry.paths = events[e].paths /\ entry.ripe
            /\ entry.status = events[e].status
        BY <2>1, <2>2 DEF GraceEnds, Event
      <3> HIDE DEF entry
      <3> QED BY <1>2, <2>2, <3>1
    <2>3. CASE BackoffEnds(e)
      <3> DEFINE entry == [events[e] EXCEPT !.held = FALSE]
      <3>1. /\ entry \in Event /\ events' = [events EXCEPT ![e] = entry]
            /\ entry.paths = events[e].paths /\ entry.ripe = events[e].ripe
            /\ entry.status = events[e].status
        BY <2>1, <2>3 DEF BackoffEnds, Event
      <3> HIDE DEF entry
      <3> QED BY <1>2, <3>1
    <2> QED BY <1>7, <2>2, <2>3
  <1>8. ASSUME NEW w \in Workers, MarkCleanupEvent(w) PROVE EventsGoOn
    <2> DEFINE e == work[w].event
    <2>0. HeldOf(w)
      BY <1>t DEF HoldInv
    <2>1. /\ e \in DOMAIN events
          /\ \E entry \in Event :
                /\ events' = [events EXCEPT ![e] = entry]
                /\ entry.paths = events[e].paths /\ entry.ripe = events[e].ripe
      BY <1>t, <1>8, <2>0, MarkOf
    <2>2. events[e].status = "PROCESSING"
      BY <1>8, <2>0 DEF HeldOf, MarkCleanupEvent
    <2> HIDE DEF e
    <2> QED BY <1>2, <2>1, <2>2
  <1>9. CASE UNCHANGED events
    BY <1>0, <1>9
  <1>10. ASSUME NEW w \in Workers, Sweep(w) \/ CrashCleanup(w) PROVE EventsGoOn
    BY <1>0, <1>8, <1>10 DEF Sweep, CheckCandidate, DeleteCandidate, CrashCleanup
  <1>11. ASSUME NEW r \in Requests, Confirm(r) PROVE EventsGoOn
    <2>1. UNCHANGED events
      BY <1>11 DEF Confirm, ReadUpload, FetchBytes, FailUpload, StoreObject, StageImage,
                   RefuseImage, UndoStore, EndConfirmation, CrashConfirmation
    <2> QED BY <1>0, <2>1
  <1>12. CASE Moderator
    BY <1>0, <1>5, <1>12 DEF Moderator, SaveAdjustment, DiscardAdjustment, ReturnEdit
  <1>13. CASE Seller
    BY <1>0, <1>3, <1>4, <1>13 DEF Seller, CreateEditRevision, SubmitEditRevision, CreateEditUpload
  <1>14. CASE Time
    BY <1>0, <1>7, <1>14 DEF Time, UploadLapses
  <1>15. CASE Claims
    BY <1>6, <1>15 DEF Claims
  <1>16. CASE UNCHANGED vars
    BY <1>0, <1>16 DEF vars
  <1> QED BY <1>10, <1>11, <1>12, <1>13, <1>14, <1>15, <1>16 DEF Next
\* A path is named anew only by the transaction of a confirmation that had
\* stored its object: no other flow names what was not named before.
NamedByStaging ==
    \A p \in Referenced' \ Referenced :
        \E r \in Requests : At(r, "stored") /\ request[r].upload = p

LEMMA ReferencedGrows == IInv /\ [Next]_vars => NamedByStaging
  <1> SUFFICES ASSUME IInv, [Next]_vars PROVE NamedByStaging
    OBVIOUS
  <1>t. TypeOK /\ EditInv /\ UploadInv
    BY DEF IInv
  <1>0. ASSUME UNCHANGED <<gallery, frozen, staged>> PROVE NamedByStaging
    BY <1>0 DEF NamedByStaging, Referenced
  <1>1. CASE CreateEditRevision
    <2>1. \A n \in 1..MaxEdits : staged'[n] \in {staged[n], gallery}
      BY <1>t, <1>1 DEF CreateEditRevision, TypeOK
    <2>2. UNCHANGED <<gallery, frozen>>
      BY <1>1 DEF CreateEditRevision
    <2> QED BY <2>1, <2>2 DEF NamedByStaging, Referenced
  <1>2. ASSUME NEW p \in Path, DeleteStagedImage(p) PROVE NamedByStaging
    <2>1. \A n \in 1..MaxEdits : staged'[n] \subseteq staged[n]
      BY <1>t, <1>2 DEF DeleteStagedImage, TypeOK
    <2>2. UNCHANGED <<gallery, frozen>>
      BY <1>2 DEF DeleteStagedImage
    <2> QED BY <2>1, <2>2 DEF NamedByStaging, Referenced
  <1>3. CASE Moderator
    <2>1. ASSUME NEW kept \in SUBSET Path, SaveAdjustment(kept) PROVE NamedByStaging
      <3>1. Images \subseteq Referenced
        BY <1>t, <2>1, ImagesOf DEF SaveAdjustment, OpenEdit
      <3>2. frozen' \subseteq frozen \cup Images /\ UNCHANGED <<gallery, staged>>
        BY <2>1 DEF SaveAdjustment
      <3> QED BY <3>1, <3>2 DEF NamedByStaging, Referenced
    <2>2. CASE ApproveEdit
      <3>1. Images \subseteq Referenced
        BY <1>t, <2>2, ImagesOf DEF ApproveEdit, OpenEdit
      <3>2. gallery' \subseteq Images /\ UNCHANGED <<frozen, staged>>
        BY <1>t, <2>2 DEF ApproveEdit, EditInv
      <3> QED BY <3>1, <3>2 DEF NamedByStaging, Referenced
    <2> QED BY <1>0, <1>3, <2>1, <2>2 DEF Moderator, DiscardAdjustment, ReturnEdit
  <1>4. ASSUME NEW r \in Requests, StageImage(r) PROVE NamedByStaging
    <2>1. CASE upload[request[r].upload].home = 0
      <3>1. staged' = [staged EXCEPT ![edit.no] = @ \cup {request[r].upload}]
        BY <1>t, <1>4, <2>1, StagedRow
      <3>2. \A n \in 1..MaxEdits : staged'[n] \subseteq staged[n] \cup {request[r].upload}
        BY <1>t, <3>1 DEF TypeOK
      <3>3. At(r, "stored") /\ UNCHANGED <<gallery, frozen>>
        BY <1>4 DEF StageImage
      <3> QED BY <3>2, <3>3 DEF NamedByStaging, Referenced
    <2>2. CASE upload[request[r].upload].home # 0
      BY <1>0, <1>4, <2>2 DEF StageImage
    <2> QED BY <2>1, <2>2
  <1>5. ASSUME NEW r \in Requests, Confirm(r), ~StageImage(r) PROVE NamedByStaging
    BY <1>0, <1>5 DEF Confirm, ReadUpload, FetchBytes, FailUpload, StoreObject, RefuseImage,
                      UndoStore, EndConfirmation, CrashConfirmation
  <1>6. ASSUME NEW w \in Workers, Sweep(w) \/ CrashCleanup(w) PROVE NamedByStaging
    BY <1>0, <1>6 DEF Sweep, CheckCandidate, DeleteCandidate, MarkCleanupEvent, CrashCleanup
  <1>7. CASE Claims \/ Time \/ UNCHANGED vars
    BY <1>0, <1>7 DEF Claims, ClaimCleanupEvent, Time, UploadLapses, GraceEnds, BackoffEnds, vars
  <1>8. CASE Seller
    BY <1>0, <1>1, <1>2, <1>8 DEF Seller, CreateEditUpload, SubmitEditRevision, CancelEditRevision
  <1> QED BY <1>3, <1>4, <1>5, <1>6, <1>7, <1>8 DEF Next

\* What a run found unreferenced belongs to a ripe event.
LEMMA CheckedIsQuiet ==
    ASSUME TypeOK, RipeInv, HoldInv, NEW w \in Workers, work[w].checked # Nothing
    PROVE  work[w].checked \in Path \ Referenced /\ Quiet({work[w].checked})
  <1>1. HeldOf(w)
    BY DEF HoldInv
  <1>2. work[w].event # 0
    BY <1>1 DEF HeldOf, NoWork
  <1>3. /\ work[w].event \in DOMAIN events /\ events[work[w].event].ripe
        /\ work[w].checked \in events[work[w].event].paths
        /\ work[w].checked \notin Referenced
    BY <1>1, <1>2 DEF HeldOf
  <1>4. Quiet(events[work[w].event].paths)
    BY <1>3 DEF RipeInv
  <1>5. events[work[w].event].paths \subseteq Path
    BY <1>3, EventsOf DEF Event
  <1> QED BY <1>3, <1>4, <1>5 DEF Quiet

\* An object is removed by the compensation of a confirmation or, if nothing
\* names it, by a run that holds an event of it.
RemovedAsOrphan ==
    \A p \in objects \ objects' :
        \/ p \in undone'
        \/ p \notin Referenced' /\ \E w \in Workers : work[w].checked = p

LEMMA ObjectsGo == IInv /\ [Next]_vars => RemovedAsOrphan /\ undone \subseteq undone'
  <1> SUFFICES ASSUME IInv, [Next]_vars
               PROVE  RemovedAsOrphan /\ undone \subseteq undone'
    OBVIOUS
  <1>t. TypeOK /\ RipeInv /\ HoldInv
    BY DEF IInv
  <1>0. ASSUME objects \subseteq objects', undone' = undone
        PROVE  RemovedAsOrphan /\ undone \subseteq undone'
    BY <1>0 DEF RemovedAsOrphan
  <1>1. ASSUME NEW w \in Workers, DeleteCandidate(w)
        PROVE  RemovedAsOrphan /\ undone \subseteq undone'
    <2>1. work[w].checked \notin Referenced
      BY <1>t, <1>1, CheckedIsQuiet DEF DeleteCandidate
    <2>2. /\ UNCHANGED <<gallery, frozen, staged, undone>>
          /\ objects \ objects' \subseteq {work[w].checked}
      BY <1>1 DEF DeleteCandidate
    <2> QED BY <2>1, <2>2 DEF RemovedAsOrphan, Referenced
  <1>2. ASSUME NEW r \in Requests, UndoStore(r)
        PROVE  RemovedAsOrphan /\ undone \subseteq undone'
    <2>1. CASE objects' = objects \ {request[r].upload} /\ undone' = undone \cup {request[r].upload}
      BY <2>1 DEF RemovedAsOrphan
    <2>2. CASE UNCHANGED <<objects, undone>>
      BY <1>0, <2>2
    <2> QED BY <1>2, <2>1, <2>2 DEF UndoStore
  <1>3. ASSUME NEW r \in Requests, Confirm(r), ~UndoStore(r)
        PROVE  RemovedAsOrphan /\ undone \subseteq undone'
    BY <1>0, <1>3 DEF Confirm, ReadUpload, FetchBytes, FailUpload, StoreObject, RefuseImage,
                      StageImage, EndConfirmation, CrashConfirmation
  <1>4. ASSUME NEW w \in Workers, Sweep(w) \/ CrashCleanup(w)
        PROVE  RemovedAsOrphan /\ undone \subseteq undone'
    BY <1>0, <1>1, <1>4 DEF Sweep, CheckCandidate, MarkCleanupEvent, CrashCleanup
  <1>5. CASE Claims \/ Time \/ UNCHANGED vars
    BY <1>0, <1>5 DEF Claims, ClaimCleanupEvent, Time, UploadLapses, GraceEnds, BackoffEnds, vars
  <1>6. CASE Seller
    BY <1>0, <1>6 DEF Seller, CreateEditUpload, SubmitEditRevision, CancelEditRevision,
                      CreateEditRevision, DeleteStagedImage
  <1>7. CASE Moderator
    BY <1>0, <1>7 DEF Moderator, SaveAdjustment, DiscardAdjustment, ApproveEdit, ReturnEdit
  <1> QED BY <1>2, <1>3, <1>4, <1>5, <1>6, <1>7 DEF Next
----------------------------------------------------------------------------
(* Uploads and requests *)

\* What a step does to requests: one begins with an upload, or goes on with it.
RequestsGoOn ==
    \A r \in Requests :
        \/ request'[r] = request[r]
        \/ \E u \in Uploads : ReadUpload(r, u)
        \/ /\ request'[r].upload = request[r].upload
           /\ request[r].at \notin {"unused", "done"} /\ request'[r].at # "unused"
           /\ At(r, "expiring") => request'[r].at = "done"
           /\ request'[r].at = "stored" => At(r, "fetched") /\ request[r].upload \in objects'

LEMMA RequestSteps == IInv /\ [Next]_vars => RequestsGoOn
  <1> SUFFICES ASSUME IInv, [Next]_vars PROVE RequestsGoOn
    OBVIOUS
  <1>t. TypeOK
    BY DEF IInv
  <1>0. ASSUME UNCHANGED request PROVE RequestsGoOn
    BY <1>0 DEF RequestsGoOn
  <1>1. ASSUME NEW r \in Requests, NEW u \in Uploads, ReadUpload(r, u) PROVE RequestsGoOn
    <2>1. \A q \in Requests \ {r} : request'[q] = request[q]
      BY <1>t, <1>1 DEF ReadUpload, TypeOK
    <2> QED BY <1>1, <2>1 DEF RequestsGoOn
  <1>2. ASSUME NEW r \in Requests, Confirm(r), ~\E u \in Uploads : ReadUpload(r, u)
        PROVE  RequestsGoOn
    <2>1. PICK step \in {"failing", "fetched", "stored", "refused", "staged", "done"} :
              /\ Moves(r, step)
              /\ request[r].at \notin {"unused", "done"}
              /\ At(r, "expiring") => step = "done"
              /\ step = "stored" => At(r, "fetched") /\ request[r].upload \in objects'
      BY <1>2, Zenon DEF Confirm, FetchBytes, FailUpload, StoreObject, StageImage, RefuseImage,
                   UndoStore, EndConfirmation, CrashConfirmation, At
    <2>2. /\ request'[r].at = step /\ request'[r].upload = request[r].upload
          /\ \A q \in Requests \ {r} : request'[q] = request[q]
      BY <1>t, <2>1, MovesOf
    <2> QED BY <2>1, <2>2 DEF RequestsGoOn
  <1>3. ASSUME NEW w \in Workers, Sweep(w) \/ CrashCleanup(w) PROVE RequestsGoOn
    BY <1>0, <1>3 DEF Sweep, CheckCandidate, DeleteCandidate, MarkCleanupEvent, CrashCleanup
  <1>4. CASE Claims \/ Time \/ UNCHANGED vars
    BY <1>0, <1>4 DEF Claims, ClaimCleanupEvent, Time, UploadLapses, GraceEnds, BackoffEnds, vars
  <1>5. CASE Seller
    BY <1>0, <1>5 DEF Seller, CreateEditUpload, SubmitEditRevision, CancelEditRevision,
                      CreateEditRevision, DeleteStagedImage
  <1>6. CASE Moderator
    BY <1>0, <1>6 DEF Moderator, SaveAdjustment, DiscardAdjustment, ApproveEdit, ReturnEdit
  <1> QED BY <1>1, <1>2, <1>3, <1>4, <1>5, <1>6 DEF Next

\* An expired authorization stays expired, and a link to an image is made by
\* the transaction that stages it, which is when the image is there.
UploadsGoOn ==
    \A u \in Uploads :
        /\ upload[u].over => upload'[u].over
        /\ upload'[u].home # 0 => u \in staged'[upload'[u].home]

LEMMA UploadSteps == IInv /\ [Next]_vars => UploadsGoOn
  <1> SUFFICES ASSUME IInv, [Next]_vars PROVE UploadsGoOn
    OBVIOUS
  <1>t. TypeOK /\ EditInv /\ UploadInv
    BY DEF IInv
  <1>0. ASSUME staged' = staged,
               \A u \in Uploads : /\ upload'[u].home = upload[u].home
                                  /\ upload[u].over => upload'[u].over
        PROVE  UploadsGoOn
    BY <1>t, <1>0 DEF UploadsGoOn, UploadInv
  <1>1. CASE CreateEditRevision
    <2>1. ASSUME NEW u \in Uploads, upload[u].home # 0 PROVE u \in staged'[upload[u].home]
      <3>1. u \in staged[upload[u].home] /\ upload[u].home \in 1..MaxEdits
        BY <1>t, <2>1, StagedAssumption DEF UploadInv, TypeOK
      <3>2. edit.no \in Nat
        BY <1>t, StagedAssumption DEF TypeOK
      <3>3. upload[u].home # edit.no + 1
        BY <1>t, <3>1, <3>2 DEF EditInv
      <3> QED BY <1>t, <1>1, <3>1, <3>3 DEF CreateEditRevision, TypeOK
    <2> QED BY <1>1, <2>1 DEF CreateEditRevision, UploadsGoOn
  <1>2. CASE SubmitEditRevision
    <2>1. \A u \in Uploads : /\ upload'[u].home = upload[u].home
                             /\ upload'[u].over = upload[u].over
      BY <1>t, <1>2 DEF SubmitEditRevision, TypeOK
    <2> QED BY <1>0, <1>2, <2>1 DEF SubmitEditRevision
  <1>3. ASSUME NEW p \in Path, DeleteStagedImage(p) PROVE UploadsGoOn
    <2>1. ASSUME NEW u \in Uploads PROVE /\ upload'[u].over = upload[u].over
                                         /\ upload'[u].home \in {0, upload[u].home}
                                         /\ u = p /\ upload[u].home = edit.no => upload'[u].home = 0
      BY <1>t, <1>3 DEF DeleteStagedImage, TypeOK
    <2>2. ASSUME NEW u \in Uploads, upload'[u].home # 0 PROVE u \in staged'[upload'[u].home]
      <3>1. /\ upload'[u].home = upload[u].home /\ u \in staged[upload[u].home]
            /\ upload[u].home \in 1..MaxEdits
            /\ u # p \/ upload[u].home # edit.no
        BY <1>t, <2>1, <2>2, StagedAssumption DEF UploadInv, TypeOK
      <3>2. staged' = [staged EXCEPT ![edit.no] = @ \ {p}]
        BY <1>3 DEF DeleteStagedImage
      <3>3. staged \in [1..MaxEdits -> SUBSET Path]
        BY <1>t DEF TypeOK
      <3> QED BY <3>1, <3>2, <3>3
    <2> QED BY <2>1, <2>2 DEF UploadsGoOn
  <1>4. ASSUME NEW u \in Uploads, CreateEditUpload(u) \/ UploadLapses(u) PROVE UploadsGoOn
    <2>1. \A v \in Uploads : /\ upload'[v].home = upload[v].home
                             /\ upload[v].over => upload'[v].over
      <3>1. CASE CreateEditUpload(u)
        BY <1>t, <3>1, StatusChanges DEF CreateEditUpload
      <3>2. CASE UploadLapses(u)
        BY <1>t, <3>2 DEF UploadLapses, TypeOK
      <3> QED BY <1>4, <3>1, <3>2
    <2> QED BY <1>0, <1>4, <2>1 DEF CreateEditUpload, UploadLapses
  <1>5. ASSUME NEW r \in Requests, FailUpload(r) PROVE UploadsGoOn
    <2>1. request[r].upload \in Uploads
      BY <1>t, <1>5 DEF FailUpload, UploadInv
    <2>2. PICK status \in {"FAILED", "EXPIRED"} :
              upload' = [upload EXCEPT ![request[r].upload].status = status]
      BY <1>5 DEF FailUpload
    <2>3. \A v \in Uploads : /\ upload'[v].home = upload[v].home
                             /\ upload'[v].over = upload[v].over
      BY <1>t, <2>1, <2>2, StatusChanges
    <2> QED BY <1>0, <1>5, <2>3 DEF FailUpload
  <1>6. ASSUME NEW r \in Requests, StageImage(r) PROVE UploadsGoOn
    <2>1. CASE upload[request[r].upload].home = 0
      <3> DEFINE u == request[r].upload
                 entry == [upload[u] EXCEPT !.status = "COMPLETED", !.home = edit.no]
      <3>1. /\ u \in Uploads /\ edit.no \in 1..MaxEdits /\ entry \in UploadRow
            /\ upload' = [upload EXCEPT ![u] = entry]
            /\ entry.home = edit.no /\ entry.over = upload[u].over
            /\ staged' = [staged EXCEPT ![edit.no] = @ \cup {u}]
        BY <1>t, <1>6, <2>1, StagedRow
      <3> HIDE DEF entry, u
      <3>2. /\ \A v \in Uploads \ {u} : upload'[v] = upload[v]
            /\ upload'[u].home = edit.no /\ upload'[u].over = upload[u].over
        BY <1>t, <3>1, UploadChanges
      <3>3. u \in staged'[edit.no] /\ \A n \in 1..MaxEdits : staged[n] \subseteq staged'[n]
        BY <1>t, <3>1 DEF TypeOK
      <3>4. ASSUME NEW v \in Uploads, v # u, upload[v].home # 0
            PROVE  v \in staged'[upload[v].home]
        <4>1. upload[v].home \in 1..MaxEdits /\ v \in staged[upload[v].home]
          BY <1>t, <3>4, StagedAssumption DEF UploadInv, TypeOK
        <4> QED BY <3>3, <4>1
      <3> QED BY <3>1, <3>2, <3>3, <3>4 DEF UploadsGoOn
    <2>2. CASE upload[request[r].upload].home # 0
      BY <1>0, <1>6, <2>2 DEF StageImage
    <2> QED BY <2>1, <2>2
  <1>7. ASSUME UNCHANGED <<staged, upload>> PROVE UploadsGoOn
    BY <1>0, <1>7
  <1>8. ASSUME NEW r \in Requests, Confirm(r), ~StageImage(r), ~FailUpload(r) PROVE UploadsGoOn
    BY <1>7, <1>8 DEF Confirm, ReadUpload, FetchBytes, StoreObject, RefuseImage,
                      UndoStore, EndConfirmation, CrashConfirmation
  <1>9. ASSUME NEW w \in Workers, Sweep(w) \/ CrashCleanup(w) PROVE UploadsGoOn
    BY <1>7, <1>9 DEF Sweep, CheckCandidate, DeleteCandidate, MarkCleanupEvent, CrashCleanup
  <1>10. CASE Claims \/ Time \/ UNCHANGED vars
    BY <1>4, <1>7, <1>10 DEF Claims, ClaimCleanupEvent, Time, GraceEnds, BackoffEnds, vars
  <1>11. CASE Seller
    BY <1>1, <1>2, <1>3, <1>4, <1>7, <1>11 DEF Seller, CancelEditRevision
  <1>12. CASE Moderator
    BY <1>7, <1>12 DEF Moderator, SaveAdjustment, DiscardAdjustment, ApproveEdit, ReturnEdit
  <1> QED BY <1>5, <1>6, <1>8, <1>9, <1>10, <1>11, <1>12 DEF Next

LEMMA UploadStep == IInv /\ [Next]_vars => UploadInv'
  <1> SUFFICES ASSUME IInv, [Next]_vars PROVE UploadInv'
    OBVIOUS
  <1>t. TypeOK /\ UploadInv /\ RipeInv /\ HoldInv
    BY DEF IInv
  <1>1. UploadsGoOn /\ RequestsGoOn /\ RemovedAsOrphan /\ undone \subseteq undone'
    BY UploadSteps, RequestSteps, ObjectsGo
  <1>2. ASSUME NEW r \in Requests
        PROVE  /\ request'[r].at # "unused" => request'[r].upload \in Uploads
               /\ request'[r].at = "stored" => request'[r].upload \in objects' \cup undone'
    <2>1. CASE request'[r] = request[r]
      <3>1. ASSUME At(r, "stored"), request[r].upload \notin objects' \cup undone' PROVE FALSE
        <4>1. request[r].upload \in Uploads /\ request[r].upload \in objects \ objects'
          BY <1>t, <1>1, <3>1 DEF UploadInv, At
        <4>2. PICK w \in Workers : work[w].checked = request[r].upload
          BY <1>1, <3>1, <4>1 DEF RemovedAsOrphan
        <4>3. Quiet({request[r].upload})
          BY <1>t, <4>1, <4>2, CheckedIsQuiet, StagedAssumption
        <4> QED BY <3>1, <4>1, <4>3 DEF Quiet, At
      <3> QED BY <1>t, <2>1, <3>1 DEF UploadInv, At
    <2>2. ASSUME NEW u \in Uploads, ReadUpload(r, u)
          PROVE  request'[r].upload = u /\ request'[r].at \in {"expiring", "read"}
      BY <1>t, <2>2 DEF ReadUpload, TypeOK
    <2>3. CASE /\ request'[r].upload = request[r].upload /\ request[r].at # "unused"
               /\ request'[r].at = "stored" => request[r].upload \in objects'
      BY <1>t, <2>3 DEF UploadInv
    <2> QED BY <1>1, <2>1, <2>2, <2>3 DEF RequestsGoOn
  <1> QED BY <1>1, <1>2 DEF UploadsGoOn, UploadInv, At

\* What is quiet stays quiet: a request that begins now finds the
\* authorization expired.
LEMMA QuietStays ==
    ASSUME IInv, [Next]_vars, NEW paths, Quiet(paths)
    PROVE  Quiet(paths)'
  <1>t. TypeOK
    BY DEF IInv
  <1>1. UploadsGoOn /\ RequestsGoOn
    BY UploadSteps, RequestSteps
  <1>2. ASSUME NEW u \in paths \cap Uploads, NEW r \in Requests, request'[r].upload = u
        PROVE  request'[r].at \in {"unused", "expiring", "done"}
    <2>1. upload[u].over
      BY DEF Quiet
    <2>2. ASSUME NEW v \in Uploads, ReadUpload(r, v)
          PROVE  /\ request'[r].at = IF upload[v].over THEN "expiring" ELSE "read"
                 /\ request'[r].upload = v
      BY <1>t, <2>2 DEF ReadUpload, TypeOK
    <2>3. request[r].upload = u => request[r].at \in {"unused", "expiring", "done"}
      BY DEF Quiet
    <2> QED BY <1>1, <1>2, <2>1, <2>2, <2>3 DEF RequestsGoOn, At
  <1>3. \A u \in paths \cap Uploads : upload'[u].over
    BY <1>1 DEF UploadsGoOn, Quiet
  <1> QED BY <1>2, <1>3 DEF Quiet

LEMMA RipeStep == IInv /\ [Next]_vars => RipeInv'
  <1> SUFFICES ASSUME IInv, [Next]_vars PROVE RipeInv'
    OBVIOUS
  <1>t. TypeOK /\ RipeInv /\ EventsGoOn
    BY EventSteps DEF IInv
  <1>1. ASSUME NEW e \in DOMAIN events', events'[e].ripe
        PROVE  \A u \in events'[e].paths \cap Uploads :
                  /\ upload'[u].over
                  /\ \A r \in Requests : request'[r].upload = u =>
                        request'[r].at \in {"unused", "expiring", "done"}
    <2>1. PICK paths : paths = events[e].paths
      OBVIOUS
    <2>2. e \in DOMAIN events /\ events'[e].paths = paths
      BY <1>t, <1>1, <2>1 DEF EventsGoOn
    <2>3. CASE events[e].ripe
      <3>1. Quiet(paths)
        BY <1>t, <2>1, <2>2, <2>3 DEF RipeInv
      <3>2. Quiet(paths)'
        BY <3>1, QuietStays
      <3> QED BY <2>2, <3>2 DEF Quiet
    <2>4. CASE ~events[e].ripe
      <3>1. GraceEnds(e)
        BY <1>t, <1>1, <2>2, <2>4 DEF EventsGoOn
      <3> QED BY <2>1, <2>2, <3>1 DEF GraceEnds, At
    <2> QED BY <2>3, <2>4
  <1> QED BY <1>1 DEF RipeInv, Quiet
----------------------------------------------------------------------------
(* Runs of the cleanup *)

\* What a run found unreferenced stays unreferenced until it acts on it.
LEMMA CheckedStays ==
    ASSUME IInv, [Next]_vars, NEW w \in Workers, work[w].checked # Nothing
    PROVE  work[w].checked \notin Referenced'
  <1>1. TypeOK /\ UploadInv /\ RipeInv /\ HoldInv /\ NamedByStaging
    BY ReferencedGrows DEF IInv
  <1>2. work[w].checked \in Path \ Referenced /\ Quiet({work[w].checked})
    BY <1>1, CheckedIsQuiet
  <1>3. ASSUME NEW r \in Requests, At(r, "stored"), request[r].upload = work[w].checked PROVE FALSE
    <2>1. work[w].checked \in Uploads
      BY <1>1, <1>3 DEF UploadInv, At
    <2> QED BY <1>2, <1>3, <2>1 DEF Quiet, At
  <1> QED BY <1>1, <1>2, <1>3 DEF NamedByStaging

\* A step that is none of the cleanup.
LEMMA HoldKept ==
    ASSUME IInv, [Next]_vars, UNCHANGED work, stranded'.events = stranded.events,
           \A e \in DOMAIN events : /\ events'[e].status = events[e].status
                                    /\ events'[e].claims = events[e].claims
    PROVE  HoldInv'
  <1>t. TypeOK /\ HoldInv /\ EventsGoOn /\ TypeOK'
    BY EventSteps, TypeStep DEF IInv
  <1>1. ASSUME NEW w \in Workers PROVE HeldOf(w)'
    <2>1. HeldOf(w)
      BY <1>t DEF HoldInv
    <2>2. work[w].checked # Nothing => work[w].checked \notin Referenced'
      BY CheckedStays
    <2> QED BY <1>t, <2>1, <2>2 DEF HeldOf, EventsGoOn
  <1>2. ASSUME NEW e \in DOMAIN events' \ DOMAIN events
        PROVE  ~Held(e)' /\ e \notin stranded'.events
    <2>1. e # 0
      BY <1>t DEF TypeOK
    <2>2. \A w \in Workers : work[w].event = 0 \/ work[w].event \in DOMAIN events
      BY <1>t DEF HoldInv, HeldOf
    <2> QED BY <1>t, <2>1, <2>2 DEF Held, HoldInv
  <1>3. ASSUME NEW e \in DOMAIN events' \ DOMAIN events
        PROVE  events'[e].status = "PENDING" /\ events'[e].claims < MaxClaims
    BY <1>t, StagedAssumption DEF EventsGoOn
  <1>4. ASSUME NEW e \in DOMAIN events
        PROVE  /\ events'[e].status = "PROCESSING" <=> Held(e)' \/ e \in stranded'.events
               /\ events'[e].status = "PENDING" => events'[e].claims < MaxClaims
    BY <1>t DEF HoldInv, Held
  <1> QED BY <1>t, <1>1, <1>2, <1>3, <1>4 DEF HoldInv, EventsGoOn

\* A step of a run, and what every other step leaves to the runs.
RunStep(w) ==
    \/ Sweep(w) \/ CrashCleanup(w)
    \/ \E e \in DOMAIN events : ClaimCleanupEvent(w, e)

RunsUndisturbed ==
    /\ UNCHANGED work /\ stranded'.events = stranded.events
    /\ stranded.paths \subseteq stranded'.paths
    /\ \A e \in DOMAIN events : /\ events'[e].status = events[e].status
                              /\ events'[e].claims = events[e].claims

LEMMA OtherSteps ==
    IInv /\ [Next]_vars => RunsUndisturbed \/ \E w \in Workers : RunStep(w)
  <1> SUFFICES ASSUME IInv, [Next]_vars, ~\E w \in Workers : RunStep(w)
               PROVE  RunsUndisturbed
    OBVIOUS
  <1>t. TypeOK /\ EditInv
    BY DEF IInv
  <1>0. ASSUME UNCHANGED <<events, work, stranded>> PROVE RunsUndisturbed
    BY <1>0 DEF RunsUndisturbed
  <1>1. ASSUME NEW paths \in SUBSET Path, Emit(paths), UNCHANGED <<work, stranded>>
        PROVE  RunsUndisturbed
    BY <1>t, <1>1, EmitOf DEF RunsUndisturbed
  <1>2. ASSUME NEW e \in DOMAIN events, GraceEnds(e) \/ BackoffEnds(e) PROVE RunsUndisturbed
    <2>1. events \in Seq(Event) /\ UNCHANGED <<work, stranded>>
      BY <1>t, <1>2 DEF TypeOK, GraceEnds, BackoffEnds
    <2>2. \A d \in DOMAIN events : /\ events'[d].status = events[d].status
                                   /\ events'[d].claims = events[d].claims
      <3>1. DOMAIN events = 1..Len(events) /\ \A d \in DOMAIN events : events[d] \in Event
        BY <1>t, EventsOf
      <3>2. CASE GraceEnds(e)
        BY <2>1, <3>1, <3>2 DEF GraceEnds, Event
      <3>3. CASE BackoffEnds(e)
        BY <2>1, <3>1, <3>3 DEF BackoffEnds, Event
      <3> QED BY <1>2, <3>2, <3>3
    <2> QED BY <2>1, <2>2 DEF RunsUndisturbed
  <1>3. ASSUME NEW r \in Requests, Confirm(r) PROVE RunsUndisturbed
    <2>1. UNCHANGED <<events, work>>
      BY <1>3 DEF Confirm, ReadUpload, FetchBytes, FailUpload, StoreObject, StageImage,
                  RefuseImage, UndoStore, EndConfirmation, CrashConfirmation
    <2>2. stranded'.events = stranded.events /\ stranded.paths \subseteq stranded'.paths
      BY <1>t, <1>3 DEF Confirm, ReadUpload, FetchBytes, FailUpload, StoreObject, StageImage,
                  RefuseImage, UndoStore, EndConfirmation, CrashConfirmation, TypeOK
    <2> QED BY <2>1, <2>2 DEF RunsUndisturbed
  <1>4. CASE Seller
    <2>1. CASE CancelEditRevision
      <3>1. Images \in SUBSET Path
        BY <1>t, <2>1, ImagesOf DEF CancelEditRevision, Editable, OpenEdit
      <3> QED BY <1>1, <2>1, <3>1 DEF CancelEditRevision
    <2>2. ASSUME NEW p \in Path, DeleteStagedImage(p) PROVE RunsUndisturbed
      BY <1>1, <2>2 DEF DeleteStagedImage
    <2> QED BY <1>0, <1>4, <2>1, <2>2 DEF Seller, CreateEditRevision, SubmitEditRevision,
                                           CreateEditUpload
  <1>5. CASE Moderator
    <2>1. CASE ApproveEdit
      <3> DEFINE kept == IF plan = Nothing THEN Images ELSE plan
      <3>1. Images \subseteq Path
        BY <1>t, <2>1, ImagesOf DEF ApproveEdit, OpenEdit
      <3>2. Leaving(kept) \in SUBSET Path
        BY <1>t, <3>1 DEF TypeOK, Leaving
      <3> QED BY <1>1, <2>1, <3>2 DEF ApproveEdit
    <2> QED BY <1>0, <1>5, <2>1 DEF Moderator, SaveAdjustment, DiscardAdjustment, ReturnEdit
  <1>6. CASE Time
    BY <1>0, <1>2, <1>6 DEF Time, UploadLapses
  <1>7. CASE UNCHANGED vars
    BY <1>0, <1>7 DEF vars
  <1> QED BY <1>3, <1>4, <1>5, <1>6, <1>7 DEF Next, Claims, RunStep

LEMMA HoldStep == IInv /\ [Next]_vars => HoldInv'
  <1> SUFFICES ASSUME IInv, [Next]_vars PROVE HoldInv'
    OBVIOUS
  <1>t. TypeOK /\ HoldInv
    BY DEF IInv
  <1>a. \A w \in Workers : work[w].checked # Nothing => work[w].checked \notin Referenced'
    BY CheckedStays
  <1>1. CASE RunsUndisturbed
    BY <1>1, HoldKept DEF RunsUndisturbed
  <1>2. ASSUME NEW w \in Workers, NEW e \in DOMAIN events, ClaimCleanupEvent(w, e) PROVE HoldInv'
    <2> DEFINE entry == [events[e] EXCEPT !.status = "PROCESSING", !.claims = @ + 1]
               run == [NoWork EXCEPT !.event = e, !.left = events[e].paths]
    <2>1. /\ entry \in Event /\ run \in Work
          /\ events' = [events EXCEPT ![e] = entry] /\ work' = [work EXCEPT ![w] = run]
          /\ run.event = e /\ run.left = events[e].paths /\ run.checked = Nothing
          /\ entry.paths = events[e].paths /\ entry.status = "PROCESSING"
          /\ entry.ripe = events[e].ripe
      BY <1>t, <1>2, ClaimOf, ZenonT(30)
    <2> HIDE DEF entry, run
    <2>2. /\ DOMAIN events' = DOMAIN events /\ events'[e] = entry
          /\ \A d \in DOMAIN events \ {e} : events'[d] = events[d]
          /\ work'[w] = run /\ \A v \in Workers \ {w} : work'[v] = work[v]
      BY <1>t, <2>1, EventChanges, WorkChanges
    <2>3. /\ work[w] = NoWork /\ events[e].status = "PENDING" /\ events[e].ripe
          /\ UNCHANGED stranded
      BY <1>2 DEF ClaimCleanupEvent, Claimable
    <2>4. e # 0 /\ ~Held(e) /\ e \notin stranded.events
      BY <1>t, <2>3, EventsOf DEF HoldInv
    <2>5. ASSUME NEW v \in Workers PROVE HeldOf(v)'
      <3>1. CASE v = w
        BY <2>1, <2>2, <2>3, <2>4, <3>1 DEF HeldOf
      <3>2. CASE v # w
        <4>1. HeldOf(v) /\ work[v].event # e
          BY <1>t, <2>4 DEF HoldInv, Held
        <4> QED BY <1>a, <2>2, <2>3, <3>2, <4>1 DEF HeldOf
      <3> QED BY <3>1, <3>2
    <2>6. ASSUME NEW u \in Workers, NEW v \in Workers,
                 work'[u].event = work'[v].event, work'[u].event # 0
          PROVE  u = v
      BY <1>t, <2>1, <2>2, <2>4, <2>6 DEF HoldInv, Held
    <2>7. ASSUME NEW d \in DOMAIN events
          PROVE  /\ events'[d].status = "PROCESSING" <=> Held(d)' \/ d \in stranded.events
                 /\ events'[d].status = "PENDING" => events'[d].claims < MaxClaims
      <3>1. CASE d = e
        BY <2>1, <2>2, <3>1 DEF Held
      <3>2. CASE d # e
        <4>1. Held(d)' <=> Held(d)
          BY <2>1, <2>2, <2>3, <3>2, EventsOf, <1>t DEF Held, NoWork
        <4> QED BY <1>t, <2>2, <3>2, <4>1 DEF HoldInv
      <3> QED BY <3>1, <3>2
    <2> QED BY <1>t, <2>2, <2>3, <2>5, <2>6, <2>7 DEF HoldInv
  <1>3. ASSUME NEW w \in Workers, UNCHANGED <<events, stranded>>,
               \A v \in Workers \ {w} : work'[v] = work[v],
               work'[w].event = work[w].event, work[w].event # 0,
               work'[w].left \subseteq work[w].left,
               work'[w].checked # Nothing => work'[w].checked \in work'[w].left \ Referenced'
        PROVE  HoldInv'
    <2>1. ASSUME NEW v \in Workers PROVE HeldOf(v)'
      <3>1. HeldOf(v)
        BY <1>t DEF HoldInv
      <3>2. CASE v = w
        BY <1>3, <3>1, <3>2 DEF HeldOf
      <3>3. CASE v # w
        BY <1>3, <1>a, <3>1, <3>3 DEF HeldOf
      <3> QED BY <3>2, <3>3
    <2>2. \A v \in Workers : work'[v].event = work[v].event
      BY <1>3
    <2>3. \A e : Held(e)' <=> Held(e)
      BY <2>2 DEF Held
    <2> QED BY <1>t, <1>3, <2>1, <2>2, <2>3 DEF HoldInv
  <1>4. ASSUME NEW w \in Workers, NEW p \in Path, CheckCandidate(w, p) PROVE HoldInv'
    <2>0. HeldOf(w) /\ work[w] \in Work /\ work[w].checked = Nothing /\ p \in work[w].left
      BY <1>t, <1>4 DEF HoldInv, CheckCandidate, TypeOK
    <2>1. work[w].event # 0
      BY <2>0 DEF HeldOf, NoWork
    <2>2. CASE Retained(p)
      <3>1. /\ work'[w].event = work[w].event /\ work'[w].checked = Nothing
            /\ work'[w].left \subseteq work[w].left
            /\ \A v \in Workers \ {w} : work'[v] = work[v]
        BY <1>t, <1>4, <2>0, <2>2 DEF CheckCandidate, TypeOK, Work
      <3> QED BY <1>3, <1>4, <2>1, <3>1 DEF CheckCandidate
    <2>3. CASE ~Retained(p)
      <3>1. /\ work'[w].event = work[w].event /\ work'[w].checked = p
            /\ work'[w].left = work[w].left
            /\ \A v \in Workers \ {w} : work'[v] = work[v]
        BY <1>t, <1>4, <2>0, <2>3 DEF CheckCandidate, TypeOK, Work
      <3>2. p \notin Referenced'
        BY <1>4, <2>3 DEF CheckCandidate, Retained, Referenced
      <3> QED BY <1>3, <1>4, <2>0, <2>1, <3>1, <3>2 DEF CheckCandidate
    <2> QED BY <2>2, <2>3
  <1>5. ASSUME NEW w \in Workers, DeleteCandidate(w) PROVE HoldInv'
    <2>0. HeldOf(w) /\ work[w] \in Work /\ work[w].checked # Nothing
      BY <1>t, <1>5 DEF HoldInv, DeleteCandidate, TypeOK
    <2>1. work[w].event # 0
      BY <2>0 DEF HeldOf, NoWork
    <2>2. /\ work'[w].event = work[w].event /\ work'[w].checked = Nothing
          /\ work'[w].left \subseteq work[w].left
          /\ \A v \in Workers \ {w} : work'[v] = work[v]
      BY <1>t, <1>5, <2>0 DEF DeleteCandidate, TypeOK, Work
    <2> QED BY <1>3, <1>5, <2>1, <2>2 DEF DeleteCandidate
  <1>6. ASSUME NEW w \in Workers, MarkCleanupEvent(w) PROVE HoldInv'
    <2> DEFINE e == work[w].event
    <2>0. HeldOf(w)
      BY <1>t DEF HoldInv
    <2>e. e \in DOMAIN events
      BY <1>t, <1>6, <2>0, MarkOf
    <2>1. PICK entry \in Event :
             /\ events' = [events EXCEPT ![e] = entry]
             /\ entry.paths = events[e].paths /\ entry.ripe = events[e].ripe
             /\ entry.claims = events[e].claims
             /\ entry.status = Outcome(e, work[w].failed)
      BY <1>t, <1>6, <2>0, MarkOf
    <2>2. HeldOf(w) /\ e # 0 /\ UNCHANGED stranded /\ work' = [work EXCEPT ![w] = NoWork]
      BY <1>t, <1>6 DEF HoldInv, MarkCleanupEvent
    <2>3. /\ entry.status # "PROCESSING"
          /\ entry.status = "PENDING" => entry.claims < MaxClaims
      <3>1. events[e].claims \in Nat /\ MaxClaims \in Nat
        BY <1>t, <2>e, EventsOf, StagedAssumption DEF Event
      <3> QED BY <2>1, <3>1 DEF Outcome
    <2>4. /\ DOMAIN events' = DOMAIN events /\ events'[e] = entry
          /\ \A d \in DOMAIN events \ {e} : events'[d] = events[d]
          /\ work'[w] = NoWork /\ \A v \in Workers \ {w} : work'[v] = work[v]
      BY <1>t, <2>e, <2>1, <2>2, NoWorkIsWork, EventChanges, WorkChanges
    <2>5. /\ e \notin stranded.events /\ \A v \in Workers \ {w} : work[v].event # e
          /\ NoWork.event = 0 /\ NoWork.checked = Nothing
      BY <1>t, <2>2 DEF HoldInv, HeldOf, NoWork
    <2> HIDE DEF e
    <2>6. ASSUME NEW v \in Workers PROVE HeldOf(v)'
      <3>1. CASE v = w
        BY <2>4, <2>5, <3>1 DEF HeldOf
      <3>2. CASE v # w
        <4>1. HeldOf(v)
          BY <1>t DEF HoldInv
        <4> QED BY <1>a, <2>2, <2>4, <2>5, <3>2, <4>1 DEF HeldOf
      <3> QED BY <3>1, <3>2
    <2>7. ASSUME NEW u \in Workers, NEW v \in Workers,
                 work'[u].event = work'[v].event, work'[u].event # 0
          PROVE  u = v
      BY <1>t, <2>4, <2>5, <2>7 DEF HoldInv
    <2>8. ASSUME NEW d \in DOMAIN events
          PROVE  /\ events'[d].status = "PROCESSING" <=> Held(d)' \/ d \in stranded.events
                 /\ events'[d].status = "PENDING" => events'[d].claims < MaxClaims
      <3>0. d # 0
        BY <1>t, EventsOf
      <3>1. CASE d = e
        BY <2>3, <2>4, <2>5, <3>0, <3>1 DEF Held
      <3>2. CASE d # e
        <4>1. Held(d)' <=> Held(d)
          BY <2>4, <2>5, <3>0, <3>2 DEF Held, e
        <4> QED BY <1>t, <2>4, <3>2, <4>1 DEF HoldInv
      <3> QED BY <3>1, <3>2
    <2> QED BY <1>t, <2>2, <2>4, <2>6, <2>7, <2>8 DEF HoldInv
  <1>7. ASSUME NEW w \in Workers, CrashCleanup(w) PROVE HoldInv'
    <2> DEFINE e == work[w].event
    <2>1. /\ HeldOf(w) /\ UNCHANGED events /\ work' = [work EXCEPT ![w] = NoWork]
          /\ stranded'.events = stranded.events \cup {e}
      BY <1>t, <1>7 DEF HoldInv, CrashCleanup, TypeOK
    <2>2. e # 0 /\ e \in DOMAIN events /\ events[e].status = "PROCESSING"
      BY <1>7, <2>1 DEF CrashCleanup, HeldOf
    <2>3. /\ work'[w] = NoWork /\ \A v \in Workers \ {w} : work'[v] = work[v]
      BY <1>t, <2>1, NoWorkIsWork, WorkChanges
    <2>4. /\ \A v \in Workers \ {w} : work[v].event # e
          /\ NoWork.event = 0 /\ NoWork.checked = Nothing
      BY <1>t, <2>2 DEF HoldInv, NoWork
    <2> HIDE DEF e
    <2>5. ASSUME NEW v \in Workers PROVE HeldOf(v)'
      <3>1. CASE v = w
        BY <2>3, <2>4, <3>1 DEF HeldOf
      <3>2. CASE v # w
        <4>1. HeldOf(v)
          BY <1>t DEF HoldInv
        <4> QED BY <1>a, <2>1, <2>3, <2>4, <3>2, <4>1 DEF HeldOf
      <3> QED BY <3>1, <3>2
    <2>6. ASSUME NEW u \in Workers, NEW v \in Workers,
                 work'[u].event = work'[v].event, work'[u].event # 0
          PROVE  u = v
      BY <1>t, <2>3, <2>4, <2>6 DEF HoldInv
    <2>7. ASSUME NEW d \in DOMAIN events
          PROVE  /\ events'[d].status = "PROCESSING" <=> Held(d)' \/ d \in stranded'.events
                 /\ events'[d].status = "PENDING" => events'[d].claims < MaxClaims
      <3>0. d # 0
        BY <1>t, EventsOf
      <3>1. CASE d = e
        BY <2>1, <2>2, <3>1
      <3>2. CASE d # e
        <4>1. Held(d)' <=> Held(d)
          BY <2>3, <2>4, <3>0, <3>2 DEF Held, e
        <4> QED BY <1>t, <2>1, <3>2, <4>1 DEF HoldInv
      <3> QED BY <3>1, <3>2
    <2> QED BY <1>t, <2>1, <2>2, <2>5, <2>6, <2>7 DEF HoldInv
  <1> QED BY <1>1, <1>2, <1>4, <1>5, <1>6, <1>7, OtherSteps DEF RunStep, Sweep

----------------------------------------------------------------------------
(* What is referenced is kept *)

LEMMA KeptStep == IInv /\ [Next]_vars => ReferencedAreKept'
  <1> SUFFICES ASSUME IInv, [Next]_vars, NEW p \in Referenced', p \notin objects'
               PROVE  p \in undone'
    BY DEF ReferencedAreKept
  <1>1. /\ UploadInv /\ ReferencedAreKept /\ NamedByStaging /\ RemovedAsOrphan
        /\ undone \subseteq undone'
    BY ReferencedGrows, ObjectsGo DEF IInv
  <1>2. p \in objects \cup undone
    <2>1. CASE p \in Referenced
      BY <1>1, <2>1 DEF ReferencedAreKept
    <2>2. CASE p \notin Referenced
      BY <1>1, <2>2 DEF NamedByStaging, UploadInv
    <2> QED BY <2>1, <2>2
  <1> QED BY <1>1, <1>2 DEF RemovedAsOrphan

----------------------------------------------------------------------------
(* What is not is announced *)

\* A path that stops being named is named by the event of the same transaction.
LEMMA ReferencedShrinks ==
    ASSUME IInv, [Next]_vars, NEW p \in Referenced \ Referenced'
    PROVE  \E e \in DOMAIN events' \ DOMAIN events : p \in events'[e].paths
  <1> DEFINE Announced == \E e \in DOMAIN events' \ DOMAIN events : p \in events'[e].paths
  <1> SUFFICES Announced
    OBVIOUS
  <1> HIDE DEF Announced
  <1>t. TypeOK /\ EditInv /\ UploadInv
    BY DEF IInv
  <1>0. ASSUME Referenced \subseteq Referenced' PROVE Announced
    BY <1>0
  <1>1. ASSUME NEW paths \in SUBSET Path, Emit(paths), p \in paths PROVE Announced
    BY <1>t, <1>1, EmitOf DEF Fresh, Announced
  <1>2. ASSUME UNCHANGED <<gallery, frozen, staged>> PROVE Announced
    BY <1>0, <1>2 DEF Referenced
  <1>3. CASE CreateEditRevision
    <2>1. /\ \A n \in 1..MaxEdits : staged[n] \subseteq staged'[n]
          /\ UNCHANGED <<gallery, frozen>>
      <3>1. edit.no \in Nat
        BY <1>t, StagedAssumption DEF TypeOK
      <3>2. edit.no + 1 \in 1..MaxEdits => staged[edit.no + 1] = {}
        BY <1>t, <3>1 DEF EditInv
      <3> QED BY <1>t, <1>3, <3>2 DEF CreateEditRevision, TypeOK
    <2> QED BY <1>0, <2>1 DEF Referenced
  <1>4. CASE CancelEditRevision
    BY <1>2, <1>4 DEF CancelEditRevision
  <1>5. ASSUME NEW q \in Path, DeleteStagedImage(q) PROVE Announced
    <2>1. /\ \A n \in 1..MaxEdits : staged[n] \ {q} \subseteq staged'[n]
          /\ UNCHANGED <<gallery, frozen>>
      BY <1>t, <1>5 DEF DeleteStagedImage, TypeOK
    <2>2. CASE p = q
      BY <1>1, <1>5, <2>2 DEF DeleteStagedImage
    <2>3. CASE p # q
      BY <2>1, <2>3 DEF Referenced
    <2> QED BY <2>2, <2>3
  <1>6. ASSUME NEW kept \in SUBSET Path, SaveAdjustment(kept) PROVE Announced
    <2>1. frozen \subseteq frozen' /\ UNCHANGED <<gallery, staged>>
      BY <1>6 DEF SaveAdjustment
    <2> QED BY <1>0, <2>1 DEF Referenced
  <1>7. CASE ApproveEdit
    <2> DEFINE kept == IF plan = Nothing THEN Images ELSE plan
    <2>1. Images \subseteq Path
      BY <1>t, <1>7, ImagesOf DEF ApproveEdit, OpenEdit
    <2>2. gallery' = kept /\ Emit(Leaving(kept)) /\ UNCHANGED <<frozen, staged>>
      BY <1>7 DEF ApproveEdit
    <2> HIDE DEF kept
    <2>3. Leaving(kept) \in SUBSET Path
      BY <1>t, <2>1 DEF TypeOK, Leaving
    <2>4. p \in gallery \ kept
      BY <2>2 DEF Referenced
    <2>5. p \in Leaving(kept)
      BY <2>4 DEF Leaving
    <2> QED BY <1>1, <2>2, <2>3, <2>5
  <1>8. ASSUME NEW r \in Requests, Confirm(r) PROVE Announced
    <2>1. CASE StageImage(r) /\ upload[request[r].upload].home = 0
      <3>1. staged' = [staged EXCEPT ![edit.no] = @ \cup {request[r].upload}]
        BY <1>t, <2>1, StagedRow
      <3>2. \A n \in 1..MaxEdits : staged[n] \subseteq staged'[n]
        BY <1>t, <3>1 DEF TypeOK
      <3>3. UNCHANGED <<gallery, frozen>>
        BY <2>1 DEF StageImage
      <3> QED BY <1>0, <3>2, <3>3 DEF Referenced
    <2>2. CASE ~(StageImage(r) /\ upload[request[r].upload].home = 0)
      BY <1>2, <1>8, <2>2 DEF Confirm, ReadUpload, FetchBytes, FailUpload, StoreObject, StageImage,
                              RefuseImage, UndoStore, EndConfirmation, CrashConfirmation
    <2> QED BY <2>1, <2>2
  <1>9. ASSUME NEW w \in Workers, Sweep(w) \/ CrashCleanup(w) PROVE Announced
    BY <1>2, <1>9 DEF Sweep, CheckCandidate, DeleteCandidate, MarkCleanupEvent, CrashCleanup
  <1>10. Claims \/ Time \/ UNCHANGED vars => Announced
    BY <1>2 DEF Claims, ClaimCleanupEvent, Time, UploadLapses, GraceEnds, BackoffEnds, vars
  <1>11. Seller => Announced
    BY <1>2, <1>3, <1>4, <1>5 DEF Seller, SubmitEditRevision, CreateEditUpload
  <1>12. Moderator => Announced
    BY <1>2, <1>6, <1>7 DEF Moderator, DiscardAdjustment, ReturnEdit
  <1> QED BY <1>8, <1>9, <1>10, <1>11, <1>12 DEF Next

\* A new event awaits what it names.
LEMMA FreshAwaits ==
    ASSUME IInv, [Next]_vars, NEW e \in DOMAIN events' \ DOMAIN events, NEW p \in events'[e].paths
    PROVE  Awaits(e, p)'
  <1>1. TypeOK' /\ HoldInv' /\ EventsGoOn
    BY TypeStep, HoldStep, EventSteps
  <1>2. events'[e].status = "PENDING"
    BY <1>1 DEF EventsGoOn
  <1>3. ~Held(e)'
    BY <1>1, <1>2 DEF HoldInv
  <1> QED BY <1>2, <1>3 DEF Awaits, Held
LEMMA AwaitsStays ==
    ASSUME IInv, [Next]_vars, NEW e \in DOMAIN events, NEW p \in objects' \ Referenced',
           Awaits(e, p)
    PROVE  Awaits(e, p)'
  <1>t. TypeOK /\ HoldInv /\ EventsGoOn
    BY EventSteps DEF IInv
  <1>p. p \in events'[e].paths /\ e # 0
    BY <1>t, EventsOf DEF Awaits, EventsGoOn
  <1>0. ASSUME events'[e].status # "PROCESSED",
               \A w \in Workers : work'[w].event = e => p \in work'[w].left \/ work'[w].failed
        PROVE  Awaits(e, p)'
    BY <1>0, <1>p DEF Awaits
  <1>1. CASE RunsUndisturbed
    BY <1>0, <1>1 DEF RunsUndisturbed, Awaits
  <1>2. ASSUME NEW w \in Workers, NEW d \in DOMAIN events, ClaimCleanupEvent(w, d)
        PROVE  Awaits(e, p)'
    <2>1. PICK entry \in Event, run \in Work :
             /\ events' = [events EXCEPT ![d] = entry]
             /\ work' = [work EXCEPT ![w] = run]
             /\ run.event = d /\ run.left = events[d].paths
             /\ entry.status = "PROCESSING"
      BY <1>t, <1>2, ClaimMakes
    <2>2. /\ events'[d].status = "PROCESSING"
          /\ \A c \in DOMAIN events \ {d} : events'[c] = events[c]
          /\ work'[w].event = d /\ work'[w].left = events[d].paths
          /\ \A v \in Workers \ {w} : work'[v] = work[v]
      BY <1>t, <2>1, EventChanges, WorkChanges
    <2> QED BY <1>0, <2>2 DEF Awaits
  <1>3. ASSUME NEW w \in Workers, NEW q \in Path, CheckCandidate(w, q) PROVE Awaits(e, p)'
    <2>1. CASE Retained(q)
      <3>1. /\ work'[w].event = work[w].event /\ work'[w].failed = work[w].failed
            /\ work'[w].left = work[w].left \ {q}
            /\ \A v \in Workers \ {w} : work'[v] = work[v]
        BY <1>t, <1>3, <2>1 DEF CheckCandidate, TypeOK, Work
      <3>2. q # p /\ UNCHANGED events
        BY <1>3, <2>1 DEF CheckCandidate, Retained, Referenced
      <3> QED BY <1>0, <3>1, <3>2 DEF Awaits
    <2>2. CASE ~Retained(q)
      <3>1. /\ work'[w].event = work[w].event /\ work'[w].failed = work[w].failed
            /\ work'[w].left = work[w].left
            /\ \A v \in Workers \ {w} : work'[v] = work[v]
        BY <1>t, <1>3, <2>2 DEF CheckCandidate, TypeOK, Work
      <3> QED BY <1>0, <1>3, <3>1 DEF Awaits, CheckCandidate
    <2> QED BY <2>1, <2>2
  <1>4. ASSUME NEW w \in Workers, DeleteCandidate(w) PROVE Awaits(e, p)'
    <2> DEFINE q == work[w].checked
    <2>0. UNCHANGED events
      BY <1>4 DEF DeleteCandidate
    <2>1. CASE /\ objects' = objects \ {q}
               /\ work' = [work EXCEPT ![w].left = @ \ {q}, ![w].checked = Nothing]
      <3>1. /\ work'[w].event = work[w].event /\ work'[w].failed = work[w].failed
            /\ work'[w].left = work[w].left \ {q}
            /\ \A v \in Workers \ {w} : work'[v] = work[v]
        BY <1>t, <2>1 DEF TypeOK, Work
      <3>2. p # q
        BY <2>1
      <3> QED BY <1>0, <2>0, <3>1, <3>2 DEF Awaits
    <2>2. CASE work' = [work EXCEPT ![w].left = @ \ {q}, ![w].checked = Nothing,
                                    ![w].failed = TRUE]
      <3>1. /\ work'[w].event = work[w].event /\ work'[w].failed
            /\ \A v \in Workers \ {w} : work'[v] = work[v]
        BY <1>t, <2>2 DEF TypeOK, Work
      <3> QED BY <1>0, <2>0, <3>1 DEF Awaits
    <2> QED BY <1>4, <2>1, <2>2 DEF DeleteCandidate
  <1>5. ASSUME NEW w \in Workers, MarkCleanupEvent(w) PROVE Awaits(e, p)'
    <2> DEFINE d == work[w].event
    <2>0. HeldOf(w)
      BY <1>t DEF HoldInv
    <2>e. d \in DOMAIN events
      BY <1>t, <1>5, <2>0, MarkOf
    <2>1. PICK entry \in Event : /\ events' = [events EXCEPT ![d] = entry]
                                 /\ entry.status = Outcome(d, work[w].failed)
      BY <1>t, <1>5, <2>0, MarkOf
    <2>2. /\ work' = [work EXCEPT ![w] = NoWork] /\ work[w].left = {}
      BY <1>5 DEF MarkCleanupEvent
    <2>3. /\ events'[d] = entry /\ \A c \in DOMAIN events \ {d} : events'[c] = events[c]
          /\ work'[w] = NoWork /\ \A v \in Workers \ {w} : work'[v] = work[v]
          /\ NoWork.event = 0
      BY <1>t, <2>e, <2>1, <2>2, NoWorkIsWork, EventChanges, WorkChanges DEF NoWork
    <2>4. d = e => entry.status # "PROCESSED"
      BY <2>1, <2>2 DEF Awaits, Outcome
    <2> HIDE DEF d
    <2> QED BY <1>0, <1>p, <2>3, <2>4 DEF Awaits
  <1>6. ASSUME NEW w \in Workers, CrashCleanup(w) PROVE Awaits(e, p)'
    <2>1. UNCHANGED events /\ work' = [work EXCEPT ![w] = NoWork]
      BY <1>6 DEF CrashCleanup
    <2>2. /\ work'[w] = NoWork /\ \A v \in Workers \ {w} : work'[v] = work[v]
          /\ NoWork.event = 0
      BY <1>t, <2>1, NoWorkIsWork, WorkChanges DEF NoWork
    <2> QED BY <1>0, <1>p, <2>1, <2>2 DEF Awaits
  <1> QED BY <1>1, <1>2, <1>3, <1>4, <1>5, <1>6, OtherSteps DEF RunStep, Sweep

\* A request that lets go of its object has removed it, staged it, or left it
\* behind because of a fault.
LEMMA RequestStays ==
    ASSUME IInv, [Next]_vars, NEW p \in objects' \ Referenced', InRequest(p)
    PROVE  InRequest(p)' \/ p \in stranded'.paths
  <1> DEFINE Tracked == InRequest(p)' \/ p \in stranded'.paths
  <1> SUFFICES Tracked
    OBVIOUS
  <1>t. TypeOK /\ EditInv /\ UploadInv
    BY DEF IInv
  <1>1. PICK r \in Requests : request[r].at \in {"stored", "refused"} /\ request[r].upload = p
    BY DEF InRequest
  <1>2. ASSUME request'[r].at \in {"stored", "refused"}, request'[r].upload = p PROVE Tracked
    BY <1>2 DEF InRequest
  <1>3. ASSUME p \in stranded'.paths PROVE Tracked
    BY <1>3
  <1> HIDE DEF Tracked
  <1>4. ASSUME UNCHANGED request PROVE Tracked
    BY <1>1, <1>2, <1>4
  <1>5. ASSUME NEW q \in Requests \ {r}, Confirm(q) PROVE Tracked
    <2>1. request'[r] = request[r]
      <3>1. CASE \E u \in Uploads : ReadUpload(q, u)
        BY <1>t, <3>1 DEF ReadUpload, TypeOK
      <3>2. CASE ~\E u \in Uploads : ReadUpload(q, u)
        <4>1. PICK step \in {"failing", "fetched", "stored", "refused", "staged", "done"} :
                  Moves(q, step)
          BY <1>5, <3>2, Zenon DEF Confirm, FetchBytes, FailUpload, StoreObject, StageImage,
                       RefuseImage, UndoStore, EndConfirmation, CrashConfirmation
        <4> QED BY <1>t, <4>1, MovesOf
      <3> QED BY <3>1, <3>2
    <2> QED BY <1>1, <1>2, <2>1
  <1>6. CASE StageImage(r)
    <2>1. CASE upload[p].home = 0
      <3>1. /\ edit.no \in 1..MaxEdits /\ p \in Uploads
            /\ staged' = [staged EXCEPT ![edit.no] = @ \cup {p}]
        BY <1>t, <1>1, <1>6, <2>1, StagedRow
      <3>2. p \in staged'[edit.no]
        BY <1>t, <3>1 DEF TypeOK
      <3> QED BY <3>1, <3>2 DEF Referenced
    <2>2. CASE upload[p].home # 0
      <3>1. /\ p \in Uploads /\ upload[p].home = edit.no
            /\ UNCHANGED <<staged, upload, edit>>
        BY <1>t, <1>1, <1>6, <2>2 DEF StageImage, Accepted, UploadInv
      <3>2. edit.no \in 1..MaxEdits /\ p \in staged[edit.no]
        BY <1>t, <2>2, <3>1, StagedAssumption DEF UploadInv, TypeOK
      <3> QED BY <3>1, <3>2 DEF Referenced
    <2> QED BY <2>1, <2>2
  <1>7. CASE RefuseImage(r)
    BY <1>t, <1>1, <1>2, <1>7, MovesOf DEF RefuseImage
  <1>8. CASE UndoStore(r)
    <2>1. objects' # objects \ {p}
      OBVIOUS
    <2>2. stranded' = [stranded EXCEPT !.paths = @ \cup {p}]
      BY <1>1, <1>8, <2>1 DEF UndoStore
    <2> QED BY <1>t, <1>3, <2>2 DEF TypeOK
  <1>9. CASE CrashConfirmation(r)
    <2>1. stranded' = [stranded EXCEPT !.paths = @ \cup {p}]
      BY <1>1, <1>9 DEF CrashConfirmation
    <2> QED BY <1>t, <1>3, <2>1 DEF TypeOK
  <1>10. CASE Confirm(r)
    BY <1>1, <1>6, <1>7, <1>8, <1>9, <1>10
       DEF Confirm, ReadUpload, FetchBytes, FailUpload, StoreObject, EndConfirmation, At
  <1>11. ASSUME NEW w \in Workers, Sweep(w) \/ CrashCleanup(w) PROVE Tracked
    BY <1>4, <1>11 DEF Sweep, CheckCandidate, DeleteCandidate, MarkCleanupEvent, CrashCleanup
  <1>12. Claims \/ Time \/ UNCHANGED vars => Tracked
    BY <1>4 DEF Claims, ClaimCleanupEvent, Time, UploadLapses, GraceEnds, BackoffEnds, vars
  <1>13. Seller => Tracked
    BY <1>4 DEF Seller, CreateEditRevision, SubmitEditRevision, CancelEditRevision,
                DeleteStagedImage, CreateEditUpload
  <1>14. Moderator => Tracked
    BY <1>4 DEF Moderator, SaveAdjustment, DiscardAdjustment, ApproveEdit, ReturnEdit
  <1> QED BY <1>5, <1>10, <1>11, <1>12, <1>13, <1>14 DEF Next

\* Objects come from confirmations.
LEMMA ObjectsCome ==
    ASSUME IInv, [Next]_vars, NEW p \in objects' \ objects
    PROVE  InRequest(p)'
  <1>t. TypeOK
    BY DEF IInv
  <1>1. ASSUME NEW r \in Requests, StoreObject(r) PROVE InRequest(p)'
    <2>1. p = request[r].upload
      BY <1>1 DEF StoreObject
    <2>2. request'[r].at = "stored" /\ request'[r].upload = request[r].upload
      BY <1>t, <1>1, MovesOf DEF StoreObject
    <2> QED BY <2>1, <2>2 DEF InRequest
  <1>2. ASSUME objects' \subseteq objects PROVE FALSE
    BY <1>2
  <1>3. ASSUME NEW r \in Requests, Confirm(r), ~StoreObject(r) PROVE FALSE
    BY <1>2, <1>3 DEF Confirm, ReadUpload, FetchBytes, FailUpload, RefuseImage, UndoStore,
                      StageImage, EndConfirmation, CrashConfirmation
  <1>4. ASSUME NEW w \in Workers, Sweep(w) \/ CrashCleanup(w) PROVE FALSE
    BY <1>2, <1>4 DEF Sweep, CheckCandidate, DeleteCandidate, MarkCleanupEvent, CrashCleanup
  <1>5. ~(Claims \/ Time \/ UNCHANGED vars)
    BY <1>2 DEF Claims, ClaimCleanupEvent, Time, UploadLapses, GraceEnds, BackoffEnds, vars
  <1>6. ~Seller
    BY <1>2 DEF Seller, CreateEditRevision, SubmitEditRevision, CancelEditRevision,
                DeleteStagedImage, CreateEditUpload
  <1>7. ~Moderator
    BY <1>2 DEF Moderator, SaveAdjustment, DiscardAdjustment, ApproveEdit, ReturnEdit
  <1> QED BY <1>1, <1>3, <1>4, <1>5, <1>6, <1>7 DEF Next

LEMMA AwaitedStep == IInv /\ [Next]_vars => AwaitedInv'
  <1> SUFFICES ASSUME IInv, [Next]_vars, NEW p \in objects' \ Referenced'
               PROVE  \/ \E e \in DOMAIN events' : Awaits(e, p)'
                      \/ InRequest(p)'
                      \/ p \in stranded'.paths
    BY DEF AwaitedInv
  <1>t. TypeOK /\ AwaitedInv /\ EventsGoOn
    BY EventSteps DEF IInv
  <1>1. CASE p \in objects \ Referenced
    <2>1. CASE \E e \in DOMAIN events : Awaits(e, p)
      BY <1>t, <2>1, AwaitsStays DEF EventsGoOn
    <2>2. CASE InRequest(p)
      BY <2>2, RequestStays
    <2>3. CASE p \in stranded.paths
      <3>1. ASSUME NEW w \in Workers, RunStep(w) PROVE stranded'.paths = stranded.paths
        BY <1>t, <3>1 DEF RunStep, Sweep, CheckCandidate, DeleteCandidate, MarkCleanupEvent,
                          CrashCleanup, ClaimCleanupEvent, TypeOK
      <3> QED BY <2>3, <3>1, OtherSteps DEF RunsUndisturbed
    <2> QED BY <1>t, <1>1, <2>1, <2>2, <2>3 DEF AwaitedInv
  <1>2. CASE p \in Referenced
    <2>1. PICK e \in DOMAIN events' \ DOMAIN events : p \in events'[e].paths
      BY <1>2, ReferencedShrinks
    <2> QED BY <2>1, FreshAwaits
  <1>3. CASE p \notin objects
    BY <1>3, ObjectsCome
  <1> QED BY <1>1, <1>2, <1>3
----------------------------------------------------------------------------
(* Theorems *)

LEMMA Starts == Init => IInv
  <1> SUFFICES ASSUME Init PROVE IInv
    OBVIOUS
  <1> USE StagedAssumption
  <1>1. TypeOK
    <2>1. events \in Seq(Event) /\ Len(events) <= MaxEvents
      BY DEF Init
    <2>2. work \in [Workers -> Work]
      BY NoWorkIsWork DEF Init
    <2> QED BY <2>1, <2>2 DEF Init, TypeOK, Path
  <1>2. EditInv
    BY DEF Init, EditInv, OpenEdit
  <1>3. UploadInv
    BY DEF Init, UploadInv, At
  <1>4. RipeInv
    BY DEF Init, RipeInv
  <1>5. HoldInv
    <2>1. \A w \in Workers : work[w] = NoWork
      BY DEF Init
    <2>2. \A w \in Workers : HeldOf(w)
      <3>1. NoWork.event = 0 /\ NoWork.checked = Nothing
        BY DEF NoWork
      <3> QED BY <2>1, <3>1 DEF HeldOf
    <2> QED BY <2>1, <2>2 DEF Init, HoldInv, NoWork
  <1>6. ReferencedAreKept
    BY DEF Init, ReferencedAreKept, Referenced
  <1>7. AwaitedInv
    BY DEF Init, AwaitedInv, Referenced
  <1> QED BY <1>1, <1>2, <1>3, <1>4, <1>5, <1>6, <1>7 DEF IInv

\* The inductive invariant holds of every behaviour.
THEOREM Inductive == Spec => []IInv
  <1>1. IInv /\ [Next]_vars => IInv'
    BY TypeStep, EditStep, UploadStep, RipeStep, HoldStep, KeptStep, AwaitedStep DEF IInv
  <1> QED BY <1>1, Starts, PTL DEF Spec

\* The variables keep their types.
THEOREM TypeCorrect == Spec => []TypeOK
  <1>1. IInv => TypeOK
    BY DEF IInv
  <1> QED BY <1>1, Inductive, PTL

\* No approval, cancellation, removal or cleanup run deletes an object that a
\* gallery or a frozen submission names, now or later
\* (repositories/lifecycle-jobs.ts isImagePathReferenced, the grace period of
\* the events of services/listing-lifecycle.ts).
THEOREM ReferencedAlwaysKept == Spec => []ReferencedAreKept
  <1>1. IInv => ReferencedAreKept
    BY DEF IInv
  <1> QED BY <1>1, Inductive, PTL

\* Whatever lets go of a path announces it: no object is forgotten
\* (services/lifecycle-jobs.ts, the events of an edit's images).
THEOREM OrphansAlwaysAnnounced == Spec => []OrphansAreAnnounced
  <1>1. IInv => OrphansAreAnnounced
    <2> SUFFICES ASSUME IInv, NEW p \in objects \ Referenced
                 PROVE  \/ \E e \in DOMAIN events : events[e].status # "PROCESSED"
                                                    /\ p \in events[e].paths
                        \/ \E r \in Requests : request[r].at \in {"stored", "refused"}
                                               /\ request[r].upload = p
                        \/ p \in stranded.paths
      BY DEF OrphansAreAnnounced
    <2> QED BY DEF IInv, AwaitedInv, Awaits, InRequest
  <1> QED BY <1>1, Inductive, PTL

\* No event is in the hands of two runs, and none is in processing without one
\* unless its run died (repositories/lifecycle-jobs.ts claimCleanupEvents).
THEOREM OneRunEver == Spec => []OneRunPerEvent
  <1>1. IInv => OneRunPerEvent
    <2> SUFFICES ASSUME IInv, NEW e \in DOMAIN events
                 PROVE  LET holders == {w \in Workers : work[w].event = e} IN
                        /\ Cardinality(holders) <= 1
                        /\ events[e].status = "PROCESSING" <=>
                              holders # {} \/ e \in stranded.events
      BY DEF OneRunPerEvent
    <2> DEFINE holders == {w \in Workers : work[w].event = e}
    <2>1. e # 0
      BY EventsOf DEF IInv
    <2>2. holders = {} \/ \E w \in Workers : holders = {w}
      BY <2>1 DEF IInv, HoldInv
    <2>3. Cardinality(holders) <= 1
      <3> HIDE DEF holders
      <3> QED BY <2>2, FS_EmptySet, FS_Singleton
    <2>4. Held(e) <=> holders # {}
      BY DEF Held
    <2> QED BY <2>3, <2>4 DEF IInv, HoldInv
  <1> QED BY <1>1, Inductive, PTL

\* A path is named anew only by the transaction of a confirmation that had
\* stored its object; approval, rejection and a new edit bring nothing back
\* (listing-edit-images.ts; approval in the moderation of edits).
THEOREM NothingIsNamedAgain == Spec => [][NamedByStaging]_vars
  <1>1. IInv /\ [Next]_vars => [NamedByStaging]_vars
    BY ReferencedGrows
  <1> QED BY <1>1, Inductive, PTL DEF Spec

\* Only a compensation removes an object that may be named; a run removes what
\* nothing names at the moment of the deletion, although it checked earlier
\* (services/lifecycle-jobs.ts, the check before each deletion).
THEOREM OnlyOrphansAreRemoved == Spec => [][RemovedAsOrphan]_vars
  <1>1. IInv /\ [Next]_vars => [RemovedAsOrphan]_vars
    BY ObjectsGo
  <1> QED BY <1>1, Inductive, PTL DEF Spec

\* An event names the same objects for ever, ripens once, and a verdict on it
\* is final (repositories/lifecycle-jobs.ts, the marks of an event).
THEOREM EventsOnlyGoOn == Spec => [][EventsGoOn]_vars
  <1>1. IInv /\ [Next]_vars => [EventsGoOn]_vars
    BY EventSteps
  <1> QED BY <1>1, Inductive, PTL DEF Spec
=============================================================================
