--------------------------- MODULE ListingEditor ---------------------------
(***************************************************************************)
(* The editor of a listing in one browser tab                              *)
(* (components/seller/use-listing-editor.ts), the photo tiles              *)
(* (photos-step.tsx) and the Continue and Submit buttons (axin-flow.tsx)   *)
(* that use it, against a server that other tabs change too.               *)
(*                                                                         *)
(* Everything the tab sends runs on one chain of promises, but for the     *)
(* reload after a conflict.  The tab handles one event at a time: what a   *)
(* settled promise starts runs before the next event.  The server handles  *)
(* a request and the tab its answer in one step, for nothing else of this  *)
(* tab reaches the server in between.                                      *)
(***************************************************************************)
EXTENDS Integers, Sequences

CONSTANTS
    Fields,       \* of the form
    Uploads,      \* photo tiles
    Reloads,      \* clicks on "reload" whose fetch may be under way
    None,
    MaxEdits,     \* bound: edits of the seller
    MaxRevision,  \* bound: revisions that others and image operations make
    MaxFaults,    \* bound: requests that fail
    MaxPresses    \* bound: buttons pressed

ASSUME EditorAssumption ==
    /\ {MaxEdits, MaxRevision, MaxFaults, MaxPresses} \subseteq Nat
    /\ None \notin Fields \cup Uploads \cup Reloads \cup {"continue", "submit"}

VARIABLES
    server,    \* the revision of the listing, whether it is editable, its photos
    accepted,  \* history: the last edit of each field the server has taken
    revision,  \* dtoRef.current.revision
    pending,   \* pendingRef: the last edit of each field not sent yet
    timer,     \* the debounce timer runs
    frozen,    \* conflictRef
    chain,     \* chainRef: the operations queued, the first one running
    call,      \* the request of the running operation
    waiting,   \* flushResolversRef: who waits for the pending edits
    press,     \* the buttons: where the handler is, and what the seller had typed
    tile,      \* of each upload
    reload,    \* the revision each fetch of a reload will answer
    typed,     \* history: the last edit of each field
    told,      \* history: the last one of each field that was reported as not saved
    unseen,    \* history: the listing changed behind the back of the tab
    edits, faults, presses   \* counted by the bounds

serverVars == <<server, accepted>>
editorVars == <<revision, pending, timer, frozen>>
queueVars == <<chain, call, waiting>>
viewVars == <<press, tile, reload>>
countVars == <<edits, faults, presses>>
vars == <<serverVars, editorVars, queueVars, viewVars, typed, told, unseen, countVars>>

Buttons == {"continue", "submit"}
Kinds == {"drain", "settle", "confirm", "image", "submit"}
Job(kind, of) == [kind |-> kind, of |-> of]

NoFields == [f \in {} |-> 0]
NoEdits == [f \in Fields |-> 0]
Empty(fields) == DOMAIN fields = {}
NoCall == [kind |-> "none", revision |-> 0, fields |-> NoFields, typed |-> NoEdits]

\* The last edits, once these of some fields are added.
With(last, fields) == [f \in Fields |->
    IF f \in DOMAIN fields /\ fields[f] > last[f] THEN fields[f] ELSE last[f]]

TypeOK ==
    /\ server \in [revision : Nat, open : BOOLEAN, images : SUBSET Uploads]
    /\ {accepted, told, typed} \subseteq [Fields -> 0..MaxEdits]
    /\ revision \in Nat
    /\ DOMAIN pending \subseteq Fields
    /\ \A f \in DOMAIN pending : pending[f] \in 1..MaxEdits
    /\ timer \in BOOLEAN /\ frozen \in BOOLEAN /\ unseen \in BOOLEAN
    /\ \A i \in DOMAIN chain : chain[i].kind \in Kinds
                               /\ chain[i].of \in Buttons \cup Uploads \cup {None}
    /\ call.kind \in {"none", "patch", "confirm", "image", "submit", "fetch"}
    /\ waiting \subseteq Buttons
    /\ \A b \in Buttons : press[b].at \in {"idle", "flushing", "flushed", "queued", "done"}
    /\ tile \in [Uploads -> {"none", "uploading", "processing", "error", "gone"}]
    /\ reload \in [Reloads -> Nat \cup {None}]

Init ==
    /\ server = [revision |-> 0, open |-> TRUE, images |-> {}]
    /\ accepted = NoEdits /\ told = NoEdits /\ typed = NoEdits /\ unseen = FALSE
    /\ revision = 0 /\ pending = NoFields /\ timer = FALSE /\ frozen = FALSE
    /\ chain = <<>> /\ call = NoCall /\ waiting = {}
    /\ press = [b \in Buttons |-> [at |-> "idle", typed |-> NoEdits]]
    /\ tile = [u \in Uploads |-> "none"]
    /\ reload = [k \in Reloads |-> None]
    /\ edits = 0 /\ faults = 0 /\ presses = 0

----------------------------------------------------------------------------
(* The chain *)

Running(kind) == chain # <<>> /\ Head(chain).kind = kind
Exclusive == Running("confirm") \/ Running("image") \/ Running("submit")

\* Nothing is left that a settled promise starts; the seller sees the form.
Quiet ==
    /\ chain = <<>> \/ call # NoCall
    /\ \A b \in Buttons : press[b].at # "flushed"
Shown == Quiet /\ press["submit"].at # "done"

enqueue(jobs) == chain' = chain \o jobs

Resolved(buttons, ok) ==
    [b \in Buttons |-> IF b \in buttons
                       THEN [press[b] EXCEPT !.at = IF ok THEN "flushed" ELSE "idle"]
                       ELSE press[b]]

\* What an operation that never ran, or ended without a result, answers: null.
Nulled(job) ==
    /\ press' = CASE job.kind = "settle" -> Resolved({job.of}, FALSE)
                  [] job.kind = "submit" -> Resolved({"submit"}, FALSE)
                  [] OTHER -> press
    /\ tile' = IF job.kind = "confirm" THEN [tile EXCEPT ![job.of] = "gone"] ELSE tile

\* enqueue: frozen, an operation does not run; a drain answers nobody.
SkipFrozen ==
    /\ chain # <<>> /\ call = NoCall /\ frozen
    /\ Nulled(Head(chain))
    /\ chain' = Tail(chain)
    /\ UNCHANGED <<serverVars, editorVars, call, waiting, reload, typed, told, unseen, countVars>>

Runs == chain # <<>> /\ call = NoCall /\ ~frozen

\* Mutant of Taken: the fields are cleared when the answer comes.
TakenAtAnswer(atAnswer) == IF atAnswer THEN NoFields ELSE pending

\* pendingRef when its fields are sent, and when the answer comes.
Taken(atAnswer) == IF atAnswer THEN pending ELSE NoFields

\* Mutant of FlushesFirst: an exclusive operation leaves the pending edits.
FlushesDrainOnly == Running("drain")

FlushesFirst == Running("drain") \/ Exclusive

\* sendPending.
SendPending ==
    /\ Runs /\ FlushesFirst
    /\ ~Empty(pending)
    /\ call' = [kind |-> "patch", revision |-> revision, fields |-> pending, typed |-> typed]
    /\ pending' = Taken(FALSE)
    /\ UNCHANGED <<serverVars, revision, timer, frozen, chain, waiting, viewVars,
                   typed, told, unseen, countVars>>

EndDrain ==
    /\ Runs /\ Running("drain") /\ Empty(pending)
    /\ press' = Resolved(waiting, TRUE)
    /\ waiting' = {}
    /\ chain' = Tail(chain)
    /\ UNCHANGED <<serverVars, editorVars, call, tile, reload, typed, told, unseen, countVars>>

\* What flush queues when nothing is pending.
EndSettle ==
    /\ Runs /\ Running("settle")
    /\ press' = Resolved({Head(chain).of}, TRUE)
    /\ chain' = Tail(chain)
    /\ UNCHANGED <<serverVars, editorVars, call, waiting, tile, reload, typed, told,
                   unseen, countVars>>

\* runExclusive, its own request.
SendExclusive ==
    /\ Runs /\ Exclusive
    /\ FlushesFirst => Empty(pending)
    /\ call' = [kind |-> Head(chain).kind, revision |-> revision, fields |-> NoFields,
                typed |-> typed]
    /\ UNCHANGED <<serverVars, editorVars, chain, waiting, viewVars, typed, told,
                   unseen, countVars>>

----------------------------------------------------------------------------
(* Answers *)

Called(kind) == call.kind = kind
Fails == faults < MaxFaults /\ faults' = faults + 1

\* handleMutationError of a conflict.
Freeze ==
    /\ frozen' = TRUE
    /\ pending' = NoFields
    /\ told' = With(With(told, call.fields), pending)

\* A save failed: the drain answers those who wait, the others answer null.
GivesUp ==
    /\ call' = NoCall
    /\ chain' = Tail(chain)
    /\ IF Running("drain")
       THEN press' = Resolved(waiting, FALSE) /\ waiting' = {} /\ UNCHANGED tile
       ELSE Nulled(Head(chain)) /\ UNCHANGED waiting

PatchSaved ==
    /\ Called("patch")
    /\ server.open /\ call.revision = server.revision
    /\ server' = [server EXCEPT !.revision = @ + 1]
    /\ accepted' = With(accepted, call.fields)
    /\ revision' = server.revision + 1
    /\ unseen' = FALSE
    /\ call' = NoCall
    /\ pending' = Taken(TRUE)
    /\ UNCHANGED <<timer, frozen, chain, waiting, viewVars, typed, told, countVars>>

PatchConflicts ==
    /\ Called("patch")
    /\ server.open /\ call.revision # server.revision
    /\ Freeze
    /\ GivesUp
    /\ UNCHANGED <<serverVars, revision, timer, reload, typed, unseen, countVars>>

\* The listing is not editable any more, a choice is gone from the catalog, or
\* the request fails; saved nevertheless when only its answer is lost.
PatchFails ==
    /\ Called("patch")
    /\ IF server.open THEN Fails ELSE UNCHANGED faults
    /\ \/ UNCHANGED <<serverVars, unseen>>
       \/ /\ server.open /\ call.revision = server.revision
          /\ server' = [server EXCEPT !.revision = @ + 1]
          /\ accepted' = With(accepted, call.fields)
          /\ unseen' = TRUE
    /\ told' = With(told, call.fields)
    /\ GivesUp
    /\ UNCHANGED <<editorVars, reload, typed, edits, presses>>

\* Mutant of Refetches: only a photo that is added is read back.
RefetchesAdded(kind) == kind = "confirm"

\* runExclusive, options.refetch.
Refetches(kind) == kind \in {"confirm", "image"}

ImageDone ==
    /\ Called("confirm") \/ Called("image")
    /\ server.open
    /\ server' = [server EXCEPT !.revision = @ + 1, !.images =
                     IF Called("confirm") THEN @ \cup {Head(chain).of} ELSE @]
    /\ IF Refetches(call.kind)
       THEN call' = [call EXCEPT !.kind = "fetch"] /\ UNCHANGED <<chain, tile>>
       ELSE call' = NoCall /\ chain' = Tail(chain) /\ UNCHANGED tile
    /\ UNCHANGED <<accepted, editorVars, waiting, press, reload, typed, told, unseen, countVars>>

\* adoptDto of the listing read back.
Refetched ==
    /\ Called("fetch")
    /\ revision' = server.revision
    /\ unseen' = FALSE
    /\ call' = NoCall
    /\ tile' = IF Running("confirm") THEN [tile EXCEPT ![Head(chain).of] = "gone"] ELSE tile
    /\ chain' = Tail(chain)
    /\ UNCHANGED <<serverVars, pending, timer, frozen, waiting, press, reload, typed, told,
                   countVars>>

\* The image operation is refused or fails, with or without its effect, or the
\* listing cannot be read back.
ImageFails ==
    /\ Called("confirm") \/ Called("image") \/ Called("fetch")
    /\ IF server.open THEN Fails ELSE UNCHANGED faults
    /\ \/ Called("fetch") /\ unseen' = TRUE /\ UNCHANGED server
       \/ ~Called("fetch") /\ UNCHANGED <<server, unseen>>
       \/ /\ ~Called("fetch") /\ server.open
          /\ server' = [server EXCEPT !.revision = @ + 1, !.images =
                           IF Called("confirm") THEN @ \cup {Head(chain).of} ELSE @]
          /\ unseen' = TRUE
    /\ call' = NoCall
    /\ tile' = IF Running("confirm") THEN [tile EXCEPT ![Head(chain).of] = "error"] ELSE tile
    /\ chain' = Tail(chain)
    /\ UNCHANGED <<accepted, editorVars, waiting, press, reload, typed, told, edits, presses>>

\* Submitted, or submitted before with the answer lost.
SubmitDone ==
    /\ Called("submit")
    /\ server.open => call.revision = server.revision
    /\ server' = [server EXCEPT !.open = FALSE]
    /\ call' = NoCall
    /\ chain' = Tail(chain)
    /\ press' = [press EXCEPT !["submit"].at = "done"]
    /\ UNCHANGED <<accepted, editorVars, waiting, tile, reload, typed, told, unseen, countVars>>

SubmitConflicts ==
    /\ Called("submit")
    /\ server.open /\ call.revision # server.revision
    /\ Freeze
    /\ call' = NoCall
    /\ chain' = Tail(chain)
    /\ press' = Resolved({"submit"}, FALSE)
    /\ UNCHANGED <<serverVars, revision, timer, waiting, tile, reload, typed, unseen,
                   countVars>>

SubmitFails ==
    /\ Called("submit")
    /\ Fails
    /\ \/ UNCHANGED server
       \/ call.revision = server.revision /\ server' = [server EXCEPT !.open = FALSE]
    /\ call' = NoCall
    /\ chain' = Tail(chain)
    /\ press' = Resolved({"submit"}, FALSE)
    /\ UNCHANGED <<accepted, editorVars, waiting, tile, reload, typed, told, unseen, edits,
                   presses>>

----------------------------------------------------------------------------
(* The seller *)

\* patch: merged into what is pending, sent at once or after the debounce.
Edit(f, immediate) ==
    /\ Shown /\ ~frozen
    /\ edits < MaxEdits /\ edits' = edits + 1
    /\ typed' = [typed EXCEPT ![f] = edits']
    /\ pending' = [g \in DOMAIN pending \cup {f} |-> IF g = f THEN edits' ELSE pending[g]]
    /\ timer' = ~immediate
    /\ IF immediate THEN enqueue(<<Job("drain", None)>>) ELSE UNCHANGED chain
    /\ UNCHANGED <<serverVars, revision, frozen, call, waiting, viewVars, told, unseen,
                   faults, presses>>

TimerFires ==
    /\ Quiet /\ timer
    /\ timer' = FALSE
    /\ enqueue(<<Job("drain", None)>>)
    /\ UNCHANGED <<serverVars, revision, pending, frozen, call, waiting, viewVars, typed,
                   told, unseen, countVars>>

\* flush, by Continue or the retry of the chip, and by Submit.
Press(b) ==
    /\ Shown /\ ~frozen
    /\ press[b].at = "idle"
    /\ presses < MaxPresses /\ presses' = presses + 1
    /\ timer' = FALSE
    /\ press' = [press EXCEPT ![b] =
          [at |-> "flushing", typed |-> typed]]
    /\ IF Empty(pending)
       THEN enqueue(<<Job("settle", b)>>) /\ UNCHANGED waiting
       ELSE enqueue(<<Job("drain", None)>>) /\ waiting' = waiting \cup {b}
    /\ UNCHANGED <<serverVars, revision, pending, frozen, call, tile, reload, typed, told,
                   unseen, edits, faults>>

\* advance opens the next stage; submit queues the submission.
Proceed(b) ==
    /\ press[b].at = "flushed"
    /\ press' = [press EXCEPT ![b] =
          [at |-> IF b = "submit" THEN "queued" ELSE "idle", typed |-> NoEdits]]
    /\ enqueue(IF b = "submit" THEN <<Job("submit", b)>> ELSE <<>>)
    /\ UNCHANGED <<serverVars, editorVars, call, waiting, tile, reload, typed, told, unseen,
                   countVars>>

\* runUpload, also by the retry of a tile: authorised and sent off the chain.
StartUpload(u) ==
    /\ Shown
    /\ tile[u] \in {"none", "error"}
    /\ tile' = [tile EXCEPT ![u] = "uploading"]
    /\ UNCHANGED <<serverVars, editorVars, queueVars, press, reload, typed, told, unseen,
                   countVars>>

Uploaded(u) ==
    /\ Quiet
    /\ tile[u] = "uploading"
    /\ \/ tile' = [tile EXCEPT ![u] = "processing"] /\ enqueue(<<Job("confirm", u)>>)
       \/ tile' = [tile EXCEPT ![u] = "error"] /\ UNCHANGED chain
    /\ UNCHANGED <<serverVars, editorVars, call, waiting, press, reload, typed, told, unseen,
                   countVars>>

\* imageOp: a photo is deleted, moved or made primary.
ImageOp ==
    /\ Shown
    /\ server.revision < MaxRevision
    /\ \A i \in DOMAIN chain : chain[i].kind # "image"
    /\ enqueue(<<Job("image", None)>>)
    /\ UNCHANGED <<serverVars, editorVars, call, waiting, viewVars, typed, told, unseen,
                   countVars>>

\* reloadFromServer, by a button that stays enabled.
ClickReload(k) ==
    /\ Shown /\ frozen /\ reload[k] = None
    /\ reload' = [reload EXCEPT ![k] = server.revision]
    /\ UNCHANGED <<serverVars, editorVars, queueVars, press, tile, typed, told, unseen,
                   countVars>>

Reloaded(k) ==
    /\ Quiet /\ reload[k] # None
    /\ revision' = reload[k]
    /\ unseen' = (reload[k] # server.revision \/ (unseen /\ call # NoCall))
    /\ pending' = NoFields
    /\ frozen' = FALSE
    /\ reload' = [reload EXCEPT ![k] = None]
    /\ told' = With(told, pending)
    /\ UNCHANGED <<serverVars, timer, queueVars, press, tile, typed, countVars>>

ReloadFails(k) ==
    /\ Quiet /\ reload[k] # None /\ Fails
    /\ reload' = [reload EXCEPT ![k] = None]
    /\ UNCHANGED <<serverVars, editorVars, queueVars, press, tile, typed, told, unseen,
                   edits, presses>>

\* Another tab of the seller changes the listing.
OtherTab ==
    /\ server.open /\ server.revision < MaxRevision
    /\ server' = [server EXCEPT !.revision = @ + 1]
    /\ unseen' = TRUE
    /\ UNCHANGED <<accepted, editorVars, queueVars, viewVars, typed, told, countVars>>

----------------------------------------------------------------------------
Chain ==
    \/ SkipFrozen \/ SendPending \/ EndDrain \/ EndSettle \/ SendExclusive
    \/ \E b \in Buttons : Proceed(b)

Answers ==
    \/ PatchSaved \/ PatchConflicts \/ PatchFails
    \/ ImageDone \/ Refetched \/ ImageFails
    \/ SubmitDone \/ SubmitConflicts \/ SubmitFails

Seller ==
    \/ \E f \in Fields, immediate \in BOOLEAN : Edit(f, immediate)
    \/ TimerFires
    \/ \E b \in Buttons : Press(b)
    \/ \E u \in Uploads : StartUpload(u) \/ Uploaded(u)
    \/ ImageOp
    \/ \E k \in Reloads : ClickReload(k) \/ Reloaded(k) \/ ReloadFails(k)

Next == Chain \/ Answers \/ Seller \/ OtherTab

Spec == Init /\ [][Next]_vars

----------------------------------------------------------------------------
(* Properties *)

\* The tab never races itself into a conflict: it meets one only after another
\* tab changed the listing, an answer was lost, or a second reload was late
\* (use-listing-editor.ts:20).
ConflictIsForeign == frozen => unseen

\* What the seller typed last is stored, on its way, or reported as not saved
\* (sendPending, while the seller keeps typing).
NothingIsForgotten ==
    \A f \in Fields :
        \/ typed[f] \in {0, accepted[f], told[f]}
        \/ f \in DOMAIN pending /\ typed[f] = pending[f]
        \/ Called("patch") /\ f \in DOMAIN call.fields /\ typed[f] = call.fields[f]

\* The journey goes on, and the submission is sent, only with everything saved
\* that the seller had typed by then, but for what was reported as not saved
\* (axin-flow.tsx:214).
SentIsSaved ==
    \A f \in Fields :
        /\ press["continue"].at = "flushed" =>
               press["continue"].typed[f] <= accepted[f] \/ press["continue"].typed[f] <= told[f]
        /\ Called("submit") => call.typed[f] <= accepted[f] \/ call.typed[f] <= told[f]

----------------------------------------------------------------------------
(* What the code claims and does not do *)

\* "advancing never implies unsaved data was stored" (axin-flow.tsx:215).
FlushedIsStored ==
    \A b \in Buttons, f \in Fields :
        press[b].at = "flushed" => press[b].typed[f] <= accepted[f]

\* flush "resolves once the queue is idle" (use-listing-editor.ts:132).
FlushEnds == Quiet /\ chain = <<>> => waiting = {}
=============================================================================
