------------------------ MODULE ListingEditor_proofs ------------------------
(***************************************************************************)
(* Proofs about ListingEditor, for any fields, uploads and reloads and any *)
(* bounds.                                                                 *)
(***************************************************************************)
EXTENDS ListingEditor, SequenceTheorems, TLAPS

Last == [Fields -> 0..MaxEdits]

\* The fields of a request, or those that wait.
Saves(fields) ==
    DOMAIN fields \subseteq Fields /\ \A f \in DOMAIN fields : fields[f] \in 1..MaxEdits

CallKinds == {"patch", "confirm", "image", "submit", "fetch"}

IsCall(c) ==
    /\ c = [kind |-> c.kind, revision |-> c.revision, fields |-> c.fields, typed |-> c.typed]
    /\ c.kind \in CallKinds /\ c.revision \in Nat
    /\ Saves(c.fields) /\ c.typed \in Last

Jobs == [kind : {"drain", "image"}, of : {None}] \cup [kind : {"settle"}, of : Buttons]
        \cup [kind : {"confirm"}, of : Uploads] \cup [kind : {"submit"}, of : {"submit"}]

\* The running operation of the chain is the one that sent the request.
IsOfFront(kind) ==
    /\ chain # <<>>
    /\ kind \in {"confirm", "image", "submit"} => Head(chain).kind = kind
    /\ kind = "fetch" => Head(chain).kind \in {"confirm", "image"}
    /\ kind = "patch" => Head(chain).kind # "settle"

PressState == {"idle", "flushing", "flushed", "queued", "done"}
PressRecord == [at : PressState, typed : Last]

TileState == {"none", "uploading", "processing", "error", "gone"}

\* The types of the variables, completed with those of requests and operations.
TypeInv ==
    /\ server \in [revision : Nat, open : BOOLEAN, images : SUBSET Uploads]
    /\ accepted \in Last /\ told \in Last /\ typed \in Last
    /\ edits \in 0..MaxEdits
    /\ revision \in Nat
    /\ Saves(pending)
    /\ timer \in BOOLEAN /\ frozen \in BOOLEAN /\ unseen \in BOOLEAN
    /\ chain \in Seq(Jobs)
    /\ call # NoCall => IsCall(call) /\ IsOfFront(call.kind)
    /\ waiting \subseteq Buttons
    /\ press \in [Buttons -> PressRecord]
    /\ tile \in [Uploads -> TileState]
    /\ reload \in [Reloads -> Nat \cup {None}]

----------------------------------------------------------------------------
(* Operators of the module *)

LEMMA Bounds == MaxEdits \in Nat /\ MaxRevision \in Nat
BY EditorAssumption

\* With takes the later one of each field.
LEMMA WithLater ==
    ASSUME NEW last \in Last, NEW fields, Saves(fields)
    PROVE  /\ With(last, fields) \in Last
           /\ \A f \in Fields :
                /\ With(last, fields)[f] >= last[f]
                /\ f \in DOMAIN fields => With(last, fields)[f] >= fields[f]
                /\ \/ With(last, fields)[f] = last[f]
                   \/ f \in DOMAIN fields /\ With(last, fields)[f] = fields[f]
  <1>1. \A f \in Fields : last[f] \in Int
    BY Bounds DEF Last
  <1>2. \A f \in DOMAIN fields : fields[f] \in 0..MaxEdits
    BY Bounds DEF Saves
  <1>3. \A f \in Fields : With(last, fields)[f] =
            IF f \in DOMAIN fields /\ fields[f] > last[f] THEN fields[f] ELSE last[f]
    BY DEF With
  <1>4. With(last, fields) \in Last
    BY <1>2, <1>3 DEF With, Last
  <1> QED BY <1>1, <1>2, <1>3, <1>4, Bounds

LEMMA NoFieldsSaves == Saves(NoFields) /\ DOMAIN NoFields = {}
BY DEF Saves, NoFields

LEMMA NoEditsLast == NoEdits \in Last
BY Bounds DEF NoEdits, Last

\* A queue with an operation in front, and one with an operation at its end.
LEMMA FrontOfChain ==
    ASSUME NEW q \in Seq(Jobs), q # <<>>
    PROVE  /\ Head(q) \in Jobs /\ Tail(q) \in Seq(Jobs)
           /\ 1 \in DOMAIN q /\ Head(q) = q[1]
           /\ \A i \in DOMAIN Tail(q) : i \in Nat /\ i # 0 /\ i + 1 \in DOMAIN q
                                        /\ Tail(q)[i] = q[i + 1]
BY HeadTailProperties

LEMMA EndOfChain ==
    ASSUME NEW q \in Seq(Jobs), NEW job \in Jobs
    PROVE  /\ q \o <<job>> \in Seq(Jobs)
           /\ \A i \in DOMAIN (q \o <<job>>) :
                \/ i \in DOMAIN q /\ (q \o <<job>>)[i] = q[i]
                \/ i = Len(q) + 1 /\ i \notin DOMAIN q /\ (q \o <<job>>)[i] = job
OBVIOUS

LEMMA JobTypes ==
    /\ Job("drain", None) \in Jobs /\ Job("image", None) \in Jobs
    /\ \A b \in Buttons : Job("settle", b) \in Jobs
    /\ \A u \in Uploads : Job("confirm", u) \in Jobs
    /\ Job("submit", "submit") \in Jobs
BY DEF Job, Jobs

LEMMA JobOf ==
    ASSUME NEW job \in Jobs
    PROVE  /\ job.kind \in Kinds /\ job.of \in Buttons \cup Uploads \cup {None}
           /\ job.kind = "settle" => job.of \in Buttons
           /\ job.kind = "confirm" => job.of \in Uploads
           /\ job.kind = "submit" => job.of = "submit"
BY DEF Jobs, Kinds, Buttons

LEMMA ResolvedOf ==
    ASSUME press \in [Buttons -> PressRecord], NEW buttons, NEW ok \in BOOLEAN
    PROVE  /\ Resolved(buttons, ok) \in [Buttons -> PressRecord]
           /\ \A b \in Buttons :
                /\ Resolved(buttons, ok)[b].typed = press[b].typed
                /\ b \notin buttons => Resolved(buttons, ok)[b] = press[b]
                /\ b \in buttons =>
                     Resolved(buttons, ok)[b].at = IF ok THEN "flushed" ELSE "idle"
BY DEF Resolved, PressRecord, PressState

LEMMA NulledOf ==
    ASSUME TypeInv, NEW job \in Jobs, Nulled(job)
    PROVE  /\ press' \in [Buttons -> PressRecord]
           /\ tile' \in [Uploads -> TileState]
           /\ \A b \in Buttons :
                /\ press'[b].typed = press[b].typed
                /\ press'[b] = press[b] \/ press'[b].at = "idle"
                /\ job.kind = "settle" /\ job.of # b => press'[b] = press[b]
                /\ job.kind = "submit" /\ b # "submit" => press'[b] = press[b]
                /\ job.kind \notin {"settle", "submit"} => press'[b] = press[b]
  <1>1. job.kind = "settle" => press' = Resolved({job.of}, FALSE)
    BY DEF Nulled
  <1>2. job.kind = "submit" => press' = Resolved({"submit"}, FALSE)
    BY DEF Nulled
  <1>3. job.kind \notin {"settle", "submit"} => press' = press
    BY DEF Nulled
  <1>4. tile' \in [Uploads -> TileState]
    BY JobOf DEF Nulled, TypeInv, TileState
  <1>5. press \in [Buttons -> PressRecord]
    BY DEF TypeInv
  <1>6. CASE job.kind = "settle"
    BY <1>1, <1>4, <1>5, <1>6 DEF Resolved, PressRecord, PressState
  <1>7. CASE job.kind = "submit"
    BY <1>2, <1>4, <1>5, <1>7 DEF Resolved, PressRecord, PressState
  <1>8. CASE job.kind \notin {"settle", "submit"}
    BY <1>3, <1>4, <1>5, <1>8
  <1> QED BY <1>6, <1>7, <1>8

LEMMA FreezeOf ==
    ASSUME TypeInv, call # NoCall, Freeze
    PROVE  /\ told' \in Last /\ frozen' = TRUE
           /\ pending' = NoFields /\ Saves(pending')
           /\ \A f \in Fields :
                /\ told'[f] >= told[f]
                /\ f \in DOMAIN call.fields => told'[f] >= call.fields[f]
                /\ f \in DOMAIN pending => told'[f] >= pending[f]
                /\ \/ told'[f] = told[f]
                   \/ f \in DOMAIN call.fields /\ told'[f] = call.fields[f]
                   \/ f \in DOMAIN pending /\ told'[f] = pending[f]
  <1> DEFINE first == With(told, call.fields)
  <1>1. told \in Last /\ Saves(call.fields) /\ Saves(pending)
    BY DEF TypeInv, IsCall
  <1>2. /\ first \in Last
        /\ \A f \in Fields :
             /\ first[f] >= told[f]
             /\ f \in DOMAIN call.fields => first[f] >= call.fields[f]
             /\ \/ first[f] = told[f]
                \/ f \in DOMAIN call.fields /\ first[f] = call.fields[f]
    BY <1>1, WithLater
  <1>3. told' = With(first, pending)
    BY DEF Freeze
  <1> HIDE DEF first
  <1>4. /\ told' \in Last
        /\ \A f \in Fields :
             /\ told'[f] >= first[f]
             /\ f \in DOMAIN pending => told'[f] >= pending[f]
             /\ \/ told'[f] = first[f]
                \/ f \in DOMAIN pending /\ told'[f] = pending[f]
    BY <1>1, <1>2, <1>3, WithLater
  <1>5. frozen' = TRUE /\ pending' = NoFields /\ Saves(pending')
    BY NoFieldsSaves DEF Freeze
  <1>6. \A f \in Fields : /\ told[f] \in Int /\ first[f] \in Int /\ told'[f] \in Int
                          /\ f \in DOMAIN call.fields => call.fields[f] \in Int
    BY <1>1, <1>2, <1>4, Bounds DEF Last, Saves
  <1> QED BY <1>2, <1>4, <1>5, <1>6

LEMMA GivesUpOf ==
    ASSUME TypeInv, call # NoCall, GivesUp
    PROVE  /\ call' = NoCall /\ chain' = Tail(chain) /\ chain' \in Seq(Jobs)
           /\ press' \in [Buttons -> PressRecord]
           /\ tile' \in [Uploads -> TileState]
           /\ waiting' \subseteq Buttons
           /\ \A b \in Buttons : press'[b].typed = press[b].typed
           /\ \/ /\ Running("drain") /\ waiting' = {}
                 /\ press' = Resolved(waiting, FALSE)
              \/ /\ ~Running("drain") /\ waiting' = waiting /\ Nulled(Head(chain))
  <1>1. chain \in Seq(Jobs) /\ chain # <<>> /\ waiting \subseteq Buttons
    BY DEF TypeInv, IsOfFront
  <1>2. call' = NoCall /\ chain' = Tail(chain) /\ chain' \in Seq(Jobs) /\ Head(chain) \in Jobs
    BY <1>1, FrontOfChain DEF GivesUp
  <1>3. CASE Running("drain")
    <2>1. press' = Resolved(waiting, FALSE) /\ waiting' = {} /\ tile' = tile
      BY <1>3 DEF GivesUp
    <2> QED BY <1>2, <1>3, <2>1, ResolvedOf DEF TypeInv
  <1>4. CASE ~Running("drain")
    <2>1. Nulled(Head(chain)) /\ waiting' = waiting
      BY <1>4 DEF GivesUp
    <2> QED BY <1>1, <1>2, <1>4, <2>1, NulledOf
  <1> QED BY <1>3, <1>4

----------------------------------------------------------------------------
(* Types *)

LEMMA TypeInit == Init => TypeInv
  <1> SUFFICES ASSUME Init PROVE TypeInv
    OBVIOUS
  <1>1. press \in [Buttons -> PressRecord]
    BY NoEditsLast DEF Init, PressRecord, PressState
  <1>2. tile \in [Uploads -> TileState] /\ reload \in [Reloads -> Nat \cup {None}]
    BY DEF Init, TileState
  <1>3. server \in [revision : Nat, open : BOOLEAN, images : SUBSET Uploads]
    BY DEF Init
  <1>4. accepted \in Last /\ told \in Last /\ typed \in Last /\ edits \in 0..MaxEdits
    BY NoEditsLast, Bounds DEF Init
  <1>5. Saves(pending) /\ chain \in Seq(Jobs) /\ call = NoCall /\ waiting \subseteq Buttons
    BY NoFieldsSaves DEF Init
  <1> QED BY <1>1, <1>2, <1>3, <1>4, <1>5 DEF Init, TypeInv

\* No step but these of the chain changes the request or the queue.
LEMMA IsOfFrontStays ==
    ASSUME NEW kind, IsOfFront(kind), chain \in Seq(Jobs),
           chain' = chain \/ \E job \in Jobs : chain' = chain \o <<job>>
    PROVE  IsOfFront(kind)'
  <1>1. chain # <<>>
    BY DEF IsOfFront
  <1>2. ASSUME NEW job \in Jobs, chain' = chain \o <<job>>
        PROVE  chain' # <<>> /\ Head(chain') = Head(chain)
    BY <1>1, <1>2
  <1> QED BY <1>1, <1>2 DEF IsOfFront

USE DEF CallKinds, serverVars, editorVars, queueVars, viewVars, countVars

LEMMA TypeChain ==
    ASSUME TypeInv, Chain
    PROVE  TypeInv'
  <1> USE DEF TypeInv
  <1>1. chain # <<>> => Tail(chain) \in Seq(Jobs) /\ Head(chain) \in Jobs
    BY FrontOfChain
  <1>2. CASE SkipFrozen
    <2>1. Nulled(Head(chain)) /\ Head(chain) \in Jobs /\ chain' \in Seq(Jobs)
      BY <1>1, <1>2 DEF SkipFrozen
    <2>2. press' \in [Buttons -> PressRecord] /\ tile' \in [Uploads -> TileState]
      BY <2>1, NulledOf
    <2> QED BY <1>2, <2>1, <2>2 DEF SkipFrozen
  <1>3. CASE SendPending
    <2>1. call' = [kind |-> "patch", revision |-> revision, fields |-> pending, typed |-> typed]
      BY <1>3 DEF SendPending
    <2>2. IsCall(call')
      BY <2>1 DEF IsCall, CallKinds
    <2>3. chain # <<>> /\ Head(chain).kind # "settle" /\ chain' = chain /\ call'.kind = "patch"
      BY <1>3, <2>1 DEF SendPending, Runs, FlushesFirst, Exclusive, Running
    <2>4. Saves(pending')
      BY <1>3, NoFieldsSaves DEF SendPending, Taken
    <2> QED BY <1>3, <2>2, <2>3, <2>4 DEF SendPending, IsOfFront
  <1>4. CASE EndDrain
    <2>1. press' = Resolved(waiting, TRUE)
      BY <1>4 DEF EndDrain
    <2>2. press' \in [Buttons -> PressRecord]
      BY <2>1, ResolvedOf
    <2> QED BY <1>1, <1>4, <2>2 DEF EndDrain, Runs
  <1>5. CASE EndSettle
    <2>1. press' = Resolved({Head(chain).of}, TRUE)
      BY <1>5 DEF EndSettle
    <2>2. press' \in [Buttons -> PressRecord]
      BY <2>1, ResolvedOf
    <2> QED BY <1>1, <1>5, <2>2 DEF EndSettle, Runs
  <1>6. CASE SendExclusive
    <2>1. call' = [kind |-> Head(chain).kind, revision |-> revision, fields |-> NoFields,
                   typed |-> typed]
      BY <1>6 DEF SendExclusive
    <2>2. chain # <<>> /\ chain' = chain /\ Head(chain).kind \in {"confirm", "image", "submit"}
      BY <1>6 DEF SendExclusive, Runs, Exclusive, Running
    <2>3. IsCall(call')
      BY <2>1, <2>2, NoFieldsSaves DEF IsCall, CallKinds
    <2>4. call'.kind = Head(chain').kind
      BY <2>1, <2>2
    <2> QED BY <1>6, <2>2, <2>3, <2>4 DEF SendExclusive, IsOfFront
  <1>7. ASSUME NEW b \in Buttons, Proceed(b) PROVE TypeInv'
    <2>1. press' \in [Buttons -> PressRecord]
      BY <1>7, NoEditsLast DEF Proceed, PressRecord, PressState
    <2>2. chain' = chain \o <<Job("submit", "submit")>> \/ chain' = chain \o << >>
      BY <1>7 DEF Proceed, enqueue
    <2>3. call' = call
      BY <1>7 DEF Proceed
    <2>4. chain' = chain \/ \E job \in Jobs : chain' = chain \o <<job>>
      <3>1. chain \o << >> = chain
        BY ConcatEmptySeq
      <3> QED BY <2>2, <3>1, JobTypes
    <2>5. chain' \in Seq(Jobs)
      <3>1. ASSUME NEW job \in Jobs, chain' = chain \o <<job>> PROVE chain' \in Seq(Jobs)
        BY <3>1, EndOfChain
      <3> QED BY <2>4, <3>1
    <2>6. call' # NoCall => IsOfFront(call.kind)'
      BY <2>3, <2>4, IsOfFrontStays
    <2> QED BY <1>7, <2>1, <2>3, <2>5, <2>6 DEF Proceed
  <1> QED BY <1>2, <1>3, <1>4, <1>5, <1>6, <1>7 DEF Chain

LEMMA NoCallKind == NoCall.kind = "none"
BY DEF NoCall

LEMMA CallOf ==
    ASSUME TypeInv, NEW kind \in CallKinds, Called(kind)
    PROVE  /\ call # NoCall /\ call.kind = kind /\ IsCall(call) /\ Saves(call.fields)
           /\ call.kind \in CallKinds /\ call.revision \in Nat
           /\ chain # <<>> /\ Tail(chain) \in Seq(Jobs) /\ Head(chain) \in Jobs
           /\ kind \in {"confirm", "image", "submit"} => Head(chain).kind = kind
           /\ kind = "confirm" => Head(chain).of \in Uploads
           /\ Running("confirm") => Head(chain).of \in Uploads
  <1>1. call # NoCall /\ call.kind = kind /\ IsCall(call) /\ IsOfFront(call.kind)
        /\ chain \in Seq(Jobs)
    BY DEF Called, TypeInv, NoCall, CallKinds
  <1>2. chain # <<>> /\ Tail(chain) \in Seq(Jobs) /\ Head(chain) \in Jobs
    BY <1>1, FrontOfChain DEF IsOfFront
  <1> QED BY <1>1, <1>2, JobOf DEF IsCall, IsOfFront, Running

\* What an image operation makes of the listing.
LEMMA ImageServer ==
    ASSUME TypeInv, Called("confirm") \/ Called("image"),
           server' = [server EXCEPT !.revision = @ + 1, !.images =
                         IF Called("confirm") THEN @ \cup {Head(chain).of} ELSE @]
    PROVE  /\ server' \in [revision : Nat, open : BOOLEAN, images : SUBSET Uploads]
           /\ server'.revision = server.revision + 1
  <1> DEFINE images == IF Called("confirm") THEN server.images \cup {Head(chain).of}
                       ELSE server.images
  <1>1. server \in [revision : Nat, open : BOOLEAN, images : SUBSET Uploads]
    BY DEF TypeInv
  <1>2. images \in SUBSET Uploads
    BY <1>1, CallOf
  <1> DEFINE next == server.revision + 1
  <1>3. server' = [server EXCEPT !.revision = next, !.images = images] /\ next \in Nat
    BY <1>1
  <1> HIDE DEF images, next
  <1>4. /\ server' \in [revision : Nat, open : BOOLEAN, images : SUBSET Uploads]
        /\ server'.revision = next
    BY <1>1, <1>2, <1>3
  <1> QED BY <1>4 DEF next

LEMMA TypeAnswers ==
    ASSUME TypeInv, Answers
    PROVE  TypeInv'
  <1> USE DEF TypeInv
  <1>1. CASE PatchSaved
    <2>1. call' = NoCall /\ accepted' \in Last
      BY <1>1, CallOf, WithLater DEF PatchSaved
    <2>2. Saves(pending')
      BY <1>1 DEF PatchSaved, Taken
    <2>3. server' \in [revision : Nat, open : BOOLEAN, images : SUBSET Uploads]
          /\ revision' \in Nat
      BY <1>1 DEF PatchSaved
    <2> QED BY <1>1, <2>1, <2>2, <2>3 DEF PatchSaved
  <1>2. CASE PatchConflicts
    <2>1. call # NoCall /\ Freeze /\ GivesUp
      BY <1>2, CallOf DEF PatchConflicts
    <2> QED BY <1>2, <2>1, FreezeOf, GivesUpOf DEF PatchConflicts
  <1>3. CASE PatchFails
    <2>1. call # NoCall /\ Saves(call.fields) /\ GivesUp
      BY <1>3, CallOf DEF PatchFails
    <2>2. told' \in Last
      BY <1>3, <2>1, WithLater DEF PatchFails
    <2>3. /\ server' \in [revision : Nat, open : BOOLEAN, images : SUBSET Uploads]
          /\ accepted' \in Last /\ unseen' \in BOOLEAN
      <3>1. CASE UNCHANGED <<serverVars, unseen>>
        BY <3>1
      <3>2. CASE /\ server' = [server EXCEPT !.revision = @ + 1]
                 /\ accepted' = With(accepted, call.fields)
                 /\ unseen' = TRUE
        <4>1. accepted' \in Last
          BY <2>1, <3>2, WithLater
        <4>2. [server EXCEPT !.revision = @ + 1]
                 \in [revision : Nat, open : BOOLEAN, images : SUBSET Uploads]
          OBVIOUS
        <4> QED BY <3>2, <4>1, <4>2
      <3> QED BY <1>3, <3>1, <3>2 DEF PatchFails
    <2> QED BY <1>3, <2>1, <2>2, <2>3, GivesUpOf DEF PatchFails
  <1>4. CASE ImageDone
    <2>1. server' \in [revision : Nat, open : BOOLEAN, images : SUBSET Uploads]
      BY <1>4, ImageServer DEF ImageDone
    <2>2. Refetches(call.kind)
      BY <1>4 DEF ImageDone, Called, Refetches
    <2>3. call' = [call EXCEPT !.kind = "fetch"] /\ chain' = chain
      BY <1>4, <2>2 DEF ImageDone
    <2>4. IsCall(call)
      BY <1>4, CallOf DEF ImageDone
    <2>5. IsCall(call') /\ call'.kind = "fetch"
      BY <2>3, <2>4 DEF IsCall, CallKinds
    <2>6. IsOfFront("fetch")'
      BY <1>4, <2>3, CallOf DEF ImageDone, IsOfFront
    <2>7. call' # NoCall => IsOfFront(call.kind)'
      BY <2>5, <2>6
    <2> QED BY <1>4, <2>1, <2>3, <2>5, <2>7 DEF ImageDone
  <1>5. CASE Refetched
    <2>1. call' = NoCall /\ chain' \in Seq(Jobs)
      BY <1>5, CallOf DEF Refetched
    <2>2. tile' \in [Uploads -> TileState]
      BY <1>5, CallOf DEF Refetched, TileState
    <2> QED BY <1>5, <2>1, <2>2 DEF Refetched
  <1>6. CASE ImageFails
    <2>1. \E kind \in {"confirm", "image", "fetch"} : Called(kind)
      BY <1>6 DEF ImageFails
    <2>2. call' = NoCall /\ chain' \in Seq(Jobs)
      BY <1>6, <2>1, CallOf DEF ImageFails
    <2>3. tile' \in [Uploads -> TileState]
      BY <1>6, <2>1, CallOf DEF ImageFails, TileState
    <2>4. server' \in [revision : Nat, open : BOOLEAN, images : SUBSET Uploads]
      BY <1>6, <2>1, ImageServer DEF ImageFails
    <2>5. unseen' \in BOOLEAN
      BY <1>6 DEF ImageFails
    <2> QED BY <1>6, <2>2, <2>3, <2>4, <2>5 DEF ImageFails
  <1>7. CASE SubmitDone
    <2>1. call' = NoCall /\ chain' \in Seq(Jobs)
      BY <1>7, CallOf DEF SubmitDone
    <2>2. press' \in [Buttons -> PressRecord]
      BY <1>7 DEF SubmitDone, PressRecord, PressState
    <2> QED BY <1>7, <2>1, <2>2 DEF SubmitDone
  <1>8. CASE SubmitConflicts
    <2>1. call # NoCall /\ Freeze /\ call' = NoCall /\ chain' \in Seq(Jobs)
      BY <1>8, CallOf DEF SubmitConflicts
    <2>2. press' \in [Buttons -> PressRecord]
      BY <1>8, ResolvedOf DEF SubmitConflicts
    <2> QED BY <1>8, <2>1, <2>2, FreezeOf DEF SubmitConflicts
  <1>9. CASE SubmitFails
    <2>1. call' = NoCall /\ chain' \in Seq(Jobs)
      BY <1>9, CallOf DEF SubmitFails
    <2>2. press' \in [Buttons -> PressRecord]
      BY <1>9, ResolvedOf DEF SubmitFails
    <2>3. server' \in [revision : Nat, open : BOOLEAN, images : SUBSET Uploads]
      BY <1>9 DEF SubmitFails
    <2> QED BY <1>9, <2>1, <2>2, <2>3 DEF SubmitFails
  <1> QED BY <1>1, <1>2, <1>3, <1>4, <1>5, <1>6, <1>7, <1>8, <1>9 DEF Answers

\* A step that at most queues an operation.
LEMMA Queues ==
    ASSUME TypeInv, UNCHANGED call,
           chain' = chain \/ \E job \in Jobs : chain' = chain \o <<job>>
    PROVE  /\ chain' \in Seq(Jobs)
           /\ call' # NoCall => IsCall(call') /\ IsOfFront(call.kind)'
  <1>1. ASSUME NEW job \in Jobs, chain' = chain \o <<job>> PROVE chain' \in Seq(Jobs)
    BY <1>1, EndOfChain DEF TypeInv
  <1>2. chain' \in Seq(Jobs)
    BY <1>1 DEF TypeInv
  <1>3. call # NoCall => IsOfFront(call.kind)'
    BY IsOfFrontStays DEF TypeInv
  <1> QED BY <1>2, <1>3 DEF TypeInv

LEMMA TypeSeller ==
    ASSUME TypeInv, Seller \/ OtherTab
    PROVE  TypeInv'
  <1> USE DEF TypeInv
  <1>1. ASSUME NEW f \in Fields, NEW immediate \in BOOLEAN, Edit(f, immediate) PROVE TypeInv'
    <2>1. chain' = chain \/ \E job \in Jobs : chain' = chain \o <<job>>
      BY <1>1, JobTypes DEF Edit, enqueue
    <2>2. edits' \in 1..MaxEdits
      BY <1>1, Bounds DEF Edit
    <2>3. typed' \in Last
      BY <1>1, <2>2, Bounds DEF Edit, Last
    <2>4. Saves(pending')
      <3>1. pending' = [g \in DOMAIN pending \cup {f} |-> IF g = f THEN edits' ELSE pending[g]]
        BY <1>1 DEF Edit
      <3>2. DOMAIN pending \subseteq Fields /\ \A g \in DOMAIN pending : pending[g] \in 1..MaxEdits
        BY DEF Saves
      <3>3. DOMAIN pending' = DOMAIN pending \cup {f}
        BY <3>1
      <3>4. \A g \in DOMAIN pending' : pending'[g] \in 1..MaxEdits
        BY <2>2, <3>1, <3>2, <3>3
      <3> QED BY <3>2, <3>3, <3>4 DEF Saves
    <2>5. timer' \in BOOLEAN /\ call' = call
      BY <1>1 DEF Edit
    <2>6. /\ chain' \in Seq(Jobs)
          /\ call' # NoCall => IsCall(call') /\ IsOfFront(call.kind)'
      BY <2>1, <2>5, Queues
    <2>7. UNCHANGED <<serverVars, revision, frozen, waiting, viewVars, told, unseen>>
      BY <1>1 DEF Edit
    <2>8. edits' \in 0..MaxEdits
      BY <2>2, Bounds
    <2> QED BY <2>3, <2>4, <2>5, <2>6, <2>7, <2>8
  <1>2. CASE TimerFires
    <2>1. \E job \in Jobs : chain' = chain \o <<job>>
      BY <1>2, JobTypes DEF TimerFires, enqueue
    <2> QED BY <1>2, <2>1, Queues DEF TimerFires
  <1>3. ASSUME NEW b \in Buttons, Press(b) PROVE TypeInv'
    <2>1. \E job \in Jobs : chain' = chain \o <<job>>
      BY <1>3, JobTypes DEF Press, enqueue
    <2>2. press' \in [Buttons -> PressRecord] /\ waiting' \subseteq Buttons
      BY <1>3 DEF Press, PressRecord, PressState
    <2> QED BY <1>3, <2>1, <2>2, Queues DEF Press
  <1>4. ASSUME NEW u \in Uploads, StartUpload(u) PROVE TypeInv'
    BY <1>4, Queues DEF StartUpload, TileState
  <1>5. ASSUME NEW u \in Uploads, Uploaded(u) PROVE TypeInv'
    <2>1. chain' = chain \/ \E job \in Jobs : chain' = chain \o <<job>>
      BY <1>5, JobTypes DEF Uploaded, enqueue
    <2> QED BY <1>5, <2>1, Queues DEF Uploaded, TileState
  <1>6. CASE ImageOp
    <2>1. \E job \in Jobs : chain' = chain \o <<job>>
      BY <1>6, JobTypes DEF ImageOp, enqueue
    <2> QED BY <1>6, <2>1, Queues DEF ImageOp
  <1>7. ASSUME NEW k \in Reloads, ClickReload(k) PROVE TypeInv'
    BY <1>7, Queues DEF ClickReload
  <1>8. ASSUME NEW k \in Reloads, Reloaded(k) PROVE TypeInv'
    <2>1. told' \in Last
      BY <1>8, WithLater DEF Reloaded
    <2>2. Saves(pending') /\ revision' \in Nat /\ unseen' \in BOOLEAN
      BY <1>8, NoFieldsSaves DEF Reloaded
    <2> QED BY <1>8, <2>1, <2>2, Queues DEF Reloaded
  <1>9. ASSUME NEW k \in Reloads, ReloadFails(k) PROVE TypeInv'
    BY <1>9, Queues DEF ReloadFails
  <1>10. CASE OtherTab
    <2>1. server' \in [revision : Nat, open : BOOLEAN, images : SUBSET Uploads]
      BY <1>10 DEF OtherTab
    <2> QED BY <1>10, <2>1, Queues DEF OtherTab
  <1> QED
    BY <1>1, <1>2, <1>3, <1>4, <1>5, <1>6, <1>7, <1>8, <1>9, <1>10 DEF Seller

LEMMA TypeStep == TypeInv /\ [Next]_vars => TypeInv'
  <1> SUFFICES ASSUME TypeInv, [Next]_vars PROVE TypeInv'
    OBVIOUS
  <1>1. CASE UNCHANGED vars
    BY <1>1 DEF vars, TypeInv, IsOfFront
  <1> QED BY <1>1, TypeChain, TypeAnswers, TypeSeller DEF Next

\* The variables of the editor keep their types.
THEOREM TypeCorrect == Spec => []TypeOK
  <1>1. TypeInv => TypeOK
    <2> SUFFICES ASSUME TypeInv PROVE TypeOK
      OBVIOUS
    <2>1. \A i \in DOMAIN chain : chain[i].kind \in Kinds
                                  /\ chain[i].of \in Buttons \cup Uploads \cup {None}
      BY JobOf DEF TypeInv
    <2>2. \A b \in Buttons : press[b].at \in PressState
      BY DEF TypeInv, PressRecord
    <2>3. {accepted, told, typed} \subseteq [Fields -> 0..MaxEdits]
      BY DEF TypeInv, Last
    <2>4. call.kind \in {"none", "patch", "confirm", "image", "submit", "fetch"}
      BY DEF TypeInv, IsCall, CallKinds, NoCall
    <2>5. server \in [revision : Nat, open : BOOLEAN, images : SUBSET Uploads]
      BY DEF TypeInv
    <2>6. DOMAIN pending \subseteq Fields /\ \A f \in DOMAIN pending : pending[f] \in 1..MaxEdits
      BY DEF TypeInv, Saves
    <2>7. /\ revision \in Nat /\ timer \in BOOLEAN /\ frozen \in BOOLEAN /\ unseen \in BOOLEAN
          /\ waiting \subseteq Buttons
          /\ tile \in [Uploads -> {"none", "uploading", "processing", "error", "gone"}]
          /\ reload \in [Reloads -> Nat \cup {None}]
      BY DEF TypeInv, TileState
    <2> QED BY <2>1, <2>2, <2>3, <2>4, <2>5, <2>6, <2>7 DEF TypeOK, PressState
  <1> QED BY <1>1, TypeInit, TypeStep, PTL DEF Spec


----------------------------------------------------------------------------
(* Revisions *)

\* Unless something happened behind its back the tab names the revision of the
\* server, and nothing is on its way while it is frozen.
SeenInv ==
    /\ ~unseen /\ ~Called("fetch") => revision = server.revision
    /\ ~unseen /\ (Called("patch") \/ Called("submit")) => call.revision = server.revision
    /\ frozen => unseen /\ call = NoCall

LEMMA SeenStep ==
    ASSUME TypeInv, SeenInv, [Next]_vars
    PROVE  SeenInv'
  <1> USE DEF SeenInv, Called
  <1> USE NoCallKind
  <1>1. CASE SkipFrozen \/ EndDrain \/ EndSettle
    <2>1. UNCHANGED <<server, revision, frozen, unseen, call>>
      BY <1>1 DEF SkipFrozen, EndDrain, EndSettle
    <2> QED BY <2>1
  <1>2. CASE SendPending
    <2>1. call = NoCall /\ ~frozen
      BY <1>2 DEF SendPending, Runs
    <2>2. call'.revision = revision /\ call'.kind = "patch"
      BY <1>2 DEF SendPending
    <2> QED BY <1>2, <2>1, <2>2 DEF SendPending
  <1>3. CASE SendExclusive
    <2>1. call = NoCall /\ ~frozen
      BY <1>3 DEF SendExclusive, Runs
    <2>2. call'.revision = revision
      BY <1>3 DEF SendExclusive
    <2> QED BY <1>3, <2>1, <2>2 DEF SendExclusive
  <1>4. ASSUME NEW b \in Buttons, Proceed(b) PROVE SeenInv'
    BY <1>4 DEF Proceed
  <1>5. CASE PatchSaved
    BY <1>5 DEF PatchSaved, TypeInv
  <1>6. CASE PatchConflicts
    BY <1>6 DEF PatchConflicts, Freeze, GivesUp
  <1>7. CASE PatchFails
    BY <1>7 DEF PatchFails, GivesUp
  <1>8. CASE ImageDone
    <2>1. Refetches(call.kind)
      BY <1>8 DEF ImageDone, Refetches
    <2>2. call' = [call EXCEPT !.kind = "fetch"]
      BY <1>8, <2>1 DEF ImageDone
    <2>3. IsCall(call)
      BY <1>8, CallOf DEF ImageDone
    <2>4. call'.kind = "fetch"
      BY <2>2, <2>3 DEF IsCall
    <2>5. call # NoCall /\ UNCHANGED <<frozen, unseen>>
      BY <1>8, CallOf DEF ImageDone
    <2> QED BY <2>4, <2>5
  <1>9. CASE Refetched
    BY <1>9 DEF Refetched
  <1>10. CASE ImageFails
    BY <1>10 DEF ImageFails
  <1>11. CASE SubmitDone
    <2>1. server'.revision = server.revision
      BY <1>11 DEF SubmitDone, TypeInv
    <2> QED BY <1>11, <2>1 DEF SubmitDone
  <1>12. CASE SubmitConflicts
    BY <1>12 DEF SubmitConflicts, Freeze
  <1>13. CASE SubmitFails
    <2>1. server'.revision = server.revision
      BY <1>13 DEF SubmitFails, TypeInv
    <2> QED BY <1>13, <2>1 DEF SubmitFails
  <1>14. ASSUME NEW f \in Fields, NEW immediate \in BOOLEAN, Edit(f, immediate) PROVE SeenInv'
    BY <1>14 DEF Edit
  <1>15. CASE TimerFires
    BY <1>15 DEF TimerFires
  <1>16. ASSUME NEW b \in Buttons, Press(b) PROVE SeenInv'
    BY <1>16 DEF Press
  <1>17. ASSUME NEW u \in Uploads, StartUpload(u) \/ Uploaded(u) PROVE SeenInv'
    BY <1>17 DEF StartUpload, Uploaded
  <1>18. CASE ImageOp
    BY <1>18 DEF ImageOp
  <1>19. ASSUME NEW k \in Reloads, ClickReload(k) \/ ReloadFails(k) PROVE SeenInv'
    BY <1>19 DEF ClickReload, ReloadFails
  <1>20. ASSUME NEW k \in Reloads, Reloaded(k) PROVE SeenInv'
    BY <1>20 DEF Reloaded
  <1>21. CASE OtherTab
    BY <1>21 DEF OtherTab
  <1>22. CASE UNCHANGED vars
    BY <1>22 DEF vars
  <1> QED
    BY <1>1, <1>2, <1>3, <1>4, <1>5, <1>6, <1>7, <1>8, <1>9, <1>10, <1>11, <1>12, <1>13,
       <1>14, <1>15, <1>16, <1>17, <1>18, <1>19, <1>20, <1>21, <1>22
       DEF Next, Chain, Answers, Seller

\* The tab never races itself into a conflict, whatever its seller does and in
\* whatever order requests fail (use-listing-editor.ts, chainRef and refetch).
THEOREM ConflictsAreForeign == Spec => []ConflictIsForeign
  <1>1. Init => SeenInv
    BY DEF Init, SeenInv, Called, NoCall
  <1>2. SeenInv => ConflictIsForeign
    BY DEF SeenInv, ConflictIsForeign
  <1>3. TypeInv /\ SeenInv /\ [Next]_vars => SeenInv'
    BY SeenStep
  <1> QED BY <1>1, <1>2, <1>3, TypeInit, TypeStep, PTL DEF Spec

----------------------------------------------------------------------------
(* Edits *)

\* Nothing is newer than what the seller typed last.
KeptInv ==
    /\ \A f \in Fields :
        /\ accepted[f] <= typed[f] /\ told[f] <= typed[f] /\ typed[f] <= edits
        /\ f \in DOMAIN pending => pending[f] <= typed[f]
        /\ f \in DOMAIN call.fields => call.fields[f] <= typed[f]
    /\ NothingIsForgotten

LEMMA Numbers ==
    ASSUME TypeInv
    PROVE  /\ edits \in Nat
           /\ \A f \in Fields :
                /\ accepted[f] \in Nat /\ told[f] \in Nat /\ typed[f] \in Nat
                /\ f \in DOMAIN pending => pending[f] \in Nat
                /\ f \in DOMAIN call.fields => call.fields[f] \in Nat
  <1>1. Saves(call.fields)
    BY NoFieldsSaves DEF TypeInv, IsCall, NoCall
  <1>2. accepted \in Last /\ told \in Last /\ typed \in Last /\ Saves(pending)
        /\ edits \in 0..MaxEdits
    BY DEF TypeInv
  <1> QED BY <1>1, <1>2, Bounds DEF Last, Saves

LEMMA KeptChain ==
    ASSUME TypeInv, KeptInv, Chain
    PROVE  KeptInv'
  <1> USE DEF KeptInv, NothingIsForgotten, Called
  <1>1. CASE SendPending
    <2>1. call = NoCall /\ call'.kind = "patch" /\ call'.fields = pending /\ pending' = NoFields
      BY <1>1 DEF SendPending, Runs, Taken
    <2> QED BY <1>1, <2>1, NoCallKind, NoFieldsSaves DEF SendPending
  <1>2. CASE SendExclusive
    <2>1. call = NoCall /\ call'.kind # "patch" /\ call'.fields = NoFields
      BY <1>2 DEF SendExclusive, Runs, Exclusive, Running
    <2> QED BY <1>2, <2>1, NoCallKind, NoFieldsSaves DEF SendExclusive
  <1>3. CASE SkipFrozen \/ EndDrain \/ EndSettle \/ \E b \in Buttons : Proceed(b)
    <2>1. UNCHANGED <<accepted, told, typed, pending, call, edits>>
      BY <1>3 DEF SkipFrozen, EndDrain, EndSettle, Proceed
    <2> QED BY <2>1
  <1> QED BY <1>1, <1>2, <1>3 DEF Chain

LEMMA KeptAnswers ==
    ASSUME TypeInv, KeptInv, Answers
    PROVE  KeptInv'
  <1> USE DEF KeptInv, NothingIsForgotten, Called
  <1>0. DOMAIN NoCall.fields = {} /\ NoCall.kind = "none"
    BY NoFieldsSaves DEF NoCall
  <1>1. CASE PatchSaved
    <2>1. call.kind = "patch" /\ Saves(call.fields) /\ call' = NoCall
          /\ accepted' = With(accepted, call.fields)
          /\ UNCHANGED <<told, typed, pending, edits>>
      BY <1>1, CallOf DEF PatchSaved, Taken
    <2>2. \A f \in Fields :
             /\ accepted'[f] >= accepted[f]
             /\ f \in DOMAIN call.fields => accepted'[f] >= call.fields[f]
             /\ \/ accepted'[f] = accepted[f]
                \/ f \in DOMAIN call.fields /\ accepted'[f] = call.fields[f]
      BY <2>1, WithLater DEF TypeInv
    <2> QED BY <1>0, <2>1, <2>2, Numbers
  <1>2. CASE PatchConflicts
    <2>1. call.kind = "patch" /\ call # NoCall /\ Freeze /\ call' = NoCall
          /\ UNCHANGED <<accepted, typed, edits>>
      BY <1>2, CallOf DEF PatchConflicts, GivesUp
    <2> QED BY <1>0, <2>1, FreezeOf, NoFieldsSaves, Numbers
  <1>3. CASE PatchFails
    <2>1. call.kind = "patch" /\ Saves(call.fields) /\ call' = NoCall
          /\ told' = With(told, call.fields)
          /\ accepted' \in {accepted, With(accepted, call.fields)}
          /\ UNCHANGED <<typed, pending, edits>>
      BY <1>3, CallOf DEF PatchFails, GivesUp
    <2>2. \A f \in Fields :
             /\ told'[f] >= told[f]
             /\ f \in DOMAIN call.fields => told'[f] >= call.fields[f]
             /\ \/ told'[f] = told[f]
                \/ f \in DOMAIN call.fields /\ told'[f] = call.fields[f]
      BY <2>1, WithLater DEF TypeInv
    <2>3. \A f \in Fields :
             /\ accepted'[f] >= accepted[f]
             /\ \/ accepted'[f] = accepted[f]
                \/ f \in DOMAIN call.fields /\ accepted'[f] = call.fields[f]
      BY <2>1, WithLater, Numbers DEF TypeInv
    <2> QED BY <1>0, <2>1, <2>2, <2>3, Numbers
  <1>4. CASE SubmitConflicts
    <2>1. call.kind = "submit" /\ call # NoCall /\ Freeze /\ call' = NoCall
          /\ UNCHANGED <<accepted, typed, edits>>
      BY <1>4, CallOf DEF SubmitConflicts
    <2> QED BY <1>0, <2>1, FreezeOf, NoFieldsSaves, Numbers
  <1>5. CASE ImageDone
    <2>1. call' = [call EXCEPT !.kind = "fetch"] /\ call.kind # "patch" /\ IsCall(call)
          /\ UNCHANGED <<accepted, told, typed, pending, edits>>
      BY <1>5, CallOf DEF ImageDone, Refetches
    <2>2. call'.fields = call.fields /\ call'.kind = "fetch"
      BY <2>1 DEF IsCall
    <2> QED BY <2>1, <2>2
  <1>6. CASE Refetched \/ ImageFails \/ SubmitDone \/ SubmitFails
    <2>1. call.kind # "patch" /\ call' = NoCall
          /\ UNCHANGED <<accepted, told, typed, pending, edits>>
      BY <1>6 DEF Refetched, ImageFails, SubmitDone, SubmitFails
    <2> QED BY <1>0, <2>1
  <1> QED BY <1>1, <1>2, <1>3, <1>4, <1>5, <1>6 DEF Answers

LEMMA KeptSeller ==
    ASSUME TypeInv, KeptInv, Seller \/ OtherTab
    PROVE  KeptInv'
  <1> USE DEF KeptInv, NothingIsForgotten, Called
  <1>1. ASSUME NEW f \in Fields, NEW immediate \in BOOLEAN, Edit(f, immediate) PROVE KeptInv'
    <2>1. edits' = edits + 1 /\ UNCHANGED <<accepted, told, call>>
      BY <1>1 DEF Edit
    <2>2. \A g \in Fields : typed'[g] = IF g = f THEN edits' ELSE typed[g]
      BY <1>1 DEF Edit, TypeInv, Last
    <2>3. /\ DOMAIN pending' = DOMAIN pending \cup {f}
          /\ \A g \in DOMAIN pending' : pending'[g] = IF g = f THEN edits' ELSE pending[g]
      BY <1>1 DEF Edit
    <2> QED BY <2>1, <2>2, <2>3, Numbers
  <1>2. ASSUME NEW k \in Reloads, Reloaded(k) PROVE KeptInv'
    <2>1. told' = With(told, pending) /\ pending' = NoFields
          /\ UNCHANGED <<accepted, typed, call, edits>>
      BY <1>2 DEF Reloaded
    <2>2. \A f \in Fields :
             /\ told'[f] >= told[f]
             /\ f \in DOMAIN pending => told'[f] >= pending[f]
             /\ \/ told'[f] = told[f]
                \/ f \in DOMAIN pending /\ told'[f] = pending[f]
      BY <2>1, WithLater DEF TypeInv
    <2> QED BY <2>1, <2>2, NoFieldsSaves, Numbers
  <1>3. CASE \/ TimerFires \/ \E b \in Buttons : Press(b)
             \/ \E u \in Uploads : StartUpload(u) \/ Uploaded(u)
             \/ ImageOp \/ \E k \in Reloads : ClickReload(k) \/ ReloadFails(k)
             \/ OtherTab
    <2>1. UNCHANGED <<accepted, told, typed, pending, call, edits>>
      BY <1>3 DEF TimerFires, Press, StartUpload, Uploaded, ImageOp, ClickReload, ReloadFails,
                  OtherTab
    <2> QED BY <2>1
  <1> QED BY <1>1, <1>2, <1>3 DEF Seller

LEMMA KeptStep == TypeInv /\ KeptInv /\ [Next]_vars => KeptInv'
  <1> SUFFICES ASSUME TypeInv, KeptInv, [Next]_vars PROVE KeptInv'
    OBVIOUS
  <1>1. CASE UNCHANGED vars
    BY <1>1 DEF vars, KeptInv, NothingIsForgotten, Called
  <1> QED BY <1>1, KeptChain, KeptAnswers, KeptSeller DEF Next

LEMMA KeptInit == Init => KeptInv
  <1> SUFFICES ASSUME Init PROVE KeptInv
    OBVIOUS
  <1>1. DOMAIN call.fields = {} /\ DOMAIN pending = {}
    BY NoFieldsSaves DEF Init, NoCall
  <1>2. \A f \in Fields : accepted[f] = 0 /\ told[f] = 0 /\ typed[f] = 0 /\ edits = 0
    BY DEF Init, NoEdits
  <1> QED BY <1>1, <1>2 DEF KeptInv, NothingIsForgotten

\* What the seller typed last is stored, waits, is on its way or was reported as
\* not saved, however typing, saving, failing and reloading interleave
\* (use-listing-editor.ts, sendPending).
THEOREM NothingIsForgottenHolds == Spec => []NothingIsForgotten
  <1>1. KeptInv => NothingIsForgotten
    BY DEF KeptInv
  <1> QED BY <1>1, TypeInit, TypeStep, KeptInit, KeptStep, PTL DEF Spec

----------------------------------------------------------------------------
(* Buttons *)

\* A button waits for the pending edits or for one operation of its own.
Owns(job) == job.kind \in {"settle", "submit"}
Stage(kind) == IF kind = "settle" THEN "flushing" ELSE "queued"

OrderInv ==
    /\ \A i \in DOMAIN chain : Owns(chain[i]) =>
          press[chain[i].of].at = Stage(chain[i].kind) /\ chain[i].of \notin waiting
    /\ \A i, j \in DOMAIN chain :
          i # j /\ Owns(chain[i]) /\ Owns(chain[j]) => chain[i].of # chain[j].of
    /\ \A b \in waiting : press[b].at = "flushing"

\* The first operation ends, and with it the wait of its own button at most.
LEMMA OrderTail ==
    ASSUME TypeInv, OrderInv, chain # <<>>, chain' = Tail(chain), waiting' = waiting,
           \A b \in Buttons : \/ press'[b].at = press[b].at
                              \/ Owns(Head(chain)) /\ Head(chain).of = b
    PROVE  OrderInv'
  <1> USE DEF OrderInv
  <1>1. /\ 1 \in DOMAIN chain /\ Head(chain) = chain[1]
        /\ \A i \in DOMAIN chain' : i \in Nat /\ i # 0 /\ i + 1 \in DOMAIN chain
                                    /\ chain'[i] = chain[i + 1]
    BY FrontOfChain DEF TypeInv
  <1>2. \A i \in DOMAIN chain : Owns(chain[i]) => chain[i].of \in Buttons
    BY JobOf DEF TypeInv, Owns, Buttons
  <1>3. \A i \in DOMAIN chain' : i + 1 # 1 /\ chain'[i] = chain[i + 1] /\ i + 1 \in DOMAIN chain
    BY <1>1
  <1>4. \A i \in DOMAIN chain' : Owns(chain'[i]) =>
            press'[chain'[i].of].at = press[chain'[i].of].at
    BY <1>1, <1>2, <1>3
  <1>5. \A b \in waiting : press'[b].at = press[b].at
    BY <1>1 DEF TypeInv
  <1>6. \A i, j \in DOMAIN chain' : i # j => i + 1 # j + 1
    BY <1>1
  <1> QED BY <1>3, <1>4, <1>5, <1>6

\* A save ends, and with it the wait of all that waited for it.
LEMMA OrderResolved ==
    ASSUME TypeInv, OrderInv, chain # <<>>, chain' = Tail(chain), waiting' = {},
           \A b \in Buttons \ waiting : press'[b].at = press[b].at
    PROVE  OrderInv'
  <1> USE DEF OrderInv
  <1>1. \A i \in DOMAIN chain' : i \in Nat /\ i + 1 \in DOMAIN chain /\ chain'[i] = chain[i + 1]
    BY FrontOfChain DEF TypeInv
  <1>2. \A i \in DOMAIN chain : Owns(chain[i]) => chain[i].of \in Buttons
    BY JobOf DEF TypeInv, Owns, Buttons
  <1>3. \A i, j \in DOMAIN chain' : i # j => i + 1 # j + 1
    BY <1>1
  <1> QED BY <1>1, <1>2, <1>3

\* An operation is queued, by a button that had none or by no button.
LEMMA OrderQueued ==
    ASSUME TypeInv, OrderInv, NEW job \in Jobs, chain' = chain \o <<job>>,
           waiting' = waiting,
           \A b \in Buttons : press'[b].at = press[b].at \/ (Owns(job) /\ job.of = b),
           Owns(job) => /\ press[job.of].at \notin {"flushing", "queued"}
                        /\ press'[job.of].at = Stage(job.kind)
    PROVE  OrderInv'
  <1> USE DEF OrderInv
  <1>1. \A i \in DOMAIN chain' : \/ i \in DOMAIN chain /\ chain'[i] = chain[i]
                                 \/ i = Len(chain) + 1 /\ i \notin DOMAIN chain /\ chain'[i] = job
    BY EndOfChain DEF TypeInv
  <1>2. \A i \in DOMAIN chain : Owns(chain[i]) => chain[i].of \in Buttons
    BY JobOf DEF TypeInv, Owns, Buttons
  <1>3. \A i \in DOMAIN chain : Owns(chain[i]) /\ Owns(job) => chain[i].of # job.of
    BY DEF Stage
  <1>4. \A b \in waiting : b \in Buttons /\ (Owns(job) => b # job.of)
    BY DEF TypeInv
  <1> QED BY <1>1, <1>2, <1>3, <1>4 DEF Stage

LEMMA OrderStep == TypeInv /\ OrderInv /\ [Next]_vars => OrderInv'
  <1> SUFFICES ASSUME TypeInv, OrderInv, [Next]_vars PROVE OrderInv'
    OBVIOUS
  <1>0. press \in [Buttons -> PressRecord]
    BY DEF TypeInv
  <1>1. CASE SkipFrozen
    <2>1. Nulled(Head(chain)) /\ Head(chain) \in Jobs /\ chain # <<>> /\ chain' = Tail(chain)
          /\ waiting' = waiting
      BY <1>1, FrontOfChain DEF SkipFrozen, TypeInv
    <2>2. \A b \in Buttons : press'[b].at = press[b].at
                             \/ (Owns(Head(chain)) /\ Head(chain).of = b)
      BY <2>1, NulledOf, JobOf DEF Owns
    <2> QED BY <2>1, <2>2, OrderTail
  <1>2. CASE EndDrain
    <2>1. chain # <<>> /\ chain' = Tail(chain) /\ waiting' = {} /\ press' = Resolved(waiting, TRUE)
      BY <1>2 DEF EndDrain, Runs
    <2>2. \A b \in Buttons \ waiting : press'[b].at = press[b].at
      BY <1>0, <2>1 DEF Resolved
    <2> QED BY <2>1, <2>2, OrderResolved
  <1>3. CASE EndSettle
    <2>1. chain # <<>> /\ chain' = Tail(chain) /\ waiting' = waiting
          /\ press' = Resolved({Head(chain).of}, TRUE) /\ Owns(Head(chain))
      BY <1>3 DEF EndSettle, Runs, Running, Owns
    <2>2. \A b \in Buttons : press'[b].at = press[b].at \/ Head(chain).of = b
      BY <1>0, <2>1 DEF Resolved
    <2> QED BY <2>1, <2>2, OrderTail
  <1>4. ASSUME NEW b \in Buttons, Proceed(b) PROVE OrderInv'
    <2>1. /\ press[b].at = "flushed" /\ waiting' = waiting
          /\ \A c \in Buttons : press'[c].at = IF c = b
                THEN IF b = "submit" THEN "queued" ELSE "idle" ELSE press[c].at
      BY <1>0, <1>4 DEF Proceed
    <2>2. CASE b = "submit"
      <3>1. chain' = chain \o <<Job("submit", "submit")>>
        BY <1>4, <2>2 DEF Proceed, enqueue
      <3>2. Job("submit", "submit") \in Jobs /\ Job("submit", "submit").of = "submit"
            /\ Job("submit", "submit").kind = "submit"
        BY JobTypes DEF Job
      <3> QED BY <2>1, <2>2, <3>1, <3>2, OrderQueued DEF Owns, Stage
    <2>3. CASE b # "submit"
      <3>1. chain' = chain
        BY <1>4, <2>3, ConcatEmptySeq DEF Proceed, enqueue, TypeInv
      <3>2. \A i \in DOMAIN chain : Owns(chain[i]) => chain[i].of \in Buttons /\ chain[i].of # b
        BY <2>1, JobOf DEF OrderInv, Stage, TypeInv, Owns, Buttons
      <3>3. \A c \in waiting : c \in Buttons /\ c # b
        BY <2>1 DEF OrderInv, TypeInv
      <3> QED BY <2>1, <3>1, <3>2, <3>3 DEF OrderInv
    <2> QED BY <2>2, <2>3
  <1>5. CASE PatchConflicts \/ PatchFails
    <2>1. call # NoCall /\ chain # <<>> /\ Head(chain) \in Jobs /\ GivesUp
      BY <1>5, CallOf DEF PatchConflicts, PatchFails
    <2>2. CASE waiting' = {} /\ press' = Resolved(waiting, FALSE)
      <3>1. \A b \in Buttons \ waiting : press'[b].at = press[b].at
        BY <1>0, <2>2 DEF Resolved
      <3> QED BY <2>1, <2>2, <3>1, GivesUpOf, OrderResolved
    <2>3. CASE waiting' = waiting /\ Nulled(Head(chain))
      <3>1. \A b \in Buttons : press'[b].at = press[b].at
                               \/ (Owns(Head(chain)) /\ Head(chain).of = b)
        BY <2>1, <2>3, NulledOf, JobOf DEF Owns
      <3> QED BY <2>1, <2>3, <3>1, GivesUpOf, OrderTail
    <2> QED BY <2>1, <2>2, <2>3, GivesUpOf
  <1>6. CASE SubmitDone \/ SubmitConflicts \/ SubmitFails
    <2>1. chain # <<>> /\ Head(chain) \in Jobs /\ Head(chain).kind = "submit"
          /\ chain' = Tail(chain) /\ waiting' = waiting
      BY <1>6, CallOf DEF SubmitDone, SubmitConflicts, SubmitFails
    <2>2. \A b \in Buttons : press'[b].at = press[b].at \/ b = "submit"
      BY <1>0, <1>6 DEF SubmitDone, SubmitConflicts, SubmitFails, Resolved
    <2> QED BY <2>1, <2>2, JobOf, OrderTail DEF Owns
  <1>7. CASE Refetched \/ ImageFails
    <2>1. chain # <<>> /\ chain' = Tail(chain) /\ waiting' = waiting /\ press' = press
      BY <1>7, CallOf DEF Refetched, ImageFails
    <2> QED BY <2>1, OrderTail
  <1>8. ASSUME NEW b \in Buttons, Press(b) PROVE OrderInv'
    <2>1. /\ press[b].at = "idle"
          /\ \A c \in Buttons : press'[c].at = IF c = b THEN "flushing" ELSE press[c].at
      BY <1>0, <1>8 DEF Press
    <2>2. CASE Empty(pending)
      <3>1. chain' = chain \o <<Job("settle", b)>> /\ waiting' = waiting
        BY <1>8, <2>2 DEF Press, enqueue
      <3>2. Job("settle", b) \in Jobs /\ Job("settle", b).of = b
            /\ Job("settle", b).kind = "settle"
        BY JobTypes DEF Job
      <3> QED BY <2>1, <3>1, <3>2, OrderQueued DEF Owns, Stage
    <2>3. CASE ~Empty(pending)
      <3>1. chain' = chain \o <<Job("drain", None)>> /\ waiting' = waiting \cup {b}
        BY <1>8, <2>3 DEF Press, enqueue
      <3>2. \A i \in DOMAIN chain' :
               \/ i \in DOMAIN chain /\ chain'[i] = chain[i]
               \/ ~Owns(chain'[i])
        BY <3>1, JobTypes, EndOfChain DEF TypeInv, Job, Owns
      <3>3. \A i \in DOMAIN chain : Owns(chain[i]) => chain[i].of \in Buttons
        BY JobOf DEF TypeInv, Owns, Buttons
      <3>4. \A i \in DOMAIN chain : Owns(chain[i]) => chain[i].of # b
        BY <2>1 DEF OrderInv, Stage
      <3>5. \A i \in DOMAIN chain' : Owns(chain'[i]) =>
                i \in DOMAIN chain /\ chain'[i] = chain[i] /\ Owns(chain[i])
                /\ chain[i].of \in Buttons /\ chain[i].of # b
        BY <3>2, <3>3, <3>4
      <3>6. \A c \in waiting' : press'[c].at = "flushing"
        BY <2>1, <3>1 DEF OrderInv, TypeInv
      <3> QED BY <2>1, <3>1, <3>5, <3>6 DEF OrderInv
    <2> QED BY <2>2, <2>3
  <1>9. CASE \/ SendPending \/ SendExclusive \/ PatchSaved \/ ImageDone
             \/ \E f \in Fields, immediate \in BOOLEAN : Edit(f, immediate)
             \/ TimerFires \/ \E u \in Uploads : StartUpload(u) \/ Uploaded(u)
             \/ ImageOp \/ OtherTab
             \/ \E k \in Reloads : ClickReload(k) \/ Reloaded(k) \/ ReloadFails(k)
    <2>1. press' = press /\ waiting' = waiting
      BY <1>9 DEF SendPending, SendExclusive, PatchSaved, ImageDone, Edit, TimerFires,
                  StartUpload, Uploaded, ImageOp, OtherTab, ClickReload, Reloaded, ReloadFails
    <2>2. chain' = chain \/ \E job \in Jobs : ~Owns(job) /\ chain' = chain \o <<job>>
      <3>1. /\ ~Owns(Job("drain", None)) /\ ~Owns(Job("image", None))
            /\ \A u \in Uploads : ~Owns(Job("confirm", u))
        BY DEF Owns, Job
      <3>2. CASE SendPending \/ SendExclusive \/ PatchSaved \/ ImageDone \/ OtherTab
        <4>1. Called("confirm") \/ Called("image") => Refetches(call.kind)
          BY DEF Called, Refetches
        <4> QED BY <3>2, <4>1 DEF SendPending, SendExclusive, PatchSaved, ImageDone, OtherTab
      <3>3. CASE \/ \E f \in Fields, immediate \in BOOLEAN : Edit(f, immediate)
                 \/ TimerFires \/ ImageOp
        BY <3>1, <3>3, JobTypes DEF Edit, TimerFires, ImageOp, enqueue
      <3>4. CASE \E u \in Uploads : StartUpload(u) \/ Uploaded(u)
        BY <3>1, <3>4, JobTypes DEF StartUpload, Uploaded, enqueue
      <3>5. CASE \E k \in Reloads : ClickReload(k) \/ Reloaded(k) \/ ReloadFails(k)
        BY <3>5 DEF ClickReload, Reloaded, ReloadFails
      <3> QED BY <1>9, <3>2, <3>3, <3>4, <3>5
    <2>3. CASE chain' = chain
      BY <2>1, <2>3 DEF OrderInv
    <2>4. ASSUME NEW job \in Jobs, ~Owns(job), chain' = chain \o <<job>> PROVE OrderInv'
      BY <2>1, <2>4, OrderQueued
    <2> QED BY <2>2, <2>3, <2>4
  <1>10. CASE UNCHANGED vars
    BY <1>10 DEF vars, OrderInv
  <1> QED
    BY <1>1, <1>2, <1>3, <1>4, <1>5, <1>6, <1>7, <1>8, <1>9, <1>10
       DEF Next, Chain, Answers, Seller

----------------------------------------------------------------------------
(* What a button waits for *)

Stored(edit, f) == edit <= accepted[f] \/ edit <= told[f]

\* Stored or reported, or in the request that is on its way.
Landing(edit, f) ==
    \/ Stored(edit, f)
    \/ Called("patch") /\ f \in DOMAIN call.fields /\ edit <= call.fields[f]

LandedInv ==
    /\ \A b \in Buttons, f \in Fields : press[b].typed[f] <= typed[f]
    /\ \A i \in DOMAIN chain : chain[i].kind = "settle" =>
          \A f \in Fields : Landing(press[chain[i].of].typed[f], f)
    /\ \A b \in Buttons : press[b].at = "flushed" =>
          \A f \in Fields : Stored(press[b].typed[f], f)
    /\ Called("submit") => \A f \in Fields : Stored(call.typed[f], f)

\* No step takes back what was stored or reported.
LEMMA SavesGrow ==
    ASSUME TypeInv, KeptInv, [Next]_vars, NEW f \in Fields
    PROVE  accepted'[f] >= accepted[f] /\ told'[f] >= told[f] /\ typed'[f] >= typed[f]
  <1>0. accepted \in Last /\ told \in Last /\ typed \in Last /\ edits \in Nat
    BY Numbers DEF TypeInv
  <1>1. CASE PatchSaved
    BY <1>0, <1>1, CallOf, WithLater, Numbers DEF PatchSaved
  <1>2. CASE PatchConflicts
    <2>1. call # NoCall /\ Freeze /\ UNCHANGED <<accepted, typed>>
      BY <1>2, CallOf DEF PatchConflicts
    <2> QED BY <2>1, FreezeOf, Numbers
  <1>3. CASE PatchFails
    <2>1. Saves(call.fields) /\ told' = With(told, call.fields) /\ typed' = typed
          /\ accepted' \in {accepted, With(accepted, call.fields)}
      BY <1>3, CallOf DEF PatchFails
    <2> QED BY <1>0, <2>1, WithLater, Numbers
  <1>4. CASE SubmitConflicts
    <2>1. call # NoCall /\ Freeze /\ UNCHANGED <<accepted, typed>>
      BY <1>4, CallOf DEF SubmitConflicts
    <2> QED BY <2>1, FreezeOf, Numbers
  <1>5. ASSUME NEW g \in Fields, NEW immediate \in BOOLEAN, Edit(g, immediate)
        PROVE  typed'[f] >= typed[f] /\ UNCHANGED <<accepted, told>>
    BY <1>0, <1>5, Numbers DEF Edit, Last, KeptInv
  <1>6. ASSUME NEW k \in Reloads, Reloaded(k)
        PROVE  told'[f] >= told[f] /\ UNCHANGED <<accepted, typed>>
    BY <1>0, <1>6, WithLater DEF Reloaded, TypeInv
  <1>7. CASE \/ Chain \/ ImageDone \/ Refetched \/ ImageFails \/ SubmitDone \/ SubmitFails
             \/ TimerFires \/ \E b \in Buttons : Press(b)
             \/ \E u \in Uploads : StartUpload(u) \/ Uploaded(u)
             \/ ImageOp \/ \E k \in Reloads : ClickReload(k) \/ ReloadFails(k)
             \/ OtherTab \/ UNCHANGED vars
    <2>1. UNCHANGED <<accepted, told, typed>>
      BY <1>7 DEF Chain, SkipFrozen, SendPending, EndDrain, EndSettle, SendExclusive, Proceed,
                  ImageDone, Refetched, ImageFails, SubmitDone, SubmitFails, TimerFires, Press,
                  StartUpload, Uploaded, ImageOp, ClickReload, ReloadFails, OtherTab, vars
    <2> QED BY <2>1, Numbers
  <1> QED BY <1>1, <1>2, <1>3, <1>4, <1>5, <1>6, <1>7, Numbers DEF Next, Answers, Seller

\* A request with edits ends with these stored or reported.
LEMMA PatchLands ==
    ASSUME TypeInv, [Next]_vars, Called("patch"), NEW f \in DOMAIN call.fields
    PROVE  \/ call' = call
           \/ call.fields[f] <= accepted'[f] \/ call.fields[f] <= told'[f]
  <1>0. /\ call # NoCall /\ call.kind = "patch" /\ Saves(call.fields) /\ f \in Fields
        /\ accepted \in Last /\ told \in Last
    BY CallOf DEF TypeInv, Saves, Called
  <1>1. CASE PatchSaved
    <2>1. With(accepted, call.fields)[f] >= call.fields[f]
      BY <1>0, WithLater
    <2> QED BY <1>0, <1>1, <2>1, Numbers, WithLater, Bounds DEF PatchSaved, Last
  <1>2. CASE PatchConflicts
    <2>1. told'[f] >= call.fields[f] /\ told' \in Last
      BY <1>0, <1>2, FreezeOf DEF PatchConflicts
    <2> QED BY <1>0, <2>1, Numbers, Bounds DEF Last
  <1>6. CASE PatchFails
    <2>1. told' = With(told, call.fields)
      BY <1>6 DEF PatchFails
    <2>2. told'[f] >= call.fields[f] /\ told' \in Last
      BY <1>0, <2>1, WithLater
    <2> QED BY <1>0, <2>2, Numbers, Bounds DEF Last
  <1>3. CASE SendPending \/ SendExclusive
    BY <1>0, <1>3 DEF SendPending, SendExclusive, Runs
  <1>4. CASE ImageDone \/ Refetched \/ ImageFails \/ SubmitDone \/ SubmitConflicts \/ SubmitFails
    BY <1>0, <1>4 DEF ImageDone, Refetched, ImageFails, SubmitDone, SubmitConflicts, SubmitFails,
                      Called
  <1>5. CASE \/ SkipFrozen \/ EndDrain \/ EndSettle \/ \E b \in Buttons : Proceed(b)
             \/ OtherTab \/ UNCHANGED vars
    <2>1. call' = call
      BY <1>5 DEF SkipFrozen, EndDrain, EndSettle, Proceed, OtherTab, vars
    <2> QED BY <2>1
  <1>7. CASE Seller
    <2>1. call' = call
      BY <1>7 DEF Seller, Edit, TimerFires, Press, StartUpload, Uploaded, ImageOp, ClickReload,
                  Reloaded, ReloadFails
    <2> QED BY <2>1
  <1> QED BY <1>1, <1>2, <1>3, <1>4, <1>5, <1>6, <1>7 DEF Next, Chain, Answers

\* What is stored or on its way stays so.
LEMMA LandingStays ==
    ASSUME TypeInv, TypeInv', KeptInv, [Next]_vars, NEW f \in Fields, NEW edit \in Nat
    PROVE  /\ Stored(edit, f) => Stored(edit, f)'
           /\ Landing(edit, f) => Landing(edit, f)'
  <1>1. /\ accepted[f] \in Nat /\ told[f] \in Nat /\ accepted'[f] \in Nat /\ told'[f] \in Nat
        /\ f \in DOMAIN call.fields => call.fields[f] \in Nat
    <2>1. accepted' \in Last /\ told' \in Last
      BY DEF TypeInv
    <2>2. accepted'[f] \in Nat /\ told'[f] \in Nat
      BY <2>1, Bounds DEF Last
    <2> QED BY <2>2, Numbers
  <1>2. accepted'[f] >= accepted[f] /\ told'[f] >= told[f]
    BY SavesGrow
  <1>3. Stored(edit, f) => Stored(edit, f)'
    BY <1>1, <1>2 DEF Stored
  <1>4. ASSUME Called("patch"), f \in DOMAIN call.fields, edit <= call.fields[f]
        PROVE  Landing(edit, f)'
    <2>1. \/ call' = call
          \/ call.fields[f] <= accepted'[f] \/ call.fields[f] <= told'[f]
      BY <1>4, PatchLands
    <2> QED BY <1>1, <1>4, <2>1 DEF Landing, Stored, Called
  <1> QED BY <1>3, <1>4 DEF Landing

\* A press, and an operation that settles, come from Press alone.
LEMMA PressTyped ==
    ASSUME TypeInv, [Next]_vars, NEW b \in Buttons
    PROVE  press'[b].typed \in {press[b].typed, NoEdits} \/ (Press(b) /\ press'[b].typed = typed)
  <1>0. press \in [Buttons -> PressRecord]
    BY DEF TypeInv
  <1>1. CASE SkipFrozen
    BY <1>1, FrontOfChain, NulledOf DEF SkipFrozen, TypeInv
  <1>2. CASE EndDrain \/ EndSettle
    BY <1>0, <1>2 DEF EndDrain, EndSettle, Resolved, PressRecord
  <1>3. ASSUME NEW c \in Buttons, Proceed(c)
        PROVE  press'[b].typed \in {press[b].typed, NoEdits}
    BY <1>0, <1>3 DEF Proceed
  <1>4. CASE PatchConflicts \/ PatchFails
    BY <1>4, CallOf, GivesUpOf DEF PatchConflicts, PatchFails
  <1>5. CASE SubmitDone \/ SubmitConflicts \/ SubmitFails
    BY <1>0, <1>5 DEF SubmitDone, SubmitConflicts, SubmitFails, Resolved, PressRecord
  <1>6. ASSUME NEW c \in Buttons, Press(c)
        PROVE  press'[b].typed = press[b].typed \/ (Press(b) /\ press'[b].typed = typed)
    BY <1>0, <1>6 DEF Press
  <1>7. CASE \/ SendPending \/ SendExclusive \/ PatchSaved \/ ImageDone \/ Refetched \/ ImageFails
             \/ \E f \in Fields, immediate \in BOOLEAN : Edit(f, immediate)
             \/ TimerFires \/ \E u \in Uploads : StartUpload(u) \/ Uploaded(u)
             \/ ImageOp \/ OtherTab \/ UNCHANGED vars
             \/ \E k \in Reloads : ClickReload(k) \/ Reloaded(k) \/ ReloadFails(k)
    BY <1>7 DEF SendPending, SendExclusive, PatchSaved, ImageDone, Refetched, ImageFails, Edit,
                TimerFires, StartUpload, Uploaded, ImageOp, OtherTab, ClickReload, Reloaded,
                ReloadFails, vars
  <1> QED
    BY <1>1, <1>2, <1>3, <1>4, <1>5, <1>6, <1>7 DEF Next, Chain, Answers, Seller

LEMMA SettleJobs ==
    ASSUME TypeInv, [Next]_vars, NEW i \in DOMAIN chain', chain'[i].kind = "settle"
    PROVE  \/ \E j \in DOMAIN chain : chain[j] = chain'[i]
           \/ Press(chain'[i].of) /\ Empty(pending) /\ chain'[i].of \in Buttons
  <1>1. CASE chain # <<>> /\ chain' = Tail(chain)
    BY <1>1, FrontOfChain DEF TypeInv
  <1>2. CASE chain' = chain
    BY <1>2
  <1>3. ASSUME NEW job \in Jobs, chain' = chain \o <<job>>, job.kind # "settle"
        PROVE  \E j \in DOMAIN chain : chain[j] = chain'[i]
    BY <1>3, EndOfChain DEF TypeInv
  <1>4. ASSUME NEW b \in Buttons, Press(b), Empty(pending)
        PROVE  \/ \E j \in DOMAIN chain : chain[j] = chain'[i]
               \/ chain'[i].of = b
    <2>1. chain' = chain \o <<Job("settle", b)>> /\ Job("settle", b) \in Jobs
      BY <1>4, JobTypes DEF Press, enqueue
    <2> QED BY <2>1, EndOfChain DEF TypeInv, Job
  <1>5. \/ chain # <<>> /\ chain' = Tail(chain)
        \/ chain' = chain
        \/ \E job \in Jobs : chain' = chain \o <<job>> /\ job.kind # "settle"
        \/ \E b \in Buttons : Press(b) /\ Empty(pending)
    <2>1. CASE Chain
      <3>1. CASE SkipFrozen \/ EndDrain \/ EndSettle
        BY <3>1 DEF SkipFrozen, EndDrain, EndSettle, Runs
      <3>2. CASE SendPending \/ SendExclusive
        BY <3>2 DEF SendPending, SendExclusive
      <3>3. ASSUME NEW b \in Buttons, Proceed(b)
            PROVE  chain' = chain \/ chain' = chain \o <<Job("submit", "submit")>>
        BY <3>3, ConcatEmptySeq DEF Proceed, enqueue, TypeInv
      <3>4. Job("submit", "submit") \in Jobs /\ Job("submit", "submit").kind # "settle"
        BY JobTypes DEF Job
      <3> QED BY <2>1, <3>1, <3>2, <3>3, <3>4 DEF Chain
    <2>2. CASE Answers
      <3>1. CASE PatchSaved
        BY <3>1 DEF PatchSaved
      <3>2. CASE PatchConflicts \/ PatchFails
        BY <3>2, CallOf DEF PatchConflicts, PatchFails, GivesUp
      <3>3. CASE ImageDone
        BY <3>3 DEF ImageDone, Called, Refetches
      <3>4. CASE Refetched \/ ImageFails \/ SubmitDone \/ SubmitConflicts \/ SubmitFails
        BY <3>4, CallOf DEF Refetched, ImageFails, SubmitDone, SubmitConflicts, SubmitFails
      <3> QED BY <2>2, <3>1, <3>2, <3>3, <3>4 DEF Answers
    <2>3. /\ Job("drain", None) \in Jobs /\ Job("drain", None).kind # "settle"
          /\ Job("image", None) \in Jobs /\ Job("image", None).kind # "settle"
          /\ \A u \in Uploads : Job("confirm", u) \in Jobs /\ Job("confirm", u).kind # "settle"
      BY JobTypes DEF Job
    <2>4. CASE \/ \E f \in Fields, immediate \in BOOLEAN : Edit(f, immediate)
               \/ TimerFires \/ ImageOp
      BY <2>3, <2>4 DEF Edit, TimerFires, ImageOp, enqueue
    <2>5. CASE \E u \in Uploads : StartUpload(u) \/ Uploaded(u)
      BY <2>3, <2>5 DEF StartUpload, Uploaded, enqueue
    <2>6. ASSUME NEW b \in Buttons, Press(b)
          PROVE  Empty(pending) \/ chain' = chain \o <<Job("drain", None)>>
      BY <2>6 DEF Press, enqueue
    <2>7. CASE \/ \E k \in Reloads : ClickReload(k) \/ Reloaded(k) \/ ReloadFails(k)
               \/ OtherTab \/ UNCHANGED vars
      BY <2>7 DEF ClickReload, Reloaded, ReloadFails, OtherTab, vars
    <2> QED BY <2>1, <2>2, <2>3, <2>4, <2>5, <2>6, <2>7 DEF Next, Seller
  <1> QED BY <1>1, <1>2, <1>3, <1>4, <1>5

LEMMA LandedStep ==
    ASSUME TypeInv, TypeInv', KeptInv, KeptInv', OrderInv, OrderInv', LandedInv, [Next]_vars
    PROVE  LandedInv'
  <1>0. /\ press \in [Buttons -> PressRecord] /\ press' \in [Buttons -> PressRecord]
        /\ \A b \in Buttons, f \in Fields : press[b].typed[f] \in Nat /\ press'[b].typed[f] \in Nat
        /\ \A f \in Fields : /\ NoEdits[f] = 0
                             /\ typed[f] \in Nat /\ typed'[f] \in Nat /\ accepted'[f] \in Nat
    BY Bounds DEF TypeInv, PressRecord, Last, NoEdits
  <1>1. \A b \in Buttons, f \in Fields : press'[b].typed[f] <= typed'[f]
    <2> SUFFICES ASSUME NEW b \in Buttons, NEW f \in Fields
                 PROVE  press'[b].typed[f] <= typed'[f]
      OBVIOUS
    <2>1. typed'[f] >= typed[f] /\ press[b].typed[f] <= typed[f]
      BY SavesGrow DEF LandedInv
    <2>2. press'[b].typed \in {press[b].typed, NoEdits, typed}
      BY PressTyped
    <2> QED BY <1>0, <2>1, <2>2
  <1>2. ASSUME NEW i \in DOMAIN chain', chain'[i].kind = "settle", NEW f \in Fields
        PROVE  Landing(press[chain[i].of].typed[f], f)'
    <2> DEFINE b == chain'[i].of
    <2>1. b \in Buttons /\ press'[b].at = "flushing"
      <3>1. chain'[i] \in Jobs
        BY DEF TypeInv
      <3> QED BY <1>2, <3>1, JobOf DEF OrderInv, Owns, Stage
    <2>2. CASE press'[b].typed = NoEdits
      BY <1>0, <2>1, <2>2 DEF Landing, Stored
    <2>3. CASE Press(b) /\ press'[b].typed = typed
      <3>1. press[b].at = "idle" /\ UNCHANGED <<accepted, told, call>>
        BY <2>3 DEF Press
      <3>2. ~ \E j \in DOMAIN chain : chain[j] = chain'[i]
        BY <1>2, <3>1 DEF OrderInv, Owns, Stage
      <3>3. Empty(pending)
        BY <1>2, <3>2, SettleJobs
      <3>4. \/ typed[f] \in {0, accepted[f], told[f]}
            \/ Called("patch") /\ f \in DOMAIN call.fields /\ typed[f] = call.fields[f]
        BY <3>3 DEF KeptInv, NothingIsForgotten, Empty
      <3> QED BY <1>0, <2>3, <3>1, <3>4 DEF Landing, Stored, Called
    <2>4. CASE press'[b].typed = press[b].typed /\ ~Press(b)
      <3>1. PICK j \in DOMAIN chain : chain[j] = chain'[i]
        BY <1>2, <2>4, SettleJobs
      <3>2. Landing(press[b].typed[f], f)
        BY <1>2, <3>1 DEF LandedInv
      <3> QED BY <1>0, <2>1, <2>4, <3>2, LandingStays
    <2>5. CASE Press(b)
      <3>1. press'[b].typed = typed
        BY <1>0, <2>1, <2>5 DEF Press
      <3> QED BY <2>3, <2>5, <3>1
    <2> QED BY <2>1, <2>2, <2>3, <2>4, <2>5, PressTyped
  <1>3. ASSUME NEW b \in Buttons, press'[b].at = "flushed", NEW f \in Fields
        PROVE  Stored(press[b].typed[f], f)'
    <2>1. CASE press'[b] = press[b]
      <3>1. Stored(press[b].typed[f], f)
        BY <1>3, <2>1 DEF LandedInv
      <3> QED BY <1>0, <2>1, <3>1, LandingStays
    <2>2. CASE EndDrain /\ b \in waiting
      <3>1. call = NoCall /\ Empty(pending) /\ UNCHANGED <<accepted, told, typed>>
        BY <2>2 DEF EndDrain, Runs
      <3>2. typed[f] \in {0, accepted[f], told[f]}
        BY <3>1, NoCallKind DEF KeptInv, NothingIsForgotten, Called, Empty
      <3> QED BY <1>0, <1>1, <3>1, <3>2, Numbers DEF Stored
    <2>3. CASE EndSettle /\ b = Head(chain).of
      <3>1. call = NoCall /\ Head(chain).kind = "settle" /\ chain # <<>>
        BY <2>3 DEF EndSettle, Runs, Running
      <3>2. 1 \in DOMAIN chain /\ chain[1] = Head(chain)
        BY <3>1, FrontOfChain DEF TypeInv
      <3>3. Stored(press[b].typed[f], f)
        BY <2>3, <3>1, <3>2, NoCallKind DEF LandedInv, Landing, Called
      <3>4. press'[b].typed = press[b].typed /\ UNCHANGED <<accepted, told>>
        BY <1>0, <2>3 DEF EndSettle, Resolved, PressRecord
      <3> QED BY <3>3, <3>4 DEF Stored
    <2>4. press'[b] = press[b] \/ (EndDrain /\ b \in waiting) \/ (EndSettle /\ b = Head(chain).of)
      <3>1. CASE SkipFrozen
        BY <1>3, <3>1, FrontOfChain, NulledOf DEF SkipFrozen, TypeInv
      <3>2. CASE EndDrain \/ EndSettle
        BY <1>0, <3>2 DEF EndDrain, EndSettle, Resolved
      <3>3. ASSUME NEW c \in Buttons, Proceed(c) \/ Press(c) PROVE press'[b] = press[b]
        BY <1>0, <1>3, <3>3 DEF Proceed, Press
      <3>4. CASE PatchConflicts \/ PatchFails
        <4>1. call # NoCall /\ chain # <<>> /\ Head(chain) \in Jobs /\ GivesUp
          BY <3>4, CallOf DEF PatchConflicts, PatchFails
        <4>2. press' = Resolved(waiting, FALSE) \/ Nulled(Head(chain))
          BY <4>1, GivesUpOf
        <4> QED BY <1>0, <1>3, <4>1, <4>2, NulledOf DEF Resolved, PressRecord
      <3>5. CASE SubmitDone \/ SubmitConflicts \/ SubmitFails
        BY <1>0, <1>3, <3>5 DEF SubmitDone, SubmitConflicts, SubmitFails, Resolved, PressRecord
      <3>6. CASE \/ SendPending \/ SendExclusive \/ PatchSaved \/ ImageDone \/ Refetched
                 \/ ImageFails \/ TimerFires \/ ImageOp \/ OtherTab \/ UNCHANGED vars
                 \/ \E g \in Fields, immediate \in BOOLEAN : Edit(g, immediate)
                 \/ \E u \in Uploads : StartUpload(u) \/ Uploaded(u)
                 \/ \E k \in Reloads : ClickReload(k) \/ Reloaded(k) \/ ReloadFails(k)
        BY <3>6 DEF SendPending, SendExclusive, PatchSaved, ImageDone, Refetched, ImageFails,
                    Edit, TimerFires, StartUpload, Uploaded, ImageOp, OtherTab, ClickReload,
                    Reloaded, ReloadFails, vars
      <3> QED
        BY <3>1, <3>2, <3>3, <3>4, <3>5, <3>6 DEF Next, Chain, Answers, Seller
    <2> QED BY <2>1, <2>2, <2>3, <2>4
  <1>4. ASSUME Called("submit")', NEW f \in Fields
        PROVE  Stored(call.typed[f], f)'
    <2>1. CASE SendExclusive
      <3>1. call = NoCall /\ Empty(pending) /\ call'.typed = typed /\ UNCHANGED <<accepted, told>>
        BY <2>1 DEF SendExclusive, Runs, FlushesFirst
      <3>2. typed[f] \in {0, accepted[f], told[f]}
        BY <3>1, NoCallKind DEF KeptInv, NothingIsForgotten, Called, Empty
      <3> QED BY <1>0, <3>1, <3>2, Numbers DEF Stored
    <2>2. CASE call' = call
      <3>1. call # NoCall /\ call.kind = "submit"
        BY <1>4, <2>2, NoCallKind DEF Called
      <3>2. call.typed[f] \in Nat
        BY <3>1, Bounds DEF TypeInv, IsCall, Last
      <3>3. Stored(call.typed[f], f)
        BY <3>1 DEF LandedInv, Called
      <3> QED BY <2>2, <3>2, <3>3, LandingStays
    <2>3. call' = call \/ SendExclusive
      <3>1. CASE SendPending \/ PatchSaved \/ PatchConflicts \/ PatchFails
        <4>1. call'.kind = "patch" \/ call' = NoCall
          <5>1. CASE SendPending
            BY <5>1 DEF SendPending
          <5>2. CASE PatchSaved
            BY <5>2 DEF PatchSaved
          <5>3. CASE PatchConflicts
            BY <5>3 DEF PatchConflicts, GivesUp
          <5>4. CASE PatchFails
            BY <5>4 DEF PatchFails, GivesUp
          <5> QED BY <3>1, <5>1, <5>2, <5>3, <5>4
        <4> QED BY <1>4, <4>1, NoCallKind DEF Called
      <3>2. CASE ImageDone
        <4>1. call' = [call EXCEPT !.kind = "fetch"] /\ IsCall(call)
          BY <3>2, CallOf DEF ImageDone, Called, Refetches
        <4> QED BY <1>4, <4>1 DEF IsCall, Called
      <3>3. CASE Refetched \/ ImageFails \/ SubmitDone \/ SubmitConflicts \/ SubmitFails
        BY <1>4, <3>3, NoCallKind DEF Refetched, ImageFails, SubmitDone, SubmitConflicts,
                                      SubmitFails, Called
      <3>4. CASE \/ SkipFrozen \/ EndDrain \/ EndSettle \/ \E b \in Buttons : Proceed(b)
                 \/ Seller \/ OtherTab \/ UNCHANGED vars
        BY <3>4 DEF SkipFrozen, EndDrain, EndSettle, Proceed, Seller, Edit, TimerFires, Press,
                    StartUpload, Uploaded, ImageOp, ClickReload, Reloaded, ReloadFails, OtherTab,
                    vars
      <3> QED BY <3>1, <3>2, <3>3, <3>4 DEF Next, Chain, Answers
    <2> QED BY <2>1, <2>2, <2>3
  <1> QED BY <1>1, <1>2, <1>3, <1>4 DEF LandedInv

\* The editor goes on and submits only when all that was typed by then is
\* stored or was reported as not saved (axin-flow.tsx, advance and submit).
THEOREM SentIsSavedHolds == Spec => []SentIsSaved
  <1>1. Init => OrderInv /\ LandedInv
    <2> SUFFICES ASSUME Init PROVE OrderInv /\ LandedInv
      OBVIOUS
    <2>1. /\ DOMAIN chain = {} /\ waiting = {} /\ call.kind = "none"
          /\ \A b \in Buttons : press[b].at = "idle" /\ press[b].typed = NoEdits
          /\ typed = NoEdits
      BY NoCallKind DEF Init
    <2>2. \A f \in Fields : NoEdits[f] = 0
      BY DEF NoEdits
    <2> QED BY <2>1, <2>2 DEF OrderInv, LandedInv, Called
  <1>2. LandedInv => SentIsSaved
    BY DEF LandedInv, SentIsSaved, Stored, Buttons
  <1>3. TypeInv /\ TypeInv' /\ KeptInv /\ KeptInv' /\ OrderInv /\ OrderInv' /\ LandedInv
        /\ [Next]_vars => LandedInv'
    BY LandedStep
  <1> QED
    BY <1>1, <1>2, <1>3, TypeInit, TypeStep, KeptInit, KeptStep, OrderStep, PTL DEF Spec

=============================================================================
