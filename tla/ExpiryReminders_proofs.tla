----------------------- MODULE ExpiryReminders_proofs -----------------------
(***************************************************************************)
(* Theorems about ExpiryReminders, for any number of runs, offsets and     *)
(* periods, any batch size, budget and number of faults.                   *)
(***************************************************************************)
EXTENDS ExpiryReminders, SequenceTheorems, TLAPS

----------------------------------------------------------------------------
(* The listing *)

\* Periods are only added, and what ends when never changes.
PeriodsGrow ==
    /\ now' >= now
    /\ \A i \in DOMAIN periods : i \in DOMAIN periods' /\ periods'[i].ends = periods[i].ends

\* A period that is not over is the one the listing's validity follows.
CoverInv ==
    \A i \in DOMAIN periods :
        periods[i].ends > now => periods[i].ends = expiresAt /\ status \in {"ACTIVE", "SUSPENDED"}

\* A granted period is appended to the earlier ones.
LEMMA Granted ==
    ASSUME ListingTypeOK, NEW days \in Nat, Grant(days)
    PROVE  /\ periods' \in Seq(Period)
           /\ DOMAIN periods = 1..Len(periods) /\ Len(periods) \in Nat
           /\ DOMAIN periods' = 1..(Len(periods) + 1)
           /\ \A i \in 1..Len(periods) : periods'[i] = periods[i]
           /\ periods'[Len(periods) + 1].ends = now + days
  <1>. DEFINE period == [starts |-> now, ends |-> now + days, live |-> TRUE]
  <1>1. periods \in Seq(Period) /\ period \in Period
    BY DEF ListingTypeOK, Period
  <1>2. periods' = Append(periods, period)
    BY DEF Grant
  <1>. QED
    BY <1>1, <1>2

\* The expiry job closes periods and moves none.
LEMMA Lapsed ==
    ASSUME ListingTypeOK, Expire
    PROVE  /\ periods' \in Seq(Period)
           /\ DOMAIN periods' = DOMAIN periods
           /\ \A i \in DOMAIN periods : periods'[i].ends = periods[i].ends
  <1>1. periods \in Seq(Period) /\ Len(periods) \in Nat /\ DOMAIN periods = 1..Len(periods)
    BY DEF ListingTypeOK
  <1>2. \A i \in 1..Len(periods) : periods[i] \in Period
    BY <1>1
  <1>. DEFINE Close(i) == [periods[i] EXCEPT !.live = @ /\ periods[i].ends > now]
  <1>3. \A i \in 1..Len(periods) : Close(i) \in Period /\ Close(i).ends = periods[i].ends
    BY <1>2 DEF Period
  <1>4. periods' = [i \in 1..Len(periods) |-> Close(i)]
    BY <1>1 DEF Expire
  <1>. HIDE DEF Close
  <1>5. periods' \in [1..Len(periods) -> Period]
    BY <1>3, <1>4
  <1>6. periods' \in Seq(Period)
    BY <1>1, <1>5
  <1>. QED
    BY <1>1, <1>3, <1>4, <1>6

\* The listing keeps its types, its periods and their cover.
LEMMA ListingStep ==
    ASSUME ListingTypeOK, ListingNext
    PROVE  ListingTypeOK' /\ PeriodsGrow /\ (CoverInv => CoverInv')
  <1>. USE DurationAssumption DEF ListingTypeOK
  <1>0. /\ now \in Nat /\ expiresAt \in Nat /\ periods \in Seq(Period)
        /\ Len(periods) \in Nat /\ DOMAIN periods = 1..Len(periods)
        /\ \A i \in DOMAIN periods : periods[i] \in Period
    OBVIOUS
  <1>1. CASE Tick
    <2>1. /\ now' = now + 1 /\ status' = status /\ expiresAt' = expiresAt
          /\ periods' = periods
      BY <1>1 DEF Tick
    <2>2. CoverInv => CoverInv'
      BY <1>0, <2>1 DEF CoverInv, Period
    <2>. QED
      BY <1>0, <2>1, <2>2 DEF PeriodsGrow
  <1>2. CASE Publish \/ Renew
    <2>1. PICK days \in Nat : Grant(days)
      BY <1>2 DEF Publish, Renew
    <2>2. /\ now' = now /\ status' = "ACTIVE" /\ expiresAt' = now + days
          /\ status \notin {"ACTIVE", "SUSPENDED"}
      BY <1>2, <2>1 DEF Grant, Publish, Renew
    <2>3. /\ periods' \in Seq(Period)
          /\ DOMAIN periods' = 1..(Len(periods) + 1)
          /\ \A i \in 1..Len(periods) : periods'[i] = periods[i]
          /\ periods'[Len(periods) + 1].ends = now + days
      BY <2>1, Granted
    <2>4. CoverInv => CoverInv'
      <3>. SUFFICES ASSUME CoverInv, NEW i \in 1..(Len(periods) + 1), periods'[i].ends > now
                    PROVE  periods'[i].ends = now + days
        BY <2>2, <2>3 DEF CoverInv
      <3>1. CASE i = Len(periods) + 1
        BY <2>3, <3>1
      <3>2. CASE i \in 1..Len(periods)
        BY <1>0, <2>2, <2>3, <3>2 DEF CoverInv
      <3>. QED
        BY <1>0, <3>1, <3>2
    <2>5. PeriodsGrow
      BY <1>0, <2>2, <2>3 DEF PeriodsGrow
    <2>. QED
      BY <1>0, <2>2, <2>3, <2>4, <2>5
  <1>3. CASE Suspend \/ Restore
    <2>1. /\ now' = now /\ expiresAt' = expiresAt /\ periods' = periods
          /\ status' \in {"ACTIVE", "SUSPENDED", "EXPIRED"}
          /\ status' = "EXPIRED" => ~(expiresAt > now)
      BY <1>3 DEF Suspend, Restore
    <2>2. CoverInv => CoverInv'
      BY <1>0, <2>1 DEF CoverInv
    <2>. QED
      BY <1>0, <2>1, <2>2 DEF PeriodsGrow
  <1>4. CASE Expire
    <2>1. now' = now /\ expiresAt' = expiresAt /\ status' = "EXPIRED" /\ expiresAt <= now
      BY <1>4 DEF Expire
    <2>2. /\ periods' \in Seq(Period)
          /\ DOMAIN periods' = DOMAIN periods
          /\ \A i \in DOMAIN periods : periods'[i].ends = periods[i].ends
      BY <1>4, Lapsed
    <2>3. CoverInv => CoverInv'
      BY <1>0, <2>1, <2>2 DEF CoverInv
    <2>. QED
      BY <1>0, <2>1, <2>2, <2>3 DEF PeriodsGrow
  <1>. QED
    BY <1>1, <1>2, <1>3, <1>4 DEF ListingNext

----------------------------------------------------------------------------
(* Type correctness *)

\* The conjuncts of TypeOK about rows and about runs.
RowsTyped ==
    /\ DOMAIN rows \subseteq {r \in Reminder : r.period \in DOMAIN periods}
    /\ rows \in [DOMAIN rows -> Row]

RunsTyped ==
    /\ step \in [Workers -> {"idle", "next"} \cup Verdict \cup Answer]
    /\ at \in [Workers -> Reminder \cup {NoReminder}]
    /\ DOMAIN batch = Workers
    /\ \A w \in Workers :
          /\ DOMAIN batch[w] \subseteq DOMAIN rows
          /\ batch[w] \in [DOMAIN batch[w] -> Nat]
          /\ step[w] = "idle" <=> DOMAIN batch[w] = {}
          /\ IF step[w] \in Verdict \cup Answer THEN at[w] \in DOMAIN batch[w]
                                                ELSE at[w] = NoReminder

LEMMA TypeParts == TypeOK <=> ListingTypeOK /\ RowsTyped /\ RunsTyped /\ faults \in 0..MaxFaults
  BY DEF TypeOK, RowsTyped, RunsTyped

\* An update of one row leaves the others alone.
LEMMA RowUpdated ==
    ASSUME TypeOK, NEW r \in DOMAIN rows, NEW row \in Row,
           rows' = [rows EXCEPT ![r] = row], periods' = periods
    PROVE  /\ RowsTyped'
           /\ DOMAIN rows' = DOMAIN rows
           /\ rows'[r] = row
           /\ \A s \in DOMAIN rows : s # r => rows'[s] = rows[s]
  BY DEF TypeOK, RowsTyped

\* A guarded mark updates the row only while it is PROCESSING.
LEMMA RowMarked ==
    ASSUME TypeOK, NEW r \in DOMAIN rows, NEW row \in Row, Mark(r, row), periods' = periods
    PROVE  /\ RowsTyped'
           /\ DOMAIN rows' = DOMAIN rows
           /\ rows'[r] = IF rows[r].status = "PROCESSING" THEN row ELSE rows[r]
           /\ \A s \in DOMAIN rows : s # r => rows'[s] = rows[s]
  <1>1. CASE rows[r].status = "PROCESSING"
    BY <1>1, RowUpdated DEF Mark
  <1>2. CASE rows[r].status # "PROCESSING"
    BY <1>2 DEF Mark, TypeOK, RowsTyped
  <1>. QED
    BY <1>1, <1>2

\* What the code stores into a row is a row.
LEMMA StoredRows ==
    ASSUME NEW row \in Row
    PROVE  /\ Deferred(row) \in Row
           /\ \A outcome \in {"SENT", "CANCELLED", "REFUSED", "EXHAUSTED"} : Closed(row, outcome) \in Row
           /\ [row EXCEPT !.status = "SCHEDULED", !.held = TRUE] \in Row
           /\ [row EXCEPT !.held = FALSE] \in Row
           /\ [row EXCEPT !.lapsed = TRUE] \in Row
           /\ [row EXCEPT !.status = "PROCESSING", !.lapsed = FALSE, !.attempts = @ + 1] \in Row
           /\ FreshRow \in Row
  <1>. USE DEF Row
  <1>1. Deferred(row) \in Row
    <2>1. (IF row.attempts = 0 THEN 0 ELSE row.attempts - 1) \in Nat
      OBVIOUS
    <2>. QED
      BY <2>1 DEF Deferred
  <1>2. \A outcome \in {"SENT", "CANCELLED", "REFUSED", "EXHAUSTED"} : Closed(row, outcome) \in Row
    BY DEF Closed
  <1>3. [row EXCEPT !.status = "SCHEDULED", !.held = TRUE] \in Row
    OBVIOUS
  <1>4. [row EXCEPT !.held = FALSE] \in Row /\ [row EXCEPT !.lapsed = TRUE] \in Row
    OBVIOUS
  <1>5. [row EXCEPT !.status = "PROCESSING", !.lapsed = FALSE, !.attempts = @ + 1] \in Row
    <2>1. row.attempts + 1 \in Nat
      OBVIOUS
    <2>2. \A n \in Nat : [row EXCEPT !.status = "PROCESSING", !.lapsed = FALSE, !.attempts = n] \in Row
      OBVIOUS
    <2>. QED
      BY <2>1, <2>2
  <1>6. FreshRow \in Row
    BY DEF FreshRow
  <1>. QED
    BY <1>1, <1>2, <1>3, <1>4, <1>5, <1>6

\* A run that is done with the row at hand goes on with the rest of its batch.
LEMMA RunDone ==
    ASSUME TypeOK, NEW w \in Workers, Done(w), step[w] \in Verdict \cup Answer,
           DOMAIN rows' = DOMAIN rows
    PROVE  /\ RunsTyped'
           /\ step'[w] \in {"idle", "next"}
           /\ DOMAIN batch'[w] = DOMAIN batch[w] \ {at[w]}
           /\ \A r \in DOMAIN batch'[w] : batch'[w][r] = batch[w][r]
           /\ \A v \in Workers : v # w =>
                 step'[v] = step[v] /\ at'[v] = at[v] /\ batch'[v] = batch[v]
  <1>. DEFINE rest == [r \in DOMAIN batch[w] \ {at[w]} |-> batch[w][r]]
  <1>1. /\ step' = [step EXCEPT ![w] = IF DOMAIN batch[w] = {at[w]} THEN "idle" ELSE "next"]
        /\ at' = [at EXCEPT ![w] = NoReminder]
        /\ batch' = [batch EXCEPT ![w] = rest]
    BY DEF Done, Goes, TypeOK
  <1>2. at[w] \in DOMAIN batch[w]
    BY DEF TypeOK
  <1>3. /\ DOMAIN rest = DOMAIN batch[w] \ {at[w]}
        /\ rest \in [DOMAIN rest -> Nat]
        /\ DOMAIN rest = {} <=> DOMAIN batch[w] = {at[w]}
        /\ \A r \in DOMAIN rest : rest[r] = batch[w][r]
    BY <1>2 DEF TypeOK
  <1>. HIDE DEF rest
  <1>4. batch'[w] = rest /\ \A v \in Workers : v # w => batch'[v] = batch[v]
    BY <1>1 DEF TypeOK
  <1>5. /\ step'[w] = IF DOMAIN batch[w] = {at[w]} THEN "idle" ELSE "next"
        /\ \A v \in Workers : v # w => step'[v] = step[v] /\ at'[v] = at[v]
    BY <1>1 DEF TypeOK
  <1>6. RunsTyped'
    BY <1>1, <1>3, <1>4, <1>5 DEF RunsTyped, TypeOK, Verdict, Answer
  <1>. QED
    BY <1>3, <1>4, <1>5, <1>6

----------------------------------------------------------------------------
(* The inductive invariant, for runs that end before their leases *)

\* A run that holds r and has seen no error for it.
Fresh(w, r) == r \in DOMAIN batch[w] /\ ~(at[w] = r /\ step[w] \in {"transient", "permanent"})

\* What a run may rely on for a row of its batch: nobody else holds it, its
\* lease stands, and it is PROCESSING with the attempt that was claimed unless
\* a mark was applied whose answer was lost.
Held(w, r) ==
    /\ \A v \in Workers : r \in DOMAIN batch[v] => v = w
    /\ ~rows[r].lapsed
    /\ rows[r].status = "PROCESSING" => batch[w][r] = rows[r].attempts
    /\ rows[r].status = "SCHEDULED" => rows[r].held
    /\ rows[r].status = "PROCESSING" \/ (step[w] = "transient" /\ at[w] = r)

\* What a run has seen of the row at hand.
Seen(w) ==
    /\ step[w] = "sent" => rows[at[w]].delivered > 0
    /\ step[w] = "CANCEL" => Ends(at[w]) <= now

\* A message is owed to an error or a fault unless it is the one that is
\* recorded, or is about to be.
Delivery(r) ==
    \/ rows[r].delivered <= rows[r].failures + faults
    \/ /\ rows[r].delivered <= 1 + rows[r].failures + faults
       /\ rows[r].status = "SENT" \/ \E w \in Workers : step[w] = "sent" /\ at[w] = r

\* So is an attempt, unless it succeeded or is under way.
Attempts(r) ==
    \/ rows[r].attempts <= rows[r].failures + faults
    \/ /\ rows[r].attempts <= 1 + rows[r].failures + faults
       /\ rows[r].status \in {"SENT", "CANCELLED"} \/ \E w \in Workers : Fresh(w, r)

\* The last attempt of the budget is under way or was the end of the row.
Budget(r) ==
    \/ rows[r].attempts < MaxAttempts + faults
    \/ /\ rows[r].attempts = MaxAttempts + faults
       /\ Settled(r) \/ (rows[r].status = "PROCESSING" /\ ~Unclaimed(r))

RowInv(r) ==
    /\ Delivery(r)
    /\ Attempts(r)
    /\ Budget(r)
    /\ rows[r].status = "SENT" => rows[r].delivered > 0
    /\ rows[r].status = "CANCELLED" => Ends(r) <= now
    /\ rows[r].status = "EXHAUSTED" => rows[r].failures + faults >= MaxAttempts

IInv ==
    /\ TypeOK
    /\ CoverInv
    /\ \A r \in DOMAIN rows : RowInv(r)
    /\ \A w \in Workers : Seen(w) /\ \A r \in DOMAIN batch[w] : Held(w, r)

\* A row keeps its invariant when neither it nor its run moves.
LEMMA RowKept ==
    ASSUME IInv, NEW r \in DOMAIN rows, rows'[r] = rows[r], PeriodsGrow,
           faults' \in Nat, faults' >= faults, now' \in Nat,
           \A w \in Workers : r \in DOMAIN batch'[w] <=> r \in DOMAIN batch[w],
           \A w \in Workers : at[w] = r \/ at'[w] = r => at'[w] = at[w] /\ step'[w] = step[w]
    PROVE  RowInv(r)'
  <1>. USE ReminderAssumption
  <1>1. /\ rows[r] \in Row /\ faults \in Nat /\ now \in Nat
        /\ r.period \in DOMAIN periods /\ periods[r.period] \in Period
        /\ periods'[r.period].ends = periods[r.period].ends /\ now' >= now
    BY DEF IInv, TypeOK, ListingTypeOK, PeriodsGrow
  <1>2. RowInv(r)
    BY DEF IInv
  <1>3. \A w \in Workers : Fresh(w, r)' = Fresh(w, r)
    BY DEF Fresh
  <1>4. Delivery(r)'
    BY <1>1, <1>2 DEF RowInv, Delivery, Row
  <1>5. Attempts(r)'
    BY <1>1, <1>2, <1>3 DEF RowInv, Attempts, Row
  <1>6. Budget(r)'
    BY <1>1, <1>2 DEF RowInv, Budget, Row, Settled, Unclaimed
  <1>7. /\ rows'[r].status = "SENT" => rows'[r].delivered > 0
        /\ rows'[r].status = "CANCELLED" => Ends(r)' <= now'
        /\ rows'[r].status = "EXHAUSTED" => rows'[r].failures + faults' >= MaxAttempts
    BY <1>1, <1>2 DEF RowInv, Row, Period, Ends
  <1>. QED
    BY <1>4, <1>5, <1>6, <1>7 DEF RowInv

\* A step of a run about one row of its batch preserves the invariant when it
\* does so for that row.
LEMMA RunStep ==
    ASSUME IInv, NEW w \in Workers, NEW r \in DOMAIN batch[w],
           RowsTyped', RunsTyped', faults' \in faults..MaxFaults, UNCHANGED listingVars,
           DOMAIN rows' = DOMAIN rows,
           \A s \in DOMAIN rows : s # r => rows'[s] = rows[s],
           \A v \in Workers : v # w =>
              step'[v] = step[v] /\ at'[v] = at[v] /\ batch'[v] = batch[v],
           at[w] \in {r, NoReminder}, at'[w] \in {r, NoReminder},
           DOMAIN batch'[w] \in {DOMAIN batch[w], DOMAIN batch[w] \ {r}},
           \A s \in DOMAIN batch'[w] : batch'[w][s] = batch[w][s],
           RowInv(r)', Seen(w)', r \in DOMAIN batch'[w] => Held(w, r)'
    PROVE  IInv'
  <1>1. /\ TypeOK /\ faults \in Nat /\ now \in Nat /\ RowsTyped /\ RunsTyped
        /\ now' = now /\ periods' = periods /\ status' = status /\ expiresAt' = expiresAt
    BY DEF IInv, TypeParts, TypeOK, ListingTypeOK, RowsTyped, RunsTyped, listingVars
  <1>2. TypeOK'
    BY <1>1, TypeParts, ReminderAssumption DEF ListingTypeOK, RowsTyped, RunsTyped, TypeOK
  <1>3. CoverInv'
    BY <1>1 DEF IInv, CoverInv
  <1>4. PeriodsGrow
    BY <1>1 DEF PeriodsGrow
  <1>5. NoReminder \notin DOMAIN rows
    BY <1>1 DEF RowsTyped, Reminder, NoReminder
  <1>6. \A s \in DOMAIN rows' : RowInv(s)'
    <2>. SUFFICES ASSUME NEW s \in DOMAIN rows, s # r PROVE RowInv(s)'
      OBVIOUS
    <2>1. \A v \in Workers : s \in DOMAIN batch'[v] <=> s \in DOMAIN batch[v]
      OBVIOUS
    <2>2. \A v \in Workers : at[v] = s \/ at'[v] = s => at'[v] = at[v] /\ step'[v] = step[v]
      BY <1>5
    <2>3. faults' \in Nat /\ faults' >= faults /\ now' \in Nat
      BY <1>1, ReminderAssumption
    <2>. QED
      BY <1>4, <2>1, <2>2, <2>3, RowKept
  <1>7. ASSUME NEW v \in Workers PROVE Seen(v)'
    <2>1. CASE v = w
      BY <2>1
    <2>2. CASE v # w
      <3>1. step'[v] = step[v] /\ at'[v] = at[v] /\ batch'[v] = batch[v] /\ Seen(v)
        BY <2>2 DEF IInv
      <3>2. ASSUME step[v] \in Verdict \cup Answer
            PROVE  rows'[at[v]] = rows[at[v]]
        <4>1. at[v] \in DOMAIN batch[v] /\ at[v] \in DOMAIN rows
          BY <1>1, <3>2 DEF RunsTyped
        <4>2. at[v] # r
          BY <2>2, <4>1 DEF IInv, Held
        <4>. QED
          BY <4>1, <4>2
      <3>. QED
        BY <1>1, <3>1, <3>2 DEF Seen, Ends, Verdict, Answer
    <2>. QED
      BY <2>1, <2>2
  <1>8. ASSUME NEW v \in Workers, NEW s \in DOMAIN batch'[v] PROVE Held(v, s)'
    <2>1. CASE s = r
      <3>1. v = w
        BY <2>1 DEF IInv, Held
      <3>. QED
        BY <2>1, <3>1
    <2>2. CASE s # r
      <3>1. s \in DOMAIN batch[v] /\ batch'[v][s] = batch[v][s] /\ s \in DOMAIN rows
        BY <1>1, <2>2 DEF RunsTyped
      <3>2. Held(v, s) /\ rows'[s] = rows[s]
        BY <2>2, <3>1 DEF IInv
      <3>3. rows[s].status = "PROCESSING" \/ (step'[v] = "transient" /\ at'[v] = s)
        BY <1>5, <2>2, <3>1, <3>2 DEF Held
      <3>. QED
        BY <3>1, <3>2, <3>3 DEF Held
    <2>. QED
      BY <2>1, <2>2
  <1>. QED
    BY <1>2, <1>3, <1>6, <1>7, <1>8 DEF IInv

----------------------------------------------------------------------------
(* The steps of a run *)

\* Whatever happens to a claimed row happens through the run that holds it.
LEMMA HeldAlone ==
    ASSUME IInv, NEW w \in Workers, NEW r \in DOMAIN batch[w],
           \A v \in Workers : v # w =>
              step'[v] = step[v] /\ at'[v] = at[v] /\ batch'[v] = batch[v]
    PROVE  /\ r \in DOMAIN rows /\ rows[r] \in Row /\ r # NoReminder
           /\ ~Unclaimed(r)
           /\ Unclaimed(r)' <=> r \notin DOMAIN batch'[w]
           /\ (\E v \in Workers : Fresh(v, r)) <=> Fresh(w, r)
           /\ (\E v \in Workers : Fresh(v, r)') <=> Fresh(w, r)'
           /\ (\E v \in Workers : step[v] = "sent" /\ at[v] = r) <=> step[w] = "sent" /\ at[w] = r
           /\ (\E v \in Workers : step'[v] = "sent" /\ at'[v] = r) <=> step'[w] = "sent" /\ at'[w] = r
  <1>1. /\ r \in DOMAIN rows /\ rows[r] \in Row /\ r # NoReminder
    BY DEF IInv, TypeOK, Reminder, NoReminder
  <1>2. \A v \in Workers : v # w => r \notin DOMAIN batch[v]
    BY DEF IInv, Held
  <1>3. \A v \in Workers : v # w => ~Fresh(v, r) /\ ~Fresh(v, r)'
    BY <1>2 DEF Fresh
  <1>4. \A v \in Workers : v # w => ~(step[v] = "sent" /\ at[v] = r)
    BY <1>2 DEF IInv, TypeOK, Answer
  <1>. QED
    BY <1>1, <1>2, <1>3, <1>4 DEF Unclaimed

\* A verdict is read: CANCEL is only read for a period that is over.
LEMMA CheckStep ==
    ASSUME IInv, NEW w \in Workers, CheckEligibility(w)
    PROVE  IInv'
  <1>. USE ReminderAssumption
  <1>1. PICK r \in DOMAIN batch[w] : at' = [at EXCEPT ![w] = r] /\ Goes(w, Eligibility(r))
    BY DEF CheckEligibility
  <1>2. /\ step[w] = "next" /\ at[w] = NoReminder
        /\ step'[w] = Eligibility(r) /\ at'[w] = r /\ Eligibility(r) \in Verdict
        /\ batch' = batch /\ rows' = rows /\ faults' = faults /\ UNCHANGED listingVars
        /\ \A v \in Workers : v # w =>
              step'[v] = step[v] /\ at'[v] = at[v] /\ batch'[v] = batch[v]
    BY <1>1 DEF CheckEligibility, Goes, IInv, TypeOK, Verdict, Answer, Eligibility
  <1>3. /\ r \in DOMAIN rows /\ rows[r] \in Row
        /\ Unclaimed(r)' <=> r \notin DOMAIN batch'[w]
        /\ (\E v \in Workers : Fresh(v, r)') <=> Fresh(w, r)'
        /\ (\E v \in Workers : step[v] = "sent" /\ at[v] = r) <=> step[w] = "sent" /\ at[w] = r
    BY <1>2, HeldAlone
  <1>4. RowsTyped' /\ RunsTyped'
    <2>1. step' \in [Workers -> {"idle", "next"} \cup Verdict \cup Answer]
      BY <1>1, <1>2 DEF Goes, IInv, TypeOK
    <2>2. at' \in [Workers -> Reminder \cup {NoReminder}]
      BY <1>1, <1>3 DEF IInv, TypeOK
    <2>. QED
      BY <1>2, <2>1, <2>2 DEF IInv, TypeOK, RowsTyped, RunsTyped, listingVars, Verdict, Answer
  <1>5. Held(w, r) /\ rows[r].status = "PROCESSING"
    BY <1>2 DEF IInv, Held
  <1>6. Held(w, r)'
    BY <1>2, <1>5 DEF Held
  <1>7. Fresh(w, r)'
    BY <1>2 DEF Fresh, Verdict
  <1>8. RowInv(r)'
    <2>1. RowInv(r) /\ now' = now /\ periods' = periods
      BY <1>2, <1>3 DEF IInv, listingVars
    <2>2. Delivery(r)'
      BY <1>2, <1>3, <1>5, <2>1 DEF RowInv, Delivery
    <2>3. Attempts(r)'
      BY <1>2, <1>7, <2>1 DEF RowInv, Attempts
    <2>4. Budget(r)'
      BY <1>2, <1>3, <1>5, <2>1 DEF RowInv, Budget, Settled
    <2>. QED
      BY <1>2, <2>1, <2>2, <2>3, <2>4 DEF RowInv, Ends
  <1>9. Seen(w)'
    <2>1. /\ r.period \in DOMAIN periods /\ periods[r.period] \in Period
          /\ now \in Nat /\ expiresAt \in Nat
      BY <1>3 DEF IInv, TypeOK, ListingTypeOK
    <2>2. Eligibility(r) = "CANCEL" => Ends(r) <= now
      BY <2>1 DEF Eligibility, Current, Ends, IInv, CoverInv, Period
    <2>. QED
      BY <1>2, <2>2 DEF Seen, Verdict, Ends, listingVars
  <1>. QED
    BY <1>2, <1>3, <1>4, <1>6, <1>8, <1>9, RunStep DEF IInv, TypeOK

\* The provider is asked: an error answer owns up to what it may have sent.
LEMMA SendStep ==
    ASSUME IInv, NEW w \in Workers, SendTemplate(w)
    PROVE  IInv'
  <1>. USE ReminderAssumption
  <1>. DEFINE r == at[w]
  <1>1. PICK answer \in Answer, arrives \in BOOLEAN :
           /\ answer = "sent" => arrives
           /\ rows' = [rows EXCEPT ![r].delivered = IF arrives THEN @ + 1 ELSE @,
                                   ![r].failures = IF answer = "sent" THEN @ ELSE @ + 1]
           /\ Goes(w, answer)
    BY DEF SendTemplate
  <1>. DEFINE row == [rows[r] EXCEPT
                         !.delivered = IF arrives THEN @ + 1 ELSE @,
                         !.failures = IF answer = "sent" THEN @ ELSE @ + 1]
  <1>2. /\ step[w] = "SEND" /\ r \in DOMAIN batch[w]
        /\ step'[w] = answer /\ at' = at /\ batch' = batch
        /\ faults' = faults /\ UNCHANGED listingVars
        /\ \A v \in Workers : v # w =>
              step'[v] = step[v] /\ at'[v] = at[v] /\ batch'[v] = batch[v]
    BY <1>1 DEF SendTemplate, Goes, IInv, TypeOK, Verdict
  <1>3. /\ r \in DOMAIN rows /\ rows[r] \in Row
        /\ ~Unclaimed(r)
        /\ Unclaimed(r)' <=> r \notin DOMAIN batch'[w]
        /\ (\E v \in Workers : step[v] = "sent" /\ at[v] = r) <=> step[w] = "sent" /\ at[w] = r
        /\ (\E v \in Workers : step'[v] = "sent" /\ at'[v] = r) <=> step'[w] = "sent" /\ at'[w] = r
        /\ (\E v \in Workers : Fresh(v, r)') <=> Fresh(w, r)'
    BY <1>2, HeldAlone
  <1>4. /\ row \in Row
        /\ row.status = rows[r].status /\ row.attempts = rows[r].attempts
        /\ row.held = rows[r].held /\ row.lapsed = rows[r].lapsed
        /\ row.delivered = (IF arrives THEN rows[r].delivered + 1 ELSE rows[r].delivered)
        /\ row.failures = (IF answer = "sent" THEN rows[r].failures ELSE rows[r].failures + 1)
    <2>1. \A d, f \in Nat : [rows[r] EXCEPT !.delivered = d, !.failures = f] \in Row
      BY <1>3 DEF Row
    <2>2. /\ (IF arrives THEN rows[r].delivered + 1 ELSE rows[r].delivered) \in Nat
          /\ (IF answer = "sent" THEN rows[r].failures ELSE rows[r].failures + 1) \in Nat
      BY <1>3 DEF Row
    <2>3. row \in Row
      BY <2>1, <2>2
    <2>. QED
      BY <1>3, <2>3 DEF Row
  <1>5. rows' = [rows EXCEPT ![r] = row]
    BY <1>1, <1>3 DEF IInv, TypeOK, Row
  <1>. HIDE DEF row
  <1>6. /\ RowsTyped'
        /\ DOMAIN rows' = DOMAIN rows
        /\ rows'[r] = row
        /\ \A s \in DOMAIN rows : s # r => rows'[s] = rows[s]
    BY <1>2, <1>3, <1>4, <1>5, RowUpdated DEF IInv, listingVars
  <1>7. RunsTyped'
    <2>1. step' \in [Workers -> {"idle", "next"} \cup Verdict \cup Answer]
      BY <1>1 DEF Goes, IInv, TypeOK
    <2>. QED
      BY <1>2, <1>6, <2>1 DEF IInv, TypeOK, RunsTyped, Verdict, Answer
  <1>8. Held(w, r) /\ rows[r].status = "PROCESSING"
    BY <1>2 DEF IInv, Held
  <1>9. Held(w, r)'
    BY <1>2, <1>4, <1>6, <1>8 DEF Held
  <1>10. RowInv(r)'
    <2>1. /\ RowInv(r) /\ now' = now /\ periods' = periods /\ faults \in Nat
          /\ rows[r].delivered \in Nat /\ rows[r].failures \in Nat /\ rows[r].attempts \in Nat
      BY <1>2, <1>3 DEF IInv, TypeOK, listingVars, Row
    <2>2. rows[r].delivered <= rows[r].failures + faults
      BY <1>2, <1>3, <1>8, <2>1 DEF RowInv, Delivery
    <2>3. Delivery(r)'
      BY <1>2, <1>3, <1>4, <1>6, <2>1, <2>2 DEF Delivery
    <2>4. Attempts(r)'
      <3>1. rows[r].attempts <= 1 + rows[r].failures + faults
        BY <2>1 DEF RowInv, Attempts
      <3>2. CASE answer = "sent"
        <4>1. Fresh(w, r)'
          BY <1>2, <3>2 DEF Fresh
        <4>. QED
          BY <1>2, <1>4, <1>6, <3>1, <3>2, <4>1 DEF Attempts
      <3>3. CASE answer # "sent"
        BY <1>2, <1>4, <1>6, <2>1, <3>1, <3>3 DEF Attempts
      <3>. QED
        BY <3>2, <3>3
    <2>5. Budget(r)'
      BY <1>2, <1>3, <1>4, <1>6, <1>8, <2>1 DEF RowInv, Budget, Settled
    <2>. QED
      BY <1>2, <1>4, <1>6, <1>8, <2>3, <2>4, <2>5 DEF RowInv
  <1>11. Seen(w)'
    BY <1>1, <1>2, <1>3, <1>4, <1>6 DEF Seen, Answer, Row
  <1>. QED
    BY <1>2, <1>6, <1>7, <1>9, <1>10, <1>11, RunStep DEF IInv, TypeOK

\* A mark is applied to the row at hand while the row is PROCESSING: then the
\* row keeps its invariant, with or without the fault of a lost answer.
LEMMA MarkKeepsRow ==
    ASSUME IInv, NEW w \in Workers, step[w] \in {"sent", "CANCEL", "DEFER"},
           Mark(at[w], Marked(w)), UNCHANGED listingVars, faults' \in faults..MaxFaults,
           \A v \in Workers : v # w =>
              step'[v] = step[v] /\ at'[v] = at[v] /\ batch'[v] = batch[v]
    PROVE  /\ RowsTyped'
           /\ DOMAIN rows' = DOMAIN rows
           /\ \A s \in DOMAIN rows : s # at[w] => rows'[s] = rows[s]
           /\ rows'[at[w]] = Marked(w)
           /\ Marked(w) \in Row
           /\ Marked(w).status \in {"SENT", "CANCELLED", "SCHEDULED"}
           /\ Marked(w).status = "SCHEDULED" => Marked(w).held
           /\ Marked(w).lapsed = rows[at[w]].lapsed
           /\ Marked(w).delivered = rows[at[w]].delivered
           /\ \A r : r = at[w] => RowInv(r)'
  <1>. USE ReminderAssumption
  <1>. DEFINE q == at[w]
              row == rows[q]
  <1>1. q \in DOMAIN batch[w] /\ q \in DOMAIN rows /\ row \in Row
    BY DEF IInv, TypeOK, Verdict, Answer
  <1>2. Held(w, q) /\ row.status = "PROCESSING"
    BY <1>1 DEF IInv, Held
  <1>3. /\ Marked(w) \in Row
        /\ step[w] = "sent" => Marked(w) = Closed(row, "SENT")
        /\ step[w] = "CANCEL" => Marked(w) = Closed(row, "CANCELLED")
        /\ step[w] = "DEFER" => Marked(w) = Deferred(row)
    BY <1>1, StoredRows DEF Marked
  <1>4. /\ Marked(w).delivered = row.delivered /\ Marked(w).failures = row.failures
        /\ Marked(w).lapsed = row.lapsed
        /\ step[w] = "sent" => Marked(w).status = "SENT" /\ Marked(w).attempts = row.attempts
        /\ step[w] = "CANCEL" => Marked(w).status = "CANCELLED" /\ Marked(w).attempts = row.attempts
        /\ step[w] = "DEFER" =>
              /\ Marked(w).status = "SCHEDULED"
              /\ Marked(w).held
              /\ Marked(w).attempts = IF row.attempts = 0 THEN 0 ELSE row.attempts - 1
    <2>1. CASE step[w] = "sent"
      BY <1>1, <1>3, <2>1 DEF Closed, Row
    <2>2. CASE step[w] = "CANCEL"
      BY <1>1, <1>3, <2>2 DEF Closed, Row
    <2>3. CASE step[w] = "DEFER"
      BY <1>1, <1>3, <2>3 DEF Deferred, Row
    <2>. QED
      BY <2>1, <2>2, <2>3
  <1>5. /\ RowsTyped'
        /\ DOMAIN rows' = DOMAIN rows
        /\ rows'[q] = Marked(w)
        /\ \A s \in DOMAIN rows : s # q => rows'[s] = rows[s]
    BY <1>1, <1>2, <1>3, RowMarked DEF IInv, listingVars
  <1>6. ASSUME NEW r, r = q PROVE RowInv(r)'
    <2>1. /\ RowInv(q) /\ Seen(w) /\ now' = now /\ periods' = periods
          /\ faults \in Nat /\ faults' \in Nat /\ faults' >= faults
          /\ row.delivered \in Nat /\ row.failures \in Nat /\ row.attempts \in Nat
      BY <1>1 DEF IInv, TypeOK, listingVars, Row
    <2>2. (\E v \in Workers : step[v] = "sent" /\ at[v] = q) <=> step[w] = "sent"
      BY <1>1, HeldAlone
    <2>3. Delivery(r)'
      BY <1>2, <1>4, <1>5, <1>6, <2>1, <2>2 DEF RowInv, Delivery
    <2>4. Attempts(r)'
      <3>1. row.attempts <= 1 + row.failures + faults
        BY <2>1 DEF RowInv, Attempts
      <3>2. rows'[r].attempts <= rows'[r].failures + faults'
               \/ (rows'[r].attempts <= 1 + rows'[r].failures + faults'
                     /\ rows'[r].status \in {"SENT", "CANCELLED"})
        BY <1>4, <1>5, <1>6, <2>1, <3>1
      <3>. QED
        BY <3>2 DEF Attempts
    <2>5. Budget(r)'
      <3>1. row.attempts <= MaxAttempts + faults
        BY <2>1 DEF RowInv, Budget
      <3>2. rows'[r].attempts < MaxAttempts + faults'
               \/ (rows'[r].attempts = MaxAttempts + faults'
                     /\ rows'[r].status \in {"SENT", "CANCELLED"})
        BY <1>4, <1>5, <1>6, <2>1, <3>1
      <3>. QED
        BY <3>2 DEF Budget, Settled
    <2>. QED
      BY <1>4, <1>5, <1>6, <2>1, <2>3, <2>4, <2>5 DEF RowInv, Seen, Ends
  <1>. QED
    BY <1>2, <1>3, <1>4, <1>5, <1>6

\* The run marks the row at hand sent, cancelled or deferred.
LEMMA MarkStep ==
    ASSUME IInv, NEW w \in Workers, MarkNotification(w)
    PROVE  IInv'
  <1>. DEFINE q == at[w]
  <1>1. /\ step[w] \in {"sent", "CANCEL", "DEFER"} /\ step[w] \in Verdict \cup Answer
        /\ Mark(q, Marked(w)) /\ Done(w) /\ UNCHANGED listingVars /\ faults' = faults
        /\ faults' \in faults..MaxFaults /\ q \in DOMAIN batch[w] /\ TypeOK
    BY ReminderAssumption DEF MarkNotification, Verdict, Answer, IInv, TypeOK
  <1>2. /\ \A v \in Workers : v # w =>
              step'[v] = step[v] /\ at'[v] = at[v] /\ batch'[v] = batch[v]
    BY <1>1 DEF Done, Goes, TypeOK
  <1>3. /\ RowsTyped'
        /\ DOMAIN rows' = DOMAIN rows
        /\ \A s \in DOMAIN rows : s # q => rows'[s] = rows[s]
        /\ \A r : r = q => RowInv(r)'
    BY <1>1, <1>2, MarkKeepsRow
  <1>4. /\ RunsTyped'
        /\ step'[w] \in {"idle", "next"}
        /\ DOMAIN batch'[w] = DOMAIN batch[w] \ {q}
        /\ \A r \in DOMAIN batch'[w] : batch'[w][r] = batch[w][r]
        /\ at'[w] = NoReminder
    BY <1>1, <1>3, RunDone DEF Done, TypeOK
  <1>5. Seen(w)'
    BY <1>4 DEF Seen
  <1>6. ASSUME NEW r, r = q PROVE IInv'
    BY <1>1, <1>2, <1>3, <1>4, <1>5, <1>6, RunStep
  <1>. QED
    BY <1>6

\* After an error the row is given up, or waits for another attempt: the budget
\* is compared with the attempt that was claimed.
LEMMA ErrorStep ==
    ASSUME IInv, NEW w \in Workers, MarkNotificationFailed(w) \/ ScheduleNotificationRetry(w)
    PROVE  IInv'
  <1>. USE ReminderAssumption
  <1>. DEFINE q == at[w]
              row == rows[q]
              retried == [row EXCEPT !.status = "SCHEDULED", !.held = TRUE]
  <1>1. /\ step[w] \in {"transient", "permanent"} /\ step[w] \in Verdict \cup Answer
        /\ Done(w) /\ UNCHANGED listingVars /\ faults' = faults /\ TypeOK
        /\ q \in DOMAIN batch[w] /\ q \in DOMAIN rows /\ row \in Row
    BY DEF MarkNotificationFailed, ScheduleNotificationRetry, Verdict, Answer, IInv, TypeOK
  <1>2. PICK marked \in {Closed(row, "REFUSED"), Closed(row, "EXHAUSTED"), retried} :
           /\ Mark(q, marked)
           /\ marked = retried => ~Spent(w)
           /\ marked = Closed(row, "EXHAUSTED") => Spent(w)
    <2>. DEFINE refused == Closed(row, "REFUSED")
                exhausted == Closed(row, "EXHAUSTED")
    <2>1. /\ refused.status = "REFUSED" /\ exhausted.status = "EXHAUSTED"
          /\ retried.status = "SCHEDULED"
      BY <1>1 DEF Closed, Row
    <2>2. \/ Mark(q, refused)
          \/ Mark(q, exhausted) /\ Spent(w)
          \/ Mark(q, retried) /\ ~Spent(w)
      BY DEF MarkNotificationFailed, ScheduleNotificationRetry
    <2>. QED
      BY <2>1, <2>2
  <1>3. /\ marked \in Row
        /\ marked.attempts = row.attempts /\ marked.failures = row.failures
        /\ marked.delivered = row.delivered
        /\ marked.status \in {"REFUSED", "EXHAUSTED", "SCHEDULED"}
        /\ marked.status = "SCHEDULED" => ~Spent(w)
        /\ marked.status = "EXHAUSTED" => Spent(w)
    <2>1. marked \in Row
      BY <1>1, <1>2, StoredRows
    <2>2. ASSUME NEW outcome
          PROVE  /\ Closed(row, outcome).attempts = row.attempts
                 /\ Closed(row, outcome).failures = row.failures
                 /\ Closed(row, outcome).delivered = row.delivered
                 /\ Closed(row, outcome).status = outcome
      BY <1>1 DEF Closed, Row
    <2>3. /\ retried.attempts = row.attempts /\ retried.failures = row.failures
          /\ retried.delivered = row.delivered /\ retried.status = "SCHEDULED"
      BY <1>1 DEF Row
    <2>. HIDE DEF retried, row
    <2>4. CASE marked = Closed(row, "REFUSED")
      BY <2>1, <2>2, <2>4
    <2>5. CASE marked = Closed(row, "EXHAUSTED")
      BY <1>2, <2>1, <2>2, <2>5
    <2>6. CASE marked = retried
      BY <1>2, <2>1, <2>3, <2>6
    <2>. QED
      BY <2>4, <2>5, <2>6
  <1>4. /\ RowsTyped'
        /\ DOMAIN rows' = DOMAIN rows
        /\ rows'[q] = IF row.status = "PROCESSING" THEN marked ELSE row
        /\ \A s \in DOMAIN rows : s # q => rows'[s] = rows[s]
    BY <1>1, <1>2, <1>3, RowMarked DEF listingVars
  <1>5. /\ RunsTyped'
        /\ step'[w] \in {"idle", "next"}
        /\ DOMAIN batch'[w] = DOMAIN batch[w] \ {q}
        /\ \A s \in DOMAIN batch'[w] : batch'[w][s] = batch[w][s]
        /\ at'[w] = NoReminder
        /\ \A v \in Workers : v # w =>
              step'[v] = step[v] /\ at'[v] = at[v] /\ batch'[v] = batch[v]
    BY <1>1, <1>4, RunDone DEF Done, TypeOK
  <1>6. ASSUME NEW r, r = q PROVE RowInv(r)'
    <2>1. /\ RowInv(q) /\ Held(w, q) /\ now' = now /\ periods' = periods
          /\ faults \in Nat /\ batch[w][q] \in Nat
          /\ row.delivered \in Nat /\ row.failures \in Nat /\ row.attempts \in Nat
      BY <1>1 DEF IInv, TypeOK, listingVars, Row
    <2>2. /\ (\E v \in Workers : step[v] = "sent" /\ at[v] = q) <=> step[w] = "sent"
          /\ (\E v \in Workers : Fresh(v, q)) <=> Fresh(w, q)
          /\ ~Fresh(w, q)
      BY <1>1, <1>5, HeldAlone DEF Fresh
    <2>3. CASE row.status # "PROCESSING"
      <3>1. rows'[r] = rows[r]
        BY <1>4, <1>6, <2>3
      <3>2. Delivery(r)' /\ Attempts(r)'
        BY <1>1, <1>6, <2>1, <2>2, <3>1 DEF RowInv, Delivery, Attempts
      <3>3. Budget(r)'
        BY <1>1, <1>6, <2>1, <2>3, <3>1 DEF RowInv, Budget, Settled
      <3>. QED
        BY <1>1, <1>6, <2>1, <3>1, <3>2, <3>3 DEF RowInv, Ends
    <2>4. CASE row.status = "PROCESSING"
      <3>1. rows'[r] = marked /\ batch[w][q] = row.attempts
        BY <1>4, <1>6, <2>1, <2>4 DEF Held
      <3>2. /\ row.delivered <= row.failures + faults
            /\ row.attempts <= row.failures + faults
        BY <1>1, <2>1, <2>2, <2>4 DEF RowInv, Delivery, Attempts
      <3>3. Delivery(r)' /\ Attempts(r)'
        BY <1>1, <1>3, <3>1, <3>2 DEF Delivery, Attempts
      <3>4. Budget(r)'
        <4>1. CASE marked.status = "SCHEDULED"
          BY <1>1, <1>3, <2>1, <3>1, <4>1 DEF Budget, Spent
        <4>2. CASE marked.status # "SCHEDULED"
          BY <1>1, <1>3, <2>1, <3>1, <4>2 DEF RowInv, Budget, Settled
        <4>. QED
          BY <4>1, <4>2
      <3>5. marked.status = "EXHAUSTED" => row.failures + faults >= MaxAttempts
        BY <1>3, <2>1, <3>1, <3>2 DEF Spent
      <3>. QED
        BY <1>1, <1>3, <3>1, <3>3, <3>4, <3>5 DEF RowInv
    <2>. QED
      BY <2>3, <2>4
  <1>7. Seen(w)'
    BY <1>5 DEF Seen
  <1>8. faults' \in faults..MaxFaults
    BY <1>1 DEF TypeOK
  <1>9. ASSUME NEW r, r = q PROVE IInv'
    BY <1>1, <1>4, <1>5, <1>6, <1>7, <1>8, <1>9, RunStep
  <1>. QED
    BY <1>9

----------------------------------------------------------------------------
(* Faults *)

\* A fault covers what a row may owe, as long as it is not its run's last word.
LEMMA FaultKeepsRow ==
    ASSUME IInv, NEW r \in DOMAIN rows, rows'[r] = rows[r], UNCHANGED listingVars,
           faults' = faults + 1
    PROVE  RowInv(r)'
  <1>. USE ReminderAssumption
  <1>1. /\ RowInv(r) /\ faults \in Nat /\ rows[r] \in Row /\ now' = now /\ periods' = periods
    BY DEF IInv, TypeOK, listingVars
  <1>2. Delivery(r)' /\ Attempts(r)' /\ Budget(r)'
    BY <1>1 DEF RowInv, Delivery, Attempts, Budget, Row
  <1>. QED
    BY <1>1, <1>2 DEF RowInv, Ends, Row

\* A statement fails: the run takes it for an error of the provider.
LEMMA StatementStep ==
    ASSUME IInv, NEW w \in Workers, StatementFails(w)
    PROVE  IInv'
  <1>. USE ReminderAssumption
  <1>1. /\ faults < MaxFaults /\ faults' = faults + 1 /\ faults \in Nat
        /\ faults' \in faults..MaxFaults
        /\ UNCHANGED listingVars /\ batch' = batch /\ step' = [step EXCEPT ![w] = "transient"]
        /\ step'[w] = "transient"
        /\ \A v \in Workers : v # w => step'[v] = step[v] /\ batch'[v] = batch[v]
        /\ TypeOK
    BY DEF StatementFails, Fault, Goes, IInv, TypeOK
  <1>2. PICK r \in DOMAIN batch[w] :
           /\ at[w] \in {r, NoReminder} /\ at'[w] = r /\ at' = [at EXCEPT ![w] = r]
           /\ \/ rows' = rows /\ (step[w] = "next" \/ at[w] = r)
              \/ step[w] \in {"sent", "CANCEL", "DEFER"} /\ at[w] = r /\ Mark(at[w], Marked(w))
    <2>1. CASE step[w] = "next"
      BY <1>1, <2>1 DEF StatementFails, TypeOK, Verdict, Answer
    <2>2. CASE step[w] \in {"DEFER", "CANCEL", "sent"}
      <3>1. at[w] \in DOMAIN batch[w] /\ at' = at /\ at = [at EXCEPT ![w] = at[w]]
        BY <1>1, <2>2 DEF StatementFails, TypeOK, Verdict, Answer
      <3>2. UNCHANGED rows \/ Mark(at[w], Marked(w))
        BY <2>2 DEF StatementFails
      <3>. QED
        BY <2>2, <3>1, <3>2
    <2>. QED
      BY <2>1, <2>2 DEF StatementFails
  <1>3. /\ r \in DOMAIN rows /\ rows[r] \in Row /\ r \in Reminder
        /\ \A v \in Workers : v # w => at'[v] = at[v]
    BY <1>1, <1>2 DEF TypeOK
  <1>4. step[w] \notin {"transient", "permanent"}
    BY DEF StatementFails
  <1>5. Held(w, r) /\ rows[r].status = "PROCESSING"
    BY <1>4 DEF IInv, Held
  <1>6. /\ RowsTyped' /\ DOMAIN rows' = DOMAIN rows
        /\ \A s \in DOMAIN rows : s # r => rows'[s] = rows[s]
        /\ RowInv(r)' /\ Held(w, r)'
    <2>1. CASE rows' = rows
      <3>1. RowInv(r)'
        BY <1>1, <1>3, <2>1, FaultKeepsRow
      <3>2. Held(w, r)'
        BY <1>1, <1>2, <1>5, <2>1 DEF Held
      <3>. QED
        BY <1>1, <2>1, <3>1, <3>2 DEF TypeOK, RowsTyped, listingVars
    <2>2. CASE step[w] \in {"sent", "CANCEL", "DEFER"} /\ at[w] = r /\ Mark(at[w], Marked(w))
      <3>1. /\ RowsTyped'
            /\ DOMAIN rows' = DOMAIN rows
            /\ \A s \in DOMAIN rows : s # at[w] => rows'[s] = rows[s]
            /\ rows'[at[w]] = Marked(w)
            /\ Marked(w).status \in {"SENT", "CANCELLED", "SCHEDULED"}
            /\ Marked(w).status = "SCHEDULED" => Marked(w).held
            /\ Marked(w).lapsed = rows[at[w]].lapsed
            /\ \A s : s = at[w] => RowInv(s)'
        BY <1>1, <1>3, <2>2, MarkKeepsRow
      <3>2. Held(w, r)'
        BY <1>1, <1>2, <1>5, <2>2, <3>1 DEF Held
      <3>. QED
        BY <2>2, <3>1, <3>2
    <2>. QED
      BY <1>2, <2>1, <2>2
  <1>7. RunsTyped'
    <2>1. step' \in [Workers -> {"idle", "next"} \cup Verdict \cup Answer]
      BY <1>1 DEF TypeOK, Answer
    <2>2. at' \in [Workers -> Reminder \cup {NoReminder}]
      BY <1>1, <1>2, <1>3 DEF TypeOK
    <2>. QED
      BY <1>1, <1>2, <1>3, <1>6, <2>1, <2>2 DEF TypeOK, RunsTyped, Verdict, Answer
  <1>8. Seen(w)'
    BY <1>1 DEF Seen
  <1>. QED
    BY <1>1, <1>2, <1>3, <1>6, <1>7, <1>8, RunStep

\* A run fails to finalize the row, which stays as it is.
LEMMA FinalizationStep ==
    ASSUME IInv, NEW w \in Workers, FinalizationFails(w)
    PROVE  IInv'
  <1>. USE ReminderAssumption
  <1>1. /\ faults < MaxFaults /\ faults' = faults + 1 /\ faults \in Nat
        /\ faults' \in faults..MaxFaults /\ UNCHANGED listingVars /\ rows' = rows
        /\ step[w] \in Verdict \cup Answer /\ Done(w)
        /\ at[w] \in DOMAIN batch[w] /\ at[w] \in DOMAIN rows /\ TypeOK
    BY DEF FinalizationFails, Fault, IInv, TypeOK, Verdict, Answer
  <1>2. /\ RunsTyped'
        /\ step'[w] \in {"idle", "next"}
        /\ DOMAIN batch'[w] = DOMAIN batch[w] \ {at[w]}
        /\ \A s \in DOMAIN batch'[w] : batch'[w][s] = batch[w][s]
        /\ at'[w] = NoReminder
        /\ \A v \in Workers : v # w =>
              step'[v] = step[v] /\ at'[v] = at[v] /\ batch'[v] = batch[v]
    <2>1. DOMAIN rows' = DOMAIN rows
      BY <1>1
    <2>2. at'[w] = NoReminder
      BY <1>1 DEF Done, TypeOK
    <2>. QED
      BY <1>1, <2>1, <2>2, RunDone
  <1>3. RowsTyped'
    BY <1>1 DEF TypeOK, RowsTyped, listingVars
  <1>4. Seen(w)'
    BY <1>2 DEF Seen
  <1>5. ASSUME NEW r, r = at[w] PROVE IInv'
    <2>1. RowInv(r)'
      BY <1>1, <1>5, FaultKeepsRow
    <2>. QED
      BY <1>1, <1>2, <1>3, <1>4, <1>5, <2>1, RunStep
  <1>. QED
    BY <1>5

\* A run crashes: its rows stay as they are, and nobody holds them.
LEMMA CrashStep ==
    ASSUME IInv, NEW w \in Workers, Crash(w)
    PROVE  IInv'
  <1>. USE ReminderAssumption
  <1>1. /\ faults < MaxFaults /\ faults' = faults + 1 /\ faults \in Nat
        /\ UNCHANGED listingVars /\ rows' = rows /\ TypeOK
        /\ step'[w] = "idle" /\ at'[w] = NoReminder /\ batch'[w] = NoRows
        /\ \A v \in Workers : v # w =>
              step'[v] = step[v] /\ at'[v] = at[v] /\ batch'[v] = batch[v]
    BY DEF Crash, Fault, Goes, IInv, TypeOK
  <1>2. DOMAIN NoRows = {} /\ NoRows \in [DOMAIN NoRows -> Nat]
    BY DEF NoRows
  <1>3. RunsTyped'
    <2>1. /\ step' \in [Workers -> {"idle", "next"} \cup Verdict \cup Answer]
          /\ at' \in [Workers -> Reminder \cup {NoReminder}]
          /\ DOMAIN batch' = Workers
      BY DEF Crash, Goes, IInv, TypeOK
    <2>2. ASSUME NEW v \in Workers
          PROVE  /\ DOMAIN batch'[v] \subseteq DOMAIN rows'
                 /\ batch'[v] \in [DOMAIN batch'[v] -> Nat]
                 /\ step'[v] = "idle" <=> DOMAIN batch'[v] = {}
                 /\ IF step'[v] \in Verdict \cup Answer THEN at'[v] \in DOMAIN batch'[v]
                                                        ELSE at'[v] = NoReminder
      <3>1. CASE v = w
        BY <1>1, <1>2, <3>1 DEF Verdict, Answer
      <3>2. CASE v # w
        BY <1>1, <3>2 DEF TypeOK
      <3>. QED
        BY <3>1, <3>2
    <2>. QED
      BY <2>1, <2>2 DEF RunsTyped
  <1>4. TypeOK' /\ CoverInv'
    <2>1. ListingTypeOK' /\ CoverInv'
      BY <1>1 DEF TypeOK, ListingTypeOK, listingVars, IInv, CoverInv
    <2>2. RowsTyped' /\ faults' \in 0..MaxFaults
      BY <1>1 DEF TypeOK, RowsTyped, listingVars
    <2>. QED
      BY <1>3, <2>1, <2>2 DEF TypeOK, RowsTyped, RunsTyped
  <1>5. \A r \in DOMAIN rows' : RowInv(r)'
    BY <1>1, FaultKeepsRow
  <1>6. \A v \in Workers : Seen(v)'
    BY <1>1 DEF IInv, Seen, Ends, listingVars
  <1>7. \A v \in Workers : \A r \in DOMAIN batch'[v] : Held(v, r)'
    BY <1>1, <1>2 DEF IInv, Held
  <1>. QED
    BY <1>4, <1>5, <1>6, <1>7 DEF IInv

----------------------------------------------------------------------------
(* Claims *)

\* A claimed row is nobody's: the lease and the holds of a claimed row stand.
LEMMA ClaimStep ==
    ASSUME IInv, NEW w \in Workers, ClaimDueNotifications(w)
    PROVE  IInv'
  <1>. USE ReminderAssumption
  <1>. DEFINE Claimed(r) == [rows[r] EXCEPT !.status = "PROCESSING", !.lapsed = FALSE,
                                            !.attempts = @ + 1]
  <1>1. PICK claim \in SUBSET Due :
           /\ claim # {}
           /\ rows' = [r \in DOMAIN rows |-> IF r \in claim THEN Claimed(r) ELSE rows[r]]
           /\ batch' = [batch EXCEPT ![w] = [r \in claim |-> rows[r].attempts + 1]]
    BY DEF ClaimDueNotifications, OldestDue
  <1>2. /\ step[w] = "idle" /\ DOMAIN batch[w] = {} /\ at[w] = NoReminder /\ TypeOK
        /\ step'[w] = "next" /\ at' = at /\ faults' = faults /\ faults \in Nat
        /\ UNCHANGED listingVars
        /\ \A v \in Workers : v # w => step'[v] = step[v]
    <2>1. TypeOK /\ step[w] = "idle" /\ step' = [step EXCEPT ![w] = "next"]
      BY DEF ClaimDueNotifications, IInv
    <2>2. DOMAIN batch[w] = {} /\ at[w] = NoReminder
      BY <2>1 DEF TypeOK, Verdict, Answer
    <2>3. /\ step'[w] = "next"
          /\ \A v \in Workers : v # w => step'[v] = step[v]
      BY <2>1 DEF TypeOK
    <2>4. at' = at /\ faults' = faults /\ UNCHANGED listingVars
      BY DEF ClaimDueNotifications
    <2>5. faults \in Nat
      BY <2>1 DEF TypeOK
    <2>. QED
      BY <2>1, <2>2, <2>3, <2>4, <2>5
  <1>3. /\ DOMAIN batch'[w] = claim
        /\ \A r \in claim : batch'[w][r] = rows[r].attempts + 1
        /\ \A v \in Workers : v # w => batch'[v] = batch[v]
        /\ DOMAIN batch' = Workers
    BY <1>1, <1>2 DEF TypeOK
  <1>4. ASSUME NEW r \in claim
        PROVE  /\ r \in DOMAIN rows /\ rows[r] \in Row /\ r # NoReminder
               /\ rows[r].status \in {"SCHEDULED", "PROCESSING"}
               /\ \A v \in Workers : r \notin DOMAIN batch[v] /\ at[v] # r
    <2>1. /\ r \in DOMAIN rows /\ rows[r] \in Row /\ Claimable(r) /\ r # NoReminder
      BY <1>2 DEF Due, TypeOK, Reminder, NoReminder
    <2>2. \A v \in Workers : r \notin DOMAIN batch[v]
      BY <2>1 DEF IInv, Held, Claimable
    <2>3. \A v \in Workers : at[v] # r
      BY <1>2, <2>1, <2>2 DEF TypeOK
    <2>. QED
      BY <2>1, <2>2, <2>3 DEF Claimable
  <1>5. ASSUME NEW r \in claim
        PROVE  /\ rows'[r] \in Row /\ rows'[r].status = "PROCESSING" /\ ~rows'[r].lapsed
               /\ rows'[r].attempts = rows[r].attempts + 1
               /\ rows'[r].failures = rows[r].failures
               /\ rows'[r].delivered = rows[r].delivered
    <2>1. rows'[r] = Claimed(r) /\ rows[r] \in Row
      BY <1>1, <1>4
    <2>2. Claimed(r) \in Row
      BY <2>1, StoredRows
    <2>. QED
      BY <2>1, <2>2 DEF Row
  <1>6. DOMAIN rows' = DOMAIN rows /\ \A r \in DOMAIN rows \ claim : rows'[r] = rows[r]
    BY <1>1
  <1>7. RowsTyped'
    <2>1. \A r \in DOMAIN rows : rows'[r] \in Row
      BY <1>2, <1>5, <1>6 DEF TypeOK
    <2>. QED
      BY <1>1, <1>2, <1>6, <2>1 DEF TypeOK, RowsTyped, listingVars
  <1>8. RunsTyped'
    <2>1. batch'[w] \in [claim -> Nat]
      <3>1. \A r \in claim : rows[r].attempts + 1 \in Nat
        BY <1>4 DEF Row
      <3>2. batch'[w] = [r \in claim |-> rows[r].attempts + 1]
        BY <1>1, <1>2 DEF TypeOK
      <3>. QED
        BY <3>1, <3>2
    <2>2. step' \in [Workers -> {"idle", "next"} \cup Verdict \cup Answer]
      BY <1>2 DEF TypeOK, ClaimDueNotifications
    <2>3. claim \subseteq DOMAIN rows
      BY <1>4
    <2>4. ASSUME NEW v \in Workers
          PROVE  /\ DOMAIN batch'[v] \subseteq DOMAIN rows'
                 /\ batch'[v] \in [DOMAIN batch'[v] -> Nat]
                 /\ step'[v] = "idle" <=> DOMAIN batch'[v] = {}
                 /\ IF step'[v] \in Verdict \cup Answer THEN at'[v] \in DOMAIN batch'[v]
                                                        ELSE at'[v] = NoReminder
      <3>1. CASE v = w
        <4>1. claim # {}
          BY <1>1
        <4>. QED
          BY <1>2, <1>3, <1>6, <2>1, <2>3, <3>1, <4>1 DEF Verdict, Answer
      <3>2. CASE v # w
        BY <1>2, <1>3, <1>6, <3>2 DEF TypeOK
      <3>. QED
        BY <3>1, <3>2
    <2>5. at' \in [Workers -> Reminder \cup {NoReminder}]
      BY <1>2 DEF TypeOK
    <2>. QED
      BY <1>3, <2>2, <2>4, <2>5 DEF RunsTyped
  <1>9. TypeOK' /\ CoverInv'
    <2>1. ListingTypeOK' /\ CoverInv'
      BY <1>2 DEF TypeOK, ListingTypeOK, listingVars, IInv, CoverInv
    <2>2. faults' \in 0..MaxFaults
      BY <1>2 DEF TypeOK
    <2>. QED
      BY <1>7, <1>8, <2>1, <2>2 DEF TypeOK, RowsTyped, RunsTyped
  <1>10. ASSUME NEW r \in DOMAIN rows' PROVE RowInv(r)'
    <2>1. CASE r \in claim
      <3>1. /\ RowInv(r) /\ rows[r].delivered \in Nat /\ rows[r].failures \in Nat
            /\ rows[r].attempts \in Nat
        BY <1>4, <2>1 DEF IInv, Row
      <3>2. /\ rows[r].delivered <= rows[r].failures + faults
            /\ rows[r].attempts <= rows[r].failures + faults
            /\ rows[r].attempts < MaxAttempts + faults
        BY <1>4, <2>1, <3>1 DEF RowInv, Delivery, Attempts, Budget, Fresh, Settled, Unclaimed
      <3>3. Fresh(w, r)' /\ ~Unclaimed(r)'
        BY <1>2, <1>3, <1>4, <2>1 DEF Fresh, Unclaimed
      <3>4. Delivery(r)'
        BY <1>2, <1>5, <2>1, <3>2 DEF Delivery
      <3>5. Attempts(r)'
        BY <1>2, <1>5, <2>1, <3>1, <3>2, <3>3 DEF Attempts
      <3>6. Budget(r)'
        BY <1>2, <1>5, <2>1, <3>1, <3>2, <3>3 DEF Budget
      <3>. QED
        BY <1>5, <2>1, <3>4, <3>5, <3>6 DEF RowInv
    <2>2. CASE r \notin claim
      <3>1. r \in DOMAIN rows /\ rows'[r] = rows[r]
        BY <1>6, <2>2
      <3>2. \A v \in Workers : r \in DOMAIN batch'[v] <=> r \in DOMAIN batch[v]
        BY <1>2, <1>3, <2>2
      <3>3. \A v \in Workers : at[v] = r \/ at'[v] = r => at'[v] = at[v] /\ step'[v] = step[v]
        BY <1>2, <3>1 DEF TypeOK, Reminder, NoReminder
      <3>4. PeriodsGrow /\ now' \in Nat /\ faults' \in Nat /\ faults' >= faults
        BY <1>2 DEF PeriodsGrow, TypeOK, ListingTypeOK, listingVars
      <3>. QED
        BY <3>1, <3>2, <3>3, <3>4, RowKept
    <2>. QED
      BY <2>1, <2>2
  <1>11. ASSUME NEW v \in Workers PROVE Seen(v)'
    <2>1. CASE v = w
      BY <1>2, <2>1 DEF Seen
    <2>2. CASE v # w
      <3>1. step'[v] = step[v] /\ at'[v] = at[v] /\ Seen(v)
        BY <1>2, <2>2 DEF IInv
      <3>2. ASSUME step[v] \in Verdict \cup Answer
            PROVE  rows'[at[v]] = rows[at[v]]
        <4>1. at[v] \in DOMAIN rows /\ at[v] \notin claim
          BY <1>2, <1>4, <3>2 DEF TypeOK
        <4>. QED
          BY <1>6, <4>1
      <3>. QED
        BY <1>2, <3>1, <3>2 DEF Seen, Ends, listingVars, Verdict, Answer
    <2>. QED
      BY <2>1, <2>2
  <1>12. ASSUME NEW v \in Workers, NEW r \in DOMAIN batch'[v] PROVE Held(v, r)'
    <2>1. CASE r \in claim
      <3>1. \A u \in Workers : r \in DOMAIN batch'[u] => u = w
        BY <1>3, <1>4, <2>1
      <3>. QED
        BY <1>3, <1>5, <2>1, <3>1 DEF Held
    <2>2. CASE r \notin claim
      <3>1. v # w /\ batch'[v] = batch[v] /\ Held(v, r) /\ step'[v] = step[v] /\ at' = at
        BY <1>2, <1>3, <2>2 DEF IInv
      <3>2. rows'[r] = rows[r]
        BY <1>2, <1>6, <2>2, <3>1 DEF TypeOK
      <3>3. \A u \in Workers : r \in DOMAIN batch'[u] => r \in DOMAIN batch[u]
        BY <1>3, <2>2
      <3>. QED
        BY <3>1, <3>2, <3>3 DEF Held
    <2>. QED
      BY <2>1, <2>2
  <1>. QED
    BY <1>9, <1>10, <1>11, <1>12 DEF IInv

----------------------------------------------------------------------------
(* Steps nobody claimed a row for *)

\* A step that leaves the runs and the rows of their batches alone preserves
\* the invariant when it does so for every row.
LEMMA QuietStep ==
    ASSUME IInv, UNCHANGED <<runVars, faults>>, ListingTypeOK', CoverInv', PeriodsGrow,
           RowsTyped', DOMAIN rows \subseteq DOMAIN rows',
           \A w \in Workers : \A r \in DOMAIN batch[w] : rows'[r] = rows[r],
           \A r \in DOMAIN rows' : RowInv(r)'
    PROVE  IInv'
  <1>1. /\ TypeOK /\ step' = step /\ at' = at /\ batch' = batch /\ faults' = faults
    BY DEF IInv, runVars
  <1>2. RunsTyped'
    BY <1>1 DEF TypeOK, RunsTyped
  <1>3. TypeOK'
    BY <1>1, <1>2 DEF TypeOK, RowsTyped, RunsTyped
  <1>4. ASSUME NEW w \in Workers PROVE Seen(w)'
    <2>1. CASE step[w] \in Verdict \cup Answer
      <3>1. at[w] \in DOMAIN batch[w] /\ at[w] \in DOMAIN rows /\ at[w].period \in DOMAIN periods
        BY <1>1, <2>1 DEF TypeOK
      <3>2. periods[at[w].period] \in Period /\ now \in Nat
        BY <1>1, <3>1 DEF TypeOK, ListingTypeOK
      <3>3. rows'[at[w]] = rows[at[w]] /\ periods'[at[w].period].ends = periods[at[w].period].ends
        BY <3>1 DEF PeriodsGrow
      <3>4. step[w] = "sent" => rows'[at[w]].delivered > 0
        BY <3>3 DEF IInv, Seen
      <3>5. step[w] = "CANCEL" => Ends(at[w]) <= now
        BY DEF IInv, Seen
      <3>6. Ends(at[w])' = Ends(at[w])
        BY <1>1, <3>3 DEF Ends
      <3>7. Ends(at[w]) \in Nat /\ now' \in Nat /\ now' >= now
        BY <3>2 DEF Ends, PeriodsGrow, ListingTypeOK, Period
      <3>8. Ends(at[w]) <= now => Ends(at[w])' <= now'
        BY <3>2, <3>6, <3>7
      <3>. QED
        BY <1>1, <3>4, <3>5, <3>8 DEF Seen
    <2>2. CASE step[w] \notin Verdict \cup Answer
      BY <1>1, <2>2 DEF Seen, Verdict, Answer
    <2>. QED
      BY <2>1, <2>2
  <1>5. \A w \in Workers : \A r \in DOMAIN batch'[w] : Held(w, r)'
    BY <1>1 DEF IInv, Held
  <1>. QED
    BY <1>3, <1>4, <1>5 DEF IInv

\* The listing or its seller moves, or time does: no period that was over comes back.
LEMMA ListingKept ==
    ASSUME IInv, Listing
    PROVE  IInv'
  <1>1. /\ ListingTypeOK' /\ CoverInv' /\ PeriodsGrow
        /\ UNCHANGED <<runVars, faults>> /\ rows' = rows /\ UNCHANGED runVars
    BY ListingStep DEF Listing, IInv, TypeOK
  <1>2. RowsTyped'
    BY <1>1 DEF IInv, TypeOK, RowsTyped, PeriodsGrow
  <1>3. \A r \in DOMAIN rows' : RowInv(r)'
    <2>1. now' \in Nat /\ faults' \in Nat /\ faults' >= faults
      BY <1>1, ReminderAssumption DEF IInv, TypeOK, ListingTypeOK
    <2>. QED
      BY <1>1, <2>1, RowKept DEF runVars
  <1>. QED
    BY <1>1, <1>2, <1>3, QuietStep

\* A scheduled reminder owes nothing and has its whole budget.
LEMMA ScheduleStep ==
    ASSUME IInv, ScheduleExpiryReminders
    PROVE  IInv'
  <1>. USE ReminderAssumption
  <1>1. /\ rows' = [r \in DOMAIN rows \cup Scheduled |->
                       IF r \in DOMAIN rows THEN rows[r] ELSE FreshRow]
        /\ UNCHANGED <<runVars, faults>> /\ UNCHANGED runVars /\ UNCHANGED listingVars /\ TypeOK
    BY DEF ScheduleExpiryReminders, IInv
  <1>2. /\ ListingTypeOK' /\ CoverInv' /\ PeriodsGrow
    BY <1>1 DEF IInv, TypeOK, ListingTypeOK, CoverInv, PeriodsGrow, listingVars
  <1>3. Scheduled \subseteq {r \in Reminder : r.period \in DOMAIN periods'}
    <2>1. DOMAIN periods' = DOMAIN periods /\ DOMAIN periods \subseteq Nat \ {0}
      BY <1>1 DEF TypeOK, ListingTypeOK, listingVars
    <2>. QED
      BY <2>1 DEF Scheduled, Reminder
  <1>4. RowsTyped'
    <2>1. /\ DOMAIN rows' = DOMAIN rows \cup Scheduled
          /\ DOMAIN rows \subseteq {r \in Reminder : r.period \in DOMAIN periods'}
          /\ FreshRow \in Row
          /\ \A r \in DOMAIN rows : rows[r] \in Row
      BY <1>1, <1>2 DEF TypeOK, PeriodsGrow, FreshRow, Row
    <2>. QED
      BY <1>1, <1>3, <2>1 DEF RowsTyped
  <1>5. ASSUME NEW r \in DOMAIN rows' PROVE RowInv(r)'
    <2>1. CASE r \in DOMAIN rows
      <3>1. /\ rows'[r] = rows[r] /\ now' \in Nat /\ faults' \in Nat /\ faults' >= faults
        BY <1>1, <2>1 DEF TypeOK, ListingTypeOK, listingVars
      <3>. QED
        BY <1>1, <1>2, <2>1, <3>1, RowKept DEF runVars
    <2>2. CASE r \notin DOMAIN rows
      <3>1. rows'[r] = FreshRow /\ faults' \in Nat
        BY <1>1, <2>2 DEF TypeOK
      <3>2. /\ rows'[r].status = "SCHEDULED" /\ rows'[r].attempts = 0
            /\ rows'[r].failures = 0 /\ rows'[r].delivered = 0
        BY <3>1 DEF FreshRow
      <3>3. Delivery(r)' /\ Attempts(r)'
        BY <3>1, <3>2 DEF Delivery, Attempts
      <3>4. Budget(r)'
        <4>1. MaxAttempts \in Nat /\ MaxAttempts > 0
          BY ReminderAssumption
        <4>2. 0 < MaxAttempts + faults'
          <5>1. faults' = faults /\ faults \in Nat
            BY <1>1 DEF TypeOK
          <5>2. 0 < MaxAttempts + faults
            BY <4>1, <5>1
          <5>. QED
            BY <5>1, <5>2
        <4>. QED
          BY <3>2, <4>2 DEF Budget
      <3>. QED
        BY <3>2, <3>3, <3>4 DEF RowInv
    <2>. QED
      BY <2>1, <2>2
  <1>6. \A w \in Workers : \A r \in DOMAIN batch[w] : rows'[r] = rows[r]
    BY <1>1 DEF TypeOK
  <1>. QED
    BY <1>1, <1>2, <1>4, <1>5, <1>6, QuietStep

\* A hold or a lease of a row nobody claimed ends.
LEMMA AgeStep ==
    ASSUME IInv, NEW r \in DOMAIN rows, Timely, HoldEnds(r) \/ LeaseLapses(r)
    PROVE  IInv'
  <1>. USE ReminderAssumption
  <1>1. /\ UNCHANGED <<runVars, faults>> /\ UNCHANGED runVars /\ UNCHANGED listingVars /\ TypeOK
        /\ Unclaimed(r) /\ rows[r] \in Row /\ faults' = faults /\ faults \in Nat
    BY DEF HoldEnds, LeaseLapses, IInv, TypeOK
  <1>2. PICK row \in {[rows[r] EXCEPT !.held = FALSE], [rows[r] EXCEPT !.lapsed = TRUE]} :
           rows' = [rows EXCEPT ![r] = row]
    BY DEF HoldEnds, LeaseLapses
  <1>3. /\ row \in Row /\ row.status = rows[r].status /\ row.attempts = rows[r].attempts
        /\ row.failures = rows[r].failures /\ row.delivered = rows[r].delivered
    BY <1>1, <1>2 DEF Row
  <1>4. /\ RowsTyped'
        /\ DOMAIN rows' = DOMAIN rows
        /\ rows'[r] = row
        /\ \A s \in DOMAIN rows : s # r => rows'[s] = rows[s]
    BY <1>1, <1>2, <1>3, RowUpdated DEF listingVars
  <1>5. /\ ListingTypeOK' /\ CoverInv' /\ PeriodsGrow
    BY <1>1 DEF IInv, TypeOK, ListingTypeOK, CoverInv, PeriodsGrow, listingVars
  <1>6. ASSUME NEW s \in DOMAIN rows' PROVE RowInv(s)'
    <2>1. CASE s = r
      <3>1. RowInv(s)
        BY <1>4 DEF IInv
      <3>2. \A w \in Workers : Fresh(w, s)' = Fresh(w, s)
        BY <1>1 DEF Fresh, runVars
      <3>3. Delivery(s)' /\ Attempts(s)' /\ Budget(s)'
        BY <1>1, <1>3, <1>4, <2>1, <3>1, <3>2
           DEF RowInv, Delivery, Attempts, Budget, Settled, Unclaimed, runVars
      <3>. QED
        BY <1>1, <1>3, <1>4, <2>1, <3>1, <3>3 DEF RowInv, Ends, listingVars
    <2>2. CASE s # r
      <3>1. /\ now' \in Nat /\ faults' \in Nat /\ faults' >= faults
        BY <1>1 DEF TypeOK, ListingTypeOK, listingVars
      <3>. QED
        BY <1>1, <1>4, <1>5, <2>2, <3>1, RowKept DEF runVars
    <2>. QED
      BY <2>1, <2>2
  <1>7. \A w \in Workers : \A s \in DOMAIN batch[w] : rows'[s] = rows[s]
    BY <1>1, <1>4 DEF TypeOK, Unclaimed
  <1>. QED
    BY <1>1, <1>4, <1>5, <1>6, <1>7, QuietStep

----------------------------------------------------------------------------
(* The theorems *)

\* The initial states satisfy the invariant.
LEMMA InvariantInit == Init => IInv
  <1>. SUFFICES ASSUME Init PROVE IInv
    OBVIOUS
  <1>1. DOMAIN NoRows = {} /\ NoRows \in [DOMAIN NoRows -> Row] /\ NoRows \in [DOMAIN NoRows -> Nat]
    BY DEF NoRows
  <1>2. ListingTypeOK /\ CoverInv
    BY DEF Init, ListingInit, ListingTypeOK, CoverInv
  <1>3. RowsTyped
    BY <1>1 DEF Init, RowsTyped
  <1>4. RunsTyped
    BY <1>1 DEF Init, RunsTyped, Verdict, Answer
  <1>5. TypeOK
    BY <1>2, <1>3, <1>4, ReminderAssumption DEF TypeOK, RowsTyped, RunsTyped, Init
  <1>6. \A w \in Workers : Seen(w) /\ DOMAIN batch[w] = {}
    BY <1>1 DEF Init, Seen
  <1>. QED
    BY <1>1, <1>2, <1>5, <1>6 DEF Init, IInv

\* Every step preserves it when runs end before their leases.
LEMMA InvariantStep == Timely /\ IInv /\ [Next]_vars => IInv'
  <1>. SUFFICES ASSUME Timely, IInv, [Next]_vars PROVE IInv'
    OBVIOUS
  <1>1. CASE Listing
    BY <1>1, ListingKept
  <1>2. CASE ScheduleExpiryReminders
    BY <1>2, ScheduleStep
  <1>3. ASSUME NEW w \in Workers, RunExpiryReminders(w) PROVE IInv'
    BY <1>3, ClaimStep, CheckStep, SendStep, MarkStep, ErrorStep DEF RunExpiryReminders, Finish
  <1>4. ASSUME NEW w \in Workers, StatementFails(w) \/ FinalizationFails(w) \/ Crash(w)
        PROVE  IInv'
    BY <1>4, StatementStep, FinalizationStep, CrashStep
  <1>5. ASSUME NEW r \in DOMAIN rows, HoldEnds(r) \/ LeaseLapses(r) PROVE IInv'
    BY <1>5, AgeStep
  <1>6. CASE UNCHANGED vars
    <2>1. UNCHANGED listingVars /\ rows' = rows /\ UNCHANGED <<runVars, faults>>
      BY <1>6 DEF vars
    <2>. QED
      BY <2>1 DEF IInv, TypeOK, ListingTypeOK, CoverInv, RowInv, Delivery, Attempts, Budget,
                  Fresh, Unclaimed, Settled, Seen, Held, Ends, runVars, listingVars
  <1>. QED
    BY <1>1, <1>2, <1>3, <1>4, <1>5, <1>6 DEF Next

\* The invariant holds throughout.
THEOREM Inductive == Timely => (Spec => []IInv)
  <1>. SUFFICES ASSUME Timely PROVE Spec => []IInv
    OBVIOUS
  <1>1. IInv /\ [Next]_vars => IInv'
    BY InvariantStep
  <1>. QED
    BY InvariantInit, <1>1, PTL DEF Spec

\* Rows, runs and the listing keep their types: a run never goes on with a row
\* it has not claimed, nor stays busy with an empty batch.
THEOREM TypeCorrect == Timely => (Spec => []TypeOK)
  <1>. SUFFICES ASSUME Timely PROVE Spec => []TypeOK
    OBVIOUS
  <1>1. IInv => TypeOK
    BY DEF IInv
  <1>. QED
    BY <1>1, Inductive, PTL

\* A reminder is only cancelled when its period is over.
THEOREM NothingInForceIsCancelled == Timely => (Spec => []CancelledIsOver)
  <1>. SUFFICES ASSUME Timely PROVE Spec => []CancelledIsOver
    OBVIOUS
  <1>1. IInv => CancelledIsOver
    BY DEF IInv, RowInv, CancelledIsOver
  <1>. QED
    BY <1>1, Inductive, PTL

\* Messages after the first are each paid for by an error answer or a fault,
\* whatever runs overlap.
THEOREM NoUnexplainedDuplicate == Timely => (Spec => []DuplicatesAreExplained)
  <1>. SUFFICES ASSUME Timely PROVE Spec => []DuplicatesAreExplained
    OBVIOUS
  <1>1. IInv => DuplicatesAreExplained
    BY DEF IInv, TypeOK, Row, RowInv, Delivery, DuplicatesAreExplained
  <1>. QED
    BY <1>1, Inductive, PTL

\* A reminder recorded as sent reached its seller.
THEOREM SentReached == Timely => (Spec => []SentWasDelivered)
  <1>. SUFFICES ASSUME Timely PROVE Spec => []SentWasDelivered
    OBVIOUS
  <1>1. IInv => SentWasDelivered
    BY DEF IInv, RowInv, SentWasDelivered
  <1>. QED
    BY <1>1, Inductive, PTL

\* A reminder is given up only after its whole budget of errors and faults.
THEOREM GivenUpWasTried == Timely => (Spec => []ExhaustionIsEarned)
  <1>. SUFFICES ASSUME Timely PROVE Spec => []ExhaustionIsEarned
    OBVIOUS
  <1>1. IInv => ExhaustionIsEarned
    BY DEF IInv, RowInv, ExhaustionIsEarned
  <1>. QED
    BY <1>1, Inductive, PTL

\* Reclaims push a row over its budget only by as many attempts as there were faults.
THEOREM AttemptsBounded == Timely => (Spec => []BudgetIsKept)
  <1>. SUFFICES ASSUME Timely PROVE Spec => []BudgetIsKept
    OBVIOUS
  <1>1. IInv => BudgetIsKept
    BY ReminderAssumption DEF IInv, TypeOK, Row, RowInv, Budget, BudgetIsKept
  <1>. QED
    BY <1>1, Inductive, PTL

\* A settled row is in no state a run acts on: no claim takes it, no mark moves
\* it, and no message is sent for it.
THEOREM SettlementStays == Timely => (Spec => SettledStays)
  <1>. SUFFICES ASSUME Timely PROVE Spec => SettledStays
    OBVIOUS
  <1>. DEFINE Same(r) == rows'[r].status = rows[r].status /\ rows'[r].delivered = rows[r].delivered
  <1>1. ASSUME IInv, [Next]_vars, NEW r \in DOMAIN rows, Settled(r) PROVE Same(r)
    <2>1. TypeOK /\ rows[r] \in Row /\ rows[r].status \notin {"SCHEDULED", "PROCESSING"}
      BY <1>1 DEF IInv, TypeOK, Settled
    <2>2. CASE UNCHANGED rows
      BY <2>2
    <2>3. CASE ScheduleExpiryReminders
      BY <1>1, <2>3 DEF ScheduleExpiryReminders
    <2>4. ASSUME NEW w \in Workers, ClaimDueNotifications(w) PROVE Same(r)
      BY <1>1, <2>1, <2>4 DEF ClaimDueNotifications, Due, Claimable
    <2>5. ASSUME NEW w \in Workers, SendTemplate(w) PROVE Same(r)
      <3>1. at[w] \in DOMAIN batch[w] /\ at[w] # r
        BY <1>1, <2>1, <2>5 DEF SendTemplate, IInv, TypeOK, Held, Verdict, Answer
      <3>. QED
        BY <2>1, <2>5, <3>1 DEF SendTemplate, TypeOK
    <2>6. ASSUME NEW q, NEW row, Mark(q, row) PROVE Same(r)
      BY <2>1, <2>6 DEF Mark, TypeOK
    <2>7. ASSUME NEW s \in DOMAIN rows, HoldEnds(s) \/ LeaseLapses(s) PROVE Same(r)
      <3>1. PICK row \in {[rows[s] EXCEPT !.held = FALSE], [rows[s] EXCEPT !.lapsed = TRUE]} :
               rows' = [rows EXCEPT ![s] = row]
        BY <2>7 DEF HoldEnds, LeaseLapses
      <3>2. /\ rows[s] \in Row
            /\ row.status = rows[s].status /\ row.delivered = rows[s].delivered
        BY <2>1, <3>1 DEF TypeOK, Row
      <3>. QED
        BY <2>1, <3>1, <3>2 DEF TypeOK
    <2>8. ASSUME NEW w \in Workers,
                 \/ CheckEligibility(w) \/ MarkNotification(w) \/ MarkNotificationFailed(w)
                 \/ ScheduleNotificationRetry(w) \/ StatementFails(w)
                 \/ FinalizationFails(w) \/ Crash(w)
          PROVE  UNCHANGED rows \/ \E q, row : Mark(q, row)
      BY <2>8 DEF CheckEligibility, MarkNotification, MarkNotificationFailed,
                  ScheduleNotificationRetry, StatementFails, FinalizationFails, Crash
    <2>9. CASE Listing \/ UNCHANGED vars
      BY <2>2, <2>9 DEF Listing, vars
    <2>. QED
      BY <1>1, <2>2, <2>3, <2>4, <2>5, <2>6, <2>7, <2>8, <2>9
         DEF Next, RunExpiryReminders, Finish
  <1>2. IInv /\ [Next]_vars => [\A r \in DOMAIN rows : Settled(r) => Same(r)]_vars
    BY <1>1
  <1>. QED
    BY <1>2, Inductive, PTL DEF Spec, SettledStays
=============================================================================
