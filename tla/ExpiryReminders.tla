-------------------------- MODULE ExpiryReminders --------------------------
(***************************************************************************)
(* Expiry reminders of one listing: scheduling, the claims of overlapping  *)
(* workers with their lease, the eligibility check at sending time, the    *)
(* message provider, retries and deferrals (services/lifecycle-jobs.ts     *)
(* runExpiryReminders, repositories/lifecycle-jobs.ts), composed with the  *)
(* validity of the listing.                                                *)
(*                                                                         *)
(* Every statement of a worker commits on its own, so each is an action;   *)
(* the provider is called between two of them.                             *)
(***************************************************************************)
EXTENDS ListingValidity, FiniteSets

CONSTANTS
    Workers,     \* overlapping runs of the job
    Offsets,     \* EXPIRY_REMINDER_OFFSETS_DAYS
    Horizon,     \* days before the end of a period its reminders are scheduled
    Batch,       \* NOTIFICATION_BATCH
    MaxAttempts, \* NOTIFICATION_MAX_ATTEMPTS
    MaxFaults,   \* bound: crashes of workers and statements that fail
    Timely       \* a run ends before the leases and holds of its rows do

ASSUME ReminderAssumption ==
    /\ Offsets \subseteq Nat \ {0}
    /\ Horizon \in Nat /\ MaxFaults \in Nat
    /\ Batch \in Nat \ {0} /\ MaxAttempts \in Nat \ {0}
    /\ Timely \in BOOLEAN

VARIABLES
    rows,  \* the notifications, by their dedupe_key: period and offset
    step,  \* of a run: where it is with the row at hand
    at,    \* of a run: the row at hand
    batch, \* of a run: its claimed rows that are left, with attempt_count as claimed
    faults \* history: crashes and failed statements so far

runVars == <<step, at, batch>>
vars == <<listingVars, rows, runVars, faults>>

Reminder == [period : Nat \ {0}, offset : Offsets]
NoReminder == [period |-> 0, offset |-> 0]

\* A row of notifications.  held: next_retry_at is ahead; lapsed: updated_at is
\* older than the lease.  FAILED carries its provider_error_code: REFUSED for
\* PROVIDER_PERMANENT, EXHAUSTED for RETRIES_EXHAUSTED.  failures and delivered
\* are history: error answers of the provider, messages that reached the seller.
Row == [status : {"SCHEDULED", "PROCESSING", "SENT", "CANCELLED", "REFUSED", "EXHAUSTED"},
        attempts : Nat, held : BOOLEAN, lapsed : BOOLEAN,
        failures : Nat, delivered : Nat]

FreshRow == [status |-> "SCHEDULED", attempts |-> 0, held |-> FALSE, lapsed |-> FALSE,
             failures |-> 0, delivered |-> 0]

\* The verdict on the row at hand; what the run saw of the provider's answer.
Verdict == {"SEND", "DEFER", "CANCEL"}
Answer == {"sent", "transient", "permanent"}

NoRows == [r \in {} |-> 0]

TypeOK ==
    /\ ListingTypeOK
    /\ DOMAIN rows \subseteq {r \in Reminder : r.period \in DOMAIN periods}
    /\ rows \in [DOMAIN rows -> Row]
    /\ step \in [Workers -> {"idle", "next"} \cup Verdict \cup Answer]
    /\ at \in [Workers -> Reminder \cup {NoReminder}]
    /\ DOMAIN batch = Workers
    /\ \A w \in Workers :
          /\ DOMAIN batch[w] \subseteq DOMAIN rows
          /\ batch[w] \in [DOMAIN batch[w] -> Nat]
          /\ step[w] = "idle" <=> DOMAIN batch[w] = {}
          /\ IF step[w] \in Verdict \cup Answer THEN at[w] \in DOMAIN batch[w]
                                                ELSE at[w] = NoReminder
    /\ faults \in 0..MaxFaults

Init ==
    /\ ListingInit
    /\ rows = NoRows
    /\ step = [w \in Workers |-> "idle"]
    /\ at = [w \in Workers |-> NoReminder]
    /\ batch = [w \in Workers |-> NoRows]
    /\ faults = 0

----------------------------------------------------------------------------
(* Scheduling *)

Ends(r) == periods[r.period].ends

\* The rows scheduleExpiryReminders selects: for the current period of an
\* ACTIVE listing, inside the horizon, their sending time still ahead.
Scheduled ==
    {r \in [period : DOMAIN periods, offset : Offsets] :
        /\ status = "ACTIVE"
        /\ periods[r.period].live
        /\ Ends(r) = expiresAt
        /\ Ends(r) > now
        /\ Ends(r) <= now + Horizon
        /\ Ends(r) > now + r.offset}

ScheduleExpiryReminders ==
    /\ Scheduled \ DOMAIN rows # {}
    /\ rows' = [r \in DOMAIN rows \cup Scheduled |->
                   IF r \in DOMAIN rows THEN rows[r] ELSE FreshRow]
    /\ UNCHANGED <<listingVars, runVars, faults>>

----------------------------------------------------------------------------
(* Claims *)

SendingTimeCame(r) == Ends(r) <= now + r.offset

\* Mutant of Claimable: an abandoned row is never reclaimed.
ClaimableOnce(r) ==
    rows[r].status = "SCHEDULED" /\ SendingTimeCame(r) /\ ~rows[r].held

\* Mutant of Claimable: a row in processing is taken without waiting for its lease.
ClaimableUnleased(r) ==
    \/ rows[r].status = "SCHEDULED" /\ SendingTimeCame(r) /\ ~rows[r].held
    \/ rows[r].status = "PROCESSING"

Claimable(r) ==
    \/ rows[r].status = "SCHEDULED" /\ SendingTimeCame(r) /\ ~rows[r].held
    \/ rows[r].status = "PROCESSING" /\ rows[r].lapsed

Due == {r \in DOMAIN rows : Claimable(r)}

\* r is scheduled for an earlier time than s.
Before(r, s) == Ends(r) + s.offset < Ends(s) + r.offset

\* The oldest due rows, at most Batch of them.
OldestDue(claim) ==
    /\ claim \subseteq Due
    /\ claim # {}
    /\ Cardinality(claim) <= Batch
    /\ claim = Due \/ Cardinality(claim) = Batch
    /\ \A r \in claim, s \in Due \ claim : ~Before(s, r)

ClaimDueNotifications(w) ==
    /\ step[w] = "idle"
    /\ \E claim \in SUBSET Due :
          /\ OldestDue(claim)
          /\ rows' = [r \in DOMAIN rows |->
                        IF r \in claim
                           THEN [rows[r] EXCEPT !.status = "PROCESSING", !.lapsed = FALSE,
                                                !.attempts = @ + 1]
                           ELSE rows[r]]
          /\ batch' = [batch EXCEPT ![w] = [r \in claim |-> rows[r].attempts + 1]]
    /\ step' = [step EXCEPT ![w] = "next"]
    /\ UNCHANGED <<listingVars, at, faults>>

----------------------------------------------------------------------------
(* One row of the batch *)

Goes(w, to) == step' = [step EXCEPT ![w] = to]

Current(r) == Ends(r) = expiresAt /\ Ends(r) > now

\* Mutant of Eligibility: a suspended listing is treated like a closed one.
EligibleOrCancelled(r) ==
    IF Current(r) /\ status = "ACTIVE" THEN "SEND" ELSE "CANCEL"

\* reminderEligibility
Eligibility(r) ==
    IF Current(r) /\ status = "SUSPENDED" THEN "DEFER"
    ELSE IF Current(r) /\ status = "ACTIVE" THEN "SEND"
    ELSE "CANCEL"

\* The next row of the batch, and the verdict read for it.
CheckEligibility(w) ==
    /\ step[w] = "next"
    /\ \E r \in DOMAIN batch[w] :
          /\ at' = [at EXCEPT ![w] = r]
          /\ Goes(w, Eligibility(r))
    /\ UNCHANGED <<listingVars, rows, batch, faults>>

\* Mutant of SendTemplate: an error answer is not looked at.
SendAndForget(w) ==
    /\ step[w] = "SEND"
    /\ \E answer \in Answer, arrives \in BOOLEAN :
          /\ answer = "sent" => arrives
          /\ answer = "permanent" => ~arrives
          /\ rows' = [rows EXCEPT ![at[w]].delivered = IF arrives THEN @ + 1 ELSE @,
                                  ![at[w]].failures = IF answer = "sent" THEN @ ELSE @ + 1]
          /\ Goes(w, "sent")
    /\ UNCHANGED <<listingVars, at, batch, faults>>

\* The provider answers, or does not: a transient failure (a timeout, a lost
\* answer) tells nothing about whether the message reached the seller.
SendTemplate(w) ==
    /\ step[w] = "SEND"
    /\ \E answer \in Answer, arrives \in BOOLEAN :
          /\ answer = "sent" => arrives
          /\ answer = "permanent" => ~arrives
          /\ rows' = [rows EXCEPT ![at[w]].delivered = IF arrives THEN @ + 1 ELSE @,
                                  ![at[w]].failures = IF answer = "sent" THEN @ ELSE @ + 1]
          /\ Goes(w, answer)
    /\ UNCHANGED <<listingVars, at, batch, faults>>

\* Mutant of Done: the run goes on with a batch that is used up.
DoneWithoutEnd(w) ==
    /\ batch' = [batch EXCEPT ![w] = [r \in DOMAIN @ \ {at[w]} |-> @[r]]]
    /\ at' = [at EXCEPT ![w] = NoReminder]
    /\ Goes(w, "next")

\* The run is done with the row at hand.
Done(w) ==
    /\ batch' = [batch EXCEPT ![w] = [r \in DOMAIN @ \ {at[w]} |-> @[r]]]
    /\ at' = [at EXCEPT ![w] = NoReminder]
    /\ Goes(w, IF DOMAIN batch[w] = {at[w]} THEN "idle" ELSE "next")

\* Mutant of Mark: the update is not guarded by the status.
MarkAny(r, row) == rows' = [rows EXCEPT ![r] = row]

\* update notifications set .. where id = .. and status = 'PROCESSING'
Mark(r, row) ==
    rows' = IF rows[r].status = "PROCESSING" THEN [rows EXCEPT ![r] = row] ELSE rows

\* Mutant of Deferred: a deferral counts as an attempt.
DeferredAsAttempt(row) == [row EXCEPT !.status = "SCHEDULED", !.held = TRUE]

Deferred(row) ==
    [row EXCEPT !.status = "SCHEDULED", !.held = TRUE,
                !.attempts = IF @ = 0 THEN 0 ELSE @ - 1]

Closed(row, outcome) == [row EXCEPT !.status = outcome, !.held = FALSE]

\* The row at hand as the run's next statement leaves it.
Marked(w) ==
    LET row == rows[at[w]] IN
    CASE step[w] = "sent" -> Closed(row, "SENT")
      [] step[w] = "CANCEL" -> Closed(row, "CANCELLED")
      [] step[w] = "DEFER" -> Deferred(row)

\* markNotificationSent, markNotificationCancelled, deferNotification
MarkNotification(w) ==
    /\ step[w] \in {"sent", "CANCEL", "DEFER"}
    /\ Mark(at[w], Marked(w))
    /\ Done(w)
    /\ UNCHANGED <<listingVars, faults>>

\* Mutant of Spent: one attempt more than the budget.
SpentAfterOneMore(w) == batch[w][at[w]] > MaxAttempts

Spent(w) == batch[w][at[w]] >= MaxAttempts

MarkNotificationFailed(w) ==
    /\ \/ /\ step[w] = "permanent"
          /\ Mark(at[w], Closed(rows[at[w]], "REFUSED"))
       \/ /\ step[w] = "transient"
          /\ Spent(w)
          /\ Mark(at[w], Closed(rows[at[w]], "EXHAUSTED"))
    /\ Done(w)
    /\ UNCHANGED <<listingVars, faults>>

ScheduleNotificationRetry(w) ==
    /\ step[w] = "transient"
    /\ ~Spent(w)
    /\ Mark(at[w], [rows[at[w]] EXCEPT !.status = "SCHEDULED", !.held = TRUE])
    /\ Done(w)
    /\ UNCHANGED <<listingVars, faults>>

----------------------------------------------------------------------------
(* Faults and time *)

Fault == faults < MaxFaults /\ faults' = faults + 1

\* An error of the eligibility query or of a mark is caught like a transient
\* answer of the provider, also after the message was sent; a mark whose answer
\* is lost may have been applied.
StatementFails(w) ==
    /\ Fault
    /\ Goes(w, "transient")
    /\ \/ /\ step[w] = "next"
          /\ \E r \in DOMAIN batch[w] : at' = [at EXCEPT ![w] = r]
          /\ UNCHANGED rows
       \/ /\ step[w] \in {"DEFER", "CANCEL", "sent"}
          /\ UNCHANGED at
          /\ UNCHANGED rows \/ Mark(at[w], Marked(w))
    /\ UNCHANGED <<listingVars, batch>>

\* The finalization itself fails: the row stays PROCESSING (rowErrors).
FinalizationFails(w) ==
    /\ Fault
    /\ step[w] \in {"transient", "permanent"}
    /\ Done(w)
    /\ UNCHANGED <<listingVars, rows>>

Crash(w) ==
    /\ Fault
    /\ step[w] # "idle"
    /\ Goes(w, "idle")
    /\ at' = [at EXCEPT ![w] = NoReminder]
    /\ batch' = [batch EXCEPT ![w] = NoRows]
    /\ UNCHANGED <<listingVars, rows>>

Unclaimed(r) == \A w \in Workers : r \notin DOMAIN batch[w]

\* next_retry_at passes: the backoff of a retry, the hold of a deferral.
HoldEnds(r) ==
    /\ rows[r].held
    /\ Timely => Unclaimed(r)
    /\ rows' = [rows EXCEPT ![r].held = FALSE]
    /\ UNCHANGED <<listingVars, runVars, faults>>

LeaseLapses(r) ==
    /\ rows[r].status = "PROCESSING" /\ ~rows[r].lapsed
    /\ Timely => Unclaimed(r)
    /\ rows' = [rows EXCEPT ![r].lapsed = TRUE]
    /\ UNCHANGED <<listingVars, runVars, faults>>

----------------------------------------------------------------------------

\* A run finishes the row at hand.
Finish(w) ==
    \/ SendTemplate(w)
    \/ MarkNotification(w)
    \/ MarkNotificationFailed(w)
    \/ ScheduleNotificationRetry(w)

RunExpiryReminders(w) ==
    ClaimDueNotifications(w) \/ CheckEligibility(w) \/ Finish(w)

Listing == ListingNext /\ UNCHANGED <<rows, runVars, faults>>

Next ==
    \/ Listing
    \/ ScheduleExpiryReminders
    \/ \E w \in Workers :
          \/ RunExpiryReminders(w)
          \/ StatementFails(w) \/ FinalizationFails(w) \/ Crash(w)
    \/ \E r \in DOMAIN rows : HoldEnds(r) \/ LeaseLapses(r)

Spec == Init /\ [][Next]_vars

\* The cron starts the job every ten minutes for ever and a run that does not
\* crash goes on; holds and leases are finite.  Nothing is assumed of the
\* provider, of the seller or of time.
Fairness ==
    /\ \A w \in Workers : WF_vars(RunExpiryReminders(w))
    /\ WF_vars(\E r \in DOMAIN rows : HoldEnds(r))
    /\ WF_vars(\E r \in DOMAIN rows : LeaseLapses(r))

FairSpec == Spec /\ Fairness

----------------------------------------------------------------------------
(* Safety *)

\* Suppression loses nothing: a reminder is cancelled only when its period is
\* over, so a suspended listing that is restored in time is still reminded
\* (reminderEligibility, with every status the listing can be in).
CancelledIsOver ==
    \A r \in DOMAIN rows : rows[r].status = "CANCELLED" => Ends(r) <= now

\* Overlapping runs never send a reminder twice: every message after the first
\* is paid for by an error answer of the provider, a crash or a failed statement
\* (claimDueNotifications, marks guarded by PROCESSING).
DuplicatesAreExplained ==
    \A r \in DOMAIN rows : rows[r].delivered <= 1 + rows[r].failures + faults

\* Delivery is never fabricated: a SENT reminder reached its seller.
SentWasDelivered ==
    \A r \in DOMAIN rows : rows[r].status = "SENT" => rows[r].delivered > 0

\* A deferral burns no attempt: a reminder is given up only after as many error
\* answers and faults as its budget.
ExhaustionIsEarned ==
    \A r \in DOMAIN rows :
        rows[r].status = "EXHAUSTED" => rows[r].failures + faults >= MaxAttempts

\* The provider is asked MaxAttempts times at most, plus once for each fault:
\* the budget is only checked after an error, never by a claim.
BudgetIsKept ==
    \A r \in DOMAIN rows : rows[r].attempts <= MaxAttempts + faults

Settled(r) == rows[r].status \notin {"SCHEDULED", "PROCESSING"}

\* What became of a reminder is final: neither a mark that was applied although
\* its answer was lost, nor a later run, moves it or sends it again.
SettledStays ==
    [][\A r \in DOMAIN rows : Settled(r) =>
          rows'[r].status = rows[r].status /\ rows'[r].delivered = rows[r].delivered]_vars

----------------------------------------------------------------------------
(* Liveness *)

\* No due reminder is stuck for ever, whatever crashed while it was processed:
\* it is sent, cancelled or given up, unless its listing is suspended.
DueAreSettled ==
    []<>(status = "SUSPENDED" \/
         \A r \in DOMAIN rows : SendingTimeCame(r) => Settled(r))

----------------------------------------------------------------------------
(* Statements of the repository the code does not keep *)

\* repositories/lifecycle-jobs.ts: a stale "expires in 7 days" is worse than
\* silence; a deferred row auto-cancels once stale.
StaleIsNeverSent ==
    [][\A w \in Workers :
          step[w] = "next" /\ step'[w] = "SEND" => Ends(at'[w]) = now + at'[w].offset]_vars
=============================================================================
