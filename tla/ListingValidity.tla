-------------------------- MODULE ListingValidity --------------------------
(***************************************************************************)
(* What the rest of the system may rely on about the validity of one       *)
(* listing: its published status, its expiry and its periods, whoever      *)
(* moves them.  ListingLifecycle implements it; modules that only read a   *)
(* listing's validity (ExpiryReminders) are composed with it.              *)
(***************************************************************************)
EXTENDS Naturals, Sequences

CONSTANTS
    Validity,        \* setting listing.validity_days
    RenewalDuration, \* setting listing.renewal_duration_days
    MaxTime          \* bound: the clock stops here

ASSUME DurationAssumption ==
    Validity \in Nat \ {0} /\ RenewalDuration \in Nat \ {0} /\ MaxTime \in Nat

VARIABLES
    now,
    status,    \* listings.status, every status before the approval as UNPUBLISHED
    expiresAt, \* listings.current_expires_at, 0 while null
    periods    \* listing_periods by period_number; live: its status is ACTIVE

listingVars == <<now, status, expiresAt, periods>>

Period == [starts : Nat, ends : Nat, live : BOOLEAN]

ListingTypeOK ==
    /\ now \in Nat
    /\ status \in {"UNPUBLISHED", "ACTIVE", "EXPIRED", "SUSPENDED"}
    /\ expiresAt \in Nat
    /\ periods \in Seq(Period)

ListingInit ==
    /\ now = 0
    /\ status = "UNPUBLISHED"
    /\ expiresAt = 0
    /\ periods = <<>>

Tick ==
    /\ now < MaxTime
    /\ now' = now + 1
    /\ UNCHANGED <<status, expiresAt, periods>>

\* A period that begins now and ends with the listing's new expiry.
Grant(days) ==
    /\ periods' = Append(periods, [starts |-> now, ends |-> now + days, live |-> TRUE])
    /\ expiresAt' = now + days
    /\ status' = "ACTIVE"
    /\ UNCHANGED now

Publish == status = "UNPUBLISHED" /\ Grant(Validity)

Renew == status = "EXPIRED" /\ Grant(RenewalDuration)

Suspend ==
    /\ status = "ACTIVE"
    /\ status' = "SUSPENDED"
    /\ UNCHANGED <<now, expiresAt, periods>>

Restore ==
    /\ status = "SUSPENDED"
    /\ status' = IF expiresAt > now THEN "ACTIVE" ELSE "EXPIRED"
    /\ UNCHANGED <<now, expiresAt, periods>>

Expire ==
    /\ status = "ACTIVE"
    /\ expiresAt <= now
    /\ status' = "EXPIRED"
    /\ periods' = [i \in DOMAIN periods |->
                      [periods[i] EXCEPT !.live = @ /\ periods[i].ends > now]]
    /\ UNCHANGED <<now, expiresAt>>

ListingNext == Tick \/ Publish \/ Renew \/ Suspend \/ Restore \/ Expire

ListingSpec == ListingInit /\ [][ListingNext]_listingVars
=============================================================================
