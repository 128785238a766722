----------------------------- MODULE ImageLife -----------------------------
(***************************************************************************)
(* What the image flow of a draft promises for the stored object of every  *)
(* confirmation, without uploads, requests, leases or cleanup runs: it is  *)
(* stored once, named by at most one image and never again once let go,    *)
(* and removed only while no image names it.                               *)
(***************************************************************************)
CONSTANT Objects

\* none: not stored; loose: stored, not named yet; named: an image names it;
\* dropped: stored, never to be named again; over: never to be stored again.
VARIABLE phase

LifeTypeOK == phase \in [Objects -> {"none", "loose", "named", "dropped", "over"}]

LifeInit == phase = [o \in Objects |-> "none"]

Advance(o, froms, to) ==
    /\ phase[o] \in froms
    /\ phase' = [phase EXCEPT ![o] = to]

Store(o) == Advance(o, {"none"}, "loose")

\* The confirmation ends before it stores anything.
Forgo(o) == Advance(o, {"none"}, "over")

Name(o) == Advance(o, {"loose"}, "named")

\* The confirmation ends without naming its object or removing it.
Leave(o) == Advance(o, {"loose"}, "dropped")

\* One image is deleted, or all of them go with the draft.
Release(os) ==
    /\ os # {} /\ \A o \in os : phase[o] = "named"
    /\ phase' = [o \in Objects |-> IF o \in os THEN "dropped" ELSE phase[o]]

Remove(o) == Advance(o, {"loose", "dropped"}, "over")

LifeNext ==
    \/ \E o \in Objects : Store(o) \/ Forgo(o) \/ Name(o) \/ Leave(o) \/ Remove(o)
    \/ \E os \in SUBSET Objects : Release(os)

LifeSpec == LifeInit /\ [][LifeNext]_phase
=============================================================================
