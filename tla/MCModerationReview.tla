------------------------- MODULE MCModerationReview -------------------------
(* Small instances of ModerationReview for TLC. *)
EXTENDS ModerationReview, TLC

Interchangeable == Permutations(Moderators)
=============================================================================
