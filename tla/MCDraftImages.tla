---------------------------- MODULE MCDraftImages ----------------------------
(* Small instances of DraftImages for TLC. *)
EXTENDS DraftImages, TLC

Interchangeable ==
    Permutations(Uploads) \cup Permutations(Requests) \cup Permutations(Workers)
=============================================================================
