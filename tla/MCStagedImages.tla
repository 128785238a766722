--------------------------- MODULE MCStagedImages ---------------------------
(* Small instances of StagedImages for TLC. *)
EXTENDS StagedImages, TLC

Interchangeable ==
    UNION {Permutations(S) : S \in {Originals, Uploads, Requests, Workers}}
=============================================================================
