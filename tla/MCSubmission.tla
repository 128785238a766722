---------------------------- MODULE MCSubmission ----------------------------
(* Small instances of Submission for TLC. *)
EXTENDS Submission, TLC

Interchangeable == Permutations(Requests)
=============================================================================
