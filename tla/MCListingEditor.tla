-------------------------- MODULE MCListingEditor --------------------------
(* Small instances of ListingEditor for TLC. *)
EXTENDS ListingEditor, TLC

Interchangeable == Permutations(Fields) \cup Permutations(Uploads) \cup Permutations(Reloads)
=============================================================================
