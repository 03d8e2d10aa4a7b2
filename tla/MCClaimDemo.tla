----------------------------- MODULE MCClaimDemo -----------------------------
(* Small instances of ClaimDemo for TLC. *)
EXTENDS ClaimDemo, TLC

Interchangeable == Permutations(Handler) \cup Permutations(Racer)
=============================================================================
