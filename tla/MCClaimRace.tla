------------------------------ MODULE MCClaimRace ------------------------------
(* Small instances of ClaimRace for TLC. *)
EXTENDS ClaimRace, TLC
=============================================================================
