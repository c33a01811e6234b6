--------------------------- MODULE MCIdempotency ---------------------------
(***************************************************************************)
(* Small instances of Idempotency for TLC.                                 *)
(***************************************************************************)
EXTENDS Idempotency, TLC

\* Init treats requests, and fingerprints, alike and no property names one.
Symmetry == Permutations(Requests) \cup Permutations(Fingerprints)
=============================================================================
