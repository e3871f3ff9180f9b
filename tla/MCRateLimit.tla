----------------------------- MODULE MCRateLimit -----------------------------
(***************************************************************************)
(* Small instances of RateLimit for TLC.  Collectors and keys are          *)
(* interchangeable.                                                        *)
(***************************************************************************)
EXTENDS RateLimit, TLC

Symmetry == Permutations(Collectors) \cup Permutations(Keys)
=============================================================================
