--------------------------- MODULE MCTrickFinder ---------------------------
(* TrickFinder on small instances: three bits per half, so that a float has  *)
(* the numbers 0, 1 and 2 with both signs and NaN.                           *)
EXTENDS TrickFinder

CONSTANTS a, b
=============================================================================
