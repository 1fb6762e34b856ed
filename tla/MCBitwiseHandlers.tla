------------------------- MODULE MCBitwiseHandlers -------------------------
(* BitwiseHandlers on small instances: three bits per half, so that a float  *)
(* has the numbers 0, 1 and 2 with both signs and NaN.                       *)
EXTENDS BitwiseHandlers

CONSTANTS a, b
=============================================================================
