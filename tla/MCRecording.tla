---------------------------- MODULE MCRecording -----------------------------
(* Recording on small instances. *)
EXTENDS Recording, TLC

CONSTANTS t1, t2, x, y, i1

\* Threads and variables are interchangeable in Init, Next and the invariants.
Symmetry == Permutations(Threads) \cup Permutations(Vars)

\* No --record-stop, the plain case.
NoStops == <<>>

\* The user stops at one index, and once more at a later one.
TwoStops == <<2, 3>>

\* Stops given in descending order, one of them twice.
RepeatedStops == <<3, 2, 2>>
=============================================================================
