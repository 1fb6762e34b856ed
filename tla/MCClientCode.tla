---------------------------- MODULE MCClientCode ----------------------------
(* ClientCode on small instances: the partial derivatives 3 and 4 and the   *)
(* values 1 and 2 tell the calls of the two threads apart.                  *)
EXTENDS ClientCode

CONSTANTS t1, t2

AllVars == ({"x", "y", "pdiff", "ret"} \cup UserNames) \X Threads
AllIndexVars == ({"x_i", "y_i", "ret_i"} \X Threads)
                  \cup ({"dg_indextmp", "dg_indextmp2"} \X {1, 2})

NoStops == <<>>

\* The macros of each translation unit are used by one thread, or by both.
OwnUnit == [t \in Threads |-> IF t = t1 THEN 1 ELSE 2]
SameUnit == [t \in Threads |-> 1]

PartialOf == [t \in Threads |-> IF t = t1 THEN 3 ELSE 4]
ValueOf == [t \in Threads |-> IF t = t1 THEN 1 ELSE 2]
=============================================================================
