---------------------------- MODULE TrickFinder ----------------------------
(***************************************************************************)
(* The bit-trick finder (--trick=yes): instead of derivatives, the two     *)
(* shadow layers hold flags that tell active data, which depends on an     *)
(* input, and discrete data, which comes from something else than a        *)
(* floating-point operation.  A floating-point operation on data that is   *)
(* both makes it issue a warning: the other modes may have got the         *)
(* derivative of the data wrong.                                           *)
(*                                                                         *)
(* The finder runs here beside forward and recording mode, on the          *)
(* operations of module BitwiseHandlers and on two more: the negation of a *)
(* floating-point number, for all operations with a derivative rule, and   *)
(* the complement, for all operations without one.  None of them treats    *)
(* the bits of a half differently, so a flag is a Boolean per half.        *)
(***************************************************************************)
EXTENDS BitwiseHandlers

VARIABLES flags,   \* variable -> [A, D], a Boolean for each half of its word
          warned,  \* a warning has been issued
          odd      \* history: an operation was no move, abs or change of sign

trickVars == <<flags, warned, odd>>
allVars == <<vars, trickVars>>

NoFlags == [A |-> <<FALSE, FALSE>>, D |-> <<FALSE, FALSE>>]

\* SET_FLAGS with the activity bits of DG_MARK_FLOAT, for the halves in use.
DG_MARK_FLOAT == [NoFlags EXCEPT !.A = IF kind = "single" THEN <<TRUE, FALSE>>
                                                        ELSE <<TRUE, TRUE>>]

Never(s) == [i \in DOMAIN s |-> FALSE]
Some(s) == \E i \in DOMAIN s : s[i]

\* One bit with both flags is enough.
ActiveDiscrete(A, D) == \E i \in DOMAIN A : A[i] /\ D[i]

-----------------------------------------------------------------------------
\* Handlers of bitwise operations: the flags of the result, and whether they warn.

Result(A, D, warn) == [A |-> A, D |-> D, warn |-> warn]

\* Faulty variant: the result counts as discrete.
trick_HANDLEDiscrete(op, x, xA, y, yA, yD) ==
  IF x \in Masks(op, Len(x)) /\ (op = "and" \/ ~xA[1])
  THEN <<Result(yA, [i \in DOMAIN yA |-> TRUE], ActiveDiscrete(yA, yD))>> ELSE <<>>

\* x is a known mask: y is used as a number, and so is the result.  OR and XOR
\* look at the lower four bytes of the mask's activity, AND does not.
trick_HANDLE(op, x, xA, y, yA, yD) ==
  IF x \in Masks(op, Len(x)) /\ (op = "and" \/ ~xA[1])
  THEN <<Result(yA, Never(yA), ActiveDiscrete(yA, yD))>> ELSE <<>>

\* The result of an operation that is not understood is discrete.
Unknown(A) == Result(A, [i \in DOMAIN A |-> TRUE], FALSE)

dg_trick_bitwise32(op, x, xA, xD, y, yA, yD) ==
  FirstOf(trick_HANDLE(op, x, xA, y, yA, yD), trick_HANDLE(op, y, yA, x, xA, xD),
          Unknown(<<Some(xA) \/ Some(yA)>>))

trick_HALVES(op, x, xA, xD, y, yA, yD) ==
  LET half(h) == dg_trick_bitwise32(op, <<x[h]>>, <<xA[h]>>, <<xD[h]>>,
                                        <<y[h]>>, <<yA[h]>>, <<yD[h]>>)
  IN  Result([h \in 1..2 |-> half(h).A[1]], [h \in 1..2 |-> half(h).D[1]],
             half(1).warn \/ half(2).warn)

dg_trick_bitwise64(op, x, xA, xD, y, yA, yD) ==
  FirstOf(trick_HANDLE(op, x, xA, y, yA, yD), trick_HANDLE(op, y, yA, x, xA, xD),
          trick_HALVES(op, x, xA, xD, y, yA, yD))

-----------------------------------------------------------------------------
\* dg_trick_warn_dirtyhelper: the finder is silent in a bracket of DG_DISABLE.
dg_trick_warn(r) == dg_disable = 0 /\ r.warn

\* The flags of a word, in the halves that the program's numbers use.
Assign(dst, r) ==
  /\ flags' = [flags EXCEPT ![dst] =
       IF kind = "single" THEN [A |-> <<r.A[1], FALSE>>, D |-> <<r.D[1], FALSE>>]
                          ELSE [A |-> r.A, D |-> r.D]]
  /\ warned' = (warned \/ dg_trick_warn(r))

\* Sources of data, with their flags.
FromVariable == {[data |-> cells[c], flags |-> flags[c]] : c \in Cells}
FromConstant == {[data |-> Constant(w), flags |-> NoFlags] : w \in Words(MaskHalves)}

\* The derivative of a result may be missing, or 0 although an operand has one.
Odd(deriv, operands) ==
  \E e \in Elements : \/ deriv[e] = {}
                      \/ deriv[e] = {0} /\ \E p \in operands : p.deriv[e] # {0}

BitwiseOperation(op, dst, p, q) ==
  /\ Operation(op, dst, p.data, q.data)
  /\ Assign(dst, dg_trick_bitwise64(op, p.data.bits, p.flags.A, p.flags.D,
                                        q.data.bits, q.flags.A, q.flags.D))
  /\ odd' = (odd \/ Odd(cells'[dst].deriv, {p.data, q.data}))

(***************************************************************************)
(* Iop_Neg of each number in p: its dot value is negated, a statement with *)
(* partial derivative -1 goes to the tape, and the finder's code for an    *)
(* operation with a derivative rule (createTrickCode) checks the operand.  *)
(***************************************************************************)
Negated(w) ==
  IF kind = "double" THEN Negate(w)
  ELSE [h \in 1..2 |-> IF h \in Elements THEN Negate(<<w[h]>>)[1] ELSE w[h]]

\* The statement for the e-th number of p, and its index; no statement in a bracket.
NegStatement(st, p, e) ==
  IF e \notin Elements \/ p.idx[e] = 0 THEN st
  ELSE IF dg_disable # 0 THEN [st EXCEPT !.idx[e] = 0]
  ELSE [idx    |-> [st.idx EXCEPT ![e] = NumInputs + Len(st.tape) + 1],
        tape   |-> Append(st.tape, p.idx[e]),
        values |-> Append(st.values, Negate(Part(p.bits, e)))]

NegStatements(p) ==
  NegStatement(NegStatement([idx |-> p.idx, tape |-> tape, values |-> values], p, 1), p, 2)

\* createTrickCode, for each number of a word.
OfNumbers(A) == IF kind = "double" THEN [h \in 1..2 |-> Some(A)] ELSE A

\* Faulty variant: does not look at the operand's discreteness.
createTrickCodeNoWarning(p) == Result(OfNumbers(p.A), Never(p.A), FALSE)

createTrickCode(p) == Result(OfNumbers(p.A), Never(p.A), ActiveDiscrete(p.A, p.D))

StillOutside(p) == [e \in 1..2 |-> p.outside[e] /\ dg_disable = 0]

FloatOperation(dst, p) ==
  /\ steps < MaxSteps
  /\ LET st == NegStatements(p.data) IN
     /\ cells' = [cells EXCEPT ![dst] =
          Operand(Negated(p.data.bits), Negated(p.data.dot), st.idx,
                  [e \in 1..2 |-> Minus(p.data.deriv[e])], p.data.forward,
                  StillOutside(p.data))]
     /\ tape' = st.tape
     /\ values' = st.values
  /\ Assign(dst, createTrickCode(p.flags))
  /\ steps' = steps + 1
  /\ UNCHANGED <<kind, out, dg_disable, initial, odd>>

(***************************************************************************)
(* Iop_Not, which has no derivative rule: dot value and index become 0     *)
(* (dg_dot_operation, dg_bar_operation), and the result is discrete, and   *)
(* active if any operand is (dg_trick_operation, dg_trick_ccall).          *)
(***************************************************************************)
UnhandledOperation(dst, p) ==
  /\ steps < MaxSteps
  /\ LET deriv == [e \in 1..2 |-> IF p.data.deriv[e] = {0} THEN {0} ELSE {}] IN
     /\ cells' = [cells EXCEPT ![dst] =
          Operand(Narrow([h \in 1..2 |-> AllBits \ p.data.bits[h]], {}),
                  <<{}, {}>>, <<0, 0>>, deriv, p.data.forward, StillOutside(p.data))]
     /\ odd' = (odd \/ Odd(deriv, {p.data}))
  /\ Assign(dst, Unknown([h \in 1..2 |-> Some(p.flags.A)]))
  /\ steps' = steps + 1
  /\ UNCHANGED <<kind, out, tape, values, dg_disable, initial>>

-----------------------------------------------------------------------------
TrickInit ==
  /\ Init
  /\ flags = [c \in Cells |-> IF c = Input THEN DG_MARK_FLOAT ELSE NoFlags]
  /\ warned = FALSE
  /\ odd = FALSE

TrickNext ==
  \/ \E dst \in Cells, p \in FromVariable :
       \/ \E op \in {"and", "or", "xor"}, q \in FromVariable \cup FromConstant :
            BitwiseOperation(op, dst, p, q) \/ BitwiseOperation(op, dst, q, p)
       \/ FloatOperation(dst, p)
       \/ UnhandledOperation(dst, p)
  \/ \E plus, minus \in {0, 1} : DG_DISABLE(plus, minus) /\ UNCHANGED trickVars

TrickSpec == TrickInit /\ [][TrickNext]_allVars

-----------------------------------------------------------------------------
\* Properties.

\* The flags of the e-th number of a variable.
Active(c, e) == Some(Part(flags[c].A, e))
Suspect(c, e) == ActiveDiscrete(Part(flags[c].A, e), Part(flags[c].D, e))

(***************************************************************************)
(* dg_trick.c: as long as no warning was issued, every number that would   *)
(* not cause one is differentiable as far as forward and recording mode    *)
(* are concerned, and a number that is not active does not depend on the   *)
(* inputs, whatever sequence of operations outside of the brackets of      *)
(* DG_DISABLE it is the result of.  In a bracket the finder is silent, and *)
(* a mask it knows makes discrete data count as a number again: nothing is *)
(* said of numbers that come out of one, but they must not hide the        *)
(* tricks in others.                                                       *)
(***************************************************************************)
SilenceMeansKnown ==
  ~warned => \A c \in Cells : \A e \in Elements : cells[c].outside[e] =>
    /\ Suspect(c, e) \/ cells[c].deriv[e] # {}
    /\ Active(c, e) \/ cells[c].deriv[e] = {0}

(***************************************************************************)
(* dg_trick_bitwise.c: the absolute values and changes of sign that the    *)
(* other modes understand never lead to a warning, for doubles, floats and *)
(* pairs of floats.                                                        *)
(***************************************************************************)
WarnsOfTricksOnly == warned => odd
=============================================================================
