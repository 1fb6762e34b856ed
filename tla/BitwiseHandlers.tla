-------------------------- MODULE BitwiseHandlers --------------------------
(***************************************************************************)
(* AD handling of the bitwise logical operations AND, OR and XOR, by which *)
(* compilers take absolute values and negatives: dot/dg_dot_bitwise.c in   *)
(* forward mode, bar/dg_bar_bitwise.c in recording mode.                   *)
(*                                                                         *)
(* A 64-bit word is a pair <<lower, upper>> of halves of Bits bits each,   *)
(* 32 in the code; a half is the set of the positions of its one bits.     *)
(* A floating-point number is a sequence of halves, the last of which has  *)
(* the sign bit: a float is one half, a double is two.  The rest is a      *)
(* magnitude; the largest one is NaN.  Dot values are numbers of the same  *)
(* format.  An index takes the lower four bytes of both shadow layers, so  *)
(* each half of a word has room for one index.                             *)
(*                                                                         *)
(* The program applies operations to its variables and to constants;       *)
(* forward and recording mode are run side by side on the same operations. *)
(* Brackets of DG_DISABLE stop the recording; --typegrind is off.          *)
(***************************************************************************)
EXTENDS Integers, Sequences

CONSTANTS Bits,           \* bits of a half
          Cells,          \* variables of the program
          Input,          \* the variable that holds the inputs
          InputHalves,    \* halves of which input values are made
          MaskHalves,     \* halves of which constant operands are made
          Kinds,          \* what words hold: "double", "pair" (of floats), "single"
          MixedFormats,   \* may words meet masks of the other format?
          Depths,         \* values of the counter of DG_DISABLE
          MaxSteps        \* bound on the number of operations

ASSUME BitwiseAssumption ==
  /\ Bits \in Nat /\ Bits > 2
  /\ Input \in Cells
  /\ InputHalves \cup MaskHalves \subseteq SUBSET (0 .. Bits - 1)
  /\ Kinds \subseteq {"double", "pair", "single"}
  /\ MixedFormats \in BOOLEAN
  /\ Depths \subseteq Int /\ 0 \in Depths
  /\ MaxSteps \in Nat

VARIABLES kind,   \* what the words of this program hold
          cells,  \* variable -> word, its dot value, its indices, see Operand
          out,    \* dg_bar_bitwise_out: an index per half, shared by all handlers
          tape,   \* operands of the statements -1 * operand, in order
          values, \* values recorded with them (--record-values=yes)
          dg_disable, \* the counter of DG_DISABLE: not 0 in a bracket
          initial,\* history: the values of the inputs
          steps   \* number of operations done

vars == <<kind, cells, out, tape, values, dg_disable, initial, steps>>

-----------------------------------------------------------------------------
\* Numbers.

SignBit == Bits - 1
AllBits == 0 .. SignBit
Halves  == SUBSET AllBits

Pattern(n, low, high) == [i \in 1..n |-> IF i = n THEN high ELSE low]
SignClear == [n \in 1..2 |-> Pattern(n, AllBits, AllBits \ {SignBit})]  \* 0b01..1
Ones      == [n \in 1..2 |-> Pattern(n, AllBits, AllBits)]             \* 0b1..1
SignOnly  == [n \in 1..2 |-> Pattern(n, {}, {SignBit})]                \* 0b10..0
Zeros     == [n \in 1..2 |-> Pattern(n, {}, {})]                       \* 0b0..0

BitOp(op, g, h) == CASE op = "and" -> g \cap h
                     [] op = "or"  -> g \cup h
                     [] op = "xor" -> (g \ h) \cup (h \ g)
Apply(op, s, t) == [i \in 1..Len(s) |-> BitOp(op, s[i], t[i])]

Sign(s)      == SignBit \in s[Len(s)]
Magnitude(s) == [s EXCEPT ![Len(s)] = @ \ {SignBit}]
Negate(s)    == [s EXCEPT ![Len(s)] = BitOp("xor", @, {SignBit})]
IsZero(s)    == Magnitude(s) = Zeros[Len(s)]
IsNaN(s)     == Magnitude(s) = SignClear[Len(s)]
Below0(s)    == Sign(s) /\ ~IsZero(s) /\ ~IsNaN(s)
Above0(s)    == ~Sign(s) /\ ~IsZero(s) /\ ~IsNaN(s)
AtLeast0(s)  == (~Sign(s) \/ IsZero(s)) /\ ~IsNaN(s)
AtMost0(s)   == (Sign(s) \/ IsZero(s)) /\ ~IsNaN(s)

\* The handlers try the first operand as the mask, then the second.  An attempt
\* is the sequence <<result>>, or <<>> if the operand is not a known mask.
FirstOf(attempt1, attempt2, otherwise) ==
  IF attempt1 # <<>> THEN attempt1[1]
  ELSE IF attempt2 # <<>> THEN attempt2[1]
  ELSE otherwise

-----------------------------------------------------------------------------
\* Forward mode: the dot value of the result.

\* AND with mask x: absolute value of y, or y itself.
dot_HANDLE_AND(x, xd, y, yd) ==
  IF x = SignClear[Len(x)] THEN <<IF Below0(y) THEN Negate(yd) ELSE yd>>
  ELSE IF x = Ones[Len(x)] THEN <<yd>>
  ELSE <<>>

\* Faulty variant: does not look at the sign of y.
dot_HANDLE_ORAlways(x, xd, y, yd) ==
  IF x = SignOnly[Len(x)] /\ xd = Zeros[Len(x)] THEN <<Negate(yd)>>
  ELSE IF x = Zeros[Len(x)] /\ xd = Zeros[Len(x)] THEN <<yd>>
  ELSE <<>>

\* OR with mask x whose dot value is 0: minus the absolute value of y, or y itself.
dot_HANDLE_OR(x, xd, y, yd) ==
  IF x = SignOnly[Len(x)] /\ xd = Zeros[Len(x)]
    THEN <<IF Above0(y) THEN Negate(yd) ELSE yd>>
  ELSE IF x = Zeros[Len(x)] /\ xd = Zeros[Len(x)] THEN <<yd>>
  ELSE <<>>

\* XOR with mask x whose dot value is 0: minus y.
dot_HANDLE_XOR(x, xd, y, yd) ==
  IF x = SignOnly[Len(x)] /\ xd = Zeros[Len(x)] THEN <<Negate(yd)>> ELSE <<>>

dot_HANDLE(op, x, xd, y, yd) ==
  CASE op = "and" -> dot_HANDLE_AND(x, xd, y, yd)
    [] op = "or"  -> dot_HANDLE_OR(x, xd, y, yd)
    [] op = "xor" -> dot_HANDLE_XOR(x, xd, y, yd)

dg_dot_bitwise32(op, x, xd, y, yd) ==
  FirstOf(dot_HANDLE(op, x, xd, y, yd), dot_HANDLE(op, y, yd, x, xd), Zeros[1])

dot_HALVES(op, x, xd, y, yd) ==
  [h \in 1..2 |-> dg_dot_bitwise32(op, <<x[h]>>, <<xd[h]>>, <<y[h]>>, <<yd[h]>>)[1]]

dg_dot_bitwise64(op, x, xd, y, yd) ==
  FirstOf(dot_HANDLE(op, x, xd, y, yd), dot_HANDLE(op, y, yd, x, xd),
          dot_HALVES(op, x, xd, y, yd))

-----------------------------------------------------------------------------
\* Recording mode.  The handlers work on st = [out, tape, values]; xi and yi are
\* the indices at the beginning of the operands.

NumInputs == 2

\* The result is y itself: its index goes to the beginning of out.
KeepIndex(st, yi) == [st EXCEPT !.out[1] = yi]

\* Faulty variant: records the value of y.
AddMinusOldValue(st, y, yi) ==
  IF yi = 0 \/ dg_disable # 0 THEN KeepIndex(st, 0)
  ELSE [out    |-> [st.out EXCEPT ![1] = NumInputs + Len(st.tape) + 1],
        tape   |-> Append(st.tape, yi),
        values |-> Append(st.values, y)]

\* Faulty variant: returns the index after the one that was assigned.
AddMinusNextIndex(st, y, yi) ==
  IF yi = 0 \/ dg_disable # 0 THEN KeepIndex(st, 0)
  ELSE [out    |-> [st.out EXCEPT ![1] = NumInputs + Len(st.tape) + 2],
        tape   |-> Append(st.tape, yi),
        values |-> Append(st.values, Negate(y))]

\* The result is -y: tapeAddStatement, which adds nothing for index 0 (activity
\* analysis) and in a bracket, and a value.
AddMinus(st, y, yi) ==
  IF yi = 0 \/ dg_disable # 0 THEN KeepIndex(st, 0)
  ELSE [out    |-> [st.out EXCEPT ![1] = NumInputs + Len(st.tape) + 1],
        tape   |-> Append(st.tape, yi),
        values |-> Append(st.values, Negate(y))]

bar_HANDLE_AND(st, x, xi, y, yi) ==
  IF x = SignClear[Len(x)]
    THEN <<IF AtLeast0(y) THEN KeepIndex(st, yi) ELSE AddMinus(st, y, yi)>>
  ELSE IF x = Ones[Len(x)] THEN <<KeepIndex(st, yi)>>
  ELSE <<>>

bar_HANDLE_OR(st, x, xi, y, yi) ==
  IF x = SignOnly[Len(x)] /\ xi = 0
    THEN <<IF AtMost0(y) THEN KeepIndex(st, yi) ELSE AddMinus(st, y, yi)>>
  ELSE IF x = Zeros[Len(x)] /\ xi = 0 THEN <<KeepIndex(st, yi)>>
  ELSE <<>>

bar_HANDLE_XOR(st, x, xi, y, yi) ==
  IF x = SignOnly[Len(x)] /\ xi = 0 THEN <<AddMinus(st, y, yi)>> ELSE <<>>

bar_HANDLE(op, st, x, xi, y, yi) ==
  CASE op = "and" -> bar_HANDLE_AND(st, x, xi, y, yi)
    [] op = "or"  -> bar_HANDLE_OR(st, x, xi, y, yi)
    [] op = "xor" -> bar_HANDLE_XOR(st, x, xi, y, yi)

\* Only the case of an unknown mask writes all of out.
dg_bar_bitwise32(op, st, x, xi, y, yi) ==
  FirstOf(bar_HANDLE(op, st, x, xi, y, yi), bar_HANDLE(op, st, y, yi, x, xi),
          [st EXCEPT !.out = <<0, 0>>])

\* Faulty variant: takes the upper half's result from out when it is too late.
bar_HALVESNoCopy(op, st, x, xi, y, yi) ==
  LET upper == dg_bar_bitwise32(op, st, <<x[2]>>, xi[2], <<y[2]>>, yi[2])
      lower == dg_bar_bitwise32(op, upper, <<x[1]>>, xi[1], <<y[1]>>, yi[1])
  IN  [lower EXCEPT !.out[2] = lower.out[1]]

\* The upper half first; its result is moved up once the lower half is done.
bar_HALVES(op, st, x, xi, y, yi) ==
  LET upper == dg_bar_bitwise32(op, st, <<x[2]>>, xi[2], <<y[2]>>, yi[2])
      lower == dg_bar_bitwise32(op, upper, <<x[1]>>, xi[1], <<y[1]>>, yi[1])
  IN  [lower EXCEPT !.out[2] = upper.out[1]]

dg_bar_bitwise64(op, st, x, xi, y, yi) ==
  FirstOf(bar_HANDLE(op, st, x, xi[1], y, yi[1]), bar_HANDLE(op, st, y, yi[1], x, xi[1]),
          bar_HALVES(op, st, x, xi, y, yi))

-----------------------------------------------------------------------------
\* The program.  Numbers in a word of the program's kind, and the e-th of them.

Elements == IF kind = "pair" THEN {1, 2} ELSE {1}
Part(w, e) == IF kind = "double" THEN w ELSE <<w[e]>>

\* A 32-bit operation widens its operands by zeros and keeps the lower half.
Narrow(w, zero) == IF kind = "single" THEN <<w[1], zero>> ELSE w

\* What is known of a word: its bits, dot value, indices, and, as a history, the
\* derivative of each number in it: a set of the values that are right (two at
\* a kink), where i stands for the derivative of the i-th input and -i for its
\* negative; {} if the number is not differentiable in the inputs.  forward says
\* whether forward mode is expected to follow, see Follows, and outside whether
\* no operation in a bracket has led to the number: recording mode and the
\* bit-trick finder heed brackets, forward mode does not.
Operand(bits, dot, idx, deriv, forward, outside) ==
  [bits |-> bits, dot |-> dot, idx |-> idx, deriv |-> deriv,
   forward |-> forward, outside |-> outside]

Constant(bits) ==
  Operand(bits, <<{}, {}>>, <<0, 0>>, <<{0}, {0}>>, <<TRUE, TRUE>>, <<TRUE, TRUE>>)

Words(halves) == halves \X (IF kind = "single" THEN {{}} ELSE halves)

\* Dot values of the inputs.
Seed(i) == IF kind = "double" THEN <<{0}, {0}>> ELSE <<{i - 1}>>

InputOperand(w) ==
  Operand(w,
          IF kind = "double" THEN <<{0}, {0}>> ELSE Narrow(<<{0}, {1}>>, {}),
          IF kind = "pair" THEN <<1, 2>> ELSE <<1, 0>>,
          <<{1}, {2}>>, <<TRUE, TRUE>>, <<TRUE, TRUE>>)

Init == /\ kind \in Kinds
        /\ \E w \in Words(InputHalves) :
             /\ \A e \in Elements : ~IsNaN(Part(w, e))
             /\ initial = w
             /\ cells = [c \in Cells |-> IF c = Input THEN InputOperand(w) ELSE Constant(<<{}, {}>>)]
        /\ out = <<0, 0>>
        /\ tape = <<>>
        /\ values = <<>>
        /\ dg_disable = 0
        /\ steps = 0

\* Reference: what the operation does to a number, read off the bits.  A mask m
\* leaves the magnitude of the other number alone (Neutral), or makes it 0 whatever
\* it was (Absorbing).  In the first case the derivative changes its sign if the
\* number does.  A mask is a constant or, in an AND, the result of a comparison: NaN
\* is no number, and locally constant.  No claim is made where the handlers are not
\* meant to recognise the operation (README): XOR with 0.
IsMask(op, s, deriv) == deriv = {0} \/ (op = "and" /\ IsNaN(s))

Neutral(op, m) == /\ Magnitude(m) = IF op = "and" THEN SignClear[Len(m)] ELSE Zeros[Len(m)]
                  /\ op = "xor" => Sign(m)
Absorbing(op, m) == op = "and" /\ IsZero(m)
TakesAbs(op, m) == (op = "and" /\ ~Sign(m)) \/ (op = "or" /\ Sign(m))

Minus(S) == {-v : v \in S}

UnderMask(op, m, s, deriv) ==
  IF Absorbing(op, m) THEN {0}
  ELSE IF ~Neutral(op, m) THEN {}
  ELSE IF TakesAbs(op, m) /\ IsZero(s) THEN deriv \cup Minus(deriv)
  ELSE IF Sign(Apply(op, m, s)) # Sign(s) THEN Minus(deriv)
  ELSE deriv

\* The derivative of s op t.  If both operands of an AND are NaN, the first one is
\* the mask: NaN has no derivative, so it does not matter.
Reference(op, s, ds, t, dt) ==
  IF ds = {0} /\ dt = {0} THEN {0}
  ELSE IF IsMask(op, s, ds) /\ (IsMask(op, t, dt) => IsNaN(s)) THEN UnderMask(op, s, t, dt)
  ELSE IF IsMask(op, t, dt) THEN UnderMask(op, t, s, ds)
  ELSE {}

\* The patterns of n halves that the handlers take for a mask.
Masks(op, n) == CASE op = "and" -> {SignClear[n], Ones[n]}
                  [] op = "or"  -> {SignOnly[n], Zeros[n]}
                  [] op = "xor" -> {SignOnly[n]}

\* Operands that the handlers take for something else than what they are: one of
\* a pair of floats for a mask of a double, one of a double for two masks of
\* floats, and half of a variable for a mask, since AND accepts variables.
Misread(op, p) ==
  LET IsHalf(h) == <<p.bits[h]>> \in Masks(op, 1)
  IN  \/ kind = "pair" /\ p.bits \in Masks(op, 2)
      \/ /\ kind = "double" /\ p.bits \notin Masks(op, 2)
         /\ \/ IsHalf(1) /\ IsHalf(2)
            \/ op = "and" /\ p.deriv[1] # {0} /\ (IsHalf(1) \/ IsHalf(2))

\* Forward mode takes a constant with a dot value of -0 for a variable, and gives
\* a constant that it reads as a pair a dot value of -0 in one half.
Follows(op, p, e) ==
  /\ p.forward[e]
  /\ kind = "double" /\ p.bits \notin Masks(op, 2) =>
       \A h \in 1..2 : <<p.bits[h]>> \notin Masks(op, 1)
  /\ p.deriv[e] = {0} => Part(p.dot, e) = Zeros[Len(Part(p.dot, e))]

\* cells[dst] := p op q, with the calls that are inserted before it.
Operation(op, dst, p, q) ==
  /\ steps < MaxSteps
  /\ MixedFormats \/ ~(Misread(op, p) \/ Misread(op, q))
  /\ LET st == dg_bar_bitwise64(op, [out |-> out, tape |-> tape, values |-> values],
                                p.bits, p.idx, q.bits, q.idx)
         d  == dg_dot_bitwise64(op, p.bits, p.dot, q.bits, q.dot)
     IN  /\ out' = st.out
         /\ tape' = st.tape
         /\ values' = st.values
         /\ cells' = [cells EXCEPT ![dst] =
              Operand(Apply(op, p.bits, q.bits), Narrow(d, {}), Narrow(st.out, 0),
                      [e \in 1..2 |-> IF e \in Elements
                                      THEN Reference(op, Part(p.bits, e), p.deriv[e],
                                                         Part(q.bits, e), q.deriv[e])
                                      ELSE {}],
                      [e \in 1..2 |-> e \in Elements /\ Follows(op, p, e) /\ Follows(op, q, e)],
                      [e \in 1..2 |-> e \in Elements /\ p.outside[e] /\ q.outside[e]
                                        /\ dg_disable = 0])]
  /\ steps' = steps + 1
  /\ UNCHANGED <<kind, dg_disable, initial>>

\* The request DG_DISABLE(plus, minus): a bracket is entered or left.
DG_DISABLE(plus, minus) ==
  /\ steps < MaxSteps
  /\ dg_disable + plus - minus \in Depths
  /\ dg_disable' = dg_disable + plus - minus
  /\ UNCHANGED <<kind, cells, out, tape, values, initial, steps>>

Variables == {cells[c] : c \in Cells}

Next == \/ \E op \in {"and", "or", "xor"}, dst \in Cells, p \in Variables :
             \/ \E q \in Variables : Operation(op, dst, p, q)
             \/ \E w \in Words(MaskHalves) : \/ Operation(op, dst, p, Constant(w))
                                            \/ Operation(op, dst, Constant(w), p)
        \/ \E plus, minus \in {0, 1} : DG_DISABLE(plus, minus)

Spec == Init /\ [][Next]_vars

-----------------------------------------------------------------------------
\* Properties.

IndicesOf(t) == 0 .. NumInputs + Len(t)
Indices == IndicesOf(tape)

\* Derivatives that a tape evaluation obtains for the indices of tape t: each
\* statement on it is a multiplication by -1.
Along(t) ==
  LET f[i \in IndicesOf(t)] == IF i <= NumInputs THEN i ELSE -f[t[i - NumInputs]]
  IN  f

\* Value that belongs to an index, vals being the values recorded.
ValueOf(vals, i) == IF i <= NumInputs THEN Part(initial, i) ELSE vals[i - NumInputs]

SameNumber(s, t) == s = t \/ (IsZero(s) /\ IsZero(t))

\* All variables have the type of their declaration; indices are assigned ones.
TypeOK ==
  /\ kind \in Kinds
  /\ out \in Indices \X Indices
  /\ \A i \in 1..Len(tape) : tape[i] \in 1 .. NumInputs + i - 1
  /\ Len(values) = Len(tape)
  /\ \A c \in Cells : /\ cells[c].bits \in Halves \X Halves
                      /\ cells[c].dot \in Halves \X Halves
                      /\ cells[c].idx \in Indices \X Indices
  /\ dg_disable \in Depths
  /\ steps \in 0..MaxSteps

\* dg_dot_bitwise.c: whatever sequence of operations led to a number, for
\* doubles, floats and pairs of floats alike, its dot value is the derivative.
ForwardDerivative ==
  \A c \in Cells : \A e \in Elements : LET x == cells[c]
                                           d == Part(x.dot, e) IN
    x.deriv[e] # {} /\ x.forward[e] => \E v \in x.deriv[e] :
      CASE v = 0 -> IsZero(d)
        [] v > 0 -> d = Seed(v)
        [] v < 0 -> d = Negate(Seed(-v))

\* dg_bar_bitwise.c: the index the handlers leave for a number leads, through
\* the statements they put on the tape, to its derivative, unless an operation in
\* a bracket of DG_DISABLE led to the number; in particular no number gets an
\* index that an earlier operation left in dg_bar_bitwise_out, and brackets do no
\* harm to the other numbers.
RecordedDerivative ==
  \A c \in Cells : \A e \in Elements :
    cells[c].deriv[e] # {} /\ cells[c].outside[e] =>
      Along(tape)[cells[c].idx[e]] \in cells[c].deriv[e]

\* dg_bar_bitwise.c: the value recorded under the index of a number is the
\* number (--record-values=yes), also when several operations share an index and
\* when brackets of DG_DISABLE keep operations in between from being recorded.
RecordedValue ==
  \A c \in Cells : \A e \in Elements : LET i == cells[c].idx[e] IN
    cells[c].deriv[e] # {} /\ cells[c].outside[e] /\ i # 0 =>
      SameNumber(ValueOf(values, i), Part(cells[c].bits, e))
=============================================================================
