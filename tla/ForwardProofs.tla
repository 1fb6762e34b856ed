---------------------------- MODULE ForwardProofs ----------------------------
(***************************************************************************)
(* Forward mode and recording mode agree, for every program, every number  *)
(* of temporaries, registers and addresses, and every width of a half,     *)
(* under the conditions of StatementProofs and where no maximum has a tie. *)
(***************************************************************************)
EXTENDS ForwardStatements, StatementProofs

-----------------------------------------------------------------------------
(* Dot values and derivatives of indices. *)

(* D holds the derivatives of the indices on the tape: d is that of index i. *)
Fits(D, d, i) == i \in 0 .. Len(D) /\ d = IF i = 0 THEN 0 ELSE D[i]

(* A layer of dot values, N places behind the values of the cells C. *)
LayerFits(T, N, C, D) ==
  /\ T \in [N .. 2 * N - 1 -> Nat]
  /\ \A u \in 0 .. N - 1 : Fits(D, T[u + N], C[u].idx)

MemFits(M, C, D) ==
  /\ M \in [Addrs -> Nat]
  /\ \A a \in Addrs : Fits(D, M[a], C[a].idx)

(* A dot value that belongs to an index is a number. *)
LEMMA FitsNat ==
  ASSUME NEW D \in Seq(Nat), NEW d, NEW i, Fits(D, d, i)
  PROVE  d \in Nat
  BY DEF Fits

(* Derivatives of indices do not change when the tape grows. *)
LEMMA FitsGrow ==
  ASSUME NEW D \in Seq(Nat), NEW x \in Nat, NEW d, NEW i, Fits(D, d, i)
  PROVE  Fits(Append(D, x), d, i)
  BY DEF Fits

(* The derivative of the index that is assigned next. *)
LEMMA FitsNew ==
  ASSUME NEW D \in Seq(Nat), NEW x \in Nat
  PROVE  Fits(Append(D, x), x, Len(D) + 1)
  BY DEF Fits

LEMMA LayerGrow ==
  ASSUME NEW D \in Seq(Nat), NEW x \in Nat, NEW T, NEW N, NEW C, LayerFits(T, N, C, D)
  PROVE  LayerFits(T, N, C, Append(D, x))
  BY FitsGrow DEF LayerFits

LEMMA MemGrow ==
  ASSUME NEW D \in Seq(Nat), NEW x \in Nat, NEW M, NEW C, MemFits(M, C, D)
  PROVE  MemFits(M, C, Append(D, x))
  BY FitsGrow DEF MemFits

(* Writing a dot value next to a cell whose index it belongs to. *)
LEMMA LayerWrite ==
  ASSUME NEW N \in Nat \ {0}, NEW D \in Seq(Nat), NEW T, NEW C, LayerFits(T, N, C, D),
         DOMAIN C = 0 .. N - 1, NEW t \in 0 .. N - 1, NEW d, NEW c, Fits(D, d, c.idx)
  PROVE  LayerFits([T EXCEPT ![t + N] = d], N, [C EXCEPT ![t] = c], D)
<1> DEFINE U == [T EXCEPT ![t + N] = d]
           B == [C EXCEPT ![t] = c]
<1>1. d \in Nat /\ t + N \in N .. 2 * N - 1 /\ T \in [N .. 2 * N - 1 -> Nat]
  BY FitsNat DEF LayerFits
<1>2. U \in [N .. 2 * N - 1 -> Nat] /\ U[t + N] = d
  BY <1>1
<1>3. ASSUME NEW u \in 0 .. N - 1
      PROVE  Fits(D, U[u + N], B[u].idx)
  <2>1. CASE u = t
    <3>1. B[t] = c
      OBVIOUS
    <3>2. QED
      BY <1>2, <2>1, <3>1
  <2>2. CASE u # t
    <3>1. u + N # t + N /\ u + N \in N .. 2 * N - 1
      BY <2>2
    <3>2. U[u + N] = T[u + N] /\ B[u] = C[u]
      BY <1>1, <2>2, <3>1
    <3>3. QED
      BY <3>2 DEF LayerFits
  <2>3. QED
    BY <2>1, <2>2
<1>4. QED
  BY <1>2, <1>3 DEF LayerFits

LEMMA MemWrite ==
  ASSUME NEW D \in Seq(Nat), NEW M, NEW C, MemFits(M, C, D), DOMAIN C = Addrs,
         NEW a \in Addrs, NEW d, NEW c, Fits(D, d, c.idx)
  PROVE  MemFits([M EXCEPT ![a] = d], [C EXCEPT ![a] = c], D)
<1>1. d \in Nat /\ M \in [Addrs -> Nat]
  BY FitsNat DEF MemFits
<1>2. ASSUME NEW b \in Addrs
      PROVE  Fits(D, [M EXCEPT ![a] = d][b], [C EXCEPT ![a] = c][b].idx)
  <2>1. CASE b = a
    BY <1>1, <2>1
  <2>2. CASE b # a
    BY <1>1, <2>2 DEF MemFits
  <2>3. QED
    BY <2>1, <2>2
<1>3. QED
  BY <1>1, <1>2 DEF MemFits

-----------------------------------------------------------------------------
(* The inductive invariant: there is a derivative for every index that was *)
(* assigned, every cell has one of these indices, and the dot value in its *)
(* place is the derivative of its index.                                   *)

ForwardInv ==
  /\ TypeOK
  /\ derivative \in Seq(Nat) /\ Len(derivative) = nextindex - 1
  /\ LayerFits(dot_tmp, tmp_offset, tmpCells, derivative)
  /\ LayerFits(dot_guest, gs_offset, guestCells, derivative)
  /\ MemFits(dot_shadow, memCells, derivative)
  /\ dot_cas = cas

(* It contains the agreement of the modes. *)
LEMMA InvAgrees == ForwardInv => ModesAgree
<1> SUFFICES ASSUME ForwardInv PROVE ModesAgree
  OBVIOUS
<1>1. \A t \in Temps : dg_dot_rdtmp(t) = DerivativeOf(tmpCells[t].idx)
  BY DEF ForwardInv, LayerFits, Fits, Temps, dg_dot_rdtmp, DerivativeOf
<1>2. \A o \in Regs : dg_dot_get(o) = DerivativeOf(guestCells[o].idx)
  BY DEF ForwardInv, LayerFits, Fits, Regs, dg_dot_get, DerivativeOf
<1>3. \A a \in Addrs : dot_shadow[a] = DerivativeOf(memCells[a].idx)
  BY DEF ForwardInv, MemFits, Fits, DerivativeOf
<1>4. QED
  BY <1>1, <1>2, <1>3 DEF ForwardInv, ModesAgree

(* The invariant after a step, from its parts. *)
LEMMA InvNext ==
  ASSUME TypeOK', derivative' \in Seq(Nat), Len(derivative') = nextindex' - 1,
         LayerFits(dot_tmp', tmp_offset, tmpCells', derivative'),
         LayerFits(dot_guest', gs_offset, guestCells', derivative'),
         MemFits(dot_shadow', memCells', derivative'),
         dot_cas' = cas'
  PROVE  ForwardInv'
  BY DEF ForwardInv

(* The cells are functions on temporaries, registers and addresses. *)
LEMMA CellDomains ==
  /\ DOMAIN tmpCells = 0 .. tmp_offset - 1
  /\ DOMAIN guestCells = 0 .. gs_offset - 1
  /\ DOMAIN memCells = Addrs
  BY DEF tmpCells, guestCells, memCells, Temps, Regs

-----------------------------------------------------------------------------
(* Operands and expressions. *)

(* The dot value of an operand is the derivative of its index. *)
LEMMA AtomFits ==
  ASSUME ForwardInv, NEW a, IsAtom(a)
  PROVE  /\ Fits(derivative, DotAtom(a), Tagged!Atom(a).idx)
         /\ Tagged!Atom(a).idx = Join(ModifyAtom(a))
         /\ DotAtom(a) = DerivativeOf(Join(ModifyAtom(a)))
         /\ DotAtom(a) \in Nat
<1>1. TypeOK /\ derivative \in Seq(Nat)
  BY DEF ForwardInv
<1>2. Tagged!Atom(a).idx = Join(ModifyAtom(a))
  BY <1>1, AtomMap, Fields
<1>3. Fits(derivative, DotAtom(a), Tagged!Atom(a).idx)
  <2>1. CASE a.tag = "Const"
    BY <1>1, <2>1 DEF DotAtom, Tagged!Atom, Tagged!Cell, Fits
  <2>2. CASE a.tag # "Const"
    <3>1. a.tmp \in 0 .. tmp_offset - 1
      BY <2>2 DEF IsAtom, IsConst, Temps
    <3>2. QED
      BY <2>2, <3>1 DEF DotAtom, Tagged!Atom, dg_dot_rdtmp, ForwardInv, LayerFits
  <2>3. QED
    BY <2>1, <2>2
<1>4. QED
  BY <1>1, <1>2, <1>3, FitsNat DEF Fits, DerivativeOf

(* The place of the dot value of an array element. *)
LEMMA ArrayDot ==
  ASSUME TypeOK, NEW ix, IsAtom(ix), NEW bias \in Nat
  PROVE  Element(base + gs_offset, ix, bias + gs_offset) = Element(base, ix, bias) + gs_offset
<1>1. Atom(ix) \in Vals
  BY AtomMap
<1>2. QED
  BY <1>1, ShadowElement

(* dg_dot_operation and the partial derivatives on the tape are the same rule. *)
LEMMA SameRule ==
  ASSUME ForwardInv, NEW e, e.tag \in Handled, IsAtom(e.arg1), IsAtom(e.arg2), ~Tie(e)
  PROVE  /\ DerivativeOfBlock(e) = dg_dot_operation(e)
         /\ dg_dot_operation(e) \in Nat
         /\ ~Recorded(e) => dg_dot_operation(e) = 0
<1> DEFINE d1 == DotAtom(e.arg1)
           d2 == DotAtom(e.arg2)
           i1 == Join(ModifyAtom(e.arg1))
           i2 == Join(ModifyAtom(e.arg2))
<1>1. /\ d1 = DerivativeOf(i1) /\ d1 \in Nat
      /\ d2 = DerivativeOf(i2) /\ d2 \in Nat
  BY AtomFits
<1>2. Atom(e.arg1) \in Int /\ Atom(e.arg2) \in Int
  <2>1. Atom(e.arg1) \in Vals /\ Atom(e.arg2) \in Vals
    BY AtomMap DEF ForwardInv
  <2>2. QED
    BY <2>1, Params DEF Vals
<1>3. ~Recorded(e) => d1 = 0 /\ d2 = 0
  BY <1>1 DEF Recorded, DerivativeOf
<1>4. DerivativeOfBlock(e) = Partials(e)[1] * d1 + Partials(e)[2] * d2
  BY <1>1 DEF DerivativeOfBlock
<1>5. CASE e.tag = "Add"
  <2>1. Partials(e) = <<1, 1>> /\ dg_dot_operation(e) = d1 + d2
    BY <1>5 DEF Partials, dg_dot_operation
  <2> HIDE DEF d1, d2
  <2>2. QED
    BY <1>1, <1>3, <1>4, <2>1
<1>6. CASE e.tag = "Min"
  <2>1. /\ Partials(e) = IF Atom(e.arg1) < Atom(e.arg2) THEN <<1, 0>> ELSE <<0, 1>>
        /\ dg_dot_operation(e) = IF Atom(e.arg1) < Atom(e.arg2) THEN d1 ELSE d2
    BY <1>6 DEF Partials, dg_dot_operation
  <2> HIDE DEF d1, d2
  <2>2. QED
    BY <1>1, <1>3, <1>4, <2>1
<1>7. CASE e.tag = "Max"
  <2>1. /\ Partials(e) = IF Atom(e.arg1) < Atom(e.arg2) THEN <<0, 1>> ELSE <<1, 0>>
        /\ dg_dot_operation(e) = IF Atom(e.arg1) > Atom(e.arg2) THEN d1 ELSE d2
    BY <1>7 DEF Partials, dg_dot_operation
  <2>2. Atom(e.arg1) = Atom(e.arg2) => d1 = d2
    BY <1>1, <1>7 DEF Tie
  <2> HIDE DEF d1, d2
  <2>3. QED
    BY <1>1, <1>2, <1>3, <1>4, <2>1, <2>2
<1>8. QED
  BY <1>5, <1>6, <1>7 DEF Handled

(* The tape after a statement that assigns e. *)
Longer(e) == IF Recorded(e) THEN Append(derivative, DerivativeOfBlock(e)) ELSE derivative

(* The dot value of an expression is the derivative of its new index. *)
LEMMA ValueFits ==
  ASSUME ForwardInv, NEW e, IsExpr(e), ~Tie(e)
  PROVE  /\ Recorded(e) => DerivativeOfBlock(e) \in Nat
         /\ Fits(Longer(e), Dot(e), Tagged!Value(e).idx)
<1> DEFINE Goal == Fits(Longer(e), Dot(e), Tagged!Value(e).idx)
<1>1. /\ TypeOK /\ derivative \in Seq(Nat) /\ Len(derivative) + 1 = nextindex
      /\ nextindex \in Nat
  BY Params, SMTT(40) DEF ForwardInv, TypeOK
<1>2. CASE e.tag \in Handled
  <2>1. IsAtom(e.arg1) /\ IsAtom(e.arg2)
    BY <1>2, ExprShape
  <2>2. /\ DerivativeOfBlock(e) = dg_dot_operation(e) /\ dg_dot_operation(e) \in Nat
        /\ ~Recorded(e) => dg_dot_operation(e) = 0
    BY <1>2, <2>1, SameRule
  <2>3. Dot(e) = dg_dot_operation(e)
    BY <1>2 DEF Dot, Handled
  <2>4. Tagged!Value(e).idx = IF Recorded(e) THEN nextindex ELSE 0
    <3>1. Tagged!Recorded(e) <=> Recorded(e)
      BY <1>1, <2>1, RecordedMap
    <3>2. QED
      BY <1>2, <3>1 DEF Tagged!Value, Tagged!Cell, Handled, Tagged!Handled
  <2>5. CASE Recorded(e)
    BY <1>1, <2>2, <2>3, <2>4, <2>5, FitsNew DEF Longer
  <2>6. CASE ~Recorded(e)
    BY <1>1, <2>2, <2>3, <2>4, <2>6 DEF Longer, Fits
  <2>7. QED
    BY <2>2, <2>5, <2>6
<1>3. CASE e.tag \notin Handled
  <2>0. ~Recorded(e) /\ Longer(e) = derivative
    BY <1>3 DEF Recorded, Longer
  <2>1. CASE e.tag \in {"Const", "RdTmp"}
    <3>1. Dot(e) = DotAtom(e) /\ Tagged!Value(e) = Tagged!Atom(e)
      BY <2>1 DEF Dot, Tagged!Value, Handled, Tagged!Handled
    <3>2. QED
      BY <2>0, <2>1, <3>1, ExprShape, AtomFits
  <2>2. CASE e.tag = "Get"
    <3>1. Dot(e) = dot_guest[e.offset + gs_offset] /\ Tagged!Value(e) = guestCells[e.offset]
      BY <2>2 DEF Dot, dg_dot_get, Tagged!Value, Handled, Tagged!Handled
    <3>2. QED
      BY <2>0, <2>2, <3>1, ExprShape DEF Regs, ForwardInv, LayerFits
  <2>3. CASE e.tag = "GetI"
    <3>1. IsAtom(e.ix) /\ e.bias \in Nat
      BY <2>3, ExprShape
    <3>2. PICK o \in Regs : o = Element(base, e.ix, e.bias)
      BY <1>1, <3>1, ArrayCell
    <3>3. Dot(e) = dot_guest[o + gs_offset]
      BY <1>1, <2>3, <3>1, <3>2, ArrayDot DEF Dot, dg_dot_geti, Handled
    <3>4. Tagged!Value(e) = guestCells[o]
      <4>1. Tagged!Element(e) = o
        BY <1>1, <3>1, <3>2, ArrayCell DEF Tagged!Element
      <4>2. QED
        BY <2>3, <4>1 DEF Tagged!Value, Handled, Tagged!Handled
    <3>5. QED
      BY <2>0, <3>2, <3>3, <3>4 DEF Regs, ForwardInv, LayerFits
  <2>4. CASE e.tag = "Load"
    <3>1. Dot(e) = dot_shadow[e.addr] /\ Tagged!Value(e) = memCells[e.addr]
      BY <2>4 DEF Dot, Tagged!Value, Handled, Tagged!Handled, dg_dot_load
    <3>2. QED
      BY <2>0, <2>4, <3>1, ExprShape DEF ForwardInv, MemFits
  <2>5. CASE e.tag = "ITE"
    <3>1. IsAtom(e.cond) /\ IsAtom(e.iftrue) /\ IsAtom(e.iffalse)
      BY <2>5, ExprShape
    <3>2. Tagged!Atom(e.cond).val = Atom(e.cond)
      BY <1>1, <3>1, AtomMap, Fields
    <3>3. /\ Dot(e) = IF Atom(e.cond) # 0 THEN DotAtom(e.iftrue) ELSE DotAtom(e.iffalse)
          /\ Tagged!Value(e) = IF Atom(e.cond) # 0 THEN Tagged!Atom(e.iftrue)
                               ELSE Tagged!Atom(e.iffalse)
      BY <2>5, <3>2 DEF Dot, Tagged!Value, Handled, Tagged!Handled
    <3>4. QED
      BY <2>0, <3>1, <3>3, AtomFits
  <2>6. CASE e.tag \in {"UnhandledOp", "CCall"}
    <3>1. Dot(e) = 0 /\ Tagged!Value(e).idx = 0
      BY <2>6 DEF Dot, Tagged!Value, Tagged!Cell, Handled, Tagged!Handled
    <3>2. QED
      BY <1>1, <2>0, <3>1 DEF Fits
  <2>7. QED
    BY <1>3, <2>0, <2>1, <2>2, <2>3, <2>4, <2>5, <2>6, ExprShape
<1>4. QED
  BY <1>2, <1>3

-----------------------------------------------------------------------------
(* Steps that write one cell and leave the tape alone. *)

(* A temporary. *)
LEMMA OneTmp ==
  ASSUME ForwardInv, TypeOK', NEW t \in Temps, NEW d, NEW c, Fits(derivative, d, c.idx),
         tmpCells' = [tmpCells EXCEPT ![t] = c], dot_tmp' = dg_dot_wrtmp(dot_tmp, t, d),
         guestCells' = guestCells, memCells' = memCells, nextindex' = nextindex, cas' = cas,
         UNCHANGED <<dot_guest, dot_shadow, dot_cas, derivative>>
  PROVE  ForwardInv'
<1>1. LayerFits(dot_tmp', tmp_offset, tmpCells', derivative)
  BY LayerWrite, CellDomains, Params DEF ForwardInv, Temps, dg_dot_wrtmp
<1>2. QED
  BY <1>1, InvNext DEF ForwardInv

(* A register. *)
LEMMA OneReg ==
  ASSUME ForwardInv, TypeOK', NEW o \in Regs, NEW d, NEW c, Fits(derivative, d, c.idx),
         guestCells' = [guestCells EXCEPT ![o] = c],
         dot_guest' = [dot_guest EXCEPT ![o + gs_offset] = d],
         tmpCells' = tmpCells, memCells' = memCells, nextindex' = nextindex, cas' = cas,
         UNCHANGED <<dot_tmp, dot_shadow, dot_cas, derivative>>
  PROVE  ForwardInv'
<1>1. LayerFits(dot_guest', gs_offset, guestCells', derivative)
  BY LayerWrite, CellDomains, Params DEF ForwardInv, Regs
<1>2. QED
  BY <1>1, InvNext DEF ForwardInv

(* An address. *)
LEMMA OneAddr ==
  ASSUME ForwardInv, TypeOK', NEW a \in Addrs, NEW d, NEW c, Fits(derivative, d, c.idx),
         memCells' = [memCells EXCEPT ![a] = c], dot_shadow' = [dot_shadow EXCEPT ![a] = d],
         tmpCells' = tmpCells, guestCells' = guestCells, nextindex' = nextindex, cas' = cas,
         UNCHANGED <<dot_tmp, dot_guest, dot_cas, derivative>>
  PROVE  ForwardInv'
<1>1. MemFits(dot_shadow', memCells', derivative)
  BY MemWrite, CellDomains DEF ForwardInv
<1>2. QED
  BY <1>1, InvNext DEF ForwardInv

(* No cell at all. *)
LEMMA NoCell ==
  ASSUME ForwardInv, TypeOK', tmpCells' = tmpCells, guestCells' = guestCells,
         memCells' = memCells, nextindex' = nextindex, cas' = cas, UNCHANGED dotVars
  PROVE  ForwardInv'
  BY InvNext DEF ForwardInv, dotVars

-----------------------------------------------------------------------------
(* One lemma per kind of statement. *)

(* An assignment, which may add a block to the tape. *)
LEMMA ForwardWrTmp ==
  ASSUME ForwardInv, NEW s \in Statements, DotWrTmp(s), ~MaxTies
  PROVE  ForwardInv'
<1>1. TypeOK /\ WrTmp(s)
  BY DEF ForwardInv, DotWrTmp
<1>2. TypeOK' /\ Tagged!WrTmp(s)
  BY <1>1, StepWrTmp
<1>3. s.tmp \in 0 .. tmp_offset - 1 /\ IsExpr(s.data) /\ ~Tie(s.data)
  BY <1>1, StatementShape DEF WrTmp, DotWrTmp, Temps
<1>4. /\ Recorded(s.data) => DerivativeOfBlock(s.data) \in Nat
      /\ Fits(Longer(s.data), Dot(s.data), Tagged!Value(s.data).idx)
  BY <1>3, ValueFits
<1>5. derivative' = Longer(s.data) /\ derivative \in Seq(Nat) /\ Len(derivative) = nextindex - 1
  BY DEF DotWrTmp, Longer, ForwardInv
<1>6. /\ derivative' \in Seq(Nat) /\ Len(derivative') = nextindex' - 1
      /\ LayerFits(dot_tmp, tmp_offset, tmpCells, derivative')
      /\ LayerFits(dot_guest, gs_offset, guestCells, derivative')
      /\ MemFits(dot_shadow, memCells, derivative')
  <2>1. CASE Recorded(s.data)
    <3>1. derivative' = Append(derivative, DerivativeOfBlock(s.data))
      BY <1>5, <2>1 DEF Longer
    <3>2. nextindex' = nextindex + 1 /\ nextindex \in Nat
      BY <1>1, <2>1, Params DEF WrTmp, TypeOK
    <3>3. derivative' \in Seq(Nat) /\ Len(derivative') = nextindex' - 1
      BY <1>4, <1>5, <2>1, <3>1, <3>2
    <3>4. QED
      BY <1>4, <1>5, <2>1, <3>1, <3>3, LayerGrow, MemGrow DEF ForwardInv
  <2>2. CASE ~Recorded(s.data)
    BY <1>1, <1>5, <2>2 DEF Longer, WrTmp, ForwardInv
  <2>3. QED
    BY <2>1, <2>2
<1>7. /\ tmpCells' = [tmpCells EXCEPT ![s.tmp] = Tagged!Value(s.data)]
      /\ guestCells' = guestCells /\ memCells' = memCells
  BY <1>2 DEF Tagged!WrTmp
<1>8. /\ dot_tmp' = [dot_tmp EXCEPT ![s.tmp + tmp_offset] = Dot(s.data)]
      /\ UNCHANGED <<dot_guest, dot_shadow, dot_cas, cas>>
  BY <1>1 DEF DotWrTmp, WrTmp, dg_dot_wrtmp
<1>9. LayerFits(dot_tmp', tmp_offset, tmpCells', derivative')
  BY <1>3, <1>4, <1>5, <1>6, <1>7, <1>8, LayerWrite, CellDomains, Params
<1>10. QED
  BY <1>2, <1>6, <1>7, <1>8, <1>9, InvNext DEF ForwardInv

LEMMA ForwardPut ==
  ASSUME ForwardInv, NEW s \in Statements, DotPut(s)
  PROVE  ForwardInv'
<1>1. TypeOK /\ Put(s)
  BY DEF ForwardInv, DotPut
<1>2. TypeOK' /\ Tagged!Put(s)
  BY <1>1, StepPut
<1>3. s.offset \in Regs /\ IsAtom(s.data)
  BY <1>1, StatementShape DEF Put
<1>4. QED
  BY <1>1, <1>2, <1>3, AtomFits, OneReg DEF DotPut, Put, Tagged!Put

LEMMA ForwardPutI ==
  ASSUME ForwardInv, NEW s \in Statements, DotPutI(s)
  PROVE  ForwardInv'
<1>1. TypeOK /\ PutI(s)
  BY DEF ForwardInv, DotPutI
<1>2. TypeOK' /\ Tagged!PutI(s)
  BY <1>1, StepPutI
<1>3. IsAtom(s.ix) /\ s.bias \in Nat /\ IsAtom(s.data)
  BY <1>1, StatementShape DEF PutI
<1>4. PICK o \in Regs : o = Element(base, s.ix, s.bias)
  BY <1>1, <1>3, ArrayCell
<1>5. Tagged!Element(s) = o /\ Element(base + gs_offset, s.ix, s.bias + gs_offset) = o + gs_offset
  BY <1>1, <1>3, <1>4, ArrayCell, ArrayDot DEF Tagged!Element
<1>6. /\ guestCells' = [guestCells EXCEPT ![o] = Tagged!Atom(s.data)]
      /\ dot_guest' = [dot_guest EXCEPT ![o + gs_offset] = DotAtom(s.data)]
  BY <1>2, <1>5 DEF Tagged!PutI, DotPutI
<1>7. /\ tmpCells' = tmpCells /\ memCells' = memCells
      /\ UNCHANGED <<nextindex, cas, dot_tmp, dot_shadow, dot_cas, derivative>>
  BY <1>1, <1>2 DEF DotPutI, PutI, Tagged!PutI
<1>8. Fits(derivative, DotAtom(s.data), Tagged!Atom(s.data).idx)
  BY <1>3, AtomFits
<1>9. QED
  BY <1>2, <1>6, <1>7, <1>8, OneReg

LEMMA ForwardStore ==
  ASSUME ForwardInv, NEW s \in Statements, DotStore(s)
  PROVE  ForwardInv'
<1>1. TypeOK /\ Store(s)
  BY DEF ForwardInv, DotStore
<1>2. TypeOK' /\ Tagged!Store(s)
  BY <1>1, StepStore
<1>3. s.addr \in Addrs /\ IsAtom(s.data) /\ IsAtom(s.guard)
  BY <1>1, StatementShape DEF Store
<1>4. Tagged!Atom(s.guard).val = Atom(s.guard)
  BY <1>1, <1>3, AtomMap, Fields
<1>5. CASE Atom(s.guard) # 0
  <2>1. /\ memCells' = [memCells EXCEPT ![s.addr] = Tagged!Atom(s.data)]
        /\ dot_shadow' = [dot_shadow EXCEPT ![s.addr] = DotAtom(s.data)]
    BY <1>2, <1>4, <1>5 DEF Tagged!Store, DotStore
  <2>2. QED
    BY <1>1, <1>2, <1>3, <2>1, AtomFits, OneAddr, ZenonT(60) DEF DotStore, Store, Tagged!Store
<1>6. CASE Atom(s.guard) = 0
  <2>1. memCells' = memCells /\ dot_shadow' = dot_shadow
    BY <1>2, <1>4, <1>6 DEF Tagged!Store, DotStore
  <2>2. QED
    BY <1>1, <1>2, <2>1, NoCell DEF DotStore, Store, Tagged!Store, dotVars
<1>7. QED
  BY <1>5, <1>6

LEMMA ForwardLoadG ==
  ASSUME ForwardInv, NEW s \in Statements, DotLoadG(s)
  PROVE  ForwardInv'
<1>1. TypeOK /\ LoadG(s)
  BY DEF ForwardInv, DotLoadG
<1>2. TypeOK' /\ Tagged!LoadG(s)
  BY <1>1, StepLoadG
<1>3. s.dst \in Temps /\ s.addr \in Addrs /\ IsAtom(s.alt) /\ IsAtom(s.guard)
  BY <1>1, StatementShape DEF LoadG
<1>4. Tagged!Atom(s.guard).val = Atom(s.guard)
  BY <1>1, <1>3, AtomMap, Fields
<1>5. PICK d, c : /\ d = IF Atom(s.guard) # 0 THEN dot_shadow[s.addr] ELSE DotAtom(s.alt)
                  /\ c = IF Atom(s.guard) # 0 THEN memCells[s.addr] ELSE Tagged!Atom(s.alt)
  OBVIOUS
<1>6. Fits(derivative, d, c.idx)
  BY <1>3, <1>5, AtomFits DEF ForwardInv, MemFits
<1>7. tmpCells' = [tmpCells EXCEPT ![s.dst] = c] /\ dot_tmp' = dg_dot_wrtmp(dot_tmp, s.dst, d)
  BY <1>2, <1>4, <1>5 DEF Tagged!LoadG, DotLoadG, dg_dot_load
<1>8. QED
  BY <1>1, <1>2, <1>3, <1>6, <1>7, OneTmp DEF DotLoadG, LoadG, Tagged!LoadG, dg_dot_load

LEMMA ForwardStoreF80 ==
  ASSUME ForwardInv, NEW s \in Statements, DotStoreF80(s)
  PROVE  ForwardInv'
<1>1. TypeOK /\ StoreF80(s)
  BY DEF ForwardInv, DotStoreF80
<1>2. TypeOK' /\ Tagged!StoreF80(s)
  BY <1>1, StepStoreF80
<1>3. s.addr \in Addrs /\ IsAtom(s.data)
  BY <1>1, StatementShape DEF StoreF80
<1>4. QED
  BY <1>1, <1>2, <1>3, AtomFits, OneAddr DEF DotStoreF80, StoreF80, Tagged!StoreF80

LEMMA ForwardLoadF80 ==
  ASSUME ForwardInv, NEW s \in Statements, DotLoadF80(s)
  PROVE  ForwardInv'
<1>1. TypeOK /\ LoadF80(s)
  BY DEF ForwardInv, DotLoadF80
<1>2. TypeOK' /\ Tagged!LoadF80(s)
  BY <1>1, StepLoadF80
<1>3. s.addr \in Addrs /\ s.tmp \in Temps
  BY <1>1, StatementShape DEF LoadF80
<1>4. Fits(derivative, dot_shadow[s.addr], memCells[s.addr].idx)
  BY <1>3 DEF ForwardInv, MemFits
<1>5. QED
  BY <1>1, <1>2, <1>3, <1>4, OneTmp DEF DotLoadF80, LoadF80, Tagged!LoadF80

(* Cells that change and keep their indices. *)
LEMMA LayerSame ==
  ASSUME NEW D, NEW T, NEW N, NEW C, NEW B, LayerFits(T, N, C, D),
         \A u \in 0 .. N - 1 : B[u].idx = C[u].idx
  PROVE  LayerFits(T, N, B, D)
  BY DEF LayerFits

LEMMA MemSame ==
  ASSUME NEW D, NEW M, NEW C, NEW B, MemFits(M, C, D), \A a \in Addrs : B[a].idx = C[a].idx
  PROVE  MemFits(M, B, D)
  BY DEF MemFits

(* What a dirty call overwrites has the index 0 before and after. *)
LEMMA ForwardDirty ==
  ASSUME ForwardInv, NEW s \in Statements, DotDirty(s), ~DirtyOverActive
  PROVE  ForwardInv'
<1>1. TypeOK /\ Dirty(s) /\ OverwritesPassive(s)
  BY DEF ForwardInv, DotDirty, Dirty
<1>2. TypeOK'
  BY <1>1, StepDirty
<1>3. /\ UNCHANGED <<dot_guest, dot_shadow, dot_cas, derivative>>
      /\ nextindex' = nextindex /\ cas' = cas
      /\ dot_tmp' = IF s.tmp = IRTemp_INVALID THEN dot_tmp ELSE dg_dot_wrtmp(dot_tmp, s.tmp, 0)
  BY <1>1 DEF DotDirty, Dirty
<1>4. LayerFits(dot_tmp', tmp_offset, tmpCells', derivative)
  <2>1. CASE s.tmp = IRTemp_INVALID /\ tmpCells' = tmpCells
    BY <1>3, <2>1 DEF ForwardInv
  <2>2. CASE /\ s.tmp \in Temps /\ s.tmp # IRTemp_INVALID
             /\ \E v \in Vals : tmpCells' = [tmpCells EXCEPT ![s.tmp] = Tagged!Cell(v, 0)]
    <3>1. PICK v \in Vals : tmpCells' = [tmpCells EXCEPT ![s.tmp] = Tagged!Cell(v, 0)]
      BY <2>2
    <3>2. Fits(derivative, 0, Tagged!Cell(v, 0).idx)
      BY DEF ForwardInv, Fits, Tagged!Cell
    <3>3. dot_tmp' = [dot_tmp EXCEPT ![s.tmp + tmp_offset] = 0]
      BY <1>3, <2>2 DEF dg_dot_wrtmp
    <3>4. s.tmp \in 0 .. tmp_offset - 1
      BY <2>2 DEF Temps
    <3>5. QED
      BY <3>1, <3>2, <3>3, <3>4, LayerWrite, CellDomains, Params DEF ForwardInv
  <2>3. QED
    BY <1>1, <2>1, <2>2, DirtyTmp
<1>5. \A o \in 0 .. gs_offset - 1 : guestCells'[o].idx = guestCells[o].idx
  <2>1. PICK new \in [s.fxState -> Vals] :
          guestCells' = [o \in 0 .. gs_offset - 1 |->
                           IF o \in s.fxState THEN Tagged!Cell(new[o], 0) ELSE guestCells[o]]
    BY <1>1, DirtyGuest
  <2>2. ASSUME NEW o \in 0 .. gs_offset - 1, o \in s.fxState
        PROVE  guestCells[o].idx = 0
    <3>1. guestCells[o] = Shadowed(guest[o], Zero)
      BY <1>1, <2>2 DEF guestCells, Regs, OverwritesPassive
    <3>2. QED
      BY <3>1, JoinZero, Fields
  <2>3. QED
    BY <2>1, <2>2 DEF Tagged!Cell
<1>6. \A a \in Addrs : memCells'[a].idx = memCells[a].idx
  <2>1. PICK new \in [s.mAddr -> Vals] :
          memCells' = [a \in Addrs |-> IF a \in s.mAddr THEN Tagged!Cell(new[a], 0)
                                       ELSE memCells[a]]
    BY <1>1, DirtyMem
  <2>2. ASSUME NEW a \in Addrs, a \in s.mAddr
        PROVE  memCells[a].idx = 0
    <3>1. memCells[a] = Shadowed(mem[a], Zero)
      BY <1>1, <2>2 DEF memCells, OverwritesPassive
    <3>2. QED
      BY <3>1, JoinZero, Fields
  <2>3. QED
    BY <2>1, <2>2 DEF Tagged!Cell
<1>7. /\ LayerFits(dot_guest, gs_offset, guestCells', derivative)
      /\ MemFits(dot_shadow, memCells', derivative)
  BY <1>5, <1>6, LayerSame, MemSame DEF ForwardInv
<1>8. QED
  BY <1>2, <1>3, <1>4, <1>7, InvNext DEF ForwardInv

(* An input gets the next index, whose derivative is the seed. *)
LEMMA ForwardDeclareInput ==
  ASSUME ForwardInv, NEW a \in Addrs, DotDeclareInput(a)
  PROVE  ForwardInv'
<1>1. TypeOK /\ DeclareInput(a) /\ derivative \in Seq(Nat) /\ Len(derivative) + 1 = nextindex
  <2>1. nextindex \in Nat
    BY Params DEF ForwardInv, TypeOK
  <2>2. QED
    BY <2>1 DEF ForwardInv, DotDeclareInput
<1>2. TypeOK' /\ Tagged!DeclareInput(a)
  BY <1>1, StepDeclareInput
<1>3. derivative' = Append(derivative, 1) /\ derivative' \in Seq(Nat) /\ nextindex' = nextindex + 1
  BY <1>1 DEF DotDeclareInput, DeclareInput
<1>4. /\ LayerFits(dot_tmp, tmp_offset, tmpCells, derivative')
      /\ LayerFits(dot_guest, gs_offset, guestCells, derivative')
      /\ MemFits(dot_shadow, memCells, derivative')
  BY <1>1, <1>3, LayerGrow, MemGrow DEF ForwardInv
<1>5. PICK c : c = [memCells[a] EXCEPT !.idx = nextindex]
  OBVIOUS
<1>6. c.idx = nextindex
  BY <1>5 DEF memCells, Shadowed
<1>7. Fits(derivative', 1, c.idx)
  BY <1>1, <1>3, <1>6, FitsNew
<1>8. memCells' = [memCells EXCEPT ![a] = c]
  BY <1>2, <1>5 DEF Tagged!DeclareInput
<1>9. MemFits(dot_shadow', memCells', derivative')
  BY <1>3, <1>4, <1>7, <1>8, MemWrite, CellDomains DEF DotDeclareInput
<1>10. Len(derivative') = nextindex' - 1
  BY <1>1, <1>3 DEF TypeOK
<1>11. /\ tmpCells' = tmpCells /\ guestCells' = guestCells
       /\ UNCHANGED <<dot_tmp, dot_guest, dot_cas, cas>>
  BY <1>1, <1>2 DEF Tagged!DeclareInput, DotDeclareInput, DeclareInput
<1>12. QED
  BY <1>2, <1>3, <1>4, <1>9, <1>10, <1>11, InvNext DEF ForwardInv

(* Equal indices have equal dot values, so that the test of forward mode succeeds *)
(* whenever that of recording mode does, and the latter whenever values agree.    *)
LEMMA CasOutcome ==
  ASSUME ForwardInv, NEW s \in Statements, CAS(s), ~MixedCAS
  PROVE  cas_succeeded(s) = equal_values(s) /\ dot_cas_succeeded(s) = equal_values(s)
<1>1. /\ s.addr \in Addrs /\ IsAtom(s.expdLo) /\ s.double \in BOOLEAN
      /\ s.double => s.addr + 1 \in Addrs /\ IsAtom(s.expdHi)
  BY CasShape DEF CAS
<1>2. ASSUME NEW a \in Addrs, NEW e, IsAtom(e), EqualModifiedValues(a, e)
      PROVE  EqualDots(a, e)
  <2>1. ModifyAtom(e) = shadow[a]
    BY <1>2 DEF EqualModifiedValues
  <2>2. DotAtom(e) = DerivativeOf(Join(ModifyAtom(e)))
    BY <1>2, AtomFits
  <2>3. memCells[a].idx = Join(shadow[a])
    BY DEF memCells, Shadowed
  <2>4. dot_shadow[a] = DerivativeOf(memCells[a].idx)
    BY DEF ForwardInv, MemFits, Fits, DerivativeOf
  <2>5. QED
    BY <2>1, <2>2, <2>3, <2>4 DEF EqualDots, dg_dot_load
<1>3. equal_values(s) => equal_modifiedvalues(s)
  BY DEF CAS
<1>4. equal_modifiedvalues(s) =>
        EqualDots(addr_Lo(s), s.expdLo) /\ (s.double => EqualDots(addr_Hi(s), s.expdHi))
  BY <1>1, <1>2 DEF equal_modifiedvalues, addr_Lo, addr_Hi
<1>5. equal_values(s) \in BOOLEAN
  BY DEF equal_values
<1>6. cas_succeeded(s) <=> equal_values(s)
  BY <1>3 DEF cas_succeeded
<1>7. dot_cas_succeeded(s) <=> equal_values(s)
  BY <1>3, <1>4 DEF dot_cas_succeeded
<1>8. cas_succeeded(s) \in BOOLEAN /\ dot_cas_succeeded(s) \in BOOLEAN
  BY DEF cas_succeeded, dot_cas_succeeded
<1>9. QED
  BY <1>5, <1>6, <1>7, <1>8

(* Compare-and-swap of one or two elements. *)
LEMMA ForwardCAS ==
  ASSUME ForwardInv, NEW s \in Statements, DotCAS(s), ~MixedCAS
  PROVE  ForwardInv'
<1> DEFINE ok == equal_values(s)
           old == dg_dot_wrtmp(dot_tmp, s.oldLo, dot_shadow[s.addr])
           oldCells == [tmpCells EXCEPT ![s.oldLo] = memCells[s.addr]]
<1>1. TypeOK /\ CAS(s) /\ derivative \in Seq(Nat)
  BY DEF ForwardInv, DotCAS
<1>2. TypeOK'
  BY <1>1, StepCasType
<1>3. /\ s.addr \in Addrs /\ s.oldLo \in Temps /\ IsAtom(s.dataLo) /\ s.double \in BOOLEAN
      /\ s.double => s.addr + 1 \in Addrs /\ s.oldHi \in Temps /\ IsAtom(s.dataHi)
  BY <1>1, CasShape DEF CAS
<1>4. cas_succeeded(s) = ok /\ dot_cas_succeeded(s) = ok
  BY <1>1, CasOutcome
<1>5. dot_cas' = cas'
  BY <1>1, <1>4 DEF DotCAS, CAS, dg_dot_load
<1>6. \A a \in Addrs : Fits(derivative, dot_shadow[a], memCells[a].idx) /\ dot_shadow[a] \in Nat
  BY DEF ForwardInv, MemFits
<1>7. LayerFits(dot_tmp', tmp_offset, tmpCells', derivative)
  <2>1. /\ dot_tmp' = IF s.double THEN dg_dot_wrtmp(old, s.oldHi, dot_shadow[s.addr + 1]) ELSE old
        /\ tmpCells' = IF s.double THEN [oldCells EXCEPT ![s.oldHi] = memCells[s.addr + 1]]
                       ELSE oldCells
    BY <1>1, CasOld DEF DotCAS, addr_Lo, addr_Hi, dg_dot_load
  <2>2. LayerFits(old, tmp_offset, oldCells, derivative)
    BY <1>1, <1>3, <1>6, LayerWrite, CellDomains, Params DEF ForwardInv, Temps, dg_dot_wrtmp
  <2>3. DOMAIN oldCells = 0 .. tmp_offset - 1
    BY CellDomains
  <2> HIDE DEF old, oldCells
  <2>4. CASE s.double
    BY <1>1, <1>3, <1>6, <2>1, <2>2, <2>3, <2>4, LayerWrite, Params DEF Temps, dg_dot_wrtmp
  <2>5. CASE ~s.double
    BY <2>1, <2>2, <2>5
  <2>6. QED
    BY <2>4, <2>5
<1>8. MemFits(dot_shadow', memCells', derivative)
  <2> HIDE DEF ok
  <2>1. memCells' = [a \in Addrs |->
              IF ok /\ a = s.addr THEN Tagged!Atom(s.dataLo)
              ELSE IF ok /\ s.double /\ a = s.addr + 1 THEN Tagged!Atom(s.dataHi)
              ELSE memCells[a]]
    BY <1>1, <1>4, CasCells
  <2>2. dot_shadow' = [a \in Addrs |->
              IF ok /\ a = s.addr THEN DotAtom(s.dataLo)
              ELSE IF ok /\ s.double /\ a = s.addr + 1 THEN DotAtom(s.dataHi)
              ELSE dot_shadow[a]]
    BY <1>4 DEF DotCAS, addr_Lo, addr_Hi, dg_dot_load
  <2>3. /\ Fits(derivative, DotAtom(s.dataLo), Tagged!Atom(s.dataLo).idx)
        /\ DotAtom(s.dataLo) \in Nat
        /\ s.double => /\ Fits(derivative, DotAtom(s.dataHi), Tagged!Atom(s.dataHi).idx)
                       /\ DotAtom(s.dataHi) \in Nat
    BY <1>3, AtomFits
  <2>4. dot_shadow' \in [Addrs -> Nat]
    BY <1>6, <2>2, <2>3
  <2>5. ASSUME NEW a \in Addrs
        PROVE  Fits(derivative, dot_shadow'[a], memCells'[a].idx)
    <3>1. CASE ok /\ a = s.addr
      BY <2>1, <2>2, <2>3, <3>1
    <3>2. CASE ~(ok /\ a = s.addr) /\ ok /\ s.double /\ a = s.addr + 1
      BY <2>1, <2>2, <2>3, <3>2
    <3>3. CASE ~(ok /\ a = s.addr) /\ ~(ok /\ s.double /\ a = s.addr + 1)
      BY <1>6, <2>1, <2>2, <3>3
    <3>4. QED
      BY <3>1, <3>2, <3>3
  <2>6. QED
    BY <2>4, <2>5 DEF MemFits
<1>9. guestCells' = guestCells /\ UNCHANGED <<nextindex, dot_guest, derivative>>
  BY <1>1, Unwritten DEF CAS, DotCAS
<1>10. QED
  BY <1>2, <1>5, <1>7, <1>8, <1>9, InvNext DEF ForwardInv

-----------------------------------------------------------------------------
(* The theorem. *)

LEMMA ForwardInit ==
  ASSUME DotInit
  PROVE  ForwardInv
<1>1. TypeOK /\ Tagged!Init
  BY InitCells DEF DotInit
<1>2. /\ \A t \in 0 .. tmp_offset - 1 : tmpCells[t].idx = 0
      /\ \A o \in 0 .. gs_offset - 1 : guestCells[o].idx = 0
      /\ \A a \in Addrs : memCells[a].idx = 0
  BY <1>1 DEF Tagged!Init, Tagged!Cell
<1>3. derivative \in Seq(Nat) /\ Len(derivative) = nextindex - 1
  BY DEF DotInit, Init
<1>4. Fits(derivative, 0, 0)
  BY <1>3 DEF Fits
<1>5. LayerFits(dot_tmp, tmp_offset, tmpCells, derivative)
  BY <1>2, <1>4, Params DEF DotInit, LayerFits
<1>6. LayerFits(dot_guest, gs_offset, guestCells, derivative)
  BY <1>2, <1>4, Params DEF DotInit, LayerFits
<1>7. MemFits(dot_shadow, memCells, derivative)
  BY <1>2, <1>4 DEF DotInit, MemFits
<1>8. QED
  BY <1>1, <1>3, <1>5, <1>6, <1>7 DEF DotInit, ForwardInv

LEMMA ForwardStep ==
  ASSUME ForwardInv, [DotNext]_allVars, ~MixedCAS, ~DirtyOverActive, ~MaxTies
  PROVE  ForwardInv'
<1>1. CASE \E s \in Statements :
             \/ DotWrTmp(s) \/ DotPut(s) \/ DotPutI(s) \/ DotStore(s) \/ DotLoadG(s)
             \/ DotCAS(s) \/ DotStoreF80(s) \/ DotLoadF80(s) \/ DotDirty(s)
  BY <1>1, ForwardWrTmp, ForwardPut, ForwardPutI, ForwardStore, ForwardLoadG, ForwardCAS,
     ForwardStoreF80, ForwardLoadF80, ForwardDirty
<1>2. CASE \E a \in Addrs : DotDeclareInput(a)
  BY <1>2, ForwardDeclareInput
<1>3. CASE UNCHANGED allVars
  <2>1. UNCHANGED vars /\ UNCHANGED dotVars
    BY <1>3 DEF allVars
  <2>2. TypeOK' /\ UNCHANGED Tagged!vars
    BY <2>1, Stutter DEF ForwardInv
  <2>3. QED
    BY <2>1, <2>2, NoCell DEF Tagged!vars, vars
<1>4. QED
  BY <1>1, <1>2, <1>3 DEF DotNext

(* dg_dot.c and dg_bar.c differentiate the same program: for every program, the *)
(* dot value that forward mode keeps for a temporary, register or address is    *)
(* what a forward evaluation of the tape of recording mode finds for it,        *)
(* provided that no CAS meets the expected value under another shadow, no dirty *)
(* call overwrites active data in registers or memory, and no maximum has equal *)
(* operands with different shadows.                                             *)
THEOREM ForwardAgrees ==
  ~MixedCAS /\ ~DirtyOverActive /\ ~MaxTies => (DotSpec => []ModesAgree)
<1> SUFFICES ASSUME ~MixedCAS, ~DirtyOverActive, ~MaxTies
             PROVE  DotSpec => []ModesAgree
  OBVIOUS
<1>1. DotInit => ForwardInv
  BY ForwardInit
<1>2. ForwardInv /\ [DotNext]_allVars => ForwardInv'
  BY ForwardStep
<1>3. QED
  BY <1>1, <1>2, InvAgrees, PTL DEF DotSpec

(* Forward mode beside recording mode restricts the steps of the latter: each   *)
(* action of ForwardStatements is one of ShadowStatements with a conjunct about *)
(* dot values.  StatementsTyped and InstrumentationCorrect hold here, too.      *)
THEOREM ForwardIsRecording == DotSpec => Spec
<1>1. DotInit => Init
  BY DEF DotInit
<1>2. ASSUME DotNext PROVE Next
  BY <1>2 DEF DotNext, Next, DotWrTmp, DotPut, DotPutI, DotStore, DotLoadG, DotCAS,
     DotStoreF80, DotLoadF80, DotDirty, DotDeclareInput
<1>3. [DotNext]_allVars => [Next]_vars
  BY <1>2 DEF allVars
<1>4. QED
  BY <1>1, <1>3, PTL DEF DotSpec, Spec
=============================================================================
