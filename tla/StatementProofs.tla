--------------------------- MODULE StatementProofs --------------------------
(***************************************************************************)
(* The instrumented program implements TaggedProgram, for every number of  *)
(* temporaries, registers and addresses and every program, as long as CAS  *)
(* never meets the expected value with another shadow and dirty calls      *)
(* overwrite no register or address whose contents have an index.          *)
(***************************************************************************)
EXTENDS ShadowStatements, ModLemmas

-----------------------------------------------------------------------------
(* Indices and cells. *)

(* The constants without the program. *)
LEMMA Params ==
  /\ tmp_offset \in Nat \ {0} /\ gs_offset \in Nat \ {0} /\ nElems \in Nat \ {0}
  /\ base \in Nat /\ base + nElems <= gs_offset /\ gs_offset % nElems = 0
  /\ Addrs \subseteq Nat /\ nVal \in Nat \ {0} /\ HALF \in Nat \ {0}
  /\ MaxIndex \in Nat
  BY StatementsAssumption

(* The two halves of an index make up the index again. *)
LEMMA JoinSplit ==
  ASSUME NEW i \in Nat
  PROVE  Split(i) \in Halves /\ Join(Split(i)) = i
<1>1. i % HALF \in 0 .. (HALF - 1) /\ i \div HALF \in Nat /\ i = HALF * (i \div HALF) + (i % HALF)
  BY ModDiv, Params
<1>2. HALF * (i \div HALF) \in Int
  BY <1>1, Params
<1>3. i = (i % HALF) + HALF * (i \div HALF)
  BY <1>1, <1>2
<1>4. QED
  BY <1>1, <1>3 DEF Split, Join, Halves

(* Joined halves are a number. *)
LEMMA JoinNat ==
  ASSUME NEW sh \in Halves
  PROVE  Join(sh) \in Nat
<1>1. PICK lo \in 0 .. (HALF - 1), hi \in Nat : sh = <<lo, hi>>
  BY Params DEF Halves
<1>2. HALF * hi \in Nat
  BY Params
<1>3. QED
  BY <1>1, <1>2 DEF Join

(* The shadow of passive data stands for index 0. *)
LEMMA JoinZero == Zero \in Halves /\ Join(Zero) = 0
<1>1. HALF * 0 = 0
  BY Params
<1>2. QED
  BY <1>1, Params DEF Zero, Join, Halves

(* A shadow is never the NULL that asks for the default. *)
LEMMA NotNull ==
  ASSUME NEW sh \in Halves
  PROVE  sh # NULL
  BY DEF Halves, NULL

(* A sequence of N values that is followed by its two layers of shadows, as the *)
(* temporaries and the guest state are, and the cells that it stands for.       *)
Layered(T, N) ==
  /\ T \in [0 .. 3 * N - 1 -> Nat]
  /\ \A u \in 0 .. N - 1 : T[u] \in Vals /\ <<T[u + N], T[u + 2 * N]>> \in Halves

Written(T, N, t, v, sh) == [T EXCEPT ![t] = v, ![t + N] = sh[1], ![t + 2 * N] = sh[2]]

CellsOf(T, N) == [u \in 0 .. N - 1 |-> Shadowed(T[u], <<T[u + N], T[u + 2 * N]>>)]

(* The places of a value and its shadows are distinct from those of others. *)
LEMMA Places ==
  ASSUME NEW N \in Nat \ {0}, NEW t \in 0 .. N - 1
  PROVE  /\ t \in 0 .. 3 * N - 1 /\ t + N \in 0 .. 3 * N - 1 /\ t + 2 * N \in 0 .. 3 * N - 1
         /\ t # t + N /\ t # t + 2 * N /\ t + N # t + 2 * N
         /\ \A u \in 0 .. N - 1 : u # t =>
              /\ u \notin {t, t + N, t + 2 * N}
              /\ u + N \notin {t, t + N, t + 2 * N}
              /\ u + 2 * N \notin {t, t + N, t + 2 * N}
  OBVIOUS

(* Writing a value and its shadows writes one cell. *)
LEMMA WriteCell ==
  ASSUME NEW N \in Nat \ {0}, NEW T, Layered(T, N), NEW t \in 0 .. N - 1,
         NEW v \in Vals, NEW sh \in Halves
  PROVE  /\ Layered(Written(T, N, t, v, sh), N)
         /\ CellsOf(Written(T, N, t, v, sh), N)
              = [CellsOf(T, N) EXCEPT ![t] = Shadowed(v, sh)]
<1> DEFINE W == Written(T, N, t, v, sh)
           D == 0 .. 3 * N - 1
           a == t + N
           b == t + 2 * N
           lo == sh[1]
           hi == sh[2]
<1>1. t \in D /\ a \in D /\ b \in D /\ t # a /\ t # b /\ a # b
  BY Places
<1>2. lo \in Nat /\ hi \in Nat /\ v \in Nat /\ <<lo, hi>> = sh
  BY Params DEF Halves, Vals
<1>3. T \in [D -> Nat]
  BY DEF Layered
<1>4. W = [T EXCEPT ![t] = v, ![a] = lo, ![b] = hi]
  BY DEF Written
<1>5. ASSUME NEW u \in 0 .. N - 1, u # t
      PROVE  /\ u \in D \ {t, a, b} /\ u + N \in D \ {t, a, b}
             /\ u + 2 * N \in D \ {t, a, b}
  BY <1>5, Places
<1> HIDE DEF W, D, a, b, lo, hi
<1>6. W \in [D -> Nat] /\ W[t] = v /\ W[a] = lo /\ W[b] = hi
  BY ONLY <1>1, <1>2, <1>3, <1>4
<1>7. \A p \in D \ {t, a, b} : W[p] = T[p]
  BY ONLY <1>1, <1>2, <1>3, <1>4
<1>8. W[t] = v /\ <<W[t + N], W[t + 2 * N]>> = sh
  BY <1>6, <1>2 DEF a, b
<1>9. ASSUME NEW u \in 0 .. N - 1, u # t
      PROVE  W[u] = T[u] /\ W[u + N] = T[u + N] /\ W[u + 2 * N] = T[u + 2 * N]
  BY <1>5, <1>7, <1>9
<1>10. Layered(W, N)
  <2>1. W \in [0 .. 3 * N - 1 -> Nat]
    BY <1>6 DEF D
  <2>2. ASSUME NEW u \in 0 .. N - 1
        PROVE  W[u] \in Vals /\ <<W[u + N], W[u + 2 * N]>> \in Halves
    <3>1. CASE u = t
      BY <1>8, <3>1
    <3>2. CASE u # t
      BY <1>9, <3>2 DEF Layered
    <3>3. QED
      BY <3>1, <3>2
  <2>3. QED
    BY <2>1, <2>2 DEF Layered
<1>11. ASSUME NEW u \in 0 .. N - 1
       PROVE  Shadowed(W[u], <<W[u + N], W[u + 2 * N]>>)
                = IF u = t THEN Shadowed(v, sh)
                  ELSE Shadowed(T[u], <<T[u + N], T[u + 2 * N]>>)
  <2>1. CASE u = t
    <3>1. Shadowed(W[t], <<W[t + N], W[t + 2 * N]>>) = Shadowed(v, sh)
      BY <1>8, Zenon
    <3>2. QED
      BY <2>1, <3>1
  <2>2. CASE u # t
    <3>1. Shadowed(W[u], <<W[u + N], W[u + 2 * N]>>)
            = Shadowed(T[u], <<T[u + N], T[u + 2 * N]>>)
      BY <1>9, <2>2, Zenon
    <3>2. QED
      BY <2>2, <3>1
  <2>3. QED
    BY <2>1, <2>2
<1>12. CellsOf(W, N) = [CellsOf(T, N) EXCEPT ![t] = Shadowed(v, sh)]
  BY <1>11 DEF CellsOf
<1>13. QED
  BY <1>10, <1>12 DEF W

(* Splitting up a shadow. *)
LEMMA PairEta ==
  ASSUME NEW sh \in Halves
  PROVE  <<sh[1], sh[2]>> = sh
  BY DEF Halves

(* The shadows of an array of registers are as far apart as the registers. *)
LEMMA ShadowElement ==
  ASSUME NEW ix, NEW bias \in Nat, Atom(ix) \in Vals
  PROVE  /\ Element(base, ix, bias) \in Regs
         /\ Element(base + gs_offset, ix, bias + gs_offset) = Element(base, ix, bias) + gs_offset
         /\ Element(base + 2 * gs_offset, ix, bias + 2 * gs_offset)
              = Element(base, ix, bias) + 2 * gs_offset
<1> DEFINE n == Atom(ix) + bias
<1>1. n \in Nat /\ Atom(ix) \in Nat
  BY Params DEF Vals
<1>2. n % nElems \in 0 .. (nElems - 1)
  BY <1>1, ModDiv, Params
<1>3. (n + gs_offset) % nElems = n % nElems
  BY <1>1, ModShift, Params
<1>4. ((n + gs_offset) + gs_offset) % nElems = (n + gs_offset) % nElems
  <2>1. n + gs_offset \in Nat
    BY <1>1, Params
  <2>2. QED
    BY <2>1, ModShift, Params
<1>5. /\ Atom(ix) + (bias + gs_offset) = n + gs_offset
      /\ Atom(ix) + (bias + 2 * gs_offset) = (n + gs_offset) + gs_offset
  BY <1>1, Params
<1>6. Element(base, ix, bias) = base + (n % nElems)
  BY DEF Element
<1>7. Element(base + gs_offset, ix, bias + gs_offset) = (base + gs_offset) + (n % nElems)
  BY <1>3, <1>5 DEF Element
<1>8. Element(base + 2 * gs_offset, ix, bias + 2 * gs_offset) = (base + 2 * gs_offset) + (n % nElems)
  BY <1>3, <1>4, <1>5 DEF Element
<1> HIDE DEF n
<1>9. QED
  BY <1>2, <1>6, <1>7, <1>8, Params DEF Regs

-----------------------------------------------------------------------------
(* Atoms and expressions. *)

(* The type invariant in terms of layered sequences. *)
LEMMA TypeParts ==
  TypeOK <=> /\ Layered(tmp, tmp_offset) /\ Layered(guest, gs_offset)
             /\ mem \in [Addrs -> Vals] /\ shadow \in [Addrs -> Halves]
             /\ nextindex \in 1 .. MaxIndex + 1
             /\ cas \in [told : BOOLEAN, did : BOOLEAN]
  BY DEF TypeOK, Layered, Temps, Regs, dg_bar_rdtmp, dg_bar_get

(* The cells that the refinement mapping shows. *)
LEMMA CellParts ==
  /\ tmpCells = CellsOf(tmp, tmp_offset)
  /\ guestCells = CellsOf(guest, gs_offset)
  BY DEF tmpCells, guestCells, CellsOf, Temps, Regs, dg_bar_rdtmp, dg_bar_get

(* An atom has a value and a shadow, which make up the cell of the atom. *)
LEMMA AtomMap ==
  ASSUME TypeOK, NEW a, IsAtom(a)
  PROVE  /\ Atom(a) \in Vals /\ ModifyAtom(a) \in Halves
         /\ Tagged!Atom(a) = Shadowed(Atom(a), ModifyAtom(a))
<1>1. CASE a.tag = "Const"
  <2>1. a.val \in Vals
    BY <1>1 DEF IsAtom, IsConst
  <2>2. QED
    BY <1>1, <2>1, JoinZero DEF Atom, ModifyAtom, Tagged!Atom, Tagged!Cell, Shadowed
<1>2. CASE a.tag # "Const"
  <2>1. a.tmp \in Temps
    BY <1>2 DEF IsAtom, IsConst
  <2>2. tmp[a.tmp] \in Vals /\ dg_bar_rdtmp(a.tmp) \in Halves
    BY <2>1 DEF TypeOK
  <2>3. tmpCells[a.tmp] = Shadowed(tmp[a.tmp], dg_bar_rdtmp(a.tmp))
    BY <2>1 DEF tmpCells
  <2>4. QED
    BY <1>2, <2>2, <2>3 DEF Atom, ModifyAtom, Tagged!Atom
<1>3. QED
  BY <1>1, <1>2

(* The fields of a cell. *)
LEMMA Fields ==
  ASSUME NEW v, NEW sh
  PROVE  Shadowed(v, sh).val = v /\ Shadowed(v, sh).idx = Join(sh)
  BY DEF Shadowed

(* Operations are recorded by the same condition on both sides. *)
LEMMA RecordedMap ==
  ASSUME TypeOK, NEW e, e.tag \in Handled => IsAtom(e.arg1) /\ IsAtom(e.arg2)
  PROVE  Tagged!Recorded(e) <=> Recorded(e)
<1>1. CASE e.tag \notin Handled
  BY <1>1 DEF Recorded, Tagged!Recorded, Handled, Tagged!Handled
<1>2. CASE e.tag \in Handled
  <2>1. /\ Tagged!Atom(e.arg1) = Shadowed(Atom(e.arg1), ModifyAtom(e.arg1))
        /\ Tagged!Atom(e.arg2) = Shadowed(Atom(e.arg2), ModifyAtom(e.arg2))
    BY <1>2, AtomMap
  <2>2. QED
    BY <1>2, <2>1, Fields DEF Recorded, Tagged!Recorded, Handled, Tagged!Handled
<1>3. QED
  BY <1>1, <1>2

(* The operand fields of an expression, by its tag. *)
LEMMA ExprShape ==
  ASSUME NEW e, IsExpr(e)
  PROVE  /\ e.tag \in {"Const", "RdTmp", "Get", "GetI", "Load", "ITE", "UnhandledOp", "CCall"} \cup Handled
         /\ e.tag \in {"Const", "RdTmp"} => IsAtom(e)
         /\ e.tag = "Get" => e.offset \in Regs
         /\ e.tag = "GetI" => IsAtom(e.ix) /\ e.bias \in Nat
         /\ e.tag = "Load" => e.addr \in Addrs
         /\ e.tag = "ITE" => IsAtom(e.cond) /\ IsAtom(e.iftrue) /\ IsAtom(e.iffalse)
         /\ e.tag \in Handled \cup {"UnhandledOp", "CCall"} => IsAtom(e.arg1) /\ IsAtom(e.arg2)
  BY DEF IsExpr, IsAtom, IsConst, Handled

(* Values and shadows of an array of registers are found under the same number. *)
LEMMA ArrayCell ==
  ASSUME TypeOK, NEW ix, IsAtom(ix), NEW bias \in Nat
  PROVE  /\ Element(base, ix, bias) \in Regs
         /\ dg_bar_geti(ix, bias) = dg_bar_get(Element(base, ix, bias))
         /\ base + ((Tagged!Atom(ix).val + bias) % nElems) = Element(base, ix, bias)
<1>1. Atom(ix) \in Vals /\ Tagged!Atom(ix) = Shadowed(Atom(ix), ModifyAtom(ix))
  BY AtomMap
<1>2. Tagged!Atom(ix).val = Atom(ix)
  BY <1>1, Fields
<1>3. /\ Element(base, ix, bias) \in Regs
      /\ Element(base + gs_offset, ix, bias + gs_offset) = Element(base, ix, bias) + gs_offset
      /\ Element(base + 2 * gs_offset, ix, bias + 2 * gs_offset)
           = Element(base, ix, bias) + 2 * gs_offset
  BY <1>1, ShadowElement
<1>4. dg_bar_geti(ix, bias) = dg_bar_get(Element(base, ix, bias))
  BY <1>3, Zenon DEF dg_bar_geti, dg_bar_get
<1>5. base + ((Tagged!Atom(ix).val + bias) % nElems) = Element(base, ix, bias)
  BY <1>2, Zenon DEF Element
<1>6. QED
  BY <1>3, <1>4, <1>5

(* What an expression and its shadow expression evaluate to is the cell that *)
(* the expression has in the tagged program.                                 *)
LEMMA ValueMap ==
  ASSUME TypeOK, NEW e, IsExpr(e)
  PROVE  /\ Value(e) \in Vals /\ dg_modify_expression_or_default(e) \in Halves
         /\ Tagged!Value(e) = Shadowed(Value(e), dg_modify_expression_or_default(e))
<1> DEFINE M == dg_modify_expression(e)
<1>0. ASSUME M \in Halves
      PROVE  dg_modify_expression_or_default(e) = M
  BY <1>0, NotNull DEF dg_modify_expression_or_default
<1>1. CASE e.tag \in {"Const", "RdTmp"}
  <2>1. IsAtom(e)
    BY <1>1, ExprShape
  <2>2. Value(e) = Atom(e) /\ M = ModifyAtom(e) /\ Tagged!Value(e) = Tagged!Atom(e)
    BY <1>1 DEF Value, dg_modify_expression, Tagged!Value, Handled, Tagged!Handled
  <2>3. QED
    BY <1>0, <2>1, <2>2, AtomMap
<1>2. CASE e.tag = "Get"
  <2>1. e.offset \in Regs
    BY <1>2, ExprShape
  <2>2. Value(e) = guest[e.offset] /\ M = dg_bar_get(e.offset)
          /\ Tagged!Value(e) = guestCells[e.offset]
    BY <1>2 DEF Value, dg_modify_expression, Tagged!Value, Handled, Tagged!Handled
  <2>3. guestCells[e.offset] = Shadowed(guest[e.offset], dg_bar_get(e.offset))
    BY <2>1 DEF guestCells
  <2>4. guest[e.offset] \in Vals /\ dg_bar_get(e.offset) \in Halves
    BY <2>1 DEF TypeOK
  <2>5. QED
    BY <1>0, <2>2, <2>3, <2>4
<1>3. CASE e.tag = "GetI"
  <2> DEFINE o == Element(base, e.ix, e.bias)
  <2>1. IsAtom(e.ix) /\ e.bias \in Nat
    BY <1>3, ExprShape
  <2>2. o \in Regs /\ dg_bar_geti(e.ix, e.bias) = dg_bar_get(o) /\ Tagged!Element(e) = o
    BY <2>1, ArrayCell DEF Tagged!Element
  <2>3. Value(e) = guest[o] /\ M = dg_bar_get(o) /\ Tagged!Value(e) = guestCells[o]
    BY <1>3, <2>2 DEF Value, dg_modify_expression, Tagged!Value, Handled, Tagged!Handled
  <2> HIDE DEF o
  <2>4. guestCells[o] = Shadowed(guest[o], dg_bar_get(o))
    BY <2>2 DEF guestCells
  <2>5. guest[o] \in Vals /\ dg_bar_get(o) \in Halves
    BY <2>2 DEF TypeOK
  <2>6. QED
    BY <1>0, <2>3, <2>4, <2>5
<1>4. CASE e.tag = "Load"
  <2>1. e.addr \in Addrs
    BY <1>4, ExprShape
  <2>2. Value(e) = mem[e.addr] /\ M = shadow[e.addr] /\ Tagged!Value(e) = memCells[e.addr]
    BY <1>4 DEF Value, dg_modify_expression, Tagged!Value, Handled, Tagged!Handled
  <2>3. memCells[e.addr] = Shadowed(mem[e.addr], shadow[e.addr])
    BY <2>1 DEF memCells
  <2>4. mem[e.addr] \in Vals /\ shadow[e.addr] \in Halves
    BY <2>1 DEF TypeOK
  <2>5. QED
    BY <1>0, <2>2, <2>3, <2>4
<1>5. CASE e.tag = "ITE"
  <2>1. IsAtom(e.cond) /\ IsAtom(e.iftrue) /\ IsAtom(e.iffalse)
    BY <1>5, ExprShape
  <2>2. /\ Value(e) = IF Atom(e.cond) # 0 THEN Atom(e.iftrue) ELSE Atom(e.iffalse)
        /\ M = IF Atom(e.cond) # 0 THEN ModifyAtom(e.iftrue) ELSE ModifyAtom(e.iffalse)
        /\ Tagged!Value(e) = IF Tagged!Atom(e.cond).val # 0 THEN Tagged!Atom(e.iftrue)
                             ELSE Tagged!Atom(e.iffalse)
    BY <1>5 DEF Value, dg_modify_expression, Ite, Tagged!Value, Handled, Tagged!Handled
  <2>3. Tagged!Atom(e.cond).val = Atom(e.cond)
    BY <2>1, AtomMap, Fields
  <2>4. /\ Atom(e.iftrue) \in Vals /\ ModifyAtom(e.iftrue) \in Halves
        /\ Tagged!Atom(e.iftrue) = Shadowed(Atom(e.iftrue), ModifyAtom(e.iftrue))
    BY <2>1, AtomMap
  <2>5. /\ Atom(e.iffalse) \in Vals /\ ModifyAtom(e.iffalse) \in Halves
        /\ Tagged!Atom(e.iffalse) = Shadowed(Atom(e.iffalse), ModifyAtom(e.iffalse))
    BY <2>1, AtomMap
  <2>6. QED
    BY <1>0, <2>2, <2>3, <2>4, <2>5
<1>6. CASE e.tag \in Handled \cup {"UnhandledOp", "CCall"}
  <2>1. IsAtom(e.arg1) /\ IsAtom(e.arg2)
    BY <1>6, ExprShape
  <2>2. Atom(e.arg1) \in Vals /\ Atom(e.arg2) \in Vals
    BY <2>1, AtomMap
  <2>3. Tagged!Atom(e.arg1).val = Atom(e.arg1) /\ Tagged!Atom(e.arg2).val = Atom(e.arg2)
    BY <2>1, AtomMap, Fields
  <2>4. Tagged!Result(e) = Result(e)
    BY <2>3, Zenon DEF Result, Tagged!Result
  <2>5. Result(e) \in Vals
    <3>1. PICK n \in Nat : n = Atom(e.arg1) + Atom(e.arg2)
      BY <2>2, Params DEF Vals
    <3>2. n % nVal \in 0 .. (nVal - 1)
      BY ModDiv, Params
    <3>3. CASE e.tag \in {"Min", "Max"}
      BY <2>2, <3>3 DEF Result
    <3>4. CASE e.tag \notin {"Min", "Max"}
      BY <3>1, <3>2, <3>4 DEF Result, Vals
    <3>5. QED
      BY <3>3, <3>4
  <2>6. Value(e) = Result(e)
    BY <1>6 DEF Value, Handled
  <2>7. CASE e.tag \in Handled
    <3>1. NewIndex(e) \in Nat
      BY DEF NewIndex, TypeOK
    <3>2. M = Split(NewIndex(e))
      BY <2>7 DEF dg_modify_expression, Handled
    <3>3. M \in Halves /\ Join(M) = NewIndex(e)
      BY <3>1, <3>2, JoinSplit
    <3>4. Tagged!Value(e) = Tagged!Cell(Result(e), NewIndex(e))
      BY <2>7, <2>1, <2>4, RecordedMap DEF Tagged!Value, NewIndex, Handled, Tagged!Handled
    <3>5. QED
      BY <1>0, <2>5, <2>6, <3>3, <3>4 DEF Shadowed, Tagged!Cell
  <2>8. CASE e.tag \notin Handled
    <3>1. M = NULL
      BY <1>6, <2>8 DEF dg_modify_expression, Handled
    <3>2. dg_modify_expression_or_default(e) = Zero
      BY <3>1 DEF dg_modify_expression_or_default
    <3>3. Tagged!Value(e) = Tagged!Cell(Result(e), 0)
      BY <1>6, <2>8, <2>4 DEF Tagged!Value, Handled, Tagged!Handled
    <3>4. QED
      BY <2>5, <2>6, <3>2, <3>3, JoinZero DEF Shadowed, Tagged!Cell
  <2>9. QED
    BY <2>7, <2>8
<1>7. QED
  BY <1>1, <1>2, <1>3, <1>4, <1>5, <1>6, ExprShape

-----------------------------------------------------------------------------
(* Writes. *)

(* Writing a temporary with its shadow. *)
LEMMA WriteTmp ==
  ASSUME TypeOK, NEW t \in Temps, NEW v \in Vals, NEW sh \in Halves,
         tmp' = WithTmp(tmp, t, v, sh)
  PROVE  /\ Layered(tmp', tmp_offset)
         /\ tmpCells' = [tmpCells EXCEPT ![t] = Shadowed(v, sh)]
<1>1. Layered(tmp, tmp_offset) /\ tmpCells = CellsOf(tmp, tmp_offset)
  BY TypeParts, CellParts
<1>2. tmp' = Written(tmp, tmp_offset, t, v, sh)
  BY DEF WithTmp, Written
<1>3. t \in 0 .. tmp_offset - 1 /\ tmp_offset \in Nat \ {0}
  BY Params DEF Temps
<1>4. PICK W : W = tmp'
  OBVIOUS
<1>5. W = Written(tmp, tmp_offset, t, v, sh)
  BY <1>2, <1>4
<1>6. Layered(W, tmp_offset) /\ CellsOf(W, tmp_offset) = [CellsOf(tmp, tmp_offset) EXCEPT ![t] = Shadowed(v, sh)]
  BY <1>1, <1>3, <1>5, WriteCell
<1>7. Layered(tmp', tmp_offset)
  BY <1>4, <1>6 DEF Layered
<1>8. tmpCells' = CellsOf(W, tmp_offset)
  BY <1>4 DEF tmpCells, CellsOf, Temps, dg_bar_rdtmp, Shadowed
<1>9. QED
  BY <1>1, <1>6, <1>7, <1>8

(* Writing a register with its shadow. *)
LEMMA WriteGuest ==
  ASSUME TypeOK, NEW o \in Regs, NEW v \in Vals, NEW sh \in Halves,
         guest' = Written(guest, gs_offset, o, v, sh)
  PROVE  /\ Layered(guest', gs_offset)
         /\ guestCells' = [guestCells EXCEPT ![o] = Shadowed(v, sh)]
<1>1. Layered(guest, gs_offset) /\ guestCells = CellsOf(guest, gs_offset)
  BY TypeParts, CellParts
<1>3. o \in 0 .. gs_offset - 1 /\ gs_offset \in Nat \ {0}
  BY Params DEF Regs
<1>4. PICK W : W = guest'
  OBVIOUS
<1>5. W = Written(guest, gs_offset, o, v, sh)
  BY <1>4
<1>6. Layered(W, gs_offset) /\ CellsOf(W, gs_offset) = [CellsOf(guest, gs_offset) EXCEPT ![o] = Shadowed(v, sh)]
  BY <1>1, <1>3, <1>5, WriteCell
<1>7. Layered(guest', gs_offset)
  BY <1>4, <1>6 DEF Layered
<1>8. guestCells' = CellsOf(W, gs_offset)
  BY <1>4 DEF guestCells, CellsOf, Regs, dg_bar_get, Shadowed
<1>9. QED
  BY <1>1, <1>6, <1>7, <1>8

(* Storing a value with its shadow. *)
LEMMA WriteMem ==
  ASSUME TypeOK, NEW a \in Addrs, NEW v \in Vals, NEW sh \in Halves,
         mem' = [mem EXCEPT ![a] = v], shadow' = [shadow EXCEPT ![a] = sh]
  PROVE  /\ mem' \in [Addrs -> Vals] /\ shadow' \in [Addrs -> Halves]
         /\ memCells' = [memCells EXCEPT ![a] = Shadowed(v, sh)]
<1>1. mem \in [Addrs -> Vals] /\ shadow \in [Addrs -> Halves]
  BY DEF TypeOK
<1>2. mem' \in [Addrs -> Vals] /\ shadow' \in [Addrs -> Halves]
  BY <1>1
<1>3. ASSUME NEW x \in Addrs
      PROVE  Shadowed(mem'[x], shadow'[x])
               = IF x = a THEN Shadowed(v, sh) ELSE Shadowed(mem[x], shadow[x])
  <2>1. CASE x = a
    <3>1. mem'[a] = v /\ shadow'[a] = sh
      BY <1>1
    <3>2. QED
      BY <2>1, <3>1
  <2>2. CASE x # a
    <3>1. mem'[x] = mem[x] /\ shadow'[x] = shadow[x]
      BY <1>1, <2>2
    <3>2. QED
      BY <2>2, <3>1
  <2>3. QED
    BY <2>1, <2>2
<1>4. memCells' = [x \in Addrs |-> Shadowed(mem'[x], shadow'[x])]
  BY Zenon DEF memCells, Shadowed, Join
<1>5. memCells' = [memCells EXCEPT ![a] = Shadowed(v, sh)]
  BY <1>3, <1>4 DEF memCells
<1>6. QED
  BY <1>2, <1>5

(* What is not written keeps its cells and its type. *)
LEMMA Unwritten ==
  ASSUME TypeOK
  PROVE  /\ tmp' = tmp => tmpCells' = tmpCells /\ Layered(tmp', tmp_offset)
         /\ guest' = guest => guestCells' = guestCells /\ Layered(guest', gs_offset)
         /\ UNCHANGED <<mem, shadow>> =>
              memCells' = memCells /\ mem' \in [Addrs -> Vals] /\ shadow' \in [Addrs -> Halves]
<1>1. Layered(tmp, tmp_offset) /\ Layered(guest, gs_offset)
  BY TypeParts
<1>2. mem \in [Addrs -> Vals] /\ shadow \in [Addrs -> Halves]
  BY TypeParts
<1>3. tmp' = tmp => tmpCells' = tmpCells /\ Layered(tmp', tmp_offset)
  BY <1>1 DEF tmpCells, dg_bar_rdtmp, Shadowed, Layered
<1>4. guest' = guest => guestCells' = guestCells /\ Layered(guest', gs_offset)
  BY <1>1 DEF guestCells, dg_bar_get, Shadowed, Layered
<1>5. UNCHANGED <<mem, shadow>> => memCells' = memCells
  BY DEF memCells, Shadowed
<1>6. QED
  BY <1>2, <1>3, <1>4, <1>5

(* The type invariant after a step, from its parts. *)
LEMMA TypeNext ==
  ASSUME Layered(tmp', tmp_offset), Layered(guest', gs_offset),
         mem' \in [Addrs -> Vals], shadow' \in [Addrs -> Halves],
         nextindex' \in 1 .. MaxIndex + 1, cas' \in [told : BOOLEAN, did : BOOLEAN]
  PROVE  TypeOK'
  BY DEF TypeOK, Layered, Temps, Regs, dg_bar_rdtmp, dg_bar_get

(* The operand fields of a statement, by its tag. *)
LEMMA StatementShape ==
  ASSUME NEW s \in Statements
  PROVE  /\ s.tag = "WrTmp" => s.tmp \in Temps /\ IsExpr(s.data)
         /\ s.tag = "Put" => s.offset \in Regs /\ IsAtom(s.data)
         /\ s.tag = "PutI" => IsAtom(s.ix) /\ s.bias \in Nat /\ IsAtom(s.data)
         /\ s.tag = "Store" => s.addr \in Addrs /\ IsAtom(s.data) /\ IsAtom(s.guard)
         /\ s.tag = "LoadG" => /\ s.dst \in Temps /\ s.addr \in Addrs
                               /\ IsAtom(s.alt) /\ IsAtom(s.guard)
         /\ s.tag = "storeF80le" => s.addr \in Addrs /\ IsAtom(s.data)
         /\ s.tag = "loadF80le" => s.tmp \in Temps /\ s.addr \in Addrs
         /\ s.tag = "Dirty" => /\ s.tmp \in Temps \cup {IRTemp_INVALID}
                               /\ s.fxState \subseteq Regs /\ s.mAddr \subseteq Addrs
  BY StatementsAssumption DEF IsStatement

-----------------------------------------------------------------------------
(* Each kind of step preserves the types and is one of the tagged program. *)

(* A temporary assigned with its shadow: dg_bar_wrtmp next to the original Ist_WrTmp. *)
LEMMA StepWrTmp ==
  ASSUME TypeOK, NEW s \in Statements, WrTmp(s)
  PROVE  TypeOK' /\ Tagged!WrTmp(s)
<1>1. s.tag = "WrTmp" /\ s.tmp \in Temps /\ IsExpr(s.data)
  BY StatementShape DEF WrTmp
<1>2. /\ Value(s.data) \in Vals /\ dg_modify_expression_or_default(s.data) \in Halves
      /\ Tagged!Value(s.data) = Shadowed(Value(s.data), dg_modify_expression_or_default(s.data))
  BY <1>1, ValueMap
<1>3. /\ Layered(tmp', tmp_offset)
      /\ tmpCells' = [tmpCells EXCEPT ![s.tmp] = Tagged!Value(s.data)]
  BY <1>1, <1>2, WriteTmp DEF WrTmp
<1>4. Tagged!Recorded(s.data) <=> Recorded(s.data)
  BY <1>1, ExprShape, RecordedMap
<1>5. UNCHANGED <<guest, mem, shadow, cas>>
  BY DEF WrTmp
<1>6. nextindex' \in 1 .. MaxIndex + 1 /\ cas' \in [told : BOOLEAN, did : BOOLEAN]
  BY <1>5, Params DEF WrTmp, TypeOK
<1>7. TypeOK'
  BY <1>3, <1>5, <1>6, Unwritten, TypeNext
<1>8. Tagged!WrTmp(s)
  BY <1>1, <1>3, <1>4, <1>5, Unwritten DEF WrTmp, Tagged!WrTmp
<1>9. QED
  BY <1>7, <1>8

(* A register written with its shadow: dg_bar_puti of a Put. *)
LEMMA StepPut ==
  ASSUME TypeOK, NEW s \in Statements, Put(s)
  PROVE  TypeOK' /\ Tagged!Put(s)
<1>1. s.tag = "Put" /\ s.offset \in Regs /\ IsAtom(s.data)
  BY StatementShape DEF Put
<1>2. /\ Atom(s.data) \in Vals /\ ModifyAtom(s.data) \in Halves
      /\ Tagged!Atom(s.data) = Shadowed(Atom(s.data), ModifyAtom(s.data))
  BY <1>1, AtomMap
<1>3. /\ Layered(guest', gs_offset)
      /\ guestCells' = [guestCells EXCEPT ![s.offset] = Tagged!Atom(s.data)]
  <2>1. guest' = Written(guest, gs_offset, s.offset, Atom(s.data), ModifyAtom(s.data))
    BY DEF Put, Written
  <2>2. QED
    BY <1>1, <1>2, <2>1, WriteGuest
<1>4. UNCHANGED <<tmp, mem, shadow, nextindex, cas>>
  BY DEF Put
<1>5. nextindex' \in 1 .. MaxIndex + 1 /\ cas' \in [told : BOOLEAN, did : BOOLEAN]
  BY <1>4 DEF TypeOK
<1>6. TypeOK'
  BY <1>3, <1>4, <1>5, Unwritten, TypeNext
<1>7. Tagged!Put(s)
  BY <1>1, <1>3, <1>4, Unwritten DEF Tagged!Put
<1>8. QED
  BY <1>6, <1>7

(* An element of an array of registers written with its shadow: PutI. *)
LEMMA StepPutI ==
  ASSUME TypeOK, NEW s \in Statements, PutI(s)
  PROVE  TypeOK' /\ Tagged!PutI(s)
<1> DEFINE o == Element(base, s.ix, s.bias)
<1>1. s.tag = "PutI" /\ IsAtom(s.ix) /\ s.bias \in Nat /\ IsAtom(s.data)
  BY StatementShape DEF PutI
<1>2. /\ Atom(s.data) \in Vals /\ ModifyAtom(s.data) \in Halves
      /\ Tagged!Atom(s.data) = Shadowed(Atom(s.data), ModifyAtom(s.data))
  BY <1>1, AtomMap
<1>3. o \in Regs /\ Tagged!Element(s) = o
  BY <1>1, ArrayCell DEF Tagged!Element
<1>4. /\ Element(base + gs_offset, s.ix, s.bias + gs_offset) = o + gs_offset
      /\ Element(base + 2 * gs_offset, s.ix, s.bias + 2 * gs_offset) = o + 2 * gs_offset
  BY <1>1, AtomMap, ShadowElement
<1>5. guest' = Written(guest, gs_offset, o, Atom(s.data), ModifyAtom(s.data))
  BY <1>4, Zenon DEF PutI, Written
<1> HIDE DEF o
<1>6. /\ Layered(guest', gs_offset)
      /\ guestCells' = [guestCells EXCEPT ![o] = Tagged!Atom(s.data)]
  BY <1>2, <1>3, <1>5, WriteGuest
<1>7. UNCHANGED <<tmp, mem, shadow, nextindex, cas>>
  BY DEF PutI
<1>8. nextindex' \in 1 .. MaxIndex + 1 /\ cas' \in [told : BOOLEAN, did : BOOLEAN]
  BY <1>7 DEF TypeOK
<1>9. TypeOK'
  BY <1>6, <1>7, <1>8, Unwritten, TypeNext
<1>10. Tagged!PutI(s)
  BY <1>1, <1>3, <1>6, <1>7, Unwritten DEF Tagged!PutI
<1>11. QED
  BY <1>9, <1>10

(* A store, guarded or not, together with the store of both halves of the index. *)
LEMMA StepStore ==
  ASSUME TypeOK, NEW s \in Statements, Store(s)
  PROVE  TypeOK' /\ Tagged!Store(s)
<1>1. s.tag = "Store" /\ s.addr \in Addrs /\ IsAtom(s.data) /\ IsAtom(s.guard)
  BY StatementShape DEF Store
<1>2. /\ Atom(s.data) \in Vals /\ ModifyAtom(s.data) \in Halves
      /\ Tagged!Atom(s.data) = Shadowed(Atom(s.data), ModifyAtom(s.data))
  BY <1>1, AtomMap
<1>3. Tagged!Atom(s.guard).val = Atom(s.guard)
  BY <1>1, AtomMap, Fields
<1>4. UNCHANGED <<tmp, guest, nextindex, cas>>
  BY DEF Store
<1>5. nextindex' \in 1 .. MaxIndex + 1 /\ cas' \in [told : BOOLEAN, did : BOOLEAN]
  BY <1>4 DEF TypeOK
<1>6. CASE Atom(s.guard) # 0
  <2>1. /\ mem' = [mem EXCEPT ![s.addr] = Atom(s.data)]
        /\ shadow' = [shadow EXCEPT ![s.addr] = ModifyAtom(s.data)]
    BY <1>6 DEF Store
  <2>2. /\ mem' \in [Addrs -> Vals] /\ shadow' \in [Addrs -> Halves]
        /\ memCells' = [memCells EXCEPT ![s.addr] = Tagged!Atom(s.data)]
    <3>1. /\ mem' \in [Addrs -> Vals] /\ shadow' \in [Addrs -> Halves]
          /\ memCells' = [memCells EXCEPT ![s.addr] = Shadowed(Atom(s.data), ModifyAtom(s.data))]
      BY <1>1, <1>2, <2>1, WriteMem
    <3>2. QED
      BY <1>2, <3>1
  <2>3. TypeOK'
    BY <1>4, <1>5, <2>2, Unwritten, TypeNext
  <2>4. Tagged!Store(s)
    BY <1>1, <1>3, <1>4, <1>6, <2>2, Unwritten DEF Tagged!Store
  <2>5. QED
    BY <2>3, <2>4
<1>7. CASE Atom(s.guard) = 0
  <2>1. UNCHANGED <<mem, shadow>>
    BY <1>7 DEF Store
  <2>2. TypeOK'
    BY <1>4, <1>5, <2>1, Unwritten, TypeNext
  <2>3. Tagged!Store(s)
    BY <1>1, <1>3, <1>4, <1>7, <2>1, Unwritten DEF Tagged!Store
  <2>4. QED
    BY <2>2, <2>3
<1>8. QED
  BY <1>6, <1>7

(* A guarded load, whose shadow is that of the alternative if the guard is false. *)
LEMMA StepLoadG ==
  ASSUME TypeOK, NEW s \in Statements, LoadG(s)
  PROVE  TypeOK' /\ Tagged!LoadG(s)
<1> DEFINE v == IF Atom(s.guard) # 0 THEN mem[s.addr] ELSE Atom(s.alt)
           sh == IF Atom(s.guard) # 0 THEN shadow[s.addr] ELSE ModifyAtom(s.alt)
<1>1. /\ s.tag = "LoadG" /\ s.dst \in Temps /\ s.addr \in Addrs
      /\ IsAtom(s.alt) /\ IsAtom(s.guard)
  BY StatementShape DEF LoadG
<1>2. /\ Atom(s.alt) \in Vals /\ ModifyAtom(s.alt) \in Halves
      /\ Tagged!Atom(s.alt) = Shadowed(Atom(s.alt), ModifyAtom(s.alt))
  BY <1>1, AtomMap
<1>3. Tagged!Atom(s.guard).val = Atom(s.guard)
  BY <1>1, AtomMap, Fields
<1>4. mem[s.addr] \in Vals /\ shadow[s.addr] \in Halves
  BY <1>1 DEF TypeOK
<1>5. memCells[s.addr] = Shadowed(mem[s.addr], shadow[s.addr])
  BY <1>1 DEF memCells
<1>6. tmp' = WithTmp(tmp, s.dst, v, sh)
  BY DEF LoadG, Ite
<1>7. v \in Vals /\ sh \in Halves
  BY <1>2, <1>4
<1>8. Shadowed(v, sh) = IF Tagged!Atom(s.guard).val # 0 THEN memCells[s.addr]
                        ELSE Tagged!Atom(s.alt)
  BY <1>2, <1>3, <1>5
<1> HIDE DEF v, sh
<1>9. Layered(tmp', tmp_offset) /\ tmpCells' = [tmpCells EXCEPT ![s.dst] = Shadowed(v, sh)]
  BY <1>1, <1>6, <1>7, WriteTmp
<1>10. UNCHANGED <<guest, mem, shadow, nextindex, cas>>
  BY DEF LoadG
<1>11. nextindex' \in 1 .. MaxIndex + 1 /\ cas' \in [told : BOOLEAN, did : BOOLEAN]
  BY <1>10 DEF TypeOK
<1>12. TypeOK'
  BY <1>9, <1>10, <1>11, Unwritten, TypeNext
<1>13. Tagged!LoadG(s)
  BY <1>1, <1>8, <1>9, <1>10, Unwritten DEF Tagged!LoadG
<1>14. QED
  BY <1>12, <1>13

(* The dirty call that stores 80 bits, with dg_bar_x86g_amd64g_dirtyhelper_storeF80le. *)
LEMMA StepStoreF80 ==
  ASSUME TypeOK, NEW s \in Statements, StoreF80(s)
  PROVE  TypeOK' /\ Tagged!StoreF80(s)
<1>1. s.tag = "storeF80le" /\ s.addr \in Addrs /\ IsAtom(s.data)
  BY StatementShape DEF StoreF80
<1>2. /\ Atom(s.data) \in Vals /\ ModifyAtom(s.data) \in Halves
      /\ Tagged!Atom(s.data) = Shadowed(Atom(s.data), ModifyAtom(s.data))
  BY <1>1, AtomMap
<1>3. /\ mem' \in [Addrs -> Vals] /\ shadow' \in [Addrs -> Halves]
      /\ memCells' = [memCells EXCEPT ![s.addr] = Tagged!Atom(s.data)]
  <2>1. /\ mem' = [mem EXCEPT ![s.addr] = Atom(s.data)]
        /\ shadow' = [shadow EXCEPT ![s.addr] = ModifyAtom(s.data)]
    BY DEF StoreF80
  <2>2. /\ mem' \in [Addrs -> Vals] /\ shadow' \in [Addrs -> Halves]
        /\ memCells' = [memCells EXCEPT ![s.addr] = Shadowed(Atom(s.data), ModifyAtom(s.data))]
    BY <1>1, <1>2, <2>1, WriteMem
  <2>3. QED
    BY <1>2, <2>2
<1>4. UNCHANGED <<tmp, guest, nextindex, cas>>
  BY DEF StoreF80
<1>5. nextindex' \in 1 .. MaxIndex + 1 /\ cas' \in [told : BOOLEAN, did : BOOLEAN]
  BY <1>4 DEF TypeOK
<1>6. TypeOK'
  BY <1>3, <1>4, <1>5, Unwritten, TypeNext
<1>7. Tagged!StoreF80(s)
  BY <1>1, <1>3, <1>4, Unwritten DEF Tagged!StoreF80
<1>8. QED
  BY <1>6, <1>7

(* The dirty call that loads 80 bits, with the one that loads its shadow. *)
LEMMA StepLoadF80 ==
  ASSUME TypeOK, NEW s \in Statements, LoadF80(s)
  PROVE  TypeOK' /\ Tagged!LoadF80(s)
<1>1. s.tag = "loadF80le" /\ s.tmp \in Temps /\ s.addr \in Addrs
  BY StatementShape DEF LoadF80
<1>2. mem[s.addr] \in Vals /\ shadow[s.addr] \in Halves
  BY <1>1 DEF TypeOK
<1>3. memCells[s.addr] = Shadowed(mem[s.addr], shadow[s.addr])
  BY <1>1 DEF memCells
<1>4. /\ Layered(tmp', tmp_offset)
      /\ tmpCells' = [tmpCells EXCEPT ![s.tmp] = memCells[s.addr]]
  BY <1>1, <1>2, <1>3, WriteTmp DEF LoadF80
<1>5. UNCHANGED <<guest, mem, shadow, nextindex, cas>>
  BY DEF LoadF80
<1>6. nextindex' \in 1 .. MaxIndex + 1 /\ cas' \in [told : BOOLEAN, did : BOOLEAN]
  BY <1>5 DEF TypeOK
<1>7. TypeOK'
  BY <1>4, <1>5, <1>6, Unwritten, TypeNext
<1>8. Tagged!LoadF80(s)
  BY <1>1, <1>4, <1>5, Unwritten DEF Tagged!LoadF80
<1>9. QED
  BY <1>7, <1>8

(* Any other dirty call: what it returns in a temporary is passive. *)
LEMMA DirtyTmp ==
  ASSUME TypeOK, NEW s \in Statements, Dirty(s)
  PROVE  /\ Layered(tmp', tmp_offset)
         /\ \/ s.tmp = IRTemp_INVALID /\ tmpCells' = tmpCells
            \/ /\ s.tmp \in Temps /\ s.tmp # IRTemp_INVALID
               /\ \E v \in Vals : tmpCells' = [tmpCells EXCEPT ![s.tmp] = Tagged!Cell(v, 0)]
<1>1. s.tmp \in Temps \cup {IRTemp_INVALID}
  BY StatementShape DEF Dirty
<1>2. CASE s.tmp = IRTemp_INVALID
  <2>1. tmp' = tmp
    BY <1>2 DEF Dirty
  <2>2. QED
    BY <1>2, <2>1, Unwritten
<1>3. CASE s.tmp # IRTemp_INVALID
  <2>1. PICK v \in Vals : tmp' = WithTmp(tmp, s.tmp, v, Zero)
    BY <1>3 DEF Dirty
  <2>2. Shadowed(v, Zero) = Tagged!Cell(v, 0)
    BY JoinZero DEF Shadowed, Tagged!Cell
  <2>3. /\ Layered(tmp', tmp_offset)
        /\ tmpCells' = [tmpCells EXCEPT ![s.tmp] = Tagged!Cell(v, 0)]
    BY <1>1, <1>3, <2>1, <2>2, JoinZero, WriteTmp
  <2>4. QED
    BY <1>1, <1>3, <2>3
<1>4. QED
  BY <1>2, <1>3

(* The registers it writes keep their shadows, and are passive if they were. *)
LEMMA DirtyGuest ==
  ASSUME TypeOK, NEW s \in Statements, Dirty(s)
  PROVE  /\ Layered(guest', gs_offset)
         /\ OverwritesPassive(s) =>
              \E new \in [s.fxState -> Vals] :
                guestCells' = [o \in 0 .. gs_offset - 1 |->
                                 IF o \in s.fxState THEN Tagged!Cell(new[o], 0) ELSE guestCells[o]]
<1>1. s.fxState \subseteq Regs
  BY StatementShape DEF Dirty
<1>2. PICK new \in [s.fxState -> Vals] :
        guest' = [o \in DOMAIN guest |-> IF o \in s.fxState THEN new[o] ELSE guest[o]]
  BY DEF Dirty
<1>3. Layered(guest, gs_offset)
  BY TypeParts
<1>4. guest \in [0 .. 3 * gs_offset - 1 -> Nat] /\ gs_offset \in Nat \ {0}
  BY <1>3, Params DEF Layered
<1>5. ASSUME NEW o \in 0 .. gs_offset - 1
      PROVE  /\ guest'[o] = IF o \in s.fxState THEN new[o] ELSE guest[o]
             /\ guest'[o + gs_offset] = guest[o + gs_offset]
             /\ guest'[o + 2 * gs_offset] = guest[o + 2 * gs_offset]
  <2>1. /\ o \in DOMAIN guest /\ o + gs_offset \in DOMAIN guest
        /\ o + 2 * gs_offset \in DOMAIN guest
        /\ o + gs_offset \notin Regs /\ o + 2 * gs_offset \notin Regs
    BY <1>4 DEF Regs
  <2>2. QED
    BY <1>1, <1>2, <2>1
<1>6. guest' \in [0 .. 3 * gs_offset - 1 -> Nat]
  <2>1. \A o \in s.fxState : new[o] \in Nat
    BY Params DEF Vals
  <2>2. QED
    BY <1>2, <1>4, <2>1
<1>7. ASSUME NEW o \in 0 .. gs_offset - 1
      PROVE  /\ guest'[o] \in Vals
             /\ <<guest'[o + gs_offset], guest'[o + 2 * gs_offset]>> \in Halves
  <2>1. guest[o] \in Vals /\ <<guest[o + gs_offset], guest[o + 2 * gs_offset]>> \in Halves
    BY <1>3 DEF Layered
  <2>2. guest'[o] \in Vals
    BY <1>5, <2>1
  <2>3. QED
    BY <1>5, <2>1, <2>2, Zenon
<1>8. Layered(guest', gs_offset)
  BY <1>6, <1>7 DEF Layered
<1>9. ASSUME OverwritesPassive(s)
      PROVE  guestCells' = [o \in 0 .. gs_offset - 1 |->
                              IF o \in s.fxState THEN Tagged!Cell(new[o], 0) ELSE guestCells[o]]
  <2>1. guestCells = [o \in 0 .. gs_offset - 1 |-> Shadowed(guest[o], dg_bar_get(o))]
    BY DEF guestCells, Regs
  <2>2. guestCells' = [o \in 0 .. gs_offset - 1 |-> Shadowed(guest'[o], dg_bar_get(o)')]
    BY DEF guestCells, Regs
  <2>3. ASSUME NEW o \in 0 .. gs_offset - 1
        PROVE  Shadowed(guest'[o], dg_bar_get(o)')
                 = IF o \in s.fxState THEN Tagged!Cell(new[o], 0) ELSE guestCells[o]
    <3>1. dg_bar_get(o)' = dg_bar_get(o)
      BY <1>5, Zenon DEF dg_bar_get
    <3>2. CASE o \in s.fxState
      <4>1. dg_bar_get(o) = Zero /\ guest'[o] = new[o]
        BY <1>5, <1>9, <3>2 DEF OverwritesPassive
      <4>2. Shadowed(new[o], Zero) = Tagged!Cell(new[o], 0)
        BY JoinZero DEF Shadowed, Tagged!Cell
      <4>3. QED
        BY <3>1, <3>2, <4>1, <4>2
    <3>3. CASE o \notin s.fxState
      <4>1. guest'[o] = guest[o]
        BY <1>5, <3>3
      <4>2. QED
        BY <2>1, <3>1, <3>3, <4>1
    <3>4. QED
      BY <3>2, <3>3
  <2>4. QED
    BY <2>2, <2>3
<1>10. QED
  BY <1>8, <1>9

(* So does the memory it writes. *)
LEMMA DirtyMem ==
  ASSUME TypeOK, NEW s \in Statements, Dirty(s)
  PROVE  /\ mem' \in [Addrs -> Vals]
         /\ OverwritesPassive(s) =>
              \E new \in [s.mAddr -> Vals] :
                memCells' = [a \in Addrs |-> IF a \in s.mAddr THEN Tagged!Cell(new[a], 0)
                                             ELSE memCells[a]]
<1>1. s.mAddr \subseteq Addrs
  BY StatementShape DEF Dirty
<1>2. PICK new \in [s.mAddr -> Vals] :
        mem' = [a \in Addrs |-> IF a \in s.mAddr THEN new[a] ELSE mem[a]]
  BY DEF Dirty
<1>3. mem \in [Addrs -> Vals] /\ shadow' = shadow
  BY DEF TypeOK, Dirty
<1>4. mem' \in [Addrs -> Vals]
  BY <1>2, <1>3
<1>5. ASSUME OverwritesPassive(s)
      PROVE  memCells' = [a \in Addrs |-> IF a \in s.mAddr THEN Tagged!Cell(new[a], 0)
                                          ELSE memCells[a]]
  <2>1. memCells' = [a \in Addrs |-> Shadowed(mem'[a], shadow[a])]
    BY <1>3 DEF memCells
  <2>2. ASSUME NEW a \in Addrs
        PROVE  Shadowed(mem'[a], shadow[a])
                 = IF a \in s.mAddr THEN Tagged!Cell(new[a], 0) ELSE memCells[a]
    <3>1. CASE a \in s.mAddr
      <4>1. shadow[a] = Zero /\ mem'[a] = new[a]
        BY <1>2, <1>5, <3>1 DEF OverwritesPassive
      <4>2. Shadowed(new[a], Zero) = Tagged!Cell(new[a], 0)
        BY JoinZero DEF Shadowed, Tagged!Cell
      <4>3. QED
        BY <3>1, <4>1, <4>2
    <3>2. CASE a \notin s.mAddr
      <4>1. mem'[a] = mem[a]
        BY <1>2, <3>2
      <4>2. memCells[a] = Shadowed(mem[a], shadow[a])
        BY DEF memCells
      <4>3. QED
        BY <3>2, <4>1, <4>2
    <3>3. QED
      BY <3>1, <3>2
  <2>3. QED
    BY <2>1, <2>2
<1>6. QED
  BY <1>4, <1>5

(* The types are kept in any case; it is a step of the tagged program if what it *)
(* overwrites is passive.                                                        *)
LEMMA StepDirty ==
  ASSUME TypeOK, NEW s \in Statements, Dirty(s)
  PROVE  TypeOK' /\ (~DirtyOverActive => Tagged!Dirty(s))
<1>1. UNCHANGED <<shadow, nextindex, cas>> /\ s.tag = "Dirty"
  BY DEF Dirty
<1>2. /\ nextindex' \in 1 .. MaxIndex + 1 /\ cas' \in [told : BOOLEAN, did : BOOLEAN]
      /\ shadow' \in [Addrs -> Halves]
  BY <1>1 DEF TypeOK
<1>3. TypeOK'
  BY <1>2, DirtyTmp, DirtyGuest, DirtyMem, TypeNext
<1>4. ASSUME ~DirtyOverActive
      PROVE  Tagged!Dirty(s)
  <2>1. OverwritesPassive(s)
    BY <1>4 DEF Dirty
  <2>2. \E new \in [s.fxState -> 0 .. nVal - 1] :
          guestCells' = [o \in 0 .. gs_offset - 1 |->
                           IF o \in s.fxState THEN Tagged!Cell(new[o], 0) ELSE guestCells[o]]
    BY <2>1, DirtyGuest, Zenon DEF Vals
  <2>3. \E new \in [s.mAddr -> 0 .. nVal - 1] :
          memCells' = [a \in Addrs |-> IF a \in s.mAddr THEN Tagged!Cell(new[a], 0)
                                       ELSE memCells[a]]
    BY <2>1, DirtyMem, Zenon DEF Vals
  <2>4. \/ s.tmp = IRTemp_INVALID /\ tmpCells' = tmpCells
        \/ /\ s.tmp # IRTemp_INVALID
           /\ \E v \in 0 .. nVal - 1 : tmpCells' = [tmpCells EXCEPT ![s.tmp] = Tagged!Cell(v, 0)]
    BY DirtyTmp, Zenon DEF Vals
  <2>5. Tagged!IRTemp_INVALID = IRTemp_INVALID
    BY DEF Tagged!IRTemp_INVALID, IRTemp_INVALID
  <2>6. QED
    BY <1>1, <2>2, <2>3, <2>4, <2>5, Zenon DEF Tagged!Dirty
<1>5. QED
  BY <1>3, <1>4

(* The client request that gives a variable a new index. *)
LEMMA StepDeclareInput ==
  ASSUME TypeOK, NEW a \in Addrs, DeclareInput(a)
  PROVE  TypeOK' /\ Tagged!DeclareInput(a)
<1>1. mem[a] \in Vals /\ nextindex \in Nat /\ mem = [mem EXCEPT ![a] = mem[a]]
  BY DEF TypeOK
<1>2. Split(nextindex) \in Halves /\ Join(Split(nextindex)) = nextindex
  BY <1>1, JoinSplit
<1>3. mem' = [mem EXCEPT ![a] = mem[a]] /\ shadow' = [shadow EXCEPT ![a] = Split(nextindex)]
  BY <1>1 DEF DeclareInput
<1>4. /\ mem' \in [Addrs -> Vals] /\ shadow' \in [Addrs -> Halves]
      /\ memCells' = [memCells EXCEPT ![a] = Shadowed(mem[a], Split(nextindex))]
  BY <1>1, <1>2, <1>3, WriteMem
<1>5. Shadowed(mem[a], Split(nextindex)) = [memCells[a] EXCEPT !.idx = nextindex]
  BY <1>2 DEF memCells, Shadowed
<1>6. UNCHANGED <<tmp, guest, cas>> /\ nextindex' = nextindex + 1 /\ nextindex <= MaxIndex
  BY DEF DeclareInput
<1>7. nextindex' \in 1 .. MaxIndex + 1 /\ cas' \in [told : BOOLEAN, did : BOOLEAN]
  BY <1>6, Params DEF TypeOK
<1>8. TypeOK'
  BY <1>4, <1>6, <1>7, Unwritten, TypeNext
<1>9. Tagged!DeclareInput(a)
  BY <1>4, <1>5, <1>6, Unwritten DEF Tagged!DeclareInput
<1>10. QED
  BY <1>8, <1>9

(* The operand fields of a CAS. *)
LEMMA CasShape ==
  ASSUME NEW s \in Statements, s.tag = "CAS"
  PROVE  /\ s.addr \in Addrs /\ s.addr \in Nat /\ s.double \in BOOLEAN
         /\ s.oldLo \in Temps /\ IsAtom(s.expdLo) /\ IsAtom(s.dataLo)
         /\ s.double => /\ s.addr + 1 \in Addrs /\ s.oldHi \in Temps
                        /\ IsAtom(s.expdHi) /\ IsAtom(s.dataHi)
<1>1. IsStatement(s)
  BY StatementsAssumption
<1>2. QED
  BY <1>1, Params DEF IsStatement

(* The temporaries of a CAS get the old cells, in the upper part if there is one. *)
LEMMA CasOld ==
  ASSUME TypeOK, NEW s \in Statements, CAS(s)
  PROVE  /\ Layered(tmp', tmp_offset)
         /\ LET old == [tmpCells EXCEPT ![s.oldLo] = memCells[s.addr]]
            IN  tmpCells' = IF s.double THEN [old EXCEPT ![s.oldHi] = memCells[s.addr + 1]]
                            ELSE old
<1> DEFINE T == Written(tmp, tmp_offset, s.oldLo, mem[s.addr], shadow[s.addr])
           old == [tmpCells EXCEPT ![s.oldLo] = memCells[s.addr]]
<1>1. /\ s.addr \in Addrs /\ s.oldLo \in Temps
      /\ s.double => s.addr + 1 \in Addrs /\ s.oldHi \in Temps
  BY CasShape DEF CAS
<1>2. \A a \in Addrs : /\ mem[a] \in Vals /\ shadow[a] \in Halves
                       /\ memCells[a] = Shadowed(mem[a], shadow[a])
  BY DEF TypeOK, memCells
<1>3. WithTmp(tmp, s.oldLo, mem[s.addr], shadow[s.addr]) = T
  BY DEF WithTmp, Written
<1>4. Layered(tmp, tmp_offset) /\ tmpCells = CellsOf(tmp, tmp_offset) /\ tmp_offset \in Nat \ {0}
  BY TypeParts, CellParts, Params
<1>5. Temps = 0 .. tmp_offset - 1
  BY DEF Temps
<1>6. Layered(T, tmp_offset) /\ CellsOf(T, tmp_offset) = old
  BY <1>1, <1>2, <1>4, <1>5, WriteCell
<1> HIDE DEF T, old
<1>7. CASE ~s.double
  <2>1. tmp' = T
    BY <1>3, <1>7 DEF CAS, addr_Lo
  <2>2. PICK W : W = tmp'
    OBVIOUS
  <2>3. Layered(W, tmp_offset) /\ CellsOf(W, tmp_offset) = old
    BY <1>6, <2>1, <2>2
  <2>4. Layered(tmp', tmp_offset)
    BY <2>2, <2>3 DEF Layered
  <2>5. tmpCells' = CellsOf(W, tmp_offset)
    BY <2>2 DEF tmpCells, CellsOf, Temps, dg_bar_rdtmp, Shadowed
  <2>6. QED
    BY <1>7, <2>3, <2>4, <2>5 DEF old
<1>8. CASE s.double
  <2>1. tmp' = Written(T, tmp_offset, s.oldHi, mem[s.addr + 1], shadow[s.addr + 1])
    BY <1>3, <1>8 DEF CAS, addr_Lo, addr_Hi, WithTmp, Written
  <2>2. PICK W : W = tmp'
    OBVIOUS
  <2>3. W = Written(T, tmp_offset, s.oldHi, mem[s.addr + 1], shadow[s.addr + 1])
    BY <2>1, <2>2
  <2>4. s.addr + 1 \in Addrs /\ s.oldHi \in 0 .. tmp_offset - 1
    BY <1>1, <1>5, <1>8
  <2>5. /\ mem[s.addr + 1] \in Vals /\ shadow[s.addr + 1] \in Halves
        /\ memCells[s.addr + 1] = Shadowed(mem[s.addr + 1], shadow[s.addr + 1])
    BY <1>2, <2>4
  <2>6. /\ Layered(W, tmp_offset)
        /\ CellsOf(W, tmp_offset) = [old EXCEPT ![s.oldHi] = memCells[s.addr + 1]]
    BY <1>4, <1>6, <2>3, <2>4, <2>5, WriteCell
  <2>7. Layered(tmp', tmp_offset)
    BY <2>2, <2>6 DEF Layered
  <2>8. tmpCells' = CellsOf(W, tmp_offset)
    BY <2>2 DEF tmpCells, CellsOf, Temps, dg_bar_rdtmp, Shadowed
  <2>9. QED
    BY <1>8, <2>6, <2>7, <2>8 DEF old
<1>9. QED
  BY <1>7, <1>8

(* Memory and shadow memory after a CAS. *)
LEMMA CasCells ==
  ASSUME TypeOK, NEW s \in Statements, CAS(s)
  PROVE  /\ mem' \in [Addrs -> Vals] /\ shadow' \in [Addrs -> Halves]
         /\ memCells' = [a \in Addrs |->
              IF cas_succeeded(s) /\ a = s.addr THEN Tagged!Atom(s.dataLo)
              ELSE IF cas_succeeded(s) /\ s.double /\ a = s.addr + 1 THEN Tagged!Atom(s.dataHi)
              ELSE memCells[a]]
<1> DEFINE ok == cas_succeeded(s)
<1>1. /\ s.addr \in Addrs /\ IsAtom(s.dataLo)
      /\ s.double => s.addr + 1 \in Addrs /\ IsAtom(s.dataHi)
  BY CasShape DEF CAS
<1>2. /\ Atom(s.dataLo) \in Vals /\ ModifyAtom(s.dataLo) \in Halves
      /\ Tagged!Atom(s.dataLo) = Shadowed(Atom(s.dataLo), ModifyAtom(s.dataLo))
  BY <1>1, AtomMap
<1>3. s.double => /\ Atom(s.dataHi) \in Vals /\ ModifyAtom(s.dataHi) \in Halves
                  /\ Tagged!Atom(s.dataHi) = Shadowed(Atom(s.dataHi), ModifyAtom(s.dataHi))
  BY <1>1, AtomMap
<1>4. /\ mem' = [a \in Addrs |-> IF ok /\ a = s.addr THEN Atom(s.dataLo)
                                 ELSE IF ok /\ s.double /\ a = s.addr + 1 THEN Atom(s.dataHi)
                                 ELSE mem[a]]
      /\ shadow' = [a \in Addrs |-> IF ok /\ a = s.addr THEN ModifyAtom(s.dataLo)
                                    ELSE IF ok /\ s.double /\ a = s.addr + 1
                                      THEN ModifyAtom(s.dataHi)
                                    ELSE shadow[a]]
  BY DEF CAS, AfterCAS, addr_Lo, addr_Hi
<1>5. mem \in [Addrs -> Vals] /\ shadow \in [Addrs -> Halves]
  BY DEF TypeOK
<1> HIDE DEF ok
<1>6. ASSUME NEW a \in Addrs
      PROVE  /\ mem'[a] \in Vals /\ shadow'[a] \in Halves
             /\ Shadowed(mem'[a], shadow'[a])
                  = IF ok /\ a = s.addr THEN Tagged!Atom(s.dataLo)
                    ELSE IF ok /\ s.double /\ a = s.addr + 1 THEN Tagged!Atom(s.dataHi)
                    ELSE memCells[a]
  <2>1. CASE ok /\ a = s.addr
    <3>1. mem'[a] = Atom(s.dataLo) /\ shadow'[a] = ModifyAtom(s.dataLo)
      BY <1>4, <2>1
    <3>2. QED
      BY <1>2, <2>1, <3>1
  <2>2. CASE ok /\ a # s.addr /\ s.double /\ a = s.addr + 1
    <3>1. mem'[a] = Atom(s.dataHi) /\ shadow'[a] = ModifyAtom(s.dataHi)
      BY <1>4, <2>2
    <3>2. QED
      BY <1>3, <2>2, <3>1
  <2>3. CASE ~(ok /\ a = s.addr) /\ ~(ok /\ s.double /\ a = s.addr + 1)
    <3>1. mem'[a] = mem[a] /\ shadow'[a] = shadow[a]
      BY <1>4, <2>3
    <3>2. memCells[a] = Shadowed(mem[a], shadow[a])
      BY DEF memCells
    <3>3. QED
      BY <1>5, <2>3, <3>1, <3>2
  <2>4. QED
    BY <2>1, <2>2, <2>3
<1>7. memCells' = [a \in Addrs |-> Shadowed(mem'[a], shadow'[a])]
  BY Zenon DEF memCells, Shadowed, Join
<1>8. memCells' = [a \in Addrs |->
              IF ok /\ a = s.addr THEN Tagged!Atom(s.dataLo)
              ELSE IF ok /\ s.double /\ a = s.addr + 1 THEN Tagged!Atom(s.dataHi)
              ELSE memCells[a]]
  BY <1>6, <1>7
<1>9. mem' \in [Addrs -> Vals] /\ shadow' \in [Addrs -> Halves]
  BY <1>4, <1>6
<1>10. QED
  BY <1>8, <1>9 DEF ok

(* A CAS keeps the types, whichever of values and shadows agree. *)
LEMMA StepCasType ==
  ASSUME TypeOK, NEW s \in Statements, CAS(s)
  PROVE  TypeOK'
<1>1. UNCHANGED <<guest, nextindex>>
  BY DEF CAS
<1>2. equal_values(s) \in BOOLEAN /\ cas_succeeded(s) \in BOOLEAN
  BY DEF equal_values, cas_succeeded
<1>3. nextindex' \in 1 .. MaxIndex + 1
  BY <1>1 DEF TypeOK
<1>4. cas' \in [told : BOOLEAN, did : BOOLEAN]
  BY <1>2 DEF CAS
<1>5. Layered(tmp', tmp_offset)
  BY CasOld
<1>6. QED
  BY <1>1, <1>3, <1>4, <1>5, CasCells, Unwritten, TypeNext

(* If equal values have equal shadows, the CAS that also compares shadows is *)
(* the one that compares values.                                             *)
LEMMA StepCas ==
  ASSUME TypeOK, NEW s \in Statements, CAS(s), ~MixedCAS
  PROVE  Tagged!CAS(s)
<1> DEFINE equal == /\ Tagged!Atom(s.expdLo).val = memCells[s.addr].val
                    /\ s.double => Tagged!Atom(s.expdHi).val = memCells[s.addr + 1].val
           stored == [memCells EXCEPT ![s.addr] = Tagged!Atom(s.dataLo)]
           old == [tmpCells EXCEPT ![s.oldLo] = memCells[s.addr]]
<1>1. /\ s.tag = "CAS" /\ s.addr \in Addrs /\ s.addr \in Nat /\ IsAtom(s.expdLo)
      /\ s.double \in BOOLEAN
      /\ s.double => s.addr + 1 \in Addrs /\ IsAtom(s.expdHi)
  BY CasShape DEF CAS
<1>2. \A a \in Addrs : memCells[a].val = mem[a]
  BY DEF memCells, Shadowed
<1>3. /\ Tagged!Atom(s.expdLo).val = Atom(s.expdLo)
      /\ s.double => Tagged!Atom(s.expdHi).val = Atom(s.expdHi)
  BY <1>1, AtomMap, Fields
<1>4. equal <=> equal_values(s)
  BY <1>1, <1>2, <1>3 DEF equal_values, EqualValues, addr_Lo, addr_Hi
<1>5. equal_values(s) => equal_modifiedvalues(s)
  BY DEF CAS
<1>6. cas_succeeded(s) <=> equal
  BY <1>4, <1>5 DEF cas_succeeded
<1>7. memCells' = IF ~equal THEN memCells
                  ELSE IF s.double THEN [stored EXCEPT ![s.addr + 1] = Tagged!Atom(s.dataHi)]
                  ELSE stored
  <2>1. memCells' = [a \in Addrs |->
              IF equal /\ a = s.addr THEN Tagged!Atom(s.dataLo)
              ELSE IF equal /\ s.double /\ a = s.addr + 1 THEN Tagged!Atom(s.dataHi)
              ELSE memCells[a]]
    BY <1>6, CasCells
  <2> HIDE DEF equal
  <2>2. memCells = [a \in Addrs |-> memCells[a]] /\ s.addr # s.addr + 1
    BY <1>1 DEF memCells
  <2>3. CASE ~equal
    BY <2>1, <2>2, <2>3
  <2>4. CASE equal /\ ~s.double
    BY <1>1, <2>1, <2>2, <2>4
  <2>5. CASE equal /\ s.double
    BY <1>1, <2>1, <2>2, <2>5
  <2>6. QED
    BY <2>3, <2>4, <2>5
<1>8. tmpCells' = IF s.double THEN [old EXCEPT ![s.oldHi] = memCells[s.addr + 1]] ELSE old
  BY CasOld
<1>9. UNCHANGED <<guest, nextindex>>
  BY DEF CAS
<1>10. guestCells' = guestCells
  BY <1>9, Unwritten
<1>11. QED
  BY <1>1, <1>7, <1>8, <1>9, <1>10 DEF Tagged!CAS

-----------------------------------------------------------------------------
(* The theorems. *)

(* The initial state maps to the initial state of the tagged program. *)
LEMMA InitCells ==
  ASSUME Init
  PROVE  TypeOK /\ Tagged!Init
<1>1. \A t \in Temps : /\ t \in 0 .. 3 * tmp_offset - 1 /\ t + tmp_offset \in 0 .. 3 * tmp_offset - 1
                       /\ t + 2 * tmp_offset \in 0 .. 3 * tmp_offset - 1
  BY Params DEF Temps
<1>2. \A o \in Regs : /\ o \in 0 .. 3 * gs_offset - 1 /\ o + gs_offset \in 0 .. 3 * gs_offset - 1
                      /\ o + 2 * gs_offset \in 0 .. 3 * gs_offset - 1
  BY Params DEF Regs
<1>3. 0 \in Vals /\ 0 \in Nat /\ 1 \in 1 .. MaxIndex + 1
  BY Params DEF Vals
<1>4. \A t \in Temps : tmp[t] = 0 /\ dg_bar_rdtmp(t) = Zero
  BY <1>1 DEF Init, dg_bar_rdtmp, Zero
<1>5. \A o \in Regs : guest[o] = 0 /\ dg_bar_get(o) = Zero
  BY <1>2 DEF Init, dg_bar_get, Zero
<1>6. \A a \in Addrs : mem[a] = 0 /\ shadow[a] = Zero
  BY DEF Init
<1>7. TypeOK
  <2>1. /\ tmp \in [0 .. 3 * tmp_offset - 1 -> Nat]
        /\ guest \in [0 .. 3 * gs_offset - 1 -> Nat]
        /\ mem \in [Addrs -> Vals] /\ shadow \in [Addrs -> Halves]
    BY <1>3, JoinZero DEF Init
  <2>2. nextindex \in 1 .. MaxIndex + 1 /\ cas \in [told : BOOLEAN, did : BOOLEAN]
    BY <1>3 DEF Init
  <2>3. QED
    BY <1>3, <1>4, <1>5, <2>1, <2>2, JoinZero DEF TypeOK
<1>8. Shadowed(0, Zero) = Tagged!Cell(0, 0)
  BY JoinZero DEF Shadowed, Tagged!Cell
<1>9. tmpCells = [t \in 0 .. tmp_offset - 1 |-> Tagged!Cell(0, 0)]
  BY <1>4, <1>8 DEF tmpCells, Temps
<1>10. guestCells = [o \in 0 .. gs_offset - 1 |-> Tagged!Cell(0, 0)]
  BY <1>5, <1>8 DEF guestCells, Regs
<1>11. memCells = [a \in Addrs |-> Tagged!Cell(0, 0)]
  BY <1>6, <1>8 DEF memCells
<1>12. Tagged!Init
  BY <1>9, <1>10, <1>11 DEF Init, Tagged!Init
<1>13. QED
  BY <1>7, <1>12

(* A step preserves the types and, unless a CAS meets the expected value under *)
(* another shadow or a dirty call overwrites active data, is a step of the     *)
(* tagged program.                                                             *)
LEMMA Step ==
  ASSUME TypeOK, Next
  PROVE  TypeOK' /\ (~MixedCAS /\ ~DirtyOverActive => Tagged!Next)
<1>1. CASE \E s \in Statements : \/ WrTmp(s) \/ Put(s) \/ PutI(s) \/ Store(s) \/ LoadG(s)
                                 \/ CAS(s) \/ StoreF80(s) \/ LoadF80(s) \/ Dirty(s)
  <2>1. PICK s \in Statements : \/ WrTmp(s) \/ Put(s) \/ PutI(s) \/ Store(s) \/ LoadG(s)
                                \/ CAS(s) \/ StoreF80(s) \/ LoadF80(s) \/ Dirty(s)
    BY <1>1
  <2>2. CASE WrTmp(s)
    BY <2>2, StepWrTmp DEF Tagged!Next
  <2>3. CASE Put(s)
    BY <2>3, StepPut DEF Tagged!Next
  <2>4. CASE PutI(s)
    BY <2>4, StepPutI DEF Tagged!Next
  <2>5. CASE Store(s)
    BY <2>5, StepStore DEF Tagged!Next
  <2>6. CASE LoadG(s)
    BY <2>6, StepLoadG DEF Tagged!Next
  <2>7. CASE CAS(s)
    BY <2>7, StepCasType, StepCas DEF Tagged!Next
  <2>8. CASE StoreF80(s)
    BY <2>8, StepStoreF80 DEF Tagged!Next
  <2>9. CASE LoadF80(s)
    BY <2>9, StepLoadF80 DEF Tagged!Next
  <2>10. CASE Dirty(s)
    BY <2>10, StepDirty DEF Tagged!Next
  <2>11. QED
    BY <2>1, <2>2, <2>3, <2>4, <2>5, <2>6, <2>7, <2>8, <2>9, <2>10
<1>2. CASE \E a \in Addrs : DeclareInput(a)
  BY <1>2, StepDeclareInput DEF Tagged!Next
<1>3. QED
  BY <1>1, <1>2 DEF Next

(* A stuttering step keeps types and cells. *)
LEMMA Stutter ==
  ASSUME TypeOK, UNCHANGED vars
  PROVE  TypeOK' /\ UNCHANGED Tagged!vars
<1>1. UNCHANGED <<tmp, guest, mem, shadow, nextindex, cas>>
  BY DEF vars
<1>2. nextindex' \in 1 .. MaxIndex + 1 /\ cas' \in [told : BOOLEAN, did : BOOLEAN]
  BY <1>1 DEF TypeOK
<1>3. TypeOK'
  BY <1>1, <1>2, Unwritten, TypeNext
<1>4. QED
  BY <1>1, <1>3, Unwritten DEF Tagged!vars

(* wrtmp, puti, store and the 80-bit functions of dg_bar.c put values and halves *)
(* of indices where rdtmp, geti and load look for them, whatever CAS meets and   *)
(* dirty calls overwrite.                                                        *)
THEOREM StatementsTyped == Spec => []TypeOK
<1>1. Init => TypeOK
  BY InitCells
<1>2. TypeOK /\ [Next]_vars => TypeOK'
  BY Step, Stutter
<1>3. QED
  BY <1>1, <1>2, PTL DEF Spec

(* add_statement_modified and dg_original_statement: for every program, every *)
(* number of temporaries, registers and addresses, the instrumented program   *)
(* computes what the original one does, and the shadow of every value is the  *)
(* index of the operation it comes from, provided that CAS never meets the    *)
(* expected value under another shadow and that dirty calls do not write to   *)
(* registers or memory that have an index: the code updates no shadow there.  *)
THEOREM InstrumentationCorrect ==
  ~MixedCAS /\ ~DirtyOverActive => (Spec => ImplementsTagged)
<1> SUFFICES ASSUME ~MixedCAS, ~DirtyOverActive
             PROVE  Spec => ImplementsTagged
  OBVIOUS
<1>1. Init => TypeOK /\ Tagged!Init
  BY InitCells
<1>2. TypeOK /\ [Next]_vars => TypeOK'
  BY Step, Stutter
<1>3. TypeOK /\ [Next]_vars => [Tagged!Next]_(Tagged!vars)
  BY Step, Stutter
<1>4. QED
  BY <1>1, <1>2, <1>3, PTL DEF Spec, ImplementsTagged, Tagged!Spec
=============================================================================
