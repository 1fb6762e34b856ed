-------------------------- MODULE ForwardStatements --------------------------
(***************************************************************************)
(* Forward mode (dot/dg_dot.c) beside recording mode: the same program is  *)
(* instrumented once with one shadow layer of dot values, and once with    *)
(* the two layers of indices of module ShadowStatements.  Both runs do the *)
(* same original statements, so they share these; only CAS statements do   *)
(* in forward mode what a test on dot values says, see dot_cas.            *)
(*                                                                         *)
(* Inputs have the dot value 1.  The history derivative holds, for each    *)
(* index, the dot value that a forward evaluation of the tape computes for *)
(* it, block by block, from the partial derivatives on the tape.           *)
(***************************************************************************)
EXTENDS ShadowStatements, Sequences

CONSTANT MaxTies  \* may a maximum have equal operands with different shadows?

ASSUME ForwardAssumption == MaxTies \in BOOLEAN

VARIABLES dot_tmp,     \* shadow temporaries, at tmp_offset
          dot_guest,   \* shadow guest state, at gs_offset
          dot_shadow,  \* shadow memory
          dot_cas,     \* history: what the last CAS told the program, and did
          derivative   \* history: forward evaluation of the tape

dotVars == <<dot_tmp, dot_guest, dot_shadow, dot_cas, derivative>>
allVars == <<vars, dotVars>>

-----------------------------------------------------------------------------
\* The functions of dg_dot_expressionhandling.

dg_dot_rdtmp(t) == dot_tmp[t + tmp_offset]
dg_dot_wrtmp(T, t, d) == [T EXCEPT ![t + tmp_offset] = d]

dg_dot_get(offset) == dot_guest[offset + gs_offset]

dg_dot_geti(ix, bias) == dot_guest[Element(base + gs_offset, ix, bias + gs_offset)]

\* A dirty call copies from shadow memory to dg_dot_shadow_mem_buffer, from where
\* the shadow temporary is loaded.
dg_dot_load(addr) == dot_shadow[addr]

\* dg_dot_constant, dg_dot_rdtmp.
DotAtom(a) == IF a.tag = "Const" THEN 0 ELSE dg_dot_rdtmp(a.tmp)

\* dg_dot_arithmetic_min, dg_dot_arithmetic_max, and the rule of an addition.
dg_dot_operation(e) ==
  LET d1 == DotAtom(e.arg1)
      d2 == DotAtom(e.arg2)
  IN  CASE e.tag = "Add" -> d1 + d2
        [] e.tag = "Min" -> IF Atom(e.arg1) < Atom(e.arg2) THEN d1 ELSE d2
        [] e.tag = "Max" -> IF Atom(e.arg1) > Atom(e.arg2) THEN d1 ELSE d2

\* dg_modify_expression_or_default, with 0 for expressions without a rule.
Dot(e) ==
  CASE e.tag \in {"Const", "RdTmp"} -> DotAtom(e)
    [] e.tag = "Get"  -> dg_dot_get(e.offset)
    [] e.tag = "GetI" -> dg_dot_geti(e.ix, e.bias)
    [] e.tag = "Load" -> dg_dot_load(e.addr)
    [] e.tag = "ITE"  -> IF Atom(e.cond) # 0 THEN DotAtom(e.iftrue) ELSE DotAtom(e.iffalse)
    [] e.tag \in Handled -> dg_dot_operation(e)
    [] e.tag \in {"UnhandledOp", "CCall"} -> 0

-----------------------------------------------------------------------------
\* The tape of recording mode.

\* Faulty variant: decides on a minimum by <=.
PartialsTies(e) ==
  CASE e.tag = "Add" -> <<1, 1>>
    [] e.tag = "Min" -> IF Atom(e.arg1) <= Atom(e.arg2) THEN <<1, 0>> ELSE <<0, 1>>
    [] e.tag = "Max" -> IF Atom(e.arg1) < Atom(e.arg2) THEN <<0, 1>> ELSE <<1, 0>>

\* Iop_CmpF64 has its lowest bit set if the first operand is less.
Partials(e) ==
  CASE e.tag = "Add" -> <<1, 1>>
    [] e.tag = "Min" -> IF Atom(e.arg1) < Atom(e.arg2) THEN <<1, 0>> ELSE <<0, 1>>
    [] e.tag = "Max" -> IF Atom(e.arg1) < Atom(e.arg2) THEN <<0, 1>> ELSE <<1, 0>>

DerivativeOf(i) == IF i = 0 THEN 0 ELSE derivative[i]

\* One step of the forward evaluation, for the block of e.
DerivativeOfBlock(e) ==
  Partials(e)[1] * DerivativeOf(Join(ModifyAtom(e.arg1)))
    + Partials(e)[2] * DerivativeOf(Join(ModifyAtom(e.arg2)))

-----------------------------------------------------------------------------
\* Statements, with those of recording mode.

DotInit ==
  /\ Init
  /\ dot_tmp = [t \in tmp_offset .. 2 * tmp_offset - 1 |-> 0]
  /\ dot_guest = [o \in gs_offset .. 2 * gs_offset - 1 |-> 0]
  /\ dot_shadow = [a \in Addrs |-> 0]
  /\ dot_cas = cas
  /\ derivative = <<>>

\* A maximum of equal operands: forward mode takes the dot value of the second
\* one, as the processor takes its value, and recording mode the first.
Tie(e) == e.tag = "Max" /\ Atom(e.arg1) = Atom(e.arg2) /\ ModifyAtom(e.arg1) # ModifyAtom(e.arg2)

DotWrTmp(s) ==
  /\ WrTmp(s)
  /\ MaxTies \/ ~Tie(s.data)
  /\ dot_tmp' = dg_dot_wrtmp(dot_tmp, s.tmp, Dot(s.data))
  /\ derivative' = IF Recorded(s.data) THEN Append(derivative, DerivativeOfBlock(s.data))
                   ELSE derivative
  /\ UNCHANGED <<dot_guest, dot_shadow, dot_cas>>

DotPut(s) ==
  /\ Put(s)
  /\ dot_guest' = [dot_guest EXCEPT ![s.offset + gs_offset] = DotAtom(s.data)]
  /\ UNCHANGED <<dot_tmp, dot_shadow, dot_cas, derivative>>

DotPutI(s) ==
  /\ PutI(s)
  /\ dot_guest' = [dot_guest EXCEPT
       ![Element(base + gs_offset, s.ix, s.bias + gs_offset)] = DotAtom(s.data)]
  /\ UNCHANGED <<dot_tmp, dot_shadow, dot_cas, derivative>>

\* dg_dot_store puts the dot value into dg_dot_shadow_mem_buffer in any case and
\* guards the dirty call that copies it to shadow memory.
DotStore(s) ==
  /\ Store(s)
  /\ dot_shadow' = IF Atom(s.guard) # 0 THEN [dot_shadow EXCEPT ![s.addr] = DotAtom(s.data)]
                   ELSE dot_shadow
  /\ UNCHANGED <<dot_tmp, dot_guest, dot_cas, derivative>>

DotLoadG(s) ==
  /\ LoadG(s)
  /\ dot_tmp' = dg_dot_wrtmp(dot_tmp, s.dst,
                             IF Atom(s.guard) # 0 THEN dg_dot_load(s.addr) ELSE DotAtom(s.alt))
  /\ UNCHANGED <<dot_guest, dot_shadow, dot_cas, derivative>>

\* The test of a CAS statement in forward mode: dg_dot_compare on dot values.
EqualDots(a, expd) == DotAtom(expd) = dg_dot_load(a)

dot_cas_succeeded(s) ==
  /\ equal_values(s)
  /\ EqualDots(addr_Lo(s), s.expdLo)
  /\ s.double => EqualDots(addr_Hi(s), s.expdHi)

DotCAS(s) ==
  /\ CAS(s)
  /\ LET old == dg_dot_wrtmp(dot_tmp, s.oldLo, dg_dot_load(addr_Lo(s)))
     IN  dot_tmp' = IF s.double THEN dg_dot_wrtmp(old, s.oldHi, dg_dot_load(addr_Hi(s))) ELSE old
  /\ dot_shadow' = [a \in Addrs |->
       IF dot_cas_succeeded(s) /\ a = addr_Lo(s) THEN DotAtom(s.dataLo)
       ELSE IF dot_cas_succeeded(s) /\ s.double /\ a = addr_Hi(s) THEN DotAtom(s.dataHi)
       ELSE dot_shadow[a]]
  /\ dot_cas' = [told |-> equal_values(s), did |-> dot_cas_succeeded(s)]
  /\ UNCHANGED <<dot_guest, derivative>>

\* The dot value is converted to 80 bits and back, which is exact.
DotStoreF80(s) ==
  /\ StoreF80(s)
  /\ dot_shadow' = [dot_shadow EXCEPT ![s.addr] = DotAtom(s.data)]
  /\ UNCHANGED <<dot_tmp, dot_guest, dot_cas, derivative>>

DotLoadF80(s) ==
  /\ LoadF80(s)
  /\ dot_tmp' = dg_dot_wrtmp(dot_tmp, s.tmp, dot_shadow[s.addr])
  /\ UNCHANGED <<dot_guest, dot_shadow, dot_cas, derivative>>

DotDirty(s) ==
  /\ Dirty(s)
  /\ dot_tmp' = IF s.tmp = IRTemp_INVALID THEN dot_tmp ELSE dg_dot_wrtmp(dot_tmp, s.tmp, 0)
  /\ UNCHANGED <<dot_guest, dot_shadow, dot_cas, derivative>>

\* DG_SET_DOTVALUE(&x, 1) in one run, DG_INPUT in the other.
DotDeclareInput(a) ==
  /\ DeclareInput(a)
  /\ dot_shadow' = [dot_shadow EXCEPT ![a] = 1]
  /\ derivative' = Append(derivative, 1)
  /\ UNCHANGED <<dot_tmp, dot_guest, dot_cas>>

DotNext ==
  \/ \E s \in Statements :
       \/ DotWrTmp(s) \/ DotPut(s) \/ DotPutI(s) \/ DotStore(s) \/ DotLoadG(s)
       \/ DotCAS(s) \/ DotStoreF80(s) \/ DotLoadF80(s) \/ DotDirty(s)
  \/ \E a \in Addrs : DotDeclareInput(a)

DotSpec == DotInit /\ [][DotNext]_allVars

-----------------------------------------------------------------------------
\* Properties.

(***************************************************************************)
(* The README's promise that both modes differentiate the same program:    *)
(* whatever sequence of statements led there, the dot value of every       *)
(* temporary, register and address in forward mode is the one that a       *)
(* forward evaluation of the tape finds under its index in recording mode, *)
(* and CAS statements had the same outcome, although one mode compares dot *)
(* values and the other indices.                                           *)
(***************************************************************************)
ModesAgree ==
  /\ \A t \in Temps : dg_dot_rdtmp(t) = DerivativeOf(tmpCells[t].idx)
  /\ \A o \in Regs : dg_dot_get(o) = DerivativeOf(guestCells[o].idx)
  /\ \A a \in Addrs : dot_shadow[a] = DerivativeOf(memCells[a].idx)
  /\ dot_cas = cas
=============================================================================
