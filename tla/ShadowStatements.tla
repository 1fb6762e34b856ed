-------------------------- MODULE ShadowStatements --------------------------
(***************************************************************************)
(* Instrumentation of VEX statements: dg_instrument puts shadow statements *)
(* in front of each statement (dg_expressionhandling.c, with the functions *)
(* of recording mode from bar/dg_bar.c) and then the statement itself,     *)
(* CAS statements in a form of its own (dg_original_statement).            *)
(*                                                                         *)
(* A step is a statement with its shadow statements: they are in one       *)
(* superblock, and Valgrind switches threads only between superblocks.     *)
(* The shadow of a temporary t is in the temporaries t + tmp_offset and    *)
(* t + 2 tmp_offset, that of a register in the guest state gs_offset and   *)
(* 2 gs_offset further on, that of memory in two layers of shadow memory.  *)
(* All data has the size of one cell.  Module ForwardStatements adds       *)
(* forward mode.                                                           *)
(***************************************************************************)
EXTENDS Integers

CONSTANTS tmp_offset,   \* number of temporaries of the superblock
          gs_offset,    \* size of the guest state
          base, nElems, \* circular array of registers, IRRegArray
          Addrs,        \* addresses
          nVal,         \* values 0 .. nVal-1
          HALF,         \* values of one half of an index
          Statements,   \* statements of the program, see TaggedProgram
          MaxIndex,     \* bound on the indices that are assigned
          MixedCAS,     \* whether CAS may meet the expected value with another shadow
          DirtyOverActive \* whether dirty calls may overwrite data that has an index

Temps == 0 .. tmp_offset - 1
Regs  == 0 .. gs_offset - 1
Vals  == 0 .. nVal - 1

\* The temporary of a dirty call that returns nothing.
IRTemp_INVALID == -1

\* Operations with a derivative rule.
Handled == {"Add", "Min", "Max"}

IsConst(a) == a.tag = "Const" /\ a.val \in Vals
IsAtom(a)  == IsConst(a) \/ (a.tag = "RdTmp" /\ a.tmp \in Temps)

\* A temporary is assigned once, hence not read by the statement that assigns it.
Unread(t, a) == a.tag = "RdTmp" => a.tmp # t

IsExpr(e) ==
  \/ IsAtom(e)
  \/ e.tag = "Get" /\ e.offset \in Regs
  \/ e.tag = "GetI" /\ IsAtom(e.ix) /\ e.bias \in Nat
  \/ e.tag = "Load" /\ e.addr \in Addrs
  \/ e.tag = "ITE" /\ IsAtom(e.cond) /\ IsAtom(e.iftrue) /\ IsAtom(e.iffalse)
  \/ e.tag \in Handled \cup {"UnhandledOp", "CCall"} /\ IsAtom(e.arg1) /\ IsAtom(e.arg2)

IsStatement(s) ==
  \/ s.tag = "WrTmp" /\ s.tmp \in Temps /\ IsExpr(s.data)
  \/ s.tag = "Put" /\ s.offset \in Regs /\ IsAtom(s.data)
  \/ s.tag = "PutI" /\ IsAtom(s.ix) /\ s.bias \in Nat /\ IsAtom(s.data)
  \/ s.tag = "Store" /\ s.addr \in Addrs /\ IsAtom(s.data) /\ IsAtom(s.guard)
  \/ s.tag = "LoadG" /\ s.dst \in Temps /\ s.addr \in Addrs /\ IsAtom(s.alt) /\ IsAtom(s.guard)
  \/ /\ s.tag = "CAS" /\ s.addr \in Addrs /\ s.double \in BOOLEAN
     /\ s.oldLo \in Temps /\ IsAtom(s.expdLo) /\ IsAtom(s.dataLo)
     /\ Unread(s.oldLo, s.dataLo)
     /\ s.double => /\ s.addr + 1 \in Addrs /\ s.oldHi \in Temps \ {s.oldLo}
                    /\ IsAtom(s.expdHi) /\ IsAtom(s.dataHi)
                    /\ Unread(s.oldHi, s.dataLo)
                    /\ Unread(s.oldLo, s.dataHi) /\ Unread(s.oldHi, s.dataHi)
  \/ s.tag = "storeF80le" /\ s.addr \in Addrs /\ IsAtom(s.data)
  \/ s.tag = "loadF80le" /\ s.tmp \in Temps /\ s.addr \in Addrs
  \/ /\ s.tag = "Dirty" /\ s.tmp \in Temps \cup {IRTemp_INVALID}
     /\ s.fxState \subseteq Regs /\ s.mAddr \subseteq Addrs

\* The length of the guest state is a multiple of that of the array: the shadow
\* statements shift both the base and the bias of the array.
ASSUME StatementsAssumption ==
  /\ tmp_offset \in Nat \ {0} /\ gs_offset \in Nat \ {0} /\ nElems \in Nat \ {0}
  /\ base \in Nat /\ base + nElems <= gs_offset /\ gs_offset % nElems = 0
  /\ Addrs \subseteq Nat /\ nVal \in Nat \ {0} /\ HALF \in Nat \ {0}
  /\ MaxIndex \in Nat /\ MixedCAS \in BOOLEAN /\ DirtyOverActive \in BOOLEAN
  /\ \A s \in Statements : IsStatement(s)

VARIABLES tmp,       \* temporaries and shadow temporaries
          guest,     \* guest state and shadow guest state
          mem,       \* memory
          shadow,    \* shadow memory, <<Lo, Hi>> for each address
          nextindex, \* of the tape
          cas        \* history: what the last CAS told the program, and did

vars == <<tmp, guest, mem, shadow, nextindex, cas>>

-----------------------------------------------------------------------------
\* The original expressions.

Atom(a) == IF a.tag = "Const" THEN a.val ELSE tmp[a.tmp]

\* Position in an array that begins at b, with bias d.
Element(b, ix, d) == b + ((Atom(ix) + d) % nElems)

Result(e) ==
  CASE e.tag = "Min" -> IF Atom(e.arg1) < Atom(e.arg2) THEN Atom(e.arg1) ELSE Atom(e.arg2)
    [] e.tag = "Max" -> IF Atom(e.arg1) > Atom(e.arg2) THEN Atom(e.arg1) ELSE Atom(e.arg2)
    [] OTHER -> (Atom(e.arg1) + Atom(e.arg2)) % nVal

Value(e) ==
  CASE e.tag \in {"Const", "RdTmp"} -> Atom(e)
    [] e.tag = "Get"  -> guest[e.offset]
    [] e.tag = "GetI" -> guest[Element(base, e.ix, e.bias)]
    [] e.tag = "Load" -> mem[e.addr]
    [] e.tag = "ITE"  -> IF Atom(e.cond) # 0 THEN Atom(e.iftrue) ELSE Atom(e.iffalse)
    [] e.tag \in Handled \cup {"UnhandledOp", "CCall"} -> Result(e)

-----------------------------------------------------------------------------
\* The functions of dg_bar_expressionhandling.  A shadow is <<Lo, Hi>>.

NULL == <<>>
Zero == <<0, 0>>

\* Faulty variant: the lower layer gets all of the index.
SplitNotCut(index) == <<index, index \div HALF>>

Split(index) == <<index % HALF, index \div HALF>>
Join(sh) == sh[1] + HALF * sh[2]

dg_bar_rdtmp(t) == <<tmp[t + tmp_offset], tmp[t + 2 * tmp_offset]>>

\* Put the value v and the shadow sh into temporary t of T.
WithTmp(T, t, v, sh) == [T EXCEPT ![t] = v, ![t + tmp_offset] = sh[1],
                                  ![t + 2 * tmp_offset] = sh[2]]

dg_bar_get(offset) == <<guest[offset + gs_offset], guest[offset + 2 * gs_offset]>>

dg_bar_geti(ix, bias) ==
  <<guest[Element(base + gs_offset, ix, bias + gs_offset)],
    guest[Element(base + 2 * gs_offset, ix, bias + 2 * gs_offset)]>>

\* dg_bar_constant, dg_bar_rdtmp.
ModifyAtom(a) == IF a.tag = "Const" THEN Zero ELSE dg_bar_rdtmp(a.tmp)

\* dg_bar_ite.
Ite(cond, dtrue, dfalse) == IF cond # 0 THEN dtrue ELSE dfalse

\* dg_bar_writeToTape: the index of an operation with these operands.
Recorded(e) == /\ e.tag \in Handled
               /\ Join(ModifyAtom(e.arg1)) # 0 \/ Join(ModifyAtom(e.arg2)) # 0
NewIndex(e) == IF Recorded(e) THEN nextindex ELSE 0

dg_modify_expression(e) ==
  CASE e.tag \in {"Const", "RdTmp"} -> ModifyAtom(e)
    [] e.tag = "Get"  -> dg_bar_get(e.offset)
    [] e.tag = "GetI" -> dg_bar_geti(e.ix, e.bias)
    [] e.tag = "Load" -> shadow[e.addr]
    [] e.tag = "ITE"  -> Ite(Atom(e.cond), ModifyAtom(e.iftrue), ModifyAtom(e.iffalse))
    [] e.tag \in Handled -> Split(NewIndex(e))
    [] e.tag \in {"UnhandledOp", "CCall"} -> NULL

dg_modify_expression_or_default(e) ==
  IF dg_modify_expression(e) = NULL THEN Zero ELSE dg_modify_expression(e)

-----------------------------------------------------------------------------
\* Statements: the shadow statements of add_statement_modified and the original.

Init == /\ tmp = [t \in 0 .. 3 * tmp_offset - 1 |-> 0]
        /\ guest = [o \in 0 .. 3 * gs_offset - 1 |-> 0]
        /\ mem = [a \in Addrs |-> 0]
        /\ shadow = [a \in Addrs |-> Zero]
        /\ nextindex = 1
        /\ cas = [told |-> FALSE, did |-> FALSE]

WrTmp(s) ==
  /\ s.tag = "WrTmp"
  /\ Recorded(s.data) => nextindex <= MaxIndex
  /\ tmp' = WithTmp(tmp, s.tmp, Value(s.data), dg_modify_expression_or_default(s.data))
  /\ nextindex' = IF Recorded(s.data) THEN nextindex + 1 ELSE nextindex
  /\ UNCHANGED <<guest, mem, shadow, cas>>

Put(s) ==
  /\ s.tag = "Put"
  /\ guest' = [guest EXCEPT ![s.offset] = Atom(s.data),
                            ![s.offset + gs_offset] = ModifyAtom(s.data)[1],
                            ![s.offset + 2 * gs_offset] = ModifyAtom(s.data)[2]]
  /\ UNCHANGED <<tmp, mem, shadow, nextindex, cas>>

\* Faulty variant: the array of the upper layer is not shifted far enough.
PutIOneLayer(s) ==
  /\ s.tag = "PutI"
  /\ guest' = [guest EXCEPT
       ![Element(base, s.ix, s.bias)] = Atom(s.data),
       ![Element(base + gs_offset, s.ix, s.bias + gs_offset)] = ModifyAtom(s.data)[2],
       ![Element(base + gs_offset, s.ix, s.bias + gs_offset)] = ModifyAtom(s.data)[1]]
  /\ UNCHANGED <<tmp, mem, shadow, nextindex, cas>>

PutI(s) ==
  /\ s.tag = "PutI"
  /\ guest' = [guest EXCEPT
       ![Element(base, s.ix, s.bias)] = Atom(s.data),
       ![Element(base + gs_offset, s.ix, s.bias + gs_offset)] = ModifyAtom(s.data)[1],
       ![Element(base + 2 * gs_offset, s.ix, s.bias + 2 * gs_offset)] = ModifyAtom(s.data)[2]]
  /\ UNCHANGED <<tmp, mem, shadow, nextindex, cas>>

\* Ist_Store and Ist_StoreG; dg_bar_store passes the guard on to the dirty call.
Store(s) ==
  /\ s.tag = "Store"
  /\ IF Atom(s.guard) # 0
       THEN /\ mem' = [mem EXCEPT ![s.addr] = Atom(s.data)]
            /\ shadow' = [shadow EXCEPT ![s.addr] = ModifyAtom(s.data)]
       ELSE UNCHANGED <<mem, shadow>>
  /\ UNCHANGED <<tmp, guest, nextindex, cas>>

\* The shadow is loaded whether or not the guard holds.
LoadG(s) ==
  /\ s.tag = "LoadG"
  /\ tmp' = WithTmp(tmp, s.dst,
                    IF Atom(s.guard) # 0 THEN mem[s.addr] ELSE Atom(s.alt),
                    Ite(Atom(s.guard), shadow[s.addr], ModifyAtom(s.alt)))
  /\ UNCHANGED <<guest, mem, shadow, nextindex, cas>>

\* The element at address a has the expected value, and the expected shadow.
EqualValues(a, expd) == Atom(expd) = mem[a]
EqualModifiedValues(a, expd) == ModifyAtom(expd) = shadow[a]

\* addressesOfCAS: a double element has its upper part at the next address, since
\* x86 and amd64 are little-endian.
addr_Lo(s) == s.addr
addr_Hi(s) == s.addr + 1

equal_values(s) == /\ EqualValues(addr_Lo(s), s.expdLo)
                   /\ s.double => EqualValues(addr_Hi(s), s.expdHi)
equal_modifiedvalues(s) == /\ EqualModifiedValues(addr_Lo(s), s.expdLo)
                           /\ s.double => EqualModifiedValues(addr_Hi(s), s.expdHi)
cas_succeeded(s) == equal_values(s) /\ equal_modifiedvalues(s)

\* The guarded writes of lo and hi to memory or to shadow memory.
AfterCAS(s, contents, lo, hi) ==
  [a \in Addrs |-> IF cas_succeeded(s) /\ a = addr_Lo(s) THEN lo
                   ELSE IF cas_succeeded(s) /\ s.double /\ a = addr_Hi(s) THEN hi
                   ELSE contents[a]]

\* cas_succeeded is the outcome of the instrumentation's own test, which decides
\* on both the store to memory and the one to shadow memory.  The program
\* finds out about success by comparing the old value with the expected one.
CAS(s) ==
  /\ s.tag = "CAS"
  /\ ~MixedCAS /\ equal_values(s) => equal_modifiedvalues(s)
  /\ LET old == WithTmp(tmp, s.oldLo, mem[addr_Lo(s)], shadow[addr_Lo(s)])
     IN  tmp' = IF s.double THEN WithTmp(old, s.oldHi, mem[addr_Hi(s)], shadow[addr_Hi(s)])
                ELSE old
  /\ mem' = AfterCAS(s, mem, Atom(s.dataLo), Atom(s.dataHi))
  /\ shadow' = AfterCAS(s, shadow, ModifyAtom(s.dataLo), ModifyAtom(s.dataHi))
  /\ cas' = [told |-> equal_values(s), did |-> cas_succeeded(s)]
  /\ UNCHANGED <<guest, nextindex>>

\* dg_bar_dirty_storeF80le: one call for each layer.  (The code moves the lower four
\* bytes of a shadow; the rest never holds part of the index.)
StoreF80(s) ==
  /\ s.tag = "storeF80le"
  /\ mem' = [mem EXCEPT ![s.addr] = Atom(s.data)]
  /\ shadow' = [shadow EXCEPT ![s.addr] = ModifyAtom(s.data)]
  /\ UNCHANGED <<tmp, guest, nextindex, cas>>

LoadF80(s) ==
  /\ s.tag = "loadF80le"
  /\ tmp' = WithTmp(tmp, s.tmp, mem[s.addr], shadow[s.addr])
  /\ UNCHANGED <<guest, mem, shadow, nextindex, cas>>

\* What a dirty call overwrites in registers and memory has no index.
OverwritesPassive(s) == /\ \A o \in s.fxState : dg_bar_get(o) = Zero
                        /\ \A a \in s.mAddr : shadow[a] = Zero

\* Other dirty calls: dg_bar_default_ for a temporary they return data in.  They may
\* also write to the guest state and to memory, where the shadows stay as they are:
\* "The following dirty calls do not handle AD-active bytes".
Dirty(s) ==
  /\ s.tag = "Dirty"
  /\ DirtyOverActive \/ OverwritesPassive(s)
  /\ \/ s.tmp = IRTemp_INVALID /\ tmp' = tmp
     \/ s.tmp # IRTemp_INVALID /\ \E v \in Vals : tmp' = WithTmp(tmp, s.tmp, v, Zero)
  /\ \E new \in [s.fxState -> Vals] :
       guest' = [o \in DOMAIN guest |-> IF o \in s.fxState THEN new[o] ELSE guest[o]]
  /\ \E new \in [s.mAddr -> Vals] :
       mem' = [a \in Addrs |-> IF a \in s.mAddr THEN new[a] ELSE mem[a]]
  /\ UNCHANGED <<shadow, nextindex, cas>>

\* DG_INPUT: a new index, without activity analysis, is set as the shadow.
DeclareInput(a) ==
  /\ nextindex <= MaxIndex
  /\ shadow' = [shadow EXCEPT ![a] = Split(nextindex)]
  /\ nextindex' = nextindex + 1
  /\ UNCHANGED <<tmp, guest, mem, cas>>

Next == \/ \E s \in Statements : \/ WrTmp(s) \/ Put(s) \/ PutI(s) \/ Store(s) \/ LoadG(s)
                                 \/ CAS(s) \/ StoreF80(s) \/ LoadF80(s) \/ Dirty(s)
        \/ \E a \in Addrs : DeclareInput(a)

Spec == Init /\ [][Next]_vars

-----------------------------------------------------------------------------
\* Properties.

Halves == (0 .. HALF - 1) \X Nat

\* Values and both halves of indices are where the code puts them.
TypeOK ==
  /\ tmp \in [0 .. 3 * tmp_offset - 1 -> Nat]
  /\ guest \in [0 .. 3 * gs_offset - 1 -> Nat]
  /\ \A t \in Temps : tmp[t] \in Vals /\ dg_bar_rdtmp(t) \in Halves
  /\ \A o \in Regs : guest[o] \in Vals /\ dg_bar_get(o) \in Halves
  /\ mem \in [Addrs -> Vals]
  /\ shadow \in [Addrs -> Halves]
  /\ nextindex \in 1 .. MaxIndex + 1
  /\ cas \in [told : BOOLEAN, did : BOOLEAN]

\* The values the program sees, and the indices that the two shadow layers
\* hold for them.
Shadowed(v, sh) == [val |-> v, idx |-> Join(sh)]

tmpCells   == [t \in Temps |-> Shadowed(tmp[t], dg_bar_rdtmp(t))]
guestCells == [o \in Regs |-> Shadowed(guest[o], dg_bar_get(o))]
memCells   == [a \in Addrs |-> Shadowed(mem[a], shadow[a])]

Tagged == INSTANCE TaggedProgram WITH
  nTmp <- tmp_offset, nReg <- gs_offset,
  tmp <- tmpCells, guest <- guestCells, mem <- memCells

\* add_statement_modified and dg_original_statement: the instrumented program
\* computes what the original one does, and the shadow of every temporary,
\* register and address is the index of the operation its value comes from.
ImplementsTagged == Tagged!Spec

\* dg_original_statement: a CAS whose old value is the expected one, from which
\* the program concludes that it succeeded, has stored its data.
CasTellsTruth == cas.told = cas.did
=============================================================================
