--------------------------- MODULE TaggedProgram ---------------------------
(***************************************************************************)
(* What the instrumentation promises: the program runs as it would without *)
(* Derivgrind, and each of its values carries the index of the operation   *)
(* on the tape that computed it, 0 if there is none.                       *)
(*                                                                         *)
(* The program is a set of flat VEX statements, executed in any order.  An *)
(* operand of an expression or a statement is an atom: a constant or a     *)
(* temporary.                                                              *)
(***************************************************************************)
EXTENDS Integers

CONSTANTS nTmp,        \* temporaries 0 .. nTmp-1
          nReg,        \* cells of the guest state 0 .. nReg-1
          base, nElems,\* its circular array, IRRegArray
          Addrs,       \* addresses
          nVal,        \* values 0 .. nVal-1
          Statements,  \* statements of the program
          MaxIndex     \* bound on the indices that are assigned

VARIABLES tmp, guest, mem, \* cells [val, idx]
          nextindex        \* next index to be assigned

vars == <<tmp, guest, mem, nextindex>>

\* The temporary of a dirty call that returns nothing.
IRTemp_INVALID == -1

Cell(v, i) == [val |-> v, idx |-> i]

Atom(a) == IF a.tag = "Const" THEN Cell(a.val, 0) ELSE tmp[a.tmp]

Element(s) == base + ((Atom(s.ix).val + s.bias) % nElems)

Result(e) ==
  LET v1 == Atom(e.arg1).val
      v2 == Atom(e.arg2).val
  IN  CASE e.tag = "Min" -> IF v1 < v2 THEN v1 ELSE v2
        [] e.tag = "Max" -> IF v1 > v2 THEN v1 ELSE v2
        [] OTHER -> (v1 + v2) % nVal

\* Operations with an AD rule are recorded if an operand is active.
Handled == {"Add", "Min", "Max"}
Recorded(e) == e.tag \in Handled /\ (Atom(e.arg1).idx # 0 \/ Atom(e.arg2).idx # 0)

Value(e) ==
  CASE e.tag \in {"Const", "RdTmp"} -> Atom(e)
    [] e.tag = "Get"  -> guest[e.offset]
    [] e.tag = "GetI" -> guest[Element(e)]
    [] e.tag = "Load" -> mem[e.addr]
    [] e.tag = "ITE"  -> IF Atom(e.cond).val # 0 THEN Atom(e.iftrue) ELSE Atom(e.iffalse)
    [] e.tag \in Handled -> Cell(Result(e), IF Recorded(e) THEN nextindex ELSE 0)
    [] e.tag \in {"UnhandledOp", "CCall"} -> Cell(Result(e), 0)

Init == /\ tmp = [t \in 0..nTmp-1 |-> Cell(0, 0)]
        /\ guest = [o \in 0..nReg-1 |-> Cell(0, 0)]
        /\ mem = [a \in Addrs |-> Cell(0, 0)]
        /\ nextindex = 1

WrTmp(s) == /\ s.tag = "WrTmp"
            /\ Recorded(s.data) => nextindex <= MaxIndex
            /\ tmp' = [tmp EXCEPT ![s.tmp] = Value(s.data)]
            /\ nextindex' = IF Recorded(s.data) THEN nextindex + 1 ELSE nextindex
            /\ UNCHANGED <<guest, mem>>

Put(s) == /\ s.tag = "Put"
          /\ guest' = [guest EXCEPT ![s.offset] = Atom(s.data)]
          /\ UNCHANGED <<tmp, mem, nextindex>>

PutI(s) == /\ s.tag = "PutI"
           /\ guest' = [guest EXCEPT ![Element(s)] = Atom(s.data)]
           /\ UNCHANGED <<tmp, mem, nextindex>>

\* Ist_Store and Ist_StoreG: the guard of the former is a constant.
Store(s) == /\ s.tag = "Store"
            /\ mem' = IF Atom(s.guard).val # 0 THEN [mem EXCEPT ![s.addr] = Atom(s.data)]
                      ELSE mem
            /\ UNCHANGED <<tmp, guest, nextindex>>

LoadG(s) == /\ s.tag = "LoadG"
            /\ tmp' = [tmp EXCEPT ![s.dst] = IF Atom(s.guard).val # 0 THEN mem[s.addr]
                                             ELSE Atom(s.alt)]
            /\ UNCHANGED <<guest, mem, nextindex>>

\* Compare-and-swap of one element or, if s.double, of two adjacent ones.  It
\* compares values.
CAS(s) == /\ s.tag = "CAS"
          /\ LET equal == /\ Atom(s.expdLo).val = mem[s.addr].val
                          /\ s.double => Atom(s.expdHi).val = mem[s.addr + 1].val
                 stored == [mem EXCEPT ![s.addr] = Atom(s.dataLo)]
                 old == [tmp EXCEPT ![s.oldLo] = mem[s.addr]]
             IN  /\ mem' = IF ~equal THEN mem
                           ELSE IF s.double THEN [stored EXCEPT ![s.addr + 1] = Atom(s.dataHi)]
                           ELSE stored
                 /\ tmp' = IF s.double THEN [old EXCEPT ![s.oldHi] = mem[s.addr + 1]] ELSE old
          /\ UNCHANGED <<guest, nextindex>>

\* Dirty calls: conversion between registers and 80-bit numbers in memory, and
\* calls that return data, or write data to registers and memory, that is unrelated
\* to the inputs.
StoreF80(s) == /\ s.tag = "storeF80le"
               /\ mem' = [mem EXCEPT ![s.addr] = Atom(s.data)]
               /\ UNCHANGED <<tmp, guest, nextindex>>

LoadF80(s) == /\ s.tag = "loadF80le"
              /\ tmp' = [tmp EXCEPT ![s.tmp] = mem[s.addr]]
              /\ UNCHANGED <<guest, mem, nextindex>>

Dirty(s) == /\ s.tag = "Dirty"
            /\ nextindex' = nextindex
            /\ \/ s.tmp = IRTemp_INVALID /\ tmp' = tmp
               \/ s.tmp # IRTemp_INVALID /\ \E v \in 0..nVal-1 : tmp' = [tmp EXCEPT ![s.tmp] = Cell(v, 0)]
            /\ \E new \in [s.fxState -> 0..nVal-1] :
                 guest' = [o \in 0..nReg-1 |-> IF o \in s.fxState THEN Cell(new[o], 0) ELSE guest[o]]
            /\ \E new \in [s.mAddr -> 0..nVal-1] :
                 mem' = [a \in Addrs |-> IF a \in s.mAddr THEN Cell(new[a], 0) ELSE mem[a]]

\* Client request: the variable at address a is an input.
DeclareInput(a) == /\ nextindex <= MaxIndex
                   /\ mem' = [mem EXCEPT ![a].idx = nextindex]
                   /\ nextindex' = nextindex + 1
                   /\ UNCHANGED <<tmp, guest>>

Next == \/ \E s \in Statements : \/ WrTmp(s) \/ Put(s) \/ PutI(s) \/ Store(s) \/ LoadG(s)
                                 \/ CAS(s) \/ StoreF80(s) \/ LoadF80(s) \/ Dirty(s)
        \/ \E a \in Addrs : DeclareInput(a)

Spec == Init /\ [][Next]_vars
=============================================================================
