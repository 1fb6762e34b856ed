------------------------- MODULE MCShadowStatements -------------------------
(* ShadowStatements with statements of every kind on three temporaries, a guest *)
(* state that consists of a circular array of two registers, and two          *)
(* addresses.                                                                 *)
EXTENDS ShadowStatements

Const(v) == [tag |-> "Const", val |-> v]
RdTmp(t) == [tag |-> "RdTmp", tmp |-> t]

Expressions0 == {
  [tag |-> "Get", offset |-> 0],
  [tag |-> "GetI", ix |-> RdTmp(1), bias |-> 1],
  [tag |-> "ITE", cond |-> RdTmp(1), iftrue |-> RdTmp(2), iffalse |-> Const(0)],
  [tag |-> "Add", arg1 |-> RdTmp(1), arg2 |-> RdTmp(2)],
  [tag |-> "Min", arg1 |-> RdTmp(1), arg2 |-> RdTmp(2)]}

Expressions1 == {
  RdTmp(0),
  [tag |-> "Max", arg1 |-> RdTmp(0), arg2 |-> RdTmp(2)],
  [tag |-> "Load", addr |-> 1]}

Expressions2 == {
  [tag |-> "UnhandledOp", arg1 |-> RdTmp(0), arg2 |-> Const(1)],
  [tag |-> "CCall", arg1 |-> RdTmp(0), arg2 |-> Const(0)]}

MCStatements ==
  {[tag |-> "WrTmp", tmp |-> 0, data |-> e] : e \in Expressions0} \cup
  {[tag |-> "WrTmp", tmp |-> 1, data |-> e] : e \in Expressions1} \cup
  {[tag |-> "WrTmp", tmp |-> 2, data |-> e] : e \in Expressions2} \cup
  {[tag |-> "Put", offset |-> 1, data |-> RdTmp(0)],
   [tag |-> "PutI", ix |-> RdTmp(1), bias |-> 3, data |-> RdTmp(0)],
   [tag |-> "Store", addr |-> 1, data |-> RdTmp(0), guard |-> RdTmp(1)],
   [tag |-> "LoadG", dst |-> 0, addr |-> 1, alt |-> RdTmp(2), guard |-> RdTmp(1)],
   [tag |-> "CAS", addr |-> 0, double |-> FALSE, oldLo |-> 1,
    expdLo |-> RdTmp(0), dataLo |-> Const(1)],
   [tag |-> "CAS", addr |-> 0, double |-> TRUE, oldLo |-> 1, oldHi |-> 2,
    expdLo |-> Const(1), expdHi |-> RdTmp(1), dataLo |-> Const(0), dataHi |-> RdTmp(0)],
   [tag |-> "storeF80le", addr |-> 1, data |-> RdTmp(0)],
   [tag |-> "loadF80le", tmp |-> 1, addr |-> 0],
   [tag |-> "Dirty", tmp |-> 2, fxState |-> {}, mAddr |-> {}],
   [tag |-> "Dirty", tmp |-> IRTemp_INVALID, fxState |-> Regs, mAddr |-> {0}]}
=============================================================================
