----------------------------- MODULE ClientCode -----------------------------
(***************************************************************************)
(* Client code of a recording run, request by request: the wrappers around *)
(* the functions of math.h that gen_replace_math.py generates, and the     *)
(* macros DG_INPUTF and DG_OUTPUTF of derivgrind-recording.h.              *)
(*                                                                         *)
(* Valgrind may run another thread between any two superblocks, and a      *)
(* client request ends one.  A step below is one statement or request of   *)
(* module Recording, of which this module is an implementation; filling    *)
(* the static tbi of derivgrind.h and the request that reads it are one    *)
(* step, since no superblock ends between them (README).                   *)
(*                                                                         *)
(* Each thread has variables of its own, named by pairs <<name, thread>>.  *)
(* The macros' static variables dg_indextmp, dg_indextmp2 and dg_valtmp    *)
(* exist once per translation unit.  There is no --record-stop.            *)
(***************************************************************************)
EXTENDS Recording

CONSTANTS
  UserNames,     \* names of the floating-point variables of each thread
  Unit,          \* the translation unit whose macros a thread uses
  Partial,       \* partial derivatives of the function a thread calls
  Value,         \* value of its variables and results
  OutputDiffs,   \* the pair 1, 0 of DG_OUTPUT
  InnerDiffs,    \* partial derivatives of operations inside the wrapper
  EndInBracket,  \* may a thread end between DG_DISABLE(1,0) and DG_DISABLE(0,1)?
  MaxCalls       \* bound on the calls and macros of each thread

x(t) == <<"x", t>>             \* parameters of the wrapper
y(t) == <<"y", t>>
pdiff(t) == <<"pdiff", t>>     \* x_pdiff and y_pdiff, whose shadows nobody reads
result(t) == <<"ret", t>>
x_i(t) == <<"x_i", t>>
y_i(t) == <<"y_i", t>>
ret_i(t) == <<"ret_i", t>>
dg_indextmp(t) == <<"dg_indextmp", Unit[t]>>
dg_indextmp2(t) == <<"dg_indextmp2", Unit[t]>>

UserVars(t) == {<<n, t>> : n \in UserNames}
Units == {Unit[t] : t \in Threads}

ASSUME ClientAssumption ==
  /\ \A t \in Threads : /\ UserVars(t) \cup {x(t), y(t), pdiff(t), result(t)} \subseteq Vars
                        /\ {x_i(t), y_i(t), ret_i(t)} \subseteq IndexVars
                        /\ {dg_indextmp(t), dg_indextmp2(t)} \subseteq IndexVars
                        /\ Partial[t] \in Diffs /\ Value[t] \in Values
  /\ OutputDiffs \in Diffs /\ InnerDiffs \in Diffs
  /\ EndInBracket \in BOOLEAN
  /\ MaxCalls \in Nat
  /\ recording_stop_indices = <<>>

VARIABLES
  pc,         \* per thread, the next statement of the wrapper or macro
  call,       \* per thread, its current or last call or macro, see Call
  dg_valtmp,  \* per translation unit, the macros' static variable
  depth,      \* history: per thread, the number of its open brackets
  calls       \* number of calls and macros of each thread

clientVars == <<pc, call, dg_valtmp, depth, calls>>
allVars == <<vars, clientVars>>

(***************************************************************************)
(* The operands a and b, the variable dst that receives the result or is   *)
(* declared, already_disabled, and, as a history, the operands' indices    *)
(* when the call was made and whether the thread was outside its brackets. *)
(***************************************************************************)
Call == [a : Vars \cup {NoVar}, b : Vars \cup {NoVar}, dst : Vars,
         already_disabled : BOOLEAN, i1 : Index, i2 : Index, open : BOOLEAN]

NewCall(t, a, b, dst) ==
  [a |-> a, b |-> b, dst |-> dst, already_disabled |-> FALSE,
   i1 |-> IndexOf(a), i2 |-> IndexOf(b), open |-> depth[t] = 0]

Goto(t, from, to) ==
  /\ pc[t] = from
  /\ pc' = [pc EXCEPT ![t] = to]

\* A step that only moves on in the code of the wrapper or macro.
Step(t, from, to) ==
  /\ Goto(t, from, to)
  /\ UNCHANGED <<call, dg_valtmp, depth, calls>>

Begin(t, to, c) ==
  /\ Goto(t, "user", to)
  /\ calls[t] < MaxCalls
  /\ calls' = [calls EXCEPT ![t] = @ + 1]
  /\ call' = [call EXCEPT ![t] = c]
  /\ UNCHANGED depth

-----------------------------------------------------------------------------
(* The wrapper of a function of math.h, in recording mode.  A function of  *)
(* one floating-point argument has b = NoVar.                              *)

CallX(t, a, b, dst) ==
  /\ Begin(t, IF b = NoVar THEN "enter" ELSE "callY", NewCall(t, a, b, dst))
  /\ Copy(x(t), a)
  /\ UNCHANGED dg_valtmp

CallY(t) ==
  /\ Step(t, "callY", "enter")
  /\ Copy(y(t), call[t].b)

\* Faulty variant: does not open the bracket.
EnterOpen(t) ==
  /\ Goto(t, "enter", "orig")
  /\ DISABLE(t, 0, 0)
  /\ call' = [call EXCEPT ![t].already_disabled = dg_disable[t] # 0]
  /\ UNCHANGED <<dg_valtmp, depth, calls>>

\* already_disabled = DG_DISABLE(1,0) != 0
Enter(t) ==
  /\ Goto(t, "enter", "orig")
  /\ DISABLE(t, 1, 0)
  /\ call' = [call EXCEPT ![t].already_disabled = dg_disable[t] # 0]
  /\ UNCHANGED <<dg_valtmp, depth, calls>>

\* CALL_FN: the library's code computes the result by an operation, or hands
\* one of the arguments through, by a move or a sign mask that keeps its index.
Original(t) ==
  /\ Step(t, "orig", IF call[t].already_disabled THEN "leave" ELSE "getX")
  /\ \/ Operation(t, result(t), x(t), IF call[t].b = NoVar THEN NoVar ELSE y(t),
                  InnerDiffs, Value[t])
     \/ Copy(result(t), x(t))
     \/ call[t].b # NoVar /\ Copy(result(t), y(t))

GetX(t) ==
  /\ Step(t, "getX", IF call[t].b = NoVar THEN "pdiff" ELSE "getY")
  /\ GET_INDEX(x_i(t), x(t))

GetY(t) ==
  /\ Step(t, "getY", "pdiff")
  /\ GET_INDEX(y_i(t), y(t))

\* The partial derivatives are computed by operations of the wrapper ...
PDiff(t) ==
  /\ Step(t, "pdiff", "leave")
  /\ Operation(t, pdiff(t), x(t), NoVar, InnerDiffs, Value[t])

\* ... or by a wrapped function, which finds itself already disabled.
InnerEnter(t) ==
  /\ Step(t, "pdiff", "innerOrig")
  /\ DISABLE(t, 1, 0)

InnerOriginal(t) ==
  /\ Step(t, "innerOrig", "innerLeave")
  /\ Operation(t, pdiff(t), x(t), NoVar, InnerDiffs, Value[t])

InnerLeave(t) ==
  /\ Step(t, "innerLeave", "leave")
  /\ DISABLE(t, 0, 1)

Leave(t) ==
  /\ Step(t, "leave", IF call[t].already_disabled THEN "return" ELSE "new")
  /\ DISABLE(t, 0, 1)

NewIndex(t) ==
  /\ Step(t, "new", "set")
  /\ NEW_INDEX(t, ret_i(t), tmp[x_i(t)], IF call[t].b = NoVar THEN 0 ELSE tmp[y_i(t)],
               Partial[t], Value[t])

\* Faulty variant: sets the index of the parameter.
SetIndexOfX(t) ==
  /\ Step(t, "set", "return")
  /\ SET_INDEX(ret_i(t), x(t))

SetIndex(t) ==
  /\ Step(t, "set", "return")
  /\ SET_INDEX(ret_i(t), result(t))

Return(t) ==
  /\ Step(t, "return", "user")
  /\ Copy(call[t].dst, result(t))

Wrapper(t) ==
  \/ CallY(t) \/ Enter(t) \/ Original(t) \/ GetX(t) \/ GetY(t)
  \/ PDiff(t) \/ InnerEnter(t) \/ InnerOriginal(t) \/ InnerLeave(t)
  \/ Leave(t) \/ NewIndex(t) \/ SetIndex(t) \/ Return(t)

-----------------------------------------------------------------------------
(* DG_INPUTF and DG_OUTPUTF on a variable of the thread.                   *)

\* Faulty variant: dg_valtmp takes the index that dg_indextmp kept.
InputNewIndex(t, v) ==
  /\ Begin(t, "inputSet", NewCall(t, NoVar, NoVar, v))
  /\ dg_valtmp' = [dg_valtmp EXCEPT ![Unit[t]] = tmp[dg_indextmp(t)]]
  /\ NEW_INDEX_NOACTIVITYANALYSIS(t, dg_indextmp(t), 0, 0, 0, Value[t])

InputNew(t, v) ==
  /\ Begin(t, "inputSet", NewCall(t, NoVar, NoVar, v))
  /\ dg_valtmp' = [dg_valtmp EXCEPT ![Unit[t]] = Value[t]]
  /\ NEW_INDEX_NOACTIVITYANALYSIS(t, dg_indextmp(t), 0, 0, 0, Value[t])

InputSet(t) ==
  /\ Step(t, "inputSet", "inputCopy")
  /\ SET_INDEX(dg_indextmp(t), call[t].dst)

InputCopy(t) ==
  /\ Step(t, "inputCopy", "inputFile")
  /\ CopyIndex(dg_indextmp2(t), dg_indextmp(t))

InputFile(t) ==
  /\ Step(t, "inputFile", "user")
  /\ INDEX_TO_FILE_INPUT(dg_indextmp2(t))

OutputGet(t, v) ==
  /\ Begin(t, "outputNew", NewCall(t, v, NoVar, v))
  /\ dg_valtmp' = [dg_valtmp EXCEPT ![Unit[t]] = Value[t]]
  /\ GET_INDEX(dg_indextmp2(t), v)

\* Faulty variant: the index that dg_indextmp kept from the macro before.
OutputNewOld(t) ==
  /\ Step(t, "outputNew", "outputCopy")
  /\ NEW_INDEX_NOACTIVITYANALYSIS(t, dg_indextmp(t), tmp[dg_indextmp(t)], 0,
                                  OutputDiffs, dg_valtmp[Unit[t]])

OutputNew(t) ==
  /\ Step(t, "outputNew", "outputCopy")
  /\ NEW_INDEX_NOACTIVITYANALYSIS(t, dg_indextmp(t), tmp[dg_indextmp2(t)], 0,
                                  OutputDiffs, dg_valtmp[Unit[t]])

OutputCopy(t) ==
  /\ Step(t, "outputCopy", "outputFile")
  /\ CopyIndex(dg_indextmp2(t), dg_indextmp(t))

OutputFile(t) ==
  /\ Step(t, "outputFile", "user")
  /\ INDEX_TO_FILE_OUTPUT(dg_indextmp2(t))

Macro(t) ==
  \/ InputSet(t) \/ InputCopy(t) \/ InputFile(t)
  \/ OutputNew(t) \/ OutputCopy(t) \/ OutputFile(t)

-----------------------------------------------------------------------------
(* The user's own brackets, and the end of a thread: Valgrind gives its id *)
(* to the next thread, and dg_disable keeps the counter under that id.     *)

UserDisable(t) ==
  /\ pc[t] = "user" /\ depth[t] = 0
  /\ depth' = [depth EXCEPT ![t] = 1]
  /\ DISABLE(t, 1, 0)
  /\ UNCHANGED <<pc, call, dg_valtmp, calls>>

UserEnable(t) ==
  /\ pc[t] = "user" /\ depth[t] = 1
  /\ depth' = [depth EXCEPT ![t] = 0]
  /\ DISABLE(t, 0, 1)
  /\ UNCHANGED <<pc, call, dg_valtmp, calls>>

ThreadEnd(t) ==
  /\ pc[t] = "user"
  /\ EndInBracket \/ depth[t] = 0
  /\ depth' = [depth EXCEPT ![t] = 0]
  /\ UNCHANGED <<vars, pc, call, dg_valtmp, calls>>

ProgramEnd ==
  /\ \A t \in Threads : pc[t] = "user"
  /\ Finish
  /\ UNCHANGED clientVars

-----------------------------------------------------------------------------
ClientInit ==
  /\ Init
  /\ pc = [t \in Threads |-> "user"]
  /\ depth = [t \in Threads |-> 0]
  /\ call = [t \in Threads |-> NewCall(t, NoVar, NoVar, x(t))]
  /\ dg_valtmp = [u \in Units |-> 0]
  /\ calls = [t \in Threads |-> 0]

User(t) ==
  \/ \E a, dst \in UserVars(t), b \in UserVars(t) \cup {NoVar} : CallX(t, a, b, dst)
  \/ \E v \in UserVars(t) : InputNew(t, v) \/ OutputGet(t, v)
  \/ UserDisable(t) \/ UserEnable(t) \/ ThreadEnd(t)

ClientNext == ProgramEnd \/ \E t \in Threads : User(t) \/ Wrapper(t) \/ Macro(t)

ClientSpec == ClientInit /\ [][ClientNext]_allVars

-----------------------------------------------------------------------------
(* Properties.                                                             *)

Labels == {"user", "callY", "enter", "orig", "getX", "getY", "pdiff", "innerOrig",
           "innerLeave", "leave", "new", "set", "return", "inputSet", "inputCopy",
           "inputFile", "outputNew", "outputCopy", "outputFile"}

\* All variables of wrappers and macros have the type of their declaration.
ClientTypeOK ==
  /\ pc \in [Threads -> Labels]
  /\ call \in [Threads -> Call]
  /\ dg_valtmp \in [Units -> Values]
  /\ depth \in [Threads -> 0 .. 1]
  /\ calls \in [Threads -> 0 .. MaxCalls]

\* Index i stands for a statement with block b and value val.
Recorded(i, b, val) == i \in DOMAIN log /\ log[i] = [block |-> b, value |-> val]

(***************************************************************************)
(* gen_replace_math.py: "push a new entry with the indices and partial     *)
(* derivatives onto the tape, and set the index of the return value".      *)
(* Whatever the other threads do during the call, the value returned has   *)
(* the index of a statement with the partial derivatives of this call and  *)
(* with the indices its arguments had when it was made, or no index if     *)
(* they were passive.  Inside a bracket of the thread's own nothing is     *)
(* pushed and no index set: the value has no index or still that of an     *)
(* argument the library handed through, never one of another call.         *)
(***************************************************************************)
CallsRecorded ==
  \A t \in Threads : pc[t] = "return" =>
    LET c == call[t]
        i == Assemble(shadow[result(t)])
    IN  IF ~c.open THEN i \in {0, c.i1, c.i2}
        ELSE IF c.i1 = 0 /\ c.i2 = 0 THEN i = 0
        ELSE Recorded(i, [index1 |-> c.i1, index2 |-> c.i2, diffs |-> Partial[t]], Value[t])

(***************************************************************************)
(* derivgrind.h: "we do not want to see [...] recordings of the original   *)
(* math library code and the derivative computation", at any depth of      *)
(* nesting, in any thread.                                                 *)
(***************************************************************************)
NothingInside == \A i \in DOMAIN log : log[i].block.diffs # InnerDiffs

(***************************************************************************)
(* derivgrind-recording.h: DG_INPUTF is to "assign new 8-byte index, and   *)
(* dump the index into a file", DG_OUTPUTF to dump the index of its own    *)
(* variable.  The index of an input is new, the variable has it, and it is *)
(* nobody else's; the index of an output is one of a statement that copies *)
(* the variable as it was when the macro began.                            *)
(***************************************************************************)
Declares(t) ==
  /\ pc[t] = "inputFile" =>
       LET i == dg_input_indices'[Len(dg_input_indices')] IN
       /\ Recorded(i, ZeroBlock, Value[t])
       /\ i = Assemble(shadow[call[t].dst])
       /\ \A k \in DOMAIN dg_input_indices : dg_input_indices[k] # i
  /\ pc[t] = "outputFile" =>
       Recorded(dg_output_indices'[Len(dg_output_indices')],
                [index1 |-> call[t].i1, index2 |-> 0, diffs |-> OutputDiffs], Value[t])

DeclaresOwnVariable ==
  [][\A t \in Threads : call[t].open /\ pc[t] # pc'[t] => Declares(t)]_allVars
=============================================================================
