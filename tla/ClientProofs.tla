---------------------------- MODULE ClientProofs ----------------------------
(***************************************************************************)
(* Proofs about ClientCode, for every number of threads, variables and     *)
(* calls: it implements Recording; nothing inside of a bracket is recorded;*)
(* each call becomes a statement on its own arguments; and each macro      *)
(* declares the variable it was given.                                     *)
(***************************************************************************)
EXTENDS ClientCode, RecordingProofs, TLAPS

(* The variables of wrappers and macros exist. *)
LEMMA Declared ==
  ASSUME NEW t \in Threads
  PROVE  /\ x(t) \in Vars /\ y(t) \in Vars /\ pdiff(t) \in Vars /\ result(t) \in Vars
         /\ x_i(t) \in IndexVars /\ y_i(t) \in IndexVars /\ ret_i(t) \in IndexVars
         /\ dg_indextmp(t) \in IndexVars /\ dg_indextmp2(t) \in IndexVars
         /\ UserVars(t) \subseteq Vars
         /\ Partial[t] \in Diffs /\ Value[t] \in Values /\ Unit[t] \in Units
BY ClientAssumption DEF Units

\* What the steps need to know of the client's own state.
ClientInv ==
  /\ ClientTypeOK
  /\ \A t \in Threads : pc[t] = "callY" => call[t].b # NoVar

(* Statements of the program are steps of Recording. *)
LEMMA OperationStep ==
  ASSUME NEW t \in Threads, NEW dst \in Vars, NEW a \in Operand, NEW b \in Operand,
         NEW d \in Diffs, NEW val \in Values, Operation(t, dst, a, b, d, val)
  PROVE  Next
BY DEF Next

LEMMA CopyStep ==
  ASSUME NEW dst \in Vars, NEW src \in Vars, Copy(dst, src)
  PROVE  Next
BY DEF Next

(* So are client requests. *)
LEMMA RequestStep ==
  ASSUME NEW t \in Threads, NEW u \in IndexVars, NEW i \in ClientIndices, NEW j \in ClientIndices,
         NEW d \in Diffs, NEW val \in Values,
         \/ NEW_INDEX(t, u, i, j, d, val)
         \/ NEW_INDEX_NOACTIVITYANALYSIS(t, u, i, j, d, val)
  PROVE  Next
BY DEF Next

LEMMA DisableStep ==
  ASSUME NEW t \in Threads, DISABLE(t, 1, 0) \/ DISABLE(t, 0, 1)
  PROVE  Next
BY DEF Next

LEMMA IndexVarStep ==
  ASSUME NEW u \in IndexVars, NEW v \in Vars, NEW w \in IndexVars,
         \/ GET_INDEX(u, v) \/ SET_INDEX(u, v) \/ CopyIndex(u, w)
         \/ INDEX_TO_FILE_INPUT(u) \/ INDEX_TO_FILE_OUTPUT(u)
  PROVE  Next
BY DEF Next

(* A step of a wrapper is a step of Recording. *)
LEMMA WrapperStep ==
  ASSUME ClientInv, NEW t \in Threads, Wrapper(t)
  PROVE  Next
<1> USE Declared
<1>1. call[t].b \in Operand /\ call[t].dst \in Vars
  BY DEF ClientInv, ClientTypeOK, Call, Operand
<1>2. 0 \in ClientIndices /\ \A u \in IndexVars : tmp[u] \in ClientIndices
  BY DEF ClientIndices
<1>3. NoVar \in Operand /\ x(t) \in Operand /\ y(t) \in Operand /\ InnerDiffs \in Diffs
  BY ClientAssumption DEF Operand
<1>4. CASE CallY(t)
  <2>1. call[t].b \in Vars
    BY <1>1, <1>4 DEF CallY, Step, Goto, ClientInv, Operand
  <2>2. QED
    BY <1>4, <2>1, CopyStep DEF CallY
<1>5. CASE Enter(t) \/ InnerEnter(t) \/ InnerLeave(t) \/ Leave(t)
  BY <1>5, DisableStep DEF Enter, InnerEnter, InnerLeave, Leave
<1>6. CASE Original(t)
  <2>1. (IF call[t].b = NoVar THEN NoVar ELSE y(t)) \in Operand
    BY <1>3
  <2>2. QED
    BY <1>6, <1>3, <2>1, OperationStep, CopyStep DEF Original
<1>7. CASE GetX(t) \/ GetY(t) \/ SetIndex(t)
  BY <1>7, IndexVarStep DEF GetX, GetY, SetIndex
<1>8. CASE PDiff(t) \/ InnerOriginal(t)
  BY <1>8, <1>3, OperationStep DEF PDiff, InnerOriginal
<1>9. CASE NewIndex(t)
  <2>1. (IF call[t].b = NoVar THEN 0 ELSE tmp[y_i(t)]) \in ClientIndices
    BY <1>2
  <2>2. QED
    BY <1>9, <1>2, <2>1, RequestStep DEF NewIndex
<1>10. CASE Return(t)
  BY <1>10, <1>1, CopyStep DEF Return
<1>11. QED
  BY <1>4, <1>5, <1>6, <1>7, <1>8, <1>9, <1>10 DEF Wrapper

(* A step of a macro is a step of Recording. *)
LEMMA MacroStep ==
  ASSUME ClientInv, NEW t \in Threads, Macro(t)
  PROVE  Next
<1> USE Declared
<1>1. call[t].dst \in Vars /\ dg_valtmp[Unit[t]] \in Values
  BY DEF ClientInv, ClientTypeOK, Call
<1>2. 0 \in ClientIndices /\ \A u \in IndexVars : tmp[u] \in ClientIndices
  BY DEF ClientIndices
<1>3. CASE InputSet(t) \/ InputCopy(t) \/ InputFile(t) \/ OutputCopy(t) \/ OutputFile(t)
  BY <1>1, <1>3, IndexVarStep DEF InputSet, InputCopy, InputFile, OutputCopy, OutputFile
<1>4. CASE OutputNew(t)
  BY <1>1, <1>2, <1>4, RequestStep, ClientAssumption DEF OutputNew
<1>5. QED
  BY <1>3, <1>4 DEF Macro

(* A step of the user's code is one too, except for the end of a thread. *)
LEMMA UserStep ==
  ASSUME NEW t \in Threads, User(t)
  PROVE  Next \/ UNCHANGED vars
<1> USE Declared
<1>1. CASE \E a, dst \in UserVars(t), b \in UserVars(t) \cup {NoVar} : CallX(t, a, b, dst)
  BY <1>1, CopyStep DEF CallX
<1>2. ASSUME NEW v \in UserVars(t), InputNew(t, v)
      PROVE  Next
  <2>1. 0 \in ClientIndices /\ 0 \in Diffs
    BY TapeAssumption DEF ClientIndices
  <2>2. QED
    BY <1>2, <2>1, RequestStep DEF InputNew
<1>3. ASSUME NEW v \in UserVars(t), OutputGet(t, v)
      PROVE  Next
  BY <1>3, IndexVarStep DEF OutputGet
<1>4. CASE UserDisable(t) \/ UserEnable(t)
  BY <1>4, DisableStep DEF UserDisable, UserEnable
<1>5. CASE ThreadEnd(t)
  BY <1>5 DEF ThreadEnd
<1>6. QED
  BY <1>1, <1>2, <1>3, <1>4, <1>5 DEF User

LEMMA ClientRefinesStep == ClientInv /\ [ClientNext]_allVars => [Next]_vars
<1> SUFFICES ASSUME ClientInv, [ClientNext]_allVars PROVE Next \/ UNCHANGED vars
  OBVIOUS
<1>1. CASE ProgramEnd
  BY <1>1 DEF ProgramEnd, Next
<1>2. ASSUME NEW t \in Threads, User(t) \/ Wrapper(t) \/ Macro(t)
      PROVE  Next \/ UNCHANGED vars
  BY <1>2, WrapperStep, MacroStep, UserStep
<1>3. CASE UNCHANGED allVars
  BY <1>3 DEF allVars
<1>4. QED
  BY <1>1, <1>2, <1>3 DEF ClientNext

(* A new call is a call. *)
LEMMA NewCallType ==
  ASSUME TypeOK, NEW t \in Threads, NEW a \in Operand, NEW b \in Operand, NEW dst \in Vars
  PROVE  NewCall(t, a, b, dst) \in Call
<1>1. \A v \in Operand : IndexOf(v) \in Index
  BY AssembleType, IndexFacts DEF IndexOf, Operand, TypeOK
<1>2. QED
  BY <1>1 DEF NewCall, Call, Operand

(* Moving on in a wrapper or macro preserves the client's invariant ... *)
LEMMA StepInv ==
  ASSUME ClientInv, NEW t \in Threads, NEW from, NEW to \in Labels \ {"callY"}, Step(t, from, to)
  PROVE  ClientInv'
<1>1. pc' \in [Threads -> Labels]
  BY DEF Step, Goto, ClientInv, ClientTypeOK
<1>2. ASSUME NEW s \in Threads, pc'[s] = "callY" PROVE call'[s].b # NoVar
  BY <1>2 DEF Step, Goto, ClientInv, ClientTypeOK
<1>3. UNCHANGED <<call, dg_valtmp, depth, calls>>
  BY DEF Step
<1>4. QED
  BY <1>1, <1>2, <1>3 DEF ClientInv, ClientTypeOK

(* ... and so does the beginning of a call or macro. *)
LEMMA BeginInv ==
  ASSUME ClientInv, NEW t \in Threads, NEW to \in Labels, NEW c \in Call,
         to = "callY" => c.b # NoVar, Begin(t, to, c),
         dg_valtmp' \in [Units -> Values]
  PROVE  ClientInv'
<1>1. pc' \in [Threads -> Labels] /\ call' \in [Threads -> Call]
  BY DEF Begin, Goto, ClientInv, ClientTypeOK
<1>2. calls' \in [Threads -> 0 .. MaxCalls]
  BY ClientAssumption DEF Begin, ClientInv, ClientTypeOK
<1>3. ASSUME NEW s \in Threads, pc'[s] = "callY" PROVE call'[s].b # NoVar
  BY <1>3 DEF Begin, Goto, ClientInv, ClientTypeOK
<1>4. QED
  BY <1>1, <1>2, <1>3 DEF ClientInv, ClientTypeOK, Begin

LEMMA ClientInvStep == TypeOK /\ ClientInv /\ [ClientNext]_allVars => ClientInv'
<1> SUFFICES ASSUME TypeOK, ClientInv, [ClientNext]_allVars PROVE ClientInv'
  OBVIOUS
<1>1. CASE ProgramEnd \/ UNCHANGED allVars
  BY <1>1 DEF ProgramEnd, allVars, clientVars, ClientInv, ClientTypeOK
<1>2. ASSUME NEW t \in Threads, Wrapper(t) PROVE ClientInv'
  <2>1. CASE Enter(t)
    <3> DEFINE bool == dg_disable[t] # 0
    <3>1. pc' \in [Threads -> Labels] /\ \A s \in Threads : pc'[s] = "callY" => pc[s] = "callY"
      BY <2>1 DEF Enter, Goto, ClientInv, ClientTypeOK, Labels
    <3>2. bool \in BOOLEAN
      OBVIOUS
    <3>3. call' = [call EXCEPT ![t].already_disabled = bool]
      BY <2>1 DEF Enter
    <3> HIDE DEF bool
    <3>4. call' \in [Threads -> Call] /\ \A s \in Threads : call'[s].b = call[s].b
      BY <3>2, <3>3, SMTT(20) DEF ClientInv, ClientTypeOK, Call
    <3>5. QED
      BY <2>1, <3>1, <3>4 DEF Enter, ClientInv, ClientTypeOK
  <2>2. ASSUME NEW from, NEW to \in Labels \ {"callY"}, Step(t, from, to) PROVE ClientInv'
    BY <2>2, StepInv
  <2>3. CASE CallY(t) \/ Original(t) \/ GetX(t) \/ GetY(t)
    BY <2>2, <2>3 DEF CallY, Original, GetX, GetY, Labels
  <2>4. CASE PDiff(t) \/ InnerEnter(t) \/ InnerOriginal(t) \/ InnerLeave(t)
    BY <2>2, <2>4 DEF PDiff, InnerEnter, InnerOriginal, InnerLeave, Labels
  <2>5. CASE Leave(t) \/ NewIndex(t) \/ SetIndex(t) \/ Return(t)
    BY <2>2, <2>5 DEF Leave, NewIndex, SetIndex, Return, Labels
  <2>6. QED
    BY <1>2, <2>1, <2>3, <2>4, <2>5 DEF Wrapper
<1>3. ASSUME NEW t \in Threads, Macro(t) PROVE ClientInv'
  <2>1. ASSUME NEW from, NEW to \in Labels \ {"callY"}, Step(t, from, to) PROVE ClientInv'
    BY <2>1, StepInv
  <2>2. QED
    BY <1>3, <2>1 DEF Macro, InputSet, InputCopy, InputFile, OutputNew, OutputCopy, OutputFile, Labels
<1>4. ASSUME NEW t \in Threads, User(t) PROVE ClientInv'
  <2>1. ASSUME NEW a \in UserVars(t), NEW dst \in UserVars(t), NEW b \in UserVars(t) \cup {NoVar},
               CallX(t, a, b, dst)
        PROVE  ClientInv'
    <3> DEFINE c == NewCall(t, a, b, dst)
               to == IF b = NoVar THEN "enter" ELSE "callY"
    <3>1. c \in Call /\ c.b = b
      BY NewCallType, Declared DEF Operand, NewCall
    <3>2. to \in Labels /\ (to = "callY" => c.b # NoVar)
      BY <3>1 DEF Labels
    <3>3. Begin(t, to, c) /\ dg_valtmp' \in [Units -> Values]
      BY <2>1 DEF CallX, ClientInv, ClientTypeOK
    <3> HIDE DEF c, to
    <3>4. QED
      BY <3>1, <3>2, <3>3, BeginInv
  <2>2. ASSUME NEW v \in UserVars(t), InputNew(t, v) \/ OutputGet(t, v) PROVE ClientInv'
    <3>1. dg_valtmp' \in [Units -> Values]
      BY <2>2, Declared DEF InputNew, OutputGet, ClientInv, ClientTypeOK
    <3>2. PICK to \in {"inputSet", "outputNew"}, a \in Operand : Begin(t, to, NewCall(t, a, NoVar, v))
      BY <2>2, Declared DEF InputNew, OutputGet, Operand
    <3>3. NewCall(t, a, NoVar, v) \in Call /\ to \in Labels /\ to # "callY"
      BY NewCallType, Declared DEF Operand, Labels
    <3>4. QED
      BY <3>1, <3>2, <3>3, BeginInv
  <2>3. CASE UserDisable(t) \/ UserEnable(t) \/ ThreadEnd(t)
    BY <2>3 DEF UserDisable, UserEnable, ThreadEnd, ClientInv, ClientTypeOK
  <2>4. QED
    BY <1>4, <2>1, <2>2, <2>3 DEF User
<1>5. QED
  BY <1>1, <1>2, <1>3, <1>4 DEF ClientNext

LEMMA ClientInvInit == ClientInit => ClientInv
<1> SUFFICES ASSUME ClientInit PROVE ClientInv
  OBVIOUS
<1>1. TypeOK
  BY TapeInit DEF TapeInv, ClientInit
<1>2. \A t \in Threads : NewCall(t, NoVar, NoVar, x(t)) \in Call
  BY <1>1, NewCallType, Declared DEF Operand
<1>3. pc \in [Threads -> Labels] /\ \A t \in Threads : pc[t] # "callY"
  BY DEF ClientInit, Labels
<1>4. call \in [Threads -> Call]
  BY <1>2 DEF ClientInit
<1>5. dg_valtmp \in [Units -> Values] /\ depth \in [Threads -> 0 .. 1]
      /\ calls \in [Threads -> 0 .. MaxCalls]
  BY ClientAssumption, TapeAssumption DEF ClientInit
<1>6. QED
  BY <1>3, <1>4, <1>5 DEF ClientInv, ClientTypeOK

(***************************************************************************)
(* The variables of wrappers and macros keep their types, for any number   *)
(* of threads and calls.                                                   *)
(***************************************************************************)
THEOREM ClientTypes == ClientSpec => [](TypeOK /\ ClientTypeOK)
<1>1. ClientInit => TypeOK /\ ClientInv
  BY ClientInvInit, TapeInit DEF ClientInit, TapeInv
<1>2. TypeOK /\ ClientInv /\ [ClientNext]_allVars => (TypeOK /\ ClientInv)'
  BY ClientInvStep, ClientRefinesStep, TypeStep
<1>3. ClientInv => ClientTypeOK
  BY DEF ClientInv
<1>4. QED
  BY <1>1, <1>2, <1>3, PTL DEF ClientSpec

(***************************************************************************)
(* The wrappers of gen_replace_math.py and the macros of                   *)
(* derivgrind-recording.h only do what any client code may do: whatever    *)
(* Recording guarantees of the tape holds for programs that use them.      *)
(***************************************************************************)
THEOREM ClientImplementsRecording == ClientSpec => Spec
<1>1. ClientInit => Init /\ TypeOK /\ ClientInv
  BY ClientInvInit, TapeInit DEF ClientInit, TapeInv
<1>2. TypeOK /\ ClientInv /\ [ClientNext]_allVars => (TypeOK /\ ClientInv)'
  BY ClientInvStep, ClientRefinesStep, TypeStep
<1>3. ClientInv /\ [ClientNext]_allVars => [Next]_vars
  BY ClientRefinesStep
<1>4. QED
  BY <1>1, <1>2, <1>3, PTL DEF ClientSpec, Spec

(* No index that wrappers and macros pass around is dangling. *)
THEOREM ClientIndicesAssigned == ClientSpec => []NoDanglingIndex
  BY ClientImplementsRecording, IndicesAssigned, PTL

-----------------------------------------------------------------------------
(* The brackets.  The counter dg_disable[t] is the number of brackets the  *)
(* thread has opened itself plus those its wrappers have open at pc[t].    *)

Open(l) == IF l \in {"innerOrig", "innerLeave"} THEN 2
           ELSE IF l \in {"orig", "getX", "getY", "pdiff", "leave"} THEN 1 ELSE 0

DisableInv == \A t \in Threads : dg_disable[t] = depth[t] + Open(pc[t])

\* What tells operations inside the wrapper apart from all others.
InnerDistinct == InnerDiffs \notin {0, OutputDiffs} \cup {Partial[t] : t \in Threads}

BracketInv == TypeOK /\ ClientInv /\ DisableInv

\* A step that records nothing from inside a wrapper.
StaysOut == InnerDistinct /\ NothingInside => NothingInside'

(* The brackets a wrapper has open at its statements. *)
LEMMA OpenAt ==
  /\ Open("user") = 0 /\ Open("callY") = 0 /\ Open("enter") = 0
  /\ Open("orig") = 1 /\ Open("pdiff") = 1 /\ Open("leave") = 1
  /\ Open("innerOrig") = 2 /\ Open("innerLeave") = 2
  /\ Open("new") = 0 /\ Open("return") = 0
BY DEF Open

(* A step that neither opens nor closes a bracket. *)
LEMMA BracketKept ==
  ASSUME TypeOK, ClientTypeOK, DisableInv, NEW t \in Threads, NEW to,
         Goto(t, pc[t], to), UNCHANGED <<depth, dg_disable>>, Open(to) = Open(pc[t])
  PROVE  DisableInv'
<1>1. ASSUME NEW s \in Threads PROVE Open(pc'[s]) = Open(pc[s])
  BY DEF Goto, ClientTypeOK
<1>2. QED
  BY <1>1 DEF DisableInv

(* A step of a wrapper that opens or closes one. *)
LEMMA BracketMoved ==
  ASSUME TypeOK, ClientTypeOK, DisableInv, NEW t \in Threads, NEW to,
         NEW p \in 0 .. 1, NEW m \in 0 .. 1, Goto(t, pc[t], to), DISABLE(t, p, m),
         UNCHANGED depth, Open(to) = Open(pc[t]) + p - m
  PROVE  DisableInv'
<1>1. ASSUME NEW s \in Threads, s # t PROVE pc'[s] = pc[s] /\ dg_disable'[s] = dg_disable[s]
  BY <1>1 DEF Goto, DISABLE, ClientTypeOK, TypeOK
<1>2. pc'[t] = to /\ dg_disable'[t] = dg_disable[t] + p - m
  BY DEF Goto, DISABLE, ClientTypeOK, TypeOK
<1>3. depth[t] \in Int /\ Open(pc[t]) \in Int /\ dg_disable[t] = depth[t] + Open(pc[t])
  BY DEF DisableInv, ClientTypeOK, Open
<1>4. dg_disable'[t] = depth'[t] + Open(pc'[t])
  BY <1>2, <1>3
<1>5. QED
  BY <1>1, <1>4 DEF DisableInv

(* What a step may add to the history. *)
LogKept == log' = log
HistoryGrows(d) == \E e \in Entry : e.block.diffs = d /\ log' = Append(log, e)

(* A statement is recorded only outside of all brackets of its thread. *)
LEMMA StatementLogged ==
  ASSUME NEW t \in Threads, NEW stmt \in Statement,
         tapeAddStatement(t, stmt) \/ tapeAddStatement_noActivityAnalysis(t, stmt)
  PROVE  LogKept \/ (dg_disable[t] = 0 /\ HistoryGrows(stmt.block.diffs))
<1>1. CASE LogKept
  BY <1>1
<1>2. CASE dg_disable[t] = 0 /\ log' = Append(log, [block |-> stmt.block, value |-> stmt.value])
  <2>1. [block |-> stmt.block, value |-> stmt.value] \in Entry
    BY DEF Statement, Entry
  <2>2. QED
    BY <1>2, <2>1 DEF HistoryGrows
<1>3. QED
  BY <1>1, <1>2 DEF tapeAddStatement, tapeAddStatement_noActivityAnalysis, Complete, LogKept

(* Appending a statement from outside the wrapper. *)
LEMMA LogStep ==
  ASSUME TypeOK, NothingInside, NEW d, d # InnerDiffs, LogKept \/ HistoryGrows(d)
  PROVE  NothingInside'
<1>1. CASE LogKept
  BY <1>1 DEF NothingInside, LogKept
<1>2. CASE HistoryGrows(d)
  <2>1. PICK e \in Entry : e.block.diffs = d /\ log' = Append(log, e)
    BY <1>2 DEF HistoryGrows
  <2>2. log \in Seq(Entry) /\ DOMAIN log = 1 .. Len(log)
    BY DEF TypeOK
  <2>3. DOMAIN log' = 1 .. Len(log) + 1 /\ Len(log) \in Nat
    BY <2>1, <2>2
  <2>4. ASSUME NEW i \in DOMAIN log' PROVE log'[i].block.diffs # InnerDiffs
    <3>1. CASE i = Len(log) + 1
      BY <2>1, <2>2, <3>1
    <3>2. CASE i \in DOMAIN log
      <4>1. log'[i] = log[i]
        BY <2>1, <2>2, <3>2
      <4>2. QED
        BY <3>2, <4>1 DEF NothingInside
    <3>3. QED
      BY <2>2, <2>3, <3>1, <3>2
  <2>5. QED
    BY <2>4 DEF NothingInside
<1>3. QED
  BY <1>1, <1>2

(* An operation of the library or of the wrapper is not recorded. *)
LEMMA InnerOperation ==
  ASSUME BracketInv, NEW t \in Threads, Open(pc[t]) # 0,
         NEW dst \in Vars, NEW a \in Operand, NEW b \in Operand, NEW val \in Values,
         Operation(t, dst, a, b, InnerDiffs, val)
  PROVE  LogKept /\ UNCHANGED dg_disable
<1>1. IndexOf(a) \in Index /\ IndexOf(b) \in Index
  BY AssembleType, IndexFacts DEF IndexOf, Operand, TypeOK, BracketInv
<1> DEFINE stmt == [block |-> [index1 |-> IndexOf(a), index2 |-> IndexOf(b), diffs |-> InnerDiffs],
                    value |-> val, dest |-> dst]
<1>2. stmt \in Statement
  BY <1>1, ClientAssumption DEF Statement, Block
<1>3. tapeAddStatement(t, stmt) /\ UNCHANGED dg_disable
  BY DEF Operation
<1>4. dg_disable[t] # 0
  <2>1. depth[t] \in 0 .. 1 /\ dg_disable[t] = depth[t] + Open(pc[t])
    BY DEF BracketInv, DisableInv, ClientInv, ClientTypeOK
  <2>2. Open(pc[t]) \in 1 .. 2
    BY DEF Open
  <2>3. QED
    BY <2>1, <2>2
<1> HIDE DEF stmt
<1>5. QED
  BY <1>2, <1>3, <1>4, StatementLogged

(* A request of a wrapper or macro records its own partial derivatives. *)
LEMMA RequestLogged ==
  ASSUME TypeOK, NEW t \in Threads, NEW u \in IndexVars, NEW i \in Index, NEW j \in Index,
         NEW d \in Diffs, NEW val \in Values,
         \/ NEW_INDEX(t, u, i, j, d, val)
         \/ NEW_INDEX_NOACTIVITYANALYSIS(t, u, i, j, d, val)
  PROVE  (LogKept \/ HistoryGrows(d)) /\ UNCHANGED dg_disable
<1> DEFINE stmt == ClientStatement(u, i, j, d, val)
<1>1. stmt \in Statement /\ stmt.block.diffs = d
  BY DEF ClientStatement, Statement, Block
<1>2. tapeAddStatement(t, stmt) \/ tapeAddStatement_noActivityAnalysis(t, stmt)
  BY DEF NEW_INDEX, NEW_INDEX_NOACTIVITYANALYSIS
<1>3. UNCHANGED dg_disable
  BY DEF NEW_INDEX, NEW_INDEX_NOACTIVITYANALYSIS
<1> HIDE DEF stmt
<1>4. QED
  BY <1>1, <1>2, <1>3, StatementLogged

(* No step of a wrapper records an operation from inside the wrapper. *)
LEMMA WrapperBracket ==
  ASSUME BracketInv, NEW t \in Threads, Wrapper(t)
  PROVE  DisableInv' /\ StaysOut
<1> USE Declared DEF BracketInv, ClientInv
<1>0. LogKept => StaysOut
  BY DEF LogKept, NothingInside, StaysOut
<1>1. NoVar \in Operand /\ x(t) \in Operand /\ y(t) \in Operand
  BY DEF Operand
<1>2. ASSUME NEW to, Step(t, pc[t], to), UNCHANGED dg_disable, Open(to) = Open(pc[t])
      PROVE  DisableInv'
  BY <1>2, BracketKept DEF Step
<1>3. ASSUME NEW to, NEW p \in 0 .. 1, NEW m \in 0 .. 1, Goto(t, pc[t], to), UNCHANGED depth,
             DISABLE(t, p, m), Open(to) = Open(pc[t]) + p - m
      PROVE  DisableInv' /\ StaysOut
  BY <1>0, <1>3, BracketMoved DEF DISABLE, LogKept
<1>4. CASE CallY(t) \/ GetX(t) \/ GetY(t) \/ SetIndex(t) \/ Return(t)
  <2>1. LogKept /\ UNCHANGED dg_disable
    BY <1>4 DEF CallY, GetX, GetY, SetIndex, Return, Copy, GET_INDEX, SET_INDEX, LogKept
  <2>2. PICK to : Step(t, pc[t], to) /\ Open(to) = Open(pc[t])
    BY <1>4 DEF CallY, GetX, GetY, SetIndex, Return, Step, Goto, Open
  <2>3. QED
    BY <1>0, <1>2, <2>1, <2>2
<1>5. CASE Enter(t)
  <2>1. pc[t] = "enter" /\ Goto(t, pc[t], "orig") /\ UNCHANGED depth /\ DISABLE(t, 1, 0)
    BY <1>5 DEF Enter, Step, Goto
  <2>2. Open("orig") = Open(pc[t]) + 1 - 0 /\ 1 \in 0 .. 1 /\ 0 \in 0 .. 1
    BY <2>1, OpenAt
  <2>3. QED
    BY <1>3, <2>1, <2>2
<1>6. CASE InnerEnter(t)
  <2>1. pc[t] = "pdiff" /\ Goto(t, pc[t], "innerOrig") /\ UNCHANGED depth /\ DISABLE(t, 1, 0)
    BY <1>6 DEF InnerEnter, Step, Goto
  <2>2. Open("innerOrig") = Open(pc[t]) + 1 - 0 /\ 1 \in 0 .. 1 /\ 0 \in 0 .. 1
    BY <2>1, OpenAt
  <2>3. QED
    BY <1>3, <2>1, <2>2
<1>7. CASE InnerLeave(t)
  <2>1. pc[t] = "innerLeave" /\ Goto(t, pc[t], "leave") /\ UNCHANGED depth /\ DISABLE(t, 0, 1)
    BY <1>7 DEF InnerLeave, Step, Goto
  <2>2. Open("leave") = Open(pc[t]) + 0 - 1 /\ 0 \in 0 .. 1 /\ 1 \in 0 .. 1
    BY <2>1, OpenAt
  <2>3. QED
    BY <1>3, <2>1, <2>2
<1>8. CASE Leave(t)
  <2>1. pc[t] = "leave" /\ Goto(t, pc[t], IF call[t].already_disabled THEN "return" ELSE "new") /\ UNCHANGED depth /\ DISABLE(t, 0, 1)
    BY <1>8 DEF Leave, Step, Goto
  <2>2. Open(IF call[t].already_disabled THEN "return" ELSE "new") = Open(pc[t]) + 0 - 1 /\ 0 \in 0 .. 1 /\ 1 \in 0 .. 1
    BY <2>1, OpenAt
  <2>3. QED
    BY <1>3, <2>1, <2>2
<1>9. CASE Original(t) \/ PDiff(t) \/ InnerOriginal(t)
  <2>1. Open(pc[t]) # 0
    BY <1>9 DEF Original, PDiff, InnerOriginal, Step, Goto, Open
  <2>2. PICK to : Step(t, pc[t], to) /\ Open(to) = Open(pc[t])
    BY <1>9 DEF Original, PDiff, InnerOriginal, Step, Goto, Open
  <2>3. \/ \E dst \in Vars, b \in Operand : Operation(t, dst, x(t), b, InnerDiffs, Value[t])
        \/ \E dst \in Vars, src \in Vars : Copy(dst, src)
    BY <1>1, <1>9 DEF Original, PDiff, InnerOriginal
  <2>4. LogKept /\ UNCHANGED dg_disable
    BY <1>1, <2>1, <2>3, InnerOperation DEF Copy, LogKept
  <2>5. QED
    BY <1>0, <1>2, <2>2, <2>4
<1>10. CASE NewIndex(t)
  <2>1. Step(t, pc[t], "set") /\ Open("set") = Open(pc[t])
    BY <1>10 DEF NewIndex, Step, Goto, Open
  <2>2. tmp[x_i(t)] \in Index /\ (IF call[t].b = NoVar THEN 0 ELSE tmp[y_i(t)]) \in Index
    BY IndexFacts DEF TypeOK
  <2>3. (LogKept \/ HistoryGrows(Partial[t])) /\ UNCHANGED dg_disable
    BY <1>10, <2>2, RequestLogged DEF NewIndex
  <2>4. InnerDistinct => Partial[t] # InnerDiffs
    BY DEF InnerDistinct
  <2>5. StaysOut
    BY <2>3, <2>4, LogStep DEF StaysOut
  <2>6. QED
    BY <1>2, <2>1, <2>3, <2>5
<1>11. QED
  BY <1>4, <1>5, <1>6, <1>7, <1>8, <1>9, <1>10 DEF Wrapper

(* Nor does a step of a macro. *)
LEMMA MacroBracket ==
  ASSUME BracketInv, NEW t \in Threads, Macro(t)
  PROVE  DisableInv' /\ StaysOut
<1> USE Declared DEF BracketInv, ClientInv
<1>1. PICK to : Step(t, pc[t], to) /\ Open(to) = Open(pc[t])
  BY ZenonT(60) DEF Macro, InputSet, InputCopy, InputFile, OutputNew, OutputCopy, OutputFile, Step, Goto, Open
<1>2. (LogKept \/ HistoryGrows(OutputDiffs)) /\ UNCHANGED dg_disable
  <2>1. CASE OutputNew(t)
    <3>1. tmp[dg_indextmp2(t)] \in Index /\ 0 \in Index /\ dg_valtmp[Unit[t]] \in Values
      BY IndexFacts DEF TypeOK, ClientTypeOK
    <3>2. QED
      BY <2>1, <3>1, RequestLogged, ClientAssumption DEF OutputNew
  <2>2. CASE InputSet(t) \/ InputCopy(t) \/ InputFile(t) \/ OutputCopy(t) \/ OutputFile(t)
    BY <2>2 DEF InputSet, InputCopy, InputFile, OutputCopy, OutputFile, SET_INDEX, CopyIndex,
                INDEX_TO_FILE_INPUT, INDEX_TO_FILE_OUTPUT, LogKept
  <2>3. QED
    BY <2>1, <2>2 DEF Macro
<1>3. InnerDistinct => OutputDiffs # InnerDiffs
  BY DEF InnerDistinct
<1>4. StaysOut
  BY <1>2, <1>3, LogStep DEF StaysOut
<1>5. QED
  BY <1>1, <1>2, <1>4, BracketKept DEF Step

(* Nor one of the user's code, whose brackets depth counts. *)
LEMMA UserBracket ==
  ASSUME BracketInv, ~EndInBracket, NEW t \in Threads, User(t)
  PROVE  DisableInv' /\ StaysOut
<1> USE Declared DEF BracketInv, ClientInv
<1>0. LogKept => StaysOut
  BY DEF LogKept, NothingInside, StaysOut
<1>1. ASSUME NEW a \in UserVars(t), NEW dst \in UserVars(t), NEW b \in UserVars(t) \cup {NoVar},
             CallX(t, a, b, dst)
      PROVE  DisableInv' /\ StaysOut
  <2> DEFINE to == IF b = NoVar THEN "enter" ELSE "callY"
  <2>1. pc[t] = "user" /\ Goto(t, pc[t], to) /\ Open(to) = Open(pc[t])
    BY <1>1, OpenAt DEF CallX, Begin, Goto
  <2>2. LogKept /\ UNCHANGED <<depth, dg_disable>>
    BY <1>1 DEF CallX, Begin, Copy, LogKept
  <2>3. QED
    BY <1>0, <2>1, <2>2, BracketKept
<1>2. ASSUME NEW v \in UserVars(t), InputNew(t, v)
      PROVE  DisableInv' /\ StaysOut
  <2>1. Goto(t, pc[t], "inputSet") /\ Open("inputSet") = Open(pc[t]) /\ UNCHANGED depth
    BY <1>2 DEF InputNew, Begin, Goto, Open
  <2>2. (LogKept \/ HistoryGrows(0)) /\ UNCHANGED dg_disable
    BY <1>2, RequestLogged, IndexFacts, TapeAssumption DEF InputNew
  <2>3. InnerDistinct => 0 # InnerDiffs
    BY DEF InnerDistinct
  <2>4. StaysOut
    BY <2>2, <2>3, LogStep DEF StaysOut
  <2>5. QED
    BY <2>1, <2>2, <2>4, BracketKept
<1>3. ASSUME NEW v \in UserVars(t), OutputGet(t, v)
      PROVE  DisableInv' /\ StaysOut
  <2>1. Goto(t, pc[t], "outputNew") /\ Open("outputNew") = Open(pc[t])
    BY <1>3 DEF OutputGet, Begin, Goto, Open
  <2>2. LogKept /\ UNCHANGED <<depth, dg_disable>>
    BY <1>3 DEF OutputGet, Begin, GET_INDEX, LogKept
  <2>3. QED
    BY <1>0, <2>1, <2>2, BracketKept
<1>4. CASE UserDisable(t) \/ UserEnable(t)
  <2>1. LogKept /\ UNCHANGED pc
    BY <1>4 DEF UserDisable, UserEnable, DISABLE, LogKept
  <2>2. PICK k \in {-1, 1} :
          /\ dg_disable' = [dg_disable EXCEPT ![t] = @ + k]
          /\ depth' = [depth EXCEPT ![t] = @ + k]
    <3>1. CASE UserDisable(t)
      <4>1. dg_disable' = [dg_disable EXCEPT ![t] = @ + 1 - 0] /\ depth[t] = 0
            /\ depth' = [depth EXCEPT ![t] = 1]
        BY <3>1 DEF UserDisable, DISABLE
      <4>2. dg_disable[t] \in Int /\ 1 \in {-1, 1}
        BY DEF TypeOK
      <4>3. QED
        BY <4>1, <4>2
    <3>2. CASE UserEnable(t)
      <4>1. dg_disable' = [dg_disable EXCEPT ![t] = @ + 0 - 1] /\ depth[t] = 1
            /\ depth' = [depth EXCEPT ![t] = 0]
        BY <3>2 DEF UserEnable, DISABLE
      <4>2. dg_disable[t] \in Int /\ -1 \in {-1, 1}
        BY DEF TypeOK
      <4>3. QED
        BY <4>1, <4>2
    <3>3. QED
      BY <1>4, <3>1, <3>2
  <2>3. ASSUME NEW s \in Threads
        PROVE  dg_disable[s] \in Int /\ depth[s] \in Int /\ Open(pc[s]) \in Int
    BY DEF TypeOK, ClientTypeOK, Open
  <2>4. DisableInv'
    <3> SUFFICES ASSUME NEW s \in Threads PROVE dg_disable'[s] = depth'[s] + Open(pc'[s])
      BY DEF DisableInv
    <3>1. dg_disable[s] = depth[s] + Open(pc[s]) /\ pc'[s] = pc[s]
      BY <2>1 DEF DisableInv
    <3>2. /\ dg_disable'[s] = IF s = t THEN dg_disable[s] + k ELSE dg_disable[s]
          /\ depth'[s] = IF s = t THEN depth[s] + k ELSE depth[s]
      BY <2>2 DEF TypeOK, ClientTypeOK
    <3>3. QED
      BY <2>3, <3>1, <3>2
  <2>5. QED
    BY <1>0, <2>1, <2>4
<1>5. CASE ThreadEnd(t)
  <2>1. LogKept /\ UNCHANGED <<pc, dg_disable>> /\ depth' = depth
    BY <1>5 DEF ThreadEnd, vars, programVars, ClientTypeOK, LogKept
  <2>2. QED
    BY <1>0, <2>1 DEF DisableInv
<1>6. QED
  BY <1>1, <1>2, <1>3, <1>4, <1>5 DEF User

LEMMA BracketStep ==
  ~EndInBracket /\ BracketInv /\ [ClientNext]_allVars => BracketInv' /\ StaysOut
<1> SUFFICES ASSUME ~EndInBracket, BracketInv, [ClientNext]_allVars
             PROVE  BracketInv' /\ StaysOut
  OBVIOUS
<1>1. TypeOK' /\ ClientInv'
  BY ClientInvStep, ClientRefinesStep, TypeStep DEF BracketInv
<1>2. CASE ProgramEnd \/ UNCHANGED allVars
  <2>1. UNCHANGED <<pc, depth, dg_disable, log>>
    BY <1>2 DEF ProgramEnd, Finish, clientVars, allVars, vars, programVars
  <2>2. QED
    BY <1>1, <2>1 DEF BracketInv, DisableInv, NothingInside, StaysOut
<1>3. ASSUME NEW t \in Threads, User(t) \/ Wrapper(t) \/ Macro(t)
      PROVE  DisableInv' /\ StaysOut
  BY <1>3, UserBracket, WrapperBracket, MacroBracket
<1>4. QED
  BY <1>1, <1>2, <1>3 DEF ClientNext, BracketInv

LEMMA BracketInit == ClientInit => BracketInv /\ NothingInside
<1> SUFFICES ASSUME ClientInit PROVE BracketInv /\ NothingInside
  OBVIOUS
<1>1. TypeOK /\ ClientInv
  BY ClientInvInit, TapeInit DEF ClientInit, TapeInv
<1>2. DisableInv /\ NothingInside
  BY DEF ClientInit, Init, DisableInv, NothingInside, Open
<1>3. QED
  BY <1>1, <1>2 DEF BracketInv

(***************************************************************************)
(* However deep the wrappers nest and however the threads interleave,      *)
(* nothing is recorded of the math library's code and of the derivative    *)
(* computation, provided that no thread ends inside of a bracket.          *)
(***************************************************************************)
THEOREM NothingInsideRecorded ==
  InnerDistinct /\ ~EndInBracket => (ClientSpec => []NothingInside)
<1> SUFFICES ASSUME InnerDistinct, ~EndInBracket PROVE ClientSpec => []NothingInside
  OBVIOUS
<1>1. ClientInit => BracketInv /\ NothingInside
  BY BracketInit
<1>2. BracketInv /\ NothingInside /\ [ClientNext]_allVars => (BracketInv /\ NothingInside)'
  BY BracketStep DEF StaysOut
<1>3. QED
  BY <1>1, <1>2, PTL DEF ClientSpec

-----------------------------------------------------------------------------
(* What a call or macro of a thread computes, whatever the other threads   *)
(* do meanwhile.  Every part of the invariant is about one thread and the  *)
(* variables only that thread writes.                                      *)

InWrapper == {"callY", "enter", "orig", "getX", "getY", "pdiff", "innerOrig",
              "innerLeave", "leave", "new", "set", "return"}

\* The statements of the wrapper after DG_DISABLE(1,0).
Body == InWrapper \ {"callY", "enter"}

\* The parameters and locals of the wrapper are not the user's variables.
NamesDistinct == UserNames \cap {"x", "y", "pdiff", "ret"} = {}

\* Index i is the one that the call of thread t is to be returned.
Deserved(t, i) ==
  LET c == call[t] IN
  IF ~c.open THEN i \in {0, c.i1, c.i2}
  ELSE IF c.i1 = 0 /\ c.i2 = 0 THEN i = 0
  ELSE Recorded(i, [index1 |-> c.i1, index2 |-> c.i2, diffs |-> Partial[t]], Value[t])

\* The variables of the current call or macro are the thread's own.
OwnOperands(t) ==
  pc[t] # "user" =>
    /\ call[t].dst \in UserVars(t)
    /\ call[t].b \in UserVars(t) \cup {NoVar}
    /\ call[t].b = NoVar => call[t].i2 = 0

\* The parameters keep the indices of the arguments.
Arguments(t) ==
  pc[t] \in InWrapper =>
    /\ Assemble(shadow[x(t)]) = call[t].i1
    /\ call[t].b # NoVar =>
         Assemble(shadow[IF pc[t] = "callY" THEN call[t].b ELSE y(t)]) = call[t].i2

\* The thread was outside of its brackets exactly if the wrapper found it so.
Brackets(t) ==
  /\ pc[t] # "user" => (call[t].open <=> depth[t] = 0)
  /\ pc[t] \in Body => (call[t].already_disabled <=> depth[t] # 0)
  /\ pc[t] \in Body \ {"orig", "leave", "return"} => ~call[t].already_disabled

\* The indices the wrapper has asked for.
Fetched(t) ==
  ~call[t].already_disabled =>
    /\ pc[t] \in {"getY", "pdiff", "innerOrig", "innerLeave", "leave", "new"} =>
         tmp[x_i(t)] = call[t].i1
    /\ pc[t] \in {"pdiff", "innerOrig", "innerLeave", "leave", "new"}
       /\ call[t].b # NoVar => tmp[y_i(t)] = call[t].i2

\* The index of the result.
Result(t) ==
  /\ pc[t] = "leave" /\ call[t].already_disabled =>
       Assemble(shadow[result(t)]) \in {0, call[t].i1, call[t].i2}
  /\ pc[t] = "set" => Deserved(t, tmp[ret_i(t)])
  /\ pc[t] = "return" => Deserved(t, Assemble(shadow[result(t)]))

CallInv(t) == OwnOperands(t) /\ Arguments(t) /\ Brackets(t) /\ Fetched(t) /\ Result(t)

InInput == {"inputSet", "inputCopy", "inputFile"}

\* The macros of a translation unit are used by one thread only.
OneThreadPerUnit == \A s, t \in Threads : Unit[s] = Unit[t] => s = t

\* The index of the input that thread t is declaring: new, and not yet in the file.
InputInv(t) ==
  LET i == tmp[dg_indextmp(t)] IN
  /\ pc[t] \in InInput =>
       IF call[t].open
       THEN /\ Recorded(i, ZeroBlock, Value[t])
            /\ \A k \in DOMAIN dg_input_indices : dg_input_indices[k] # i
       ELSE i = 0
  /\ pc[t] \in {"inputCopy", "inputFile"} => Assemble(shadow[call[t].dst]) = i
  /\ pc[t] = "inputFile" => tmp[dg_indextmp2(t)] = i

\* The index of the output that thread t is declaring.
OutputInv(t) ==
  LET b == [index1 |-> call[t].i1, index2 |-> 0, diffs |-> OutputDiffs] IN
  /\ pc[t] = "outputNew" => tmp[dg_indextmp2(t)] = call[t].i1 /\ dg_valtmp[Unit[t]] = Value[t]
  /\ pc[t] = "outputCopy" /\ call[t].open => Recorded(tmp[dg_indextmp(t)], b, Value[t])
  /\ pc[t] = "outputFile" /\ call[t].open => Recorded(tmp[dg_indextmp2(t)], b, Value[t])

\* No two inputs that are being declared have the same index.
InputsDiffer ==
  \A s, t \in Threads :
    s # t /\ pc[s] \in InInput /\ pc[t] \in InInput /\ call[s].open /\ call[t].open =>
      tmp[dg_indextmp(s)] # tmp[dg_indextmp(t)]

\* The variables that no other thread writes.
OwnVars(t) == {<<n, t>> : n \in UserNames \cup {"x", "y", "pdiff", "ret"}}
OwnIndexVars(t) == {x_i(t), y_i(t), ret_i(t), dg_indextmp(t), dg_indextmp2(t)}

\* What a step writes to the shadow of v or to u.
WritesShadow(v, s) == shadow' = [shadow EXCEPT ![v] = s] /\ tmp' = tmp
WritesTmp(u, i) == tmp' = [tmp EXCEPT ![u] = i] /\ shadow' = shadow

LogExtends == \A i \in DOMAIN log : i \in DOMAIN log' /\ log'[i] = log[i]

\* What a step of thread t leaves alone.
Touches(t) ==
  /\ \A v \in Vars \ OwnVars(t) : shadow'[v] = shadow[v]
  /\ \A u \in IndexVars \ OwnIndexVars(t) : tmp'[u] = tmp[u]
  /\ \A u \in Units \ {Unit[t]} : dg_valtmp'[u] = dg_valtmp[u]
  /\ \A s \in Threads \ {t} : pc'[s] = pc[s] /\ call'[s] = call[s] /\ depth'[s] = depth[s]
  /\ LogExtends

(* The variables of a thread are variables, and pairwise different. *)
LEMMA OwnFacts ==
  ASSUME NEW t \in Threads
  PROVE  /\ {x(t), y(t), pdiff(t), result(t)} \cup UserVars(t) \subseteq OwnVars(t)
         /\ OwnVars(t) \subseteq Vars
         /\ OwnIndexVars(t) \subseteq IndexVars
         /\ x(t) # y(t) /\ x(t) # pdiff(t) /\ x(t) # result(t) /\ y(t) # pdiff(t)
         /\ y(t) # result(t) /\ pdiff(t) # result(t)
         /\ x_i(t) # y_i(t) /\ x_i(t) # ret_i(t) /\ y_i(t) # ret_i(t)
         /\ dg_indextmp(t) # dg_indextmp2(t)
         /\ NamesDistinct => /\ x(t) \notin UserVars(t) /\ y(t) \notin UserVars(t)
                             /\ result(t) \notin UserVars(t)
         /\ NoVar \notin UserVars(t)
<1>1. {x(t), y(t), pdiff(t), result(t)} \cup UserVars(t) \subseteq OwnVars(t)
  BY DEF OwnVars, UserVars, x, y, pdiff, result
<1>2. OwnVars(t) \subseteq Vars
  <2> SUFFICES ASSUME NEW n \in UserNames \cup {"x", "y", "pdiff", "ret"} PROVE <<n, t>> \in Vars
    BY DEF OwnVars
  <2>1. CASE n \in UserNames
    BY <2>1, Declared DEF UserVars
  <2>2. QED
    BY <2>1, Declared DEF x, y, pdiff, result
<1>3. OwnIndexVars(t) \subseteq IndexVars
  BY Declared DEF OwnIndexVars
<1>4. /\ x(t) # y(t) /\ x(t) # pdiff(t) /\ x(t) # result(t) /\ y(t) # pdiff(t)
      /\ y(t) # result(t) /\ pdiff(t) # result(t)
  BY DEF x, y, pdiff, result
<1>5. x_i(t) # y_i(t) /\ x_i(t) # ret_i(t) /\ y_i(t) # ret_i(t) /\ dg_indextmp(t) # dg_indextmp2(t)
  BY DEF x_i, y_i, ret_i, dg_indextmp, dg_indextmp2
<1>6. NamesDistinct => x(t) \notin UserVars(t) /\ y(t) \notin UserVars(t) /\ result(t) \notin UserVars(t)
  BY DEF NamesDistinct, UserVars, x, y, result
<1>7. NoVar \notin UserVars(t)
  BY Declared, RecordingAssumption
<1>8. QED
  BY <1>1, <1>2, <1>3, <1>4, <1>5, <1>6, <1>7

(* Two threads have no variable in common. *)
LEMMA OwnDisjoint ==
  ASSUME NEW s \in Threads, NEW t \in Threads, s # t
  PROVE  /\ OwnVars(s) \cap OwnVars(t) = {}
         /\ {x_i(t), y_i(t), ret_i(t)} \cap OwnIndexVars(s) = {}
         /\ OneThreadPerUnit => {dg_indextmp(t), dg_indextmp2(t)} \cap OwnIndexVars(s) = {}
<1>1. OwnVars(s) \cap OwnVars(t) = {}
  BY DEF OwnVars
<1>2. {x_i(t), y_i(t), ret_i(t)} \cap OwnIndexVars(s) = {}
  BY DEF OwnIndexVars, x_i, y_i, ret_i, dg_indextmp, dg_indextmp2
<1>3. OneThreadPerUnit => {dg_indextmp(t), dg_indextmp2(t)} \cap OwnIndexVars(s) = {}
  BY DEF OneThreadPerUnit, OwnIndexVars, x_i, y_i, ret_i, dg_indextmp, dg_indextmp2
<1>4. QED
  BY <1>1, <1>2, <1>3

(* A step of another thread preserves what is known of a call. *)
LEMMA OthersKept ==
  ASSUME TypeOK, ClientTypeOK, NEW s \in Threads, NEW t \in Threads, s # t, Touches(s), CallInv(t)
  PROVE  CallInv(t)'
<1>1. pc'[t] = pc[t] /\ call'[t] = call[t] /\ depth'[t] = depth[t]
  BY DEF Touches
<1>2. \A v \in OwnVars(t) : shadow'[v] = shadow[v]
  BY OwnFacts, OwnDisjoint DEF Touches
<1>3. tmp'[x_i(t)] = tmp[x_i(t)] /\ tmp'[y_i(t)] = tmp[y_i(t)] /\ tmp'[ret_i(t)] = tmp[ret_i(t)]
  BY Declared, OwnDisjoint DEF Touches
<1>4. \A v \in {x(t), y(t), result(t)} : shadow'[v] = shadow[v]
  BY <1>2, OwnFacts
<1>5. \A i : Deserved(t, i) => Deserved(t, i)'
  BY <1>1 DEF Deserved, Recorded, Touches, LogExtends
<1>6. OwnOperands(t)' /\ Brackets(t)'
  BY <1>1 DEF CallInv, OwnOperands, Brackets
<1>7. Arguments(t)'
  <2>1. pc[t] \in InWrapper /\ call[t].b # NoVar => shadow'[call[t].b] = shadow[call[t].b]
    BY <1>2, OwnFacts DEF CallInv, OwnOperands, InWrapper
  <2>2. QED
    BY <1>1, <1>4, <2>1 DEF CallInv, Arguments
<1>8. Fetched(t)'
  BY <1>1, <1>3 DEF CallInv, Fetched
<1>9. Result(t)'
  BY <1>1, <1>3, <1>4, <1>5 DEF CallInv, Result
<1>10. QED
  BY <1>6, <1>7, <1>8, <1>9 DEF CallInv

\* The history entry of a statement, and what recording it does.
Logs(stmt) ==
  /\ log' = Append(log, [block |-> stmt.block, value |-> stmt.value])
  /\ Assign(stmt.dest, nextindex)

Skips(stmt) == log' = log /\ Assign(stmt.dest, 0)

(* A statement is recorded or not, depending on its thread's brackets. *)
LEMMA AddEffect ==
  ASSUME ~typegrind, NEW t, NEW stmt, tapeAddStatement_noActivityAnalysis(t, stmt)
  PROVE  IF dg_disable[t] = 0 THEN Logs(stmt) ELSE Skips(stmt)
<1>1. Stops(0) = {}
  BY ClientAssumption DEF Stops
<1>2. QED
  BY <1>1 DEF tapeAddStatement_noActivityAnalysis, Complete, AssignedIndex, DisabledIndex,
              Logs, Skips

(* So is an operation, unless its operands are passive. *)
LEMMA AddActiveEffect ==
  ASSUME ~typegrind, NEW t, NEW stmt, tapeAddStatement(t, stmt)
  PROVE  IF dg_disable[t] = 0 /\ (stmt.block.index1 # 0 \/ stmt.block.index2 # 0)
         THEN Logs(stmt) ELSE Skips(stmt)
<1>1. CASE stmt.block.index1 = 0 /\ stmt.block.index2 = 0
  BY <1>1 DEF tapeAddStatement, Skips
<1>2. CASE ~(stmt.block.index1 = 0 /\ stmt.block.index2 = 0)
  <2>1. tapeAddStatement_noActivityAnalysis(t, stmt)
    BY <1>2 DEF tapeAddStatement
  <2>2. QED
    BY <1>2, <2>1, AddEffect
<1>3. QED
  BY <1>1, <1>2

(* An index that is assigned goes to one place only. *)
LEMMA AssignWrites ==
  ASSUME NEW dest, NEW i, Assign(dest, i)
  PROVE  /\ dest \in Vars => WritesShadow(dest, Split(i))
         /\ dest \in IndexVars => WritesTmp(dest, i)
  BY RecordingAssumption DEF Assign, WritesShadow, WritesTmp

\* Recorded(i, b, val) after the step, for the index i before it.
RecordedNow(i, b, val) == i \in DOMAIN log' /\ log'[i] = [block |-> b, value |-> val]

(* The new end of the history. *)
LEMMA LoggedNow ==
  ASSUME IndexInv, NEW stmt \in Statement, Logs(stmt)
  PROVE  LogExtends /\ RecordedNow(nextindex, stmt.block, stmt.value)
<1> DEFINE e == [block |-> stmt.block, value |-> stmt.value]
<1>1. log \in Seq(Entry) /\ Len(log) = nextindex - 1 /\ nextindex \in Nat \ {0}
  BY DEF IndexInv, TypeOK, LogLength
<1>2. e \in Entry
  BY DEF Statement, Entry
<1>3. log' = Append(log, e)
  BY DEF Logs
<1> HIDE DEF e
<1>4. /\ nextindex \in DOMAIN log' /\ log'[nextindex] = e
      /\ \A i \in DOMAIN log : i \in DOMAIN log' /\ log'[i] = log[i]
  BY <1>1, <1>2, <1>3
<1>5. LogExtends
  BY <1>4 DEF LogExtends
<1>6. nextindex \in DOMAIN log' /\ log'[nextindex] = [block |-> stmt.block, value |-> stmt.value]
  BY <1>4 DEF e
<1>7. QED
  BY <1>5, <1>6 DEF RecordedNow

\* A step that writes at most one of the thread's own variables.
OwnWrite(t) ==
  \/ UNCHANGED <<shadow, tmp>>
  \/ \E v \in OwnVars(t), s \in [Lo : Half, Hi : Half] : WritesShadow(v, s)
  \/ \E u \in OwnIndexVars(t), i \in Index : WritesTmp(u, i)

(* Such a step touches nothing of other threads. *)
LEMMA OwnTouches ==
  ASSUME TypeOK, ClientTypeOK, NEW t \in Threads, OwnWrite(t), LogExtends,
         NEW to, NEW c, NEW w, NEW val,
         pc' = [pc EXCEPT ![t] = to], call' = call \/ call' = [call EXCEPT ![t] = c],
         depth' = depth \/ depth' = [depth EXCEPT ![t] = w],
         dg_valtmp' = dg_valtmp \/ dg_valtmp' = [dg_valtmp EXCEPT ![Unit[t]] = val]
  PROVE  Touches(t)
<1>1. \A s \in Threads \ {t} : pc'[s] = pc[s] /\ call'[s] = call[s] /\ depth'[s] = depth[s]
  BY DEF ClientTypeOK
<1>2. \A u \in Units \ {Unit[t]} : dg_valtmp'[u] = dg_valtmp[u]
  BY DEF ClientTypeOK
<1>3. \A v \in Vars \ OwnVars(t) : shadow'[v] = shadow[v]
  BY DEF OwnWrite, WritesShadow, WritesTmp, TypeOK
<1>4. \A u \in IndexVars \ OwnIndexVars(t) : tmp'[u] = tmp[u]
  BY DEF OwnWrite, WritesShadow, WritesTmp, TypeOK
<1>5. QED
  BY <1>1, <1>2, <1>3, <1>4 DEF Touches

(* What moving on in the code of a wrapper or macro means for the thread. *)
LEMMA StepFacts ==
  ASSUME TypeOK, ClientTypeOK, NEW t \in Threads, NEW from, NEW to, Step(t, from, to)
  PROVE  /\ pc[t] = from /\ pc'[t] = to /\ call' = call /\ depth' = depth
         /\ call'[t] = call[t] /\ depth'[t] = depth[t] /\ dg_valtmp' = dg_valtmp
         /\ OwnWrite(t) /\ LogExtends => Touches(t)
<1>1. /\ pc[t] = from /\ pc' = [pc EXCEPT ![t] = to] /\ call' = call /\ depth' = depth
      /\ dg_valtmp' = dg_valtmp
  BY DEF Step, Goto
<1>2. pc'[t] = to
  BY <1>1 DEF ClientTypeOK
<1>3. OwnWrite(t) /\ LogExtends => Touches(t)
  BY <1>1, OwnTouches
<1>4. QED
  BY <1>1, <1>2, <1>3

(* A request that records nothing writes one variable. *)
LEMMA RequestWrites ==
  ASSUME NEW v \in Vars, NEW r \in Vars, NEW u \in IndexVars, NEW w \in IndexVars
  PROVE  /\ Copy(v, r) => WritesShadow(v, shadow[r]) /\ log' = log
         /\ GET_INDEX(u, v) => WritesTmp(u, Assemble(shadow[v])) /\ log' = log
         /\ SET_INDEX(u, v) => WritesShadow(v, Split(tmp[u])) /\ log' = log
         /\ CopyIndex(u, w) => WritesTmp(u, tmp[w]) /\ log' = log
  BY DEF Copy, GET_INDEX, SET_INDEX, CopyIndex, WritesShadow, WritesTmp

(* A statement inside of a bracket makes its result passive. *)
LEMMA InnerWrites ==
  ASSUME IndexInv, BracketInv, ~typegrind, NEW t \in Threads, Open(pc[t]) # 0,
         NEW v \in Vars, NEW a \in Operand, NEW b \in Operand, NEW val \in Values,
         Operation(t, v, a, b, InnerDiffs, val)
  PROVE  WritesShadow(v, Split(0)) /\ log' = log
<1> DEFINE stmt == [block |-> [index1 |-> IndexOf(a), index2 |-> IndexOf(b), diffs |-> InnerDiffs],
                    value |-> val, dest |-> v]
<1>1. LogKept
  BY InnerOperation
<1>2. tapeAddStatement(t, stmt) /\ stmt.dest = v
  BY DEF Operation
<1>3. dg_disable[t] # 0
  BY DEF BracketInv, DisableInv, ClientInv, ClientTypeOK, Open
<1> HIDE DEF stmt
<1>4. Skips(stmt)
  BY <1>2, <1>3, AddActiveEffect
<1>5. QED
  BY <1>2, <1>4, AssignWrites DEF Skips

\* What a request for a new index does if it records a statement, and if not.
NewIndexOf(u, b, val) ==
  WritesTmp(u, nextindex) /\ LogExtends /\ RecordedNow(nextindex, b, val)

NoIndexFor(u) == WritesTmp(u, 0) /\ log' = log

(* DG_NEW_INDEX records a statement outside of brackets, for active operands. *)
LEMMA NewIndexWrites ==
  ASSUME IndexInv, ~typegrind, NEW t \in Threads, NEW u \in IndexVars, NEW i \in Index,
         NEW j \in Index, NEW d \in Diffs, NEW val \in Values
  PROVE  LET b == [index1 |-> i, index2 |-> j, diffs |-> d] IN
         /\ NEW_INDEX(t, u, i, j, d, val) =>
              IF dg_disable[t] = 0 /\ (i # 0 \/ j # 0)
              THEN NewIndexOf(u, b, val) ELSE NoIndexFor(u)
         /\ NEW_INDEX_NOACTIVITYANALYSIS(t, u, i, j, d, val) =>
              IF dg_disable[t] = 0 THEN NewIndexOf(u, b, val) ELSE NoIndexFor(u)
<1> DEFINE b == [index1 |-> i, index2 |-> j, diffs |-> d]
           stmt == ClientStatement(u, i, j, d, val)
<1>1. /\ stmt \in Statement /\ stmt.block = b /\ stmt.value = val /\ stmt.dest = u
      /\ stmt.block.index1 = i /\ stmt.block.index2 = j
  BY DEF ClientStatement, Statement, Block
<1>2. /\ NEW_INDEX(t, u, i, j, d, val) => tapeAddStatement(t, stmt)
      /\ NEW_INDEX_NOACTIVITYANALYSIS(t, u, i, j, d, val) =>
           tapeAddStatement_noActivityAnalysis(t, stmt)
  BY DEF NEW_INDEX, NEW_INDEX_NOACTIVITYANALYSIS
<1> HIDE DEF stmt, b
<1>3. Logs(stmt) => NewIndexOf(u, b, val)
  BY <1>1, LoggedNow, AssignWrites DEF Logs, NewIndexOf
<1>4. Skips(stmt) => NoIndexFor(u)
  BY <1>1, AssignWrites DEF Skips, NoIndexFor
<1>5. NEW_INDEX(t, u, i, j, d, val) =>
        IF dg_disable[t] = 0 /\ (i # 0 \/ j # 0) THEN NewIndexOf(u, b, val) ELSE NoIndexFor(u)
  BY <1>1, <1>2, <1>3, <1>4, AddActiveEffect
<1>6. NEW_INDEX_NOACTIVITYANALYSIS(t, u, i, j, d, val) =>
        IF dg_disable[t] = 0 THEN NewIndexOf(u, b, val) ELSE NoIndexFor(u)
  BY <1>2, <1>3, <1>4, AddEffect
<1>7. QED
  BY <1>5, <1>6 DEF b

\* What the steps of a thread may use.
Background == IndexInv /\ BracketInv /\ ~typegrind /\ NamesDistinct

(* The types that the steps need. *)
LEMMA BackgroundFacts ==
  ASSUME Background
  PROVE  /\ TypeOK /\ ClientTypeOK /\ 0 \in Index /\ nextindex \in Index
         /\ \A v \in Vars : shadow[v] \in [Lo : Half, Hi : Half] /\ Assemble(shadow[v]) \in Index
         /\ \A u \in IndexVars : tmp[u] \in Index
         /\ \A i \in Index : Split(i) \in [Lo : Half, Hi : Half] /\ Assemble(Split(i)) = i
         /\ \A t \in Threads : dg_disable[t] = depth[t] + Open(pc[t]) /\ depth[t] \in 0 .. 1
<1>1. TypeOK /\ ClientTypeOK /\ DisableInv
  BY DEF Background, BracketInv, ClientInv
<1>2. nextindex \in Index
  BY <1>1, IndexFacts DEF TypeOK
<1>3. \A v \in Vars : shadow[v] \in [Lo : Half, Hi : Half]
  BY <1>1 DEF TypeOK
<1>4. \A t \in Threads : dg_disable[t] = depth[t] + Open(pc[t]) /\ depth[t] \in 0 .. 1
  BY <1>1 DEF DisableInv, ClientTypeOK
<1>5. \A v \in Vars : Assemble(shadow[v]) \in Index
  BY <1>3, AssembleType
<1>6. \A u \in IndexVars : tmp[u] \in Index
  BY <1>1 DEF TypeOK
<1>7. QED
  BY <1>1, <1>2, <1>3, <1>4, <1>5, <1>6, IndexFacts, SplitType, AssembleSplit

(* Writes to the thread's own variables, and what they leave. *)
LEMMA OwnWrites ==
  ASSUME TypeOK, NEW t \in Threads, NEW v \in OwnVars(t), NEW u \in OwnIndexVars(t),
         NEW s \in [Lo : Half, Hi : Half], NEW i \in Index
  PROVE  /\ WritesShadow(v, s) => /\ OwnWrite(t) /\ tmp' = tmp /\ shadow'[v] = s
                                  /\ \A r \in Vars \ {v} : shadow'[r] = shadow[r]
         /\ WritesTmp(u, i) => /\ OwnWrite(t) /\ shadow' = shadow /\ tmp'[u] = i
                               /\ \A r \in IndexVars \ {u} : tmp'[r] = tmp[r]
<1>1. v \in Vars /\ u \in IndexVars
  BY OwnFacts
<1>2. ASSUME WritesShadow(v, s)
      PROVE  /\ OwnWrite(t) /\ tmp' = tmp /\ shadow'[v] = s
             /\ \A r \in Vars \ {v} : shadow'[r] = shadow[r]
  BY <1>1, <1>2 DEF WritesShadow, OwnWrite, TypeOK
<1>3. ASSUME WritesTmp(u, i)
      PROVE  /\ OwnWrite(t) /\ shadow' = shadow /\ tmp'[u] = i
             /\ \A r \in IndexVars \ {u} : tmp'[r] = tmp[r]
  BY <1>1, <1>3 DEF WritesTmp, OwnWrite, TypeOK
<1>4. QED
  BY <1>2, <1>3

(* Every step of a wrapper does its part of the call. *)
LEMMA OwnWrapper ==
  ASSUME Background, NEW t \in Threads, CallInv(t), Wrapper(t)
  PROVE  CallInv(t)' /\ Touches(t)
<1>1. TypeOK /\ ClientTypeOK /\ ClientInv /\ IndexInv /\ BracketInv /\ ~typegrind /\ NamesDistinct
  BY DEF Background, BracketInv, ClientInv
<1>2. OwnOperands(t) /\ Arguments(t) /\ Brackets(t) /\ Fetched(t) /\ Result(t)
  BY DEF CallInv
<1>3. log' = log => LogExtends /\ \A i : Deserved(t, i) /\ call'[t] = call[t] => Deserved(t, i)'
  BY DEF LogExtends, Deserved, Recorded
<1> DEFINE c == call[t]
<1>4. ASSUME NEW from, NEW to, Step(t, from, to)
      PROVE  /\ pc[t] = from /\ pc'[t] = to /\ call'[t] = call[t] /\ depth'[t] = depth[t]
             /\ from # "user" /\ to # "user" => OwnOperands(t)'
             /\ to = "user" => OwnOperands(t)' /\ Arguments(t)' /\ Brackets(t)' /\ Fetched(t)' /\ Result(t)'
             /\ OwnWrite(t) /\ LogExtends => Touches(t)
  <2>1. /\ pc[t] = from /\ pc'[t] = to /\ call'[t] = call[t] /\ depth'[t] = depth[t]
        /\ OwnWrite(t) /\ LogExtends => Touches(t)
    BY <1>1, <1>4, StepFacts
  <2>2. from # "user" /\ to # "user" => OwnOperands(t)'
    BY <1>2, <2>1 DEF OwnOperands
  <2>3. to = "user" => OwnOperands(t)' /\ Arguments(t)' /\ Brackets(t)' /\ Fetched(t)' /\ Result(t)'
    BY <2>1 DEF OwnOperands, Arguments, Brackets, Fetched, Result, InWrapper, Body
  <2>4. QED
    BY <2>1, <2>2, <2>3
<1>5. /\ x(t) \in OwnVars(t) /\ y(t) \in OwnVars(t) /\ pdiff(t) \in OwnVars(t) /\ result(t) \in OwnVars(t)
      /\ x_i(t) \in OwnIndexVars(t) /\ y_i(t) \in OwnIndexVars(t) /\ ret_i(t) \in OwnIndexVars(t)
  BY OwnFacts DEF OwnIndexVars
<1>6. CASE CallY(t)
  <2>1. Step(t, "callY", "enter") /\ Copy(y(t), c.b) /\ c.b \in UserVars(t) /\ c.b # NoVar
    BY <1>1, <1>2, <1>6 DEF CallY, Step, Goto, ClientInv, OwnOperands
  <2>2. /\ pc[t] = "callY" /\ pc'[t] = "enter" /\ call'[t] = call[t] /\ depth'[t] = depth[t]
        /\ OwnOperands(t)' /\ (OwnWrite(t) /\ LogExtends => Touches(t))
    BY <1>4, <2>1
  <2>3. WritesShadow(y(t), shadow[c.b]) /\ log' = log /\ c.b \in Vars
    BY <2>1, RequestWrites, Declared
  <2>4. /\ OwnWrite(t) /\ shadow'[y(t)] = shadow[c.b] /\ shadow'[x(t)] = shadow[x(t)]
    BY <1>1, <1>5, <2>3, OwnWrites, OwnFacts, Declared, BackgroundFacts
  <2>5. Assemble(shadow[x(t)]) = c.i1 /\ Assemble(shadow[c.b]) = c.i2
    BY <1>2, <2>1, <2>2 DEF Arguments, InWrapper
  <2>6. Arguments(t)'
    BY <2>2, <2>4, <2>5 DEF Arguments
  <2>7. Brackets(t)' /\ Fetched(t)' /\ Result(t)'
    BY <1>2, <2>2 DEF Brackets, Fetched, Result, Body, InWrapper
  <2>8. QED
    BY <1>3, <2>2, <2>3, <2>4, <2>6, <2>7 DEF CallInv
<1>7. CASE Enter(t)
  <2> DEFINE bool == dg_disable[t] # 0
  <2>1. /\ pc[t] = "enter" /\ pc' = [pc EXCEPT ![t] = "orig"] /\ depth' = depth
        /\ dg_valtmp' = dg_valtmp /\ call' = [call EXCEPT ![t].already_disabled = bool]
        /\ UNCHANGED <<shadow, tmp, log>>
    BY <1>7 DEF Enter, Goto, DISABLE
  <2>2. dg_disable[t] = depth[t] /\ bool \in BOOLEAN
    BY <2>1, BackgroundFacts, OpenAt
  <2>3. pc'[t] = "orig" /\ (bool <=> depth[t] # 0)
    BY <1>1, <2>1, <2>2 DEF ClientTypeOK
  <2> HIDE DEF bool
  <2>4. call[t] \in Call
    BY <1>1 DEF ClientTypeOK
  <2>5. /\ call'[t].already_disabled = bool /\ call'[t].dst = c.dst /\ call'[t].b = c.b
        /\ call'[t].i1 = c.i1 /\ call'[t].i2 = c.i2 /\ call'[t].open = c.open
    BY <1>1, <2>1, <2>2, <2>4 DEF ClientTypeOK, Call
  <2>6. OwnOperands(t)'
    BY <1>2, <2>1, <2>3, <2>5 DEF OwnOperands
  <2>7. Arguments(t)'
    BY <1>2, <2>1, <2>3, <2>5 DEF Arguments, InWrapper
  <2>8. Brackets(t)'
    BY <1>2, <2>1, <2>3, <2>5 DEF Brackets, Body, InWrapper
  <2>9. Fetched(t)' /\ Result(t)'
    BY <2>3 DEF Fetched, Result
  <2>10. OwnWrite(t)
    BY <2>1 DEF OwnWrite
  <2>11. PICK c1 : call' = [call EXCEPT ![t] = c1]
    BY <2>1
  <2>12. LogExtends
    BY <1>3, <2>1
  <2>13. Touches(t)
    BY <1>1, <2>1, <2>10, <2>11, <2>12, OwnTouches
  <2>14. QED
    BY <2>6, <2>7, <2>8, <2>9, <2>13 DEF CallInv
<1>8. CASE Original(t)
  <2> DEFINE to == IF c.already_disabled THEN "leave" ELSE "getX"
             b  == IF c.b = NoVar THEN NoVar ELSE y(t)
  <2>1. /\ Step(t, "orig", to)
        /\ \/ Operation(t, result(t), x(t), b, InnerDiffs, Value[t])
           \/ Copy(result(t), x(t))
           \/ c.b # NoVar /\ Copy(result(t), y(t))
    BY <1>8 DEF Original
  <2>2. /\ pc[t] = "orig" /\ pc'[t] = to /\ call'[t] = call[t] /\ depth'[t] = depth[t]
        /\ OwnOperands(t)' /\ (OwnWrite(t) /\ LogExtends => Touches(t))
    BY <1>4, <2>1
  <2>3. b \in Operand /\ x(t) \in Operand /\ Open(pc[t]) # 0
    BY <2>2, OpenAt, Declared DEF Operand
  <2> HIDE DEF b
  <2>4. Assemble(shadow[x(t)]) = c.i1 /\ (c.b # NoVar => Assemble(shadow[y(t)]) = c.i2)
    BY <1>2, <2>2 DEF Arguments, InWrapper
  <2>5. PICK s \in [Lo : Half, Hi : Half] :
          /\ WritesShadow(result(t), s) /\ log' = log /\ Assemble(s) \in {0, c.i1, c.i2}
    <3>1. CASE Operation(t, result(t), x(t), b, InnerDiffs, Value[t])
      <4>1. WritesShadow(result(t), Split(0)) /\ log' = log
        BY <1>1, <2>3, <3>1, InnerWrites, Declared
      <4>2. Split(0) \in [Lo : Half, Hi : Half] /\ Assemble(Split(0)) = 0
        BY BackgroundFacts
      <4>3. QED
        BY <4>1, <4>2
    <3>2. CASE Copy(result(t), x(t))
      <4>1. WritesShadow(result(t), shadow[x(t)]) /\ log' = log
        BY <3>2, RequestWrites, Declared
      <4>2. QED
        BY <2>4, <4>1, BackgroundFacts, Declared
    <3>3. CASE c.b # NoVar /\ Copy(result(t), y(t))
      <4>1. WritesShadow(result(t), shadow[y(t)]) /\ log' = log
        BY <3>3, RequestWrites, Declared
      <4>2. QED
        BY <2>4, <3>3, <4>1, BackgroundFacts, Declared
    <3>4. QED
      BY <2>1, <3>1, <3>2, <3>3
  <2>6. /\ OwnWrite(t) /\ tmp' = tmp /\ shadow'[result(t)] = s
        /\ shadow'[x(t)] = shadow[x(t)] /\ shadow'[y(t)] = shadow[y(t)]
    BY <1>1, <1>5, <2>5, OwnWrites, OwnFacts, Declared, BackgroundFacts
  <2>7. Arguments(t)'
    BY <1>2, <2>2, <2>6 DEF Arguments, InWrapper
  <2>8. Brackets(t)' /\ Fetched(t)'
    BY <1>2, <2>2 DEF Brackets, Fetched, Body, InWrapper
  <2>9. Result(t)'
    BY <2>2, <2>5, <2>6 DEF Result
  <2>10. QED
    BY <1>3, <2>2, <2>5, <2>6, <2>7, <2>8, <2>9 DEF CallInv
<1>9. CASE GetX(t)
  <2> DEFINE to == IF c.b = NoVar THEN "pdiff" ELSE "getY"
  <2>1. Step(t, "getX", to) /\ GET_INDEX(x_i(t), x(t))
    BY <1>9 DEF GetX
  <2>2. /\ pc[t] = "getX" /\ pc'[t] = to /\ call'[t] = call[t] /\ depth'[t] = depth[t]
        /\ OwnOperands(t)' /\ (OwnWrite(t) /\ LogExtends => Touches(t))
    BY <1>4, <2>1
  <2>3. WritesTmp(x_i(t), Assemble(shadow[x(t)])) /\ log' = log
    BY <2>1, RequestWrites, Declared
  <2>4. /\ OwnWrite(t) /\ shadow' = shadow /\ tmp'[x_i(t)] = Assemble(shadow[x(t)])
    BY <1>1, <1>5, <2>3, OwnWrites, Declared, BackgroundFacts
  <2>5. Assemble(shadow[x(t)]) = c.i1
    BY <1>2, <2>2 DEF Arguments, InWrapper
  <2>6. Arguments(t)'
    BY <1>2, <2>2, <2>4 DEF Arguments, InWrapper
  <2>7. Brackets(t)'
    BY <1>2, <2>2 DEF Brackets, Body, InWrapper
  <2>8. Fetched(t)' /\ Result(t)'
    BY <2>2, <2>4, <2>5 DEF Fetched, Result
  <2>9. QED
    BY <1>3, <2>2, <2>3, <2>4, <2>6, <2>7, <2>8 DEF CallInv
<1>10. CASE GetY(t)
  <2>1. Step(t, "getY", "pdiff") /\ GET_INDEX(y_i(t), y(t))
    BY <1>10 DEF GetY
  <2>2. /\ pc[t] = "getY" /\ pc'[t] = "pdiff" /\ call'[t] = call[t] /\ depth'[t] = depth[t]
        /\ OwnOperands(t)' /\ (OwnWrite(t) /\ LogExtends => Touches(t))
    BY <1>4, <2>1
  <2>3. WritesTmp(y_i(t), Assemble(shadow[y(t)])) /\ log' = log
    BY <2>1, RequestWrites, Declared
  <2>4. /\ OwnWrite(t) /\ shadow' = shadow /\ tmp'[y_i(t)] = Assemble(shadow[y(t)])
        /\ tmp'[x_i(t)] = tmp[x_i(t)]
    BY <1>1, <1>5, <2>3, OwnWrites, OwnFacts, Declared, BackgroundFacts
  <2>5. c.b # NoVar => Assemble(shadow[y(t)]) = c.i2
    BY <1>2, <2>2 DEF Arguments, InWrapper
  <2>6. Arguments(t)'
    BY <1>2, <2>2, <2>4 DEF Arguments, InWrapper
  <2>7. Brackets(t)'
    BY <1>2, <2>2 DEF Brackets, Body, InWrapper
  <2>8. Fetched(t)' /\ Result(t)'
    BY <1>2, <2>2, <2>4, <2>5 DEF Fetched, Result
  <2>9. QED
    BY <1>3, <2>2, <2>3, <2>4, <2>6, <2>7, <2>8 DEF CallInv
<1>11. CASE PDiff(t) \/ InnerOriginal(t)
  <2>1. PICK from, to : /\ Step(t, from, to) /\ from \in {"pdiff", "innerOrig"}
                        /\ to = IF from = "pdiff" THEN "leave" ELSE "innerLeave"
    BY <1>11 DEF PDiff, InnerOriginal
  <2>2. /\ pc[t] = from /\ pc'[t] = to /\ call'[t] = call[t] /\ depth'[t] = depth[t]
        /\ OwnOperands(t)' /\ (OwnWrite(t) /\ LogExtends => Touches(t))
    BY <1>4, <2>1
  <2>3. Open(pc[t]) # 0 /\ NoVar \in Operand /\ x(t) \in Operand
    BY <2>1, <2>2, OpenAt, Declared DEF Operand
  <2>4. Operation(t, pdiff(t), x(t), NoVar, InnerDiffs, Value[t])
    BY <1>11 DEF PDiff, InnerOriginal
  <2>5. WritesShadow(pdiff(t), Split(0)) /\ log' = log
    BY <1>1, <2>3, <2>4, InnerWrites, Declared
  <2>6. /\ OwnWrite(t) /\ tmp' = tmp
        /\ shadow'[x(t)] = shadow[x(t)] /\ shadow'[y(t)] = shadow[y(t)]
    BY <1>1, <1>5, <2>5, OwnWrites, OwnFacts, Declared, BackgroundFacts
  <2>7. Arguments(t)'
    BY <1>2, <2>1, <2>2, <2>6 DEF Arguments, InWrapper
  <2>8. ~c.already_disabled
    BY <1>2, <2>1, <2>2 DEF Brackets, Body, InWrapper
  <2>9. Brackets(t)'
    BY <1>2, <2>1, <2>2 DEF Brackets, Body, InWrapper
  <2>10. Fetched(t)' /\ Result(t)'
    BY <1>2, <2>1, <2>2, <2>6, <2>8 DEF Fetched, Result
  <2>11. QED
    BY <1>3, <2>2, <2>5, <2>6, <2>7, <2>9, <2>10 DEF CallInv
<1>12. CASE InnerEnter(t) \/ InnerLeave(t)
  <2>1. PICK from, to : /\ Step(t, from, to) /\ from \in {"pdiff", "innerLeave"}
                        /\ to = IF from = "pdiff" THEN "innerOrig" ELSE "leave"
    BY <1>12 DEF InnerEnter, InnerLeave
  <2>2. /\ pc[t] = from /\ pc'[t] = to /\ call'[t] = call[t] /\ depth'[t] = depth[t]
        /\ OwnOperands(t)' /\ (OwnWrite(t) /\ LogExtends => Touches(t))
    BY <1>4, <2>1
  <2>3. UNCHANGED <<shadow, tmp, log>>
    BY <1>12 DEF InnerEnter, InnerLeave, DISABLE
  <2>4. OwnWrite(t)
    BY <2>3 DEF OwnWrite
  <2>5. ~c.already_disabled
    BY <1>2, <2>1, <2>2 DEF Brackets, Body, InWrapper
  <2>6. Arguments(t)'
    BY <1>2, <2>1, <2>2, <2>3 DEF Arguments, InWrapper
  <2>7. Brackets(t)'
    BY <1>2, <2>1, <2>2 DEF Brackets, Body, InWrapper
  <2>8. Fetched(t)' /\ Result(t)'
    BY <1>2, <2>1, <2>2, <2>3, <2>5 DEF Fetched, Result
  <2>9. QED
    BY <1>3, <2>2, <2>3, <2>4, <2>6, <2>7, <2>8 DEF CallInv
<1>13. CASE Leave(t)
  <2> DEFINE to == IF c.already_disabled THEN "return" ELSE "new"
  <2>1. Step(t, "leave", to) /\ UNCHANGED <<shadow, tmp, log>>
    BY <1>13 DEF Leave, DISABLE
  <2>2. /\ pc[t] = "leave" /\ pc'[t] = to /\ call'[t] = call[t] /\ depth'[t] = depth[t]
        /\ OwnOperands(t)' /\ (OwnWrite(t) /\ LogExtends => Touches(t))
    BY <1>4, <2>1
  <2>3. OwnWrite(t)
    BY <2>1 DEF OwnWrite
  <2>4. Arguments(t)'
    BY <1>2, <2>1, <2>2 DEF Arguments, InWrapper
  <2>5. Brackets(t)'
    BY <1>2, <2>2 DEF Brackets, Body, InWrapper
  <2>6. Fetched(t)'
    BY <1>2, <2>1, <2>2 DEF Fetched
  <2>7. c.already_disabled => ~c.open /\ Assemble(shadow[result(t)]) \in {0, c.i1, c.i2}
    BY <1>2, <2>2 DEF Brackets, Result, Body, InWrapper
  <2>8. Result(t)'
    BY <2>1, <2>2, <2>7 DEF Result, Deserved
  <2>9. QED
    BY <1>3, <2>1, <2>2, <2>3, <2>4, <2>5, <2>6, <2>8 DEF CallInv
<1>14. CASE NewIndex(t)
  <2> DEFINE j == IF c.b = NoVar THEN 0 ELSE tmp[y_i(t)]
  <2>1. Step(t, "new", "set") /\ NEW_INDEX(t, ret_i(t), tmp[x_i(t)], j, Partial[t], Value[t])
    BY <1>14 DEF NewIndex
  <2>2. /\ pc[t] = "new" /\ pc'[t] = "set" /\ call'[t] = call[t] /\ depth'[t] = depth[t]
        /\ OwnOperands(t)' /\ (OwnWrite(t) /\ LogExtends => Touches(t))
    BY <1>4, <2>1
  <2>3. ~c.already_disabled /\ depth[t] = 0 /\ c.open
    BY <1>2, <2>2, BackgroundFacts DEF Brackets, Body, InWrapper
  <2>4. tmp[x_i(t)] = c.i1 /\ j = c.i2
    BY <1>2, <2>2, <2>3 DEF Fetched, OwnOperands
  <2>5. dg_disable[t] = 0
    BY <2>2, <2>3, BackgroundFacts, OpenAt
  <2>6. tmp[x_i(t)] \in Index /\ j \in Index
    BY BackgroundFacts, Declared
  <2> HIDE DEF j
  <2> DEFINE b == [index1 |-> c.i1, index2 |-> c.i2, diffs |-> Partial[t]]
  <2>7. IF c.i1 # 0 \/ c.i2 # 0 THEN NewIndexOf(ret_i(t), b, Value[t]) ELSE NoIndexFor(ret_i(t))
    BY <1>1, <2>1, <2>4, <2>5, <2>6, NewIndexWrites, Declared
  <2>8. /\ OwnWrite(t) /\ shadow' = shadow /\ LogExtends
        /\ IF c.i1 # 0 \/ c.i2 # 0 THEN RecordedNow(tmp'[ret_i(t)], b, Value[t]) ELSE tmp'[ret_i(t)] = 0
    <3> HIDE DEF b
    <3>1. CASE NewIndexOf(ret_i(t), b, Value[t]) /\ (c.i1 # 0 \/ c.i2 # 0)
      BY <1>1, <1>5, <3>1, OwnWrites, BackgroundFacts DEF NewIndexOf
    <3>2. CASE NoIndexFor(ret_i(t)) /\ ~(c.i1 # 0 \/ c.i2 # 0)
      BY <1>1, <1>3, <1>5, <3>2, OwnWrites, BackgroundFacts DEF NoIndexFor
    <3>3. QED
      BY <2>7, <3>1, <3>2
  <2>9. Deserved(t, tmp[ret_i(t)])'
    BY <2>2, <2>3, <2>8 DEF Deserved, Recorded, RecordedNow
  <2>10. Arguments(t)'
    BY <1>2, <2>2, <2>8 DEF Arguments, InWrapper
  <2>11. Brackets(t)' /\ Fetched(t)'
    BY <1>2, <2>2 DEF Brackets, Fetched, Body, InWrapper
  <2>12. Result(t)'
    BY <2>2, <2>9 DEF Result
  <2>13. QED
    BY <2>2, <2>8, <2>10, <2>11, <2>12 DEF CallInv
<1>15. CASE SetIndex(t)
  <2>1. Step(t, "set", "return") /\ SET_INDEX(ret_i(t), result(t))
    BY <1>15 DEF SetIndex
  <2>2. /\ pc[t] = "set" /\ pc'[t] = "return" /\ call'[t] = call[t] /\ depth'[t] = depth[t]
        /\ OwnOperands(t)' /\ (OwnWrite(t) /\ LogExtends => Touches(t))
    BY <1>4, <2>1
  <2>3. WritesShadow(result(t), Split(tmp[ret_i(t)])) /\ log' = log
    BY <2>1, RequestWrites, Declared
  <2>4. /\ OwnWrite(t) /\ shadow'[result(t)] = Split(tmp[ret_i(t)])
        /\ shadow'[x(t)] = shadow[x(t)] /\ shadow'[y(t)] = shadow[y(t)]
    BY <1>1, <1>5, <2>3, OwnWrites, OwnFacts, Declared, BackgroundFacts
  <2>5. Assemble(shadow'[result(t)]) = tmp[ret_i(t)]
    BY <2>4, Declared, BackgroundFacts
  <2>6. Deserved(t, tmp[ret_i(t)])
    BY <1>2, <2>2 DEF Result
  <2>7. Deserved(t, Assemble(shadow[result(t)]))'
    BY <2>2, <2>3, <2>5, <2>6 DEF Deserved, Recorded
  <2>8. Arguments(t)'
    BY <1>2, <2>2, <2>4 DEF Arguments, InWrapper
  <2>9. Brackets(t)' /\ Fetched(t)'
    BY <1>2, <2>2 DEF Brackets, Fetched, Body, InWrapper
  <2>10. Result(t)'
    BY <2>2, <2>7 DEF Result
  <2>11. QED
    BY <1>3, <2>2, <2>3, <2>4, <2>8, <2>9, <2>10 DEF CallInv
<1>16. CASE Return(t)
  <2>1. Step(t, "return", "user") /\ Copy(c.dst, result(t))
    BY <1>16 DEF Return
  <2>2. /\ pc[t] = "return" /\ (OwnWrite(t) /\ LogExtends => Touches(t))
        /\ OwnOperands(t)' /\ Arguments(t)' /\ Brackets(t)' /\ Fetched(t)' /\ Result(t)'
    BY <1>4, <2>1
  <2>3. c.dst \in UserVars(t) /\ c.dst \in Vars /\ c.dst \in OwnVars(t)
    BY <1>2, <2>2, Declared, OwnFacts DEF OwnOperands
  <2>4. WritesShadow(c.dst, shadow[result(t)]) /\ log' = log
    BY <2>1, <2>3, RequestWrites, Declared
  <2>5. OwnWrite(t)
    BY <1>1, <1>5, <2>3, <2>4, OwnWrites, Declared, BackgroundFacts
  <2>6. QED
    BY <1>3, <2>2, <2>4, <2>5 DEF CallInv
<1>17. QED
  BY <1>6, <1>7, <1>8, <1>9, <1>10, <1>11, <1>12, <1>13, <1>14, <1>15, <1>16 DEF Wrapper

\* The statements of a macro.
InMacro == InInput \cup {"outputNew", "outputCopy", "outputFile"}

(* What a macro writes. *)
LEMMA MacroWrites ==
  ASSUME Background, NEW t \in Threads, CallInv(t), Macro(t)
  PROVE  /\ pc[t] \in InMacro /\ pc'[t] \in InMacro \cup {"user"}
         /\ call'[t] = call[t] /\ depth'[t] = depth[t] /\ dg_valtmp' = dg_valtmp
         /\ OwnWrite(t) /\ LogExtends /\ Touches(t)
<1>1. TypeOK /\ ClientTypeOK /\ IndexInv /\ ~typegrind
  BY BackgroundFacts DEF Background
<1>2. log' = log => LogExtends
  BY DEF LogExtends
<1>3. PICK from \in InMacro, to \in InMacro \cup {"user"} : Step(t, from, to)
  BY DEF Macro, InputSet, InputCopy, InputFile, OutputNew, OutputCopy, OutputFile, InMacro, InInput
<1>4. /\ pc[t] = from /\ pc'[t] = to /\ call'[t] = call[t] /\ depth'[t] = depth[t]
      /\ dg_valtmp' = dg_valtmp /\ (OwnWrite(t) /\ LogExtends => Touches(t))
  BY <1>1, <1>3, StepFacts
<1>5. dg_indextmp(t) \in OwnIndexVars(t) /\ dg_indextmp2(t) \in OwnIndexVars(t)
  BY DEF OwnIndexVars
<1>6. call[t].dst \in UserVars(t) /\ call[t].dst \in OwnVars(t) /\ call[t].dst \in Vars
  BY <1>3, <1>4, OwnFacts, Declared DEF CallInv, OwnOperands, InMacro, InInput
<1>7. OwnWrite(t) /\ LogExtends
  <2>1. CASE InputSet(t)
    <3>1. WritesShadow(call[t].dst, Split(tmp[dg_indextmp(t)])) /\ log' = log
      BY <1>6, <2>1, RequestWrites, Declared DEF InputSet
    <3>2. QED
      BY <1>1, <1>2, <1>5, <1>6, <3>1, OwnWrites, Declared, BackgroundFacts
  <2>2. CASE InputCopy(t) \/ OutputCopy(t)
    <3>1. WritesTmp(dg_indextmp2(t), tmp[dg_indextmp(t)]) /\ log' = log
      BY <2>2, RequestWrites, Declared DEF InputCopy, OutputCopy
    <3>2. QED
      BY <1>1, <1>2, <1>5, <1>6, <3>1, OwnWrites, Declared, BackgroundFacts
  <2>3. CASE InputFile(t) \/ OutputFile(t)
    BY <1>2, <2>3 DEF InputFile, OutputFile, INDEX_TO_FILE_INPUT, INDEX_TO_FILE_OUTPUT, OwnWrite
  <2>4. CASE OutputNew(t)
    <3> DEFINE b == [index1 |-> tmp[dg_indextmp2(t)], index2 |-> 0, diffs |-> OutputDiffs]
               val == dg_valtmp[Unit[t]]
    <3>1. val \in Values /\ tmp[dg_indextmp2(t)] \in Index /\ 0 \in Index
      BY <1>1, BackgroundFacts, Declared DEF ClientTypeOK
    <3>2. NewIndexOf(dg_indextmp(t), b, val) \/ NoIndexFor(dg_indextmp(t))
      BY <1>1, <2>4, <3>1, NewIndexWrites, Declared, ClientAssumption DEF OutputNew
    <3> HIDE DEF b, val
    <3>3. CASE NewIndexOf(dg_indextmp(t), b, val)
      BY <1>1, <1>5, <1>6, <3>3, OwnWrites, BackgroundFacts DEF NewIndexOf
    <3>4. CASE NoIndexFor(dg_indextmp(t))
      BY <1>1, <1>2, <1>5, <1>6, <3>4, OwnWrites, BackgroundFacts DEF NoIndexFor
    <3>5. QED
      BY <3>2, <3>3, <3>4
  <2>5. QED
    BY <2>1, <2>2, <2>3, <2>4 DEF Macro
<1>8. QED
  BY <1>3, <1>4, <1>7

(* A step of a macro preserves what is known of its thread. *)
LEMMA OwnMacro ==
  ASSUME Background, NEW t \in Threads, CallInv(t), Macro(t)
  PROVE  CallInv(t)' /\ Touches(t)
<1>1. /\ pc[t] \in InMacro /\ pc'[t] \in InMacro \cup {"user"}
      /\ call'[t] = call[t] /\ depth'[t] = depth[t] /\ Touches(t)
  BY MacroWrites
<1>2. OwnOperands(t)' /\ Brackets(t)'
  BY <1>1 DEF CallInv, OwnOperands, Brackets, InMacro, InInput, Body, InWrapper
<1>3. Arguments(t)' /\ Fetched(t)' /\ Result(t)'
  BY <1>1 DEF Arguments, Fetched, Result, InMacro, InInput, InWrapper
<1>4. QED
  BY <1>1, <1>2, <1>3 DEF CallInv

(* The new call or macro of a thread. *)
LEMMA BeginFacts ==
  ASSUME Background, NEW t \in Threads, NEW to, NEW a \in Operand,
         NEW b \in UserVars(t) \cup {NoVar}, NEW dst \in UserVars(t),
         Begin(t, to, NewCall(t, a, b, dst))
  PROVE  /\ pc[t] = "user" /\ pc'[t] = to /\ depth' = depth
         /\ call'[t].b = b /\ call'[t].dst = dst /\ (call'[t].open <=> depth[t] = 0)
         /\ call'[t].i1 = IndexOf(a) /\ call'[t].i2 = IndexOf(b)
         /\ OwnOperands(t)'
         /\ (OwnWrite(t) /\ LogExtends /\
               (\E val : dg_valtmp' = dg_valtmp \/ dg_valtmp' = [dg_valtmp EXCEPT ![Unit[t]] = val])
             => Touches(t))
<1> DEFINE c == NewCall(t, a, b, dst)
<1>1. /\ pc[t] = "user" /\ pc' = [pc EXCEPT ![t] = to] /\ call' = [call EXCEPT ![t] = c]
      /\ depth' = depth
  BY DEF Begin, Goto
<1>2. TypeOK /\ ClientTypeOK
  BY BackgroundFacts
<1>3. /\ c.b = b /\ c.dst = dst /\ (c.open <=> depth[t] = 0)
      /\ c.i1 = IndexOf(a) /\ c.i2 = IndexOf(b)
  BY DEF NewCall
<1> HIDE DEF c
<1>4. pc'[t] = to /\ call'[t] = c
  BY <1>1, <1>2 DEF ClientTypeOK
<1>5. OwnOperands(t)'
  BY <1>3, <1>4 DEF OwnOperands, IndexOf
<1>6. ASSUME OwnWrite(t), LogExtends, NEW val,
             dg_valtmp' = dg_valtmp \/ dg_valtmp' = [dg_valtmp EXCEPT ![Unit[t]] = val]
      PROVE  Touches(t)
  BY <1>1, <1>2, <1>6, OwnTouches
<1>7. QED
  BY <1>1, <1>3, <1>4, <1>5, <1>6

(* What the beginning of a macro writes. *)
LEMMA MacroBegins ==
  ASSUME Background, NEW t \in Threads, NEW v \in UserVars(t),
         InputNew(t, v) \/ OutputGet(t, v)
  PROVE  /\ OwnWrite(t) /\ LogExtends /\ Touches(t) /\ OwnOperands(t)'
         /\ pc[t] = "user" /\ pc'[t] \in {"inputSet", "outputNew"}
         /\ depth' = depth /\ (call'[t].open <=> depth[t] = 0)
<1>1. TypeOK /\ IndexInv /\ ~typegrind /\ v \in Vars /\ v \in Operand /\ NoVar \in Operand
  BY BackgroundFacts, Declared DEF Background, Operand
<1>2. dg_indextmp(t) \in OwnIndexVars(t) /\ dg_indextmp2(t) \in OwnIndexVars(t) /\ v \in OwnVars(t)
  BY OwnFacts DEF OwnIndexVars
<1>3. PICK to \in {"inputSet", "outputNew"}, a \in Operand : Begin(t, to, NewCall(t, a, NoVar, v))
  BY <1>1 DEF InputNew, OutputGet
<1>4. \E val : dg_valtmp' = [dg_valtmp EXCEPT ![Unit[t]] = val]
  BY DEF InputNew, OutputGet
<1>5. OwnWrite(t) /\ LogExtends
  <2>0. log' = log => LogExtends
    BY DEF LogExtends
  <2>1. CASE OutputGet(t, v)
    <3>1. WritesTmp(dg_indextmp2(t), Assemble(shadow[v])) /\ log' = log
      BY <1>1, <2>1, RequestWrites, Declared DEF OutputGet
    <3>2. QED
      BY <1>1, <1>2, <2>0, <3>1, OwnWrites, BackgroundFacts
  <2>2. CASE InputNew(t, v)
    <3> DEFINE b == [index1 |-> 0, index2 |-> 0, diffs |-> 0]
    <3>1. NewIndexOf(dg_indextmp(t), b, Value[t]) \/ NoIndexFor(dg_indextmp(t))
      BY <1>1, <2>2, NewIndexWrites, Declared, TapeAssumption, BackgroundFacts DEF InputNew
    <3> HIDE DEF b
    <3>2. CASE NewIndexOf(dg_indextmp(t), b, Value[t])
      BY <1>1, <1>2, <3>2, OwnWrites, BackgroundFacts DEF NewIndexOf
    <3>3. CASE NoIndexFor(dg_indextmp(t))
      BY <1>1, <1>2, <2>0, <3>3, OwnWrites, BackgroundFacts DEF NoIndexFor
    <3>4. QED
      BY <3>1, <3>2, <3>3
  <2>3. QED
    BY <2>1, <2>2
<1>6. NoVar \in UserVars(t) \cup {NoVar}
  OBVIOUS
<1>7. /\ pc[t] = "user" /\ pc'[t] = to /\ depth' = depth /\ (call'[t].open <=> depth[t] = 0)
      /\ OwnOperands(t)'
      /\ (OwnWrite(t) /\ LogExtends /\
            (\E val : dg_valtmp' = dg_valtmp \/ dg_valtmp' = [dg_valtmp EXCEPT ![Unit[t]] = val])
          => Touches(t))
  BY <1>3, <1>6, BeginFacts
<1>8. QED
  BY <1>3, <1>4, <1>5, <1>7

(* A step of the user's code preserves what is known of its thread. *)
LEMMA OwnUser ==
  ASSUME Background, NEW t \in Threads, CallInv(t), User(t)
  PROVE  CallInv(t)' /\ Touches(t)
<1>1. TypeOK /\ ClientTypeOK /\ NamesDistinct
  BY BackgroundFacts DEF Background
<1>2. ASSUME NEW a \in UserVars(t), NEW dst \in UserVars(t), NEW b \in UserVars(t) \cup {NoVar},
             CallX(t, a, b, dst)
      PROVE  CallInv(t)' /\ Touches(t)
  <2> DEFINE to == IF b = NoVar THEN "enter" ELSE "callY"
  <2>1. a \in Vars /\ a \in Operand /\ a # NoVar /\ x(t) \in Vars /\ (b # NoVar => b \in Vars)
    BY Declared, RecordingAssumption DEF Operand
  <2>2. Begin(t, to, NewCall(t, a, b, dst)) /\ Copy(x(t), a) /\ dg_valtmp' = dg_valtmp
    BY <1>2 DEF CallX
  <2> HIDE DEF to
  <2>3. /\ pc[t] = "user" /\ pc'[t] = to /\ depth' = depth
        /\ call'[t].b = b /\ (call'[t].open <=> depth[t] = 0)
        /\ call'[t].i1 = IndexOf(a) /\ call'[t].i2 = IndexOf(b)
        /\ OwnOperands(t)'
        /\ (OwnWrite(t) /\ LogExtends /\
              (\E val : dg_valtmp' = dg_valtmp \/ dg_valtmp' = [dg_valtmp EXCEPT ![Unit[t]] = val])
            => Touches(t))
    BY <2>1, <2>2, BeginFacts
  <2>4. WritesShadow(x(t), shadow[a]) /\ log' = log
    BY <2>1, <2>2, RequestWrites, Declared
  <2>5. /\ OwnWrite(t) /\ shadow'[x(t)] = shadow[a]
        /\ \A r \in Vars \ {x(t)} : shadow'[r] = shadow[r]
    BY <1>1, <2>1, <2>4, OwnWrites, OwnFacts, BackgroundFacts DEF OwnIndexVars
  <2>6. b # NoVar => shadow'[b] = shadow[b]
    BY <1>1, <2>1, <2>5, OwnFacts
  <2>7. IndexOf(a) = Assemble(shadow[a]) /\ (b # NoVar => IndexOf(b) = Assemble(shadow[b]))
    BY <2>1 DEF IndexOf
  <2>8. Arguments(t)'
    BY <2>3, <2>5, <2>6, <2>7 DEF Arguments, to
  <2>9. Brackets(t)' /\ Fetched(t)' /\ Result(t)'
    BY <2>3 DEF Brackets, Fetched, Result, Body, InWrapper, to
  <2>10. LogExtends
    BY <2>4 DEF LogExtends
  <2>11. Touches(t)
    BY <2>2, <2>3, <2>5, <2>10
  <2>12. QED
    BY <2>3, <2>8, <2>9, <2>11 DEF CallInv
<1>3. ASSUME NEW v \in UserVars(t), InputNew(t, v) \/ OutputGet(t, v)
      PROVE  CallInv(t)' /\ Touches(t)
  <2>1. /\ Touches(t) /\ OwnOperands(t)' /\ pc'[t] \in {"inputSet", "outputNew"}
        /\ depth' = depth /\ (call'[t].open <=> depth[t] = 0)
    BY <1>3, MacroBegins
  <2>2. Arguments(t)' /\ Brackets(t)' /\ Fetched(t)' /\ Result(t)'
    BY <2>1 DEF Arguments, Brackets, Fetched, Result, Body, InWrapper
  <2>3. QED
    BY <2>1, <2>2 DEF CallInv
<1>4. CASE UserDisable(t) \/ UserEnable(t) \/ ThreadEnd(t)
  <2>1. /\ pc[t] = "user" /\ pc' = pc /\ call' = call /\ dg_valtmp' = dg_valtmp
        /\ UNCHANGED <<shadow, tmp, log>>
    BY <1>4 DEF UserDisable, UserEnable, ThreadEnd, DISABLE, vars, programVars
  <2>2. PICK w : depth' = [depth EXCEPT ![t] = w]
    BY <1>4 DEF UserDisable, UserEnable, ThreadEnd
  <2>3. pc' = [pc EXCEPT ![t] = "user"] /\ OwnWrite(t) /\ LogExtends
    BY <1>1, <2>1 DEF ClientTypeOK, OwnWrite, LogExtends
  <2>4. Touches(t)
    BY <1>1, <2>1, <2>2, <2>3, OwnTouches
  <2>5. CallInv(t)'
    BY <2>1 DEF CallInv, OwnOperands, Arguments, Brackets, Fetched, Result, Body, InWrapper
  <2>6. QED
    BY <2>4, <2>5
<1>5. QED
  BY <1>2, <1>3, <1>4 DEF User

\* The invariant behind the theorem on calls.
CallsInv == IndexInv /\ BracketInv /\ \A t \in Threads : CallInv(t)

LEMMA CallsStep ==
  ASSUME ~typegrind, NamesDistinct, ~EndInBracket, CallsInv, [ClientNext]_allVars
  PROVE  CallsInv'
<1>1. Background /\ TypeOK /\ ClientTypeOK
  BY BackgroundFacts DEF Background, CallsInv
<1>2. IndexInv' /\ BracketInv'
  <2>1. [Next]_vars
    BY ClientRefinesStep DEF CallsInv, BracketInv
  <2>2. QED
    BY <2>1, BracketStep, IndexStep DEF CallsInv
<1>3. CASE ProgramEnd \/ UNCHANGED allVars
  <2>1. UNCHANGED <<pc, call, depth, shadow, tmp, log>>
    BY <1>3 DEF ProgramEnd, Finish, clientVars, allVars, vars, programVars
  <2>2. \A t \in Threads : CallInv(t)'
    BY <2>1 DEF CallsInv, CallInv, OwnOperands, Arguments, Brackets, Fetched, Result, Deserved, Recorded
  <2>3. QED
    BY <1>2, <2>2 DEF CallsInv
<1>4. ASSUME NEW t \in Threads, User(t) \/ Wrapper(t) \/ Macro(t)
      PROVE  \A s \in Threads : CallInv(s)'
  <2>1. CallInv(t)
    BY DEF CallsInv
  <2>2. CallInv(t)' /\ Touches(t)
    BY <1>1, <1>4, <2>1, OwnUser, OwnWrapper, OwnMacro
  <2>3. ASSUME NEW s \in Threads, s # t PROVE CallInv(s)'
    <3>1. CallInv(s)
      BY DEF CallsInv
    <3>2. QED
      BY <1>1, <2>2, <2>3, <3>1, OthersKept
  <2>4. QED
    BY <2>2, <2>3
<1>5. QED
  BY <1>2, <1>3, <1>4 DEF ClientNext, CallsInv

LEMMA CallsInit == ClientInit => CallsInv
<1> SUFFICES ASSUME ClientInit PROVE CallsInv
  OBVIOUS
<1>1. IndexInv /\ BracketInv
  BY BracketInit, IndexInit DEF ClientInit
<1>2. ASSUME NEW t \in Threads PROVE CallInv(t)
  <2>1. pc[t] = "user"
    BY DEF ClientInit
  <2>2. QED
    BY <2>1 DEF CallInv, OwnOperands, Arguments, Brackets, Fetched, Result, Body, InWrapper
<1>3. QED
  BY <1>1, <1>2 DEF CallsInv

(***************************************************************************)
(* Whatever other threads do between the statements of a wrapper of        *)
(* gen_replace_math.py, and whether the wrapper's own derivative           *)
(* computation calls wrapped functions or not, the value that a call       *)
(* returns has the index of a statement with the partial derivatives of    *)
(* this call and the indices that its arguments had when it was made, or   *)
(* no index if they were passive.  In a bracket of the thread's own it has *)
(* no index or that of an argument the library handed through.  No thread  *)
(* may end in a bracket, and the indices must be those of a tape (no       *)
(* --typegrind=yes).                                                       *)
(***************************************************************************)
THEOREM CallsCorrect ==
  ~typegrind /\ NamesDistinct /\ ~EndInBracket => (ClientSpec => []CallsRecorded)
<1> SUFFICES ASSUME ~typegrind, NamesDistinct, ~EndInBracket
             PROVE  ClientSpec => []CallsRecorded
  OBVIOUS
<1>1. CallsInv /\ [ClientNext]_allVars => CallsInv'
  BY CallsStep
<1>2. CallsInv => CallsRecorded
  BY DEF CallsInv, CallInv, Result, Deserved, CallsRecorded
<1>3. QED
  BY <1>1, <1>2, CallsInit, PTL DEF ClientSpec

-----------------------------------------------------------------------------
(* The macros.  The indices that threads are declaring are pairwise        *)
(* different, since each was new when its thread asked for it.             *)

MacroInv(t) == InputInv(t) /\ OutputInv(t)

\* A step of thread t that is not one of a macro, nor the beginning of one.
NoMacroStep(t) == pc'[t] \notin InMacro /\ dg_input_indices' = dg_input_indices

\* The index that t is declaring is the same as before, or new.
KeepsIndex(t) ==
  pc'[t] \in InInput /\ call'[t].open =>
    \/ pc[t] \in InInput /\ call[t].open /\ tmp'[dg_indextmp(t)] = tmp[dg_indextmp(t)]
    \/ tmp'[dg_indextmp(t)] = nextindex

\* What the step adds to the file of inputs.
AddsInput(t) ==
  \/ dg_input_indices' = dg_input_indices
  \/ /\ pc[t] = "inputFile"
     /\ dg_input_indices' = Append(dg_input_indices, tmp[dg_indextmp2(t)])

(* Wrappers, calls and brackets have nothing to do with macros. *)
LEMMA WrapperQuiet ==
  ASSUME TypeOK, ClientTypeOK, NEW t \in Threads, Wrapper(t)
  PROVE  NoMacroStep(t)
<1>1. pc'[t] \notin InMacro
  BY DEF Wrapper, CallY, Enter, Original, GetX, GetY, PDiff, InnerEnter, InnerOriginal, InnerLeave,
         Leave, NewIndex, SetIndex, Return, Step, Goto, ClientTypeOK, InMacro, InInput
<1>2. dg_input_indices' = dg_input_indices
  BY DEF Wrapper, CallY, Enter, Original, GetX, GetY, PDiff, InnerEnter, InnerOriginal, InnerLeave,
         Leave, NewIndex, SetIndex, Return, Copy, DISABLE, Operation, GET_INDEX, SET_INDEX, NEW_INDEX
<1>3. QED
  BY <1>1, <1>2 DEF NoMacroStep

(* Outside of macros there is nothing to show. *)
LEMMA QuietKept ==
  ASSUME NEW t \in Threads, NoMacroStep(t)
  PROVE  MacroInv(t)' /\ KeepsIndex(t) /\ AddsInput(t)
  BY DEF NoMacroStep, MacroInv, InputInv, OutputInv, KeepsIndex, AddsInput, InMacro, InInput

(* What is known of recorded statements remains known. *)
LEMMA RecordedStays ==
  ASSUME LogExtends, NEW i, NEW b, NEW val, Recorded(i, b, val)
  PROVE  RecordedNow(i, b, val)
  BY DEF LogExtends, Recorded, RecordedNow

(* The beginning of a macro. *)
LEMMA MacroBeginKept ==
  ASSUME Background, NEW t \in Threads, NEW v \in UserVars(t), InputNew(t, v) \/ OutputGet(t, v)
  PROVE  MacroInv(t)' /\ KeepsIndex(t) /\ AddsInput(t)
<1>1. TypeOK /\ ClientTypeOK /\ IndexInv /\ ~typegrind /\ v \in Vars /\ v \in Operand /\ NoVar \in Operand
  BY BackgroundFacts, Declared DEF Background, Operand
<1>2. NoVar \in UserVars(t) \cup {NoVar} /\ v # NoVar
  BY OwnFacts
<1>3. dg_indextmp(t) \in OwnIndexVars(t) /\ dg_indextmp2(t) \in OwnIndexVars(t) /\ v \in OwnVars(t)
  BY OwnFacts DEF OwnIndexVars
<1>4. CASE InputNew(t, v)
  <2> DEFINE i == tmp'[dg_indextmp(t)]
  <2>1. /\ Begin(t, "inputSet", NewCall(t, NoVar, NoVar, v))
        /\ NEW_INDEX_NOACTIVITYANALYSIS(t, dg_indextmp(t), 0, 0, 0, Value[t])
    BY <1>4 DEF InputNew
  <2>2. pc[t] = "user" /\ pc'[t] = "inputSet" /\ (call'[t].open <=> depth[t] = 0)
    BY <1>1, <1>2, <2>1, BeginFacts
  <2>3. dg_disable[t] = depth[t]
    BY <2>2, BackgroundFacts, OpenAt
  <2>4. IF dg_disable[t] = 0 THEN NewIndexOf(dg_indextmp(t), ZeroBlock, Value[t])
                             ELSE NoIndexFor(dg_indextmp(t))
    BY <1>1, <2>1, NewIndexWrites, Declared, TapeAssumption, BackgroundFacts DEF ZeroBlock
  <2>5. dg_input_indices' = dg_input_indices
    BY <2>1 DEF NEW_INDEX_NOACTIVITYANALYSIS
  <2>6. CASE call'[t].open
    <3>1. NewIndexOf(dg_indextmp(t), ZeroBlock, Value[t])
      BY <2>2, <2>3, <2>4, <2>6
    <3>2. i = nextindex /\ RecordedNow(i, ZeroBlock, Value[t])
      BY <1>1, <1>3, <3>1, OwnWrites, BackgroundFacts DEF NewIndexOf
    <3>3. ASSUME NEW k \in DOMAIN dg_input_indices' PROVE dg_input_indices'[k] # i
      <4>1. dg_input_indices \in Seq(Index) /\ nextindex \in Nat
        BY <1>1 DEF TypeOK
      <4>2. k \in 1 .. Len(dg_input_indices) /\ dg_input_indices[k] \in Index
        BY <2>5, <4>1
      <4>3. dg_input_indices[k] \in Int
        BY <4>2, IndexFacts DEF Index
      <4>4. dg_input_indices[k] < nextindex
        BY <1>1, <4>2 DEF IndexInv, FileIndices, Precedes
      <4>5. QED
        BY <2>5, <3>2, <4>1, <4>3, <4>4
    <3>4. MacroInv(t)'
      BY <2>2, <2>6, <3>2, <3>3 DEF MacroInv, InputInv, OutputInv, Recorded, RecordedNow
    <3>5. QED
      BY <2>5, <3>2, <3>4 DEF KeepsIndex, AddsInput
  <2>7. CASE ~call'[t].open
    <3>1. NoIndexFor(dg_indextmp(t))
      BY <2>2, <2>3, <2>4, <2>7
    <3>2. i = 0
      BY <1>1, <1>3, <3>1, OwnWrites, BackgroundFacts DEF NoIndexFor
    <3>3. MacroInv(t)'
      BY <2>2, <2>7, <3>2 DEF MacroInv, InputInv, OutputInv
    <3>4. QED
      BY <2>5, <2>7, <3>3 DEF KeepsIndex, AddsInput
  <2>8. QED
    BY <2>6, <2>7
<1>5. CASE OutputGet(t, v)
  <2>1. /\ Begin(t, "outputNew", NewCall(t, v, NoVar, v)) /\ GET_INDEX(dg_indextmp2(t), v)
        /\ dg_valtmp' = [dg_valtmp EXCEPT ![Unit[t]] = Value[t]]
    BY <1>5 DEF OutputGet
  <2>2. pc'[t] = "outputNew" /\ call'[t].i1 = IndexOf(v) /\ IndexOf(v) = Assemble(shadow[v])
    BY <1>1, <1>2, <2>1, BeginFacts DEF IndexOf
  <2>3. WritesTmp(dg_indextmp2(t), Assemble(shadow[v]))
    BY <1>1, <2>1, RequestWrites, Declared
  <2>4. tmp'[dg_indextmp2(t)] = Assemble(shadow[v])
    BY <1>1, <1>3, <2>3, OwnWrites, BackgroundFacts
  <2>5. dg_valtmp'[Unit[t]] = Value[t] /\ dg_input_indices' = dg_input_indices
    BY <1>1, <2>1, Declared DEF ClientTypeOK, GET_INDEX
  <2>6. MacroInv(t)'
    BY <2>2, <2>4, <2>5 DEF MacroInv, InputInv, OutputInv, InInput
  <2>7. QED
    BY <2>2, <2>5, <2>6 DEF KeepsIndex, AddsInput, InInput
<1>6. QED
  BY <1>4, <1>5

(* The steps of a macro. *)
LEMMA MacroKept ==
  ASSUME Background, NEW t \in Threads, CallInv(t), MacroInv(t), Macro(t)
  PROVE  MacroInv(t)' /\ KeepsIndex(t) /\ AddsInput(t)
<1>1. TypeOK /\ ClientTypeOK /\ IndexInv /\ ~typegrind
  BY BackgroundFacts DEF Background
<1>2. LogExtends /\ call'[t] = call[t] /\ depth'[t] = depth[t] /\ dg_valtmp' = dg_valtmp
      /\ pc[t] \in InMacro
  BY MacroWrites
<1>3. dg_indextmp(t) \in OwnIndexVars(t) /\ dg_indextmp2(t) \in OwnIndexVars(t)
  BY DEF OwnIndexVars
<1>4. call[t].dst \in OwnVars(t) /\ call[t].dst \in Vars /\ (call[t].open <=> depth[t] = 0)
  BY <1>2, OwnFacts, Declared DEF CallInv, OwnOperands, Brackets, InMacro, InInput
<1>5. \A i, b, val : Recorded(i, b, val) => RecordedNow(i, b, val)
  BY <1>2, RecordedStays
<1>6. InputInv(t) /\ OutputInv(t)
  BY DEF MacroInv
<1> DEFINE i == tmp[dg_indextmp(t)]
           b == [index1 |-> call[t].i1, index2 |-> 0, diffs |-> OutputDiffs]
<1>7. CASE InputSet(t)
  <2>1. Step(t, "inputSet", "inputCopy") /\ SET_INDEX(dg_indextmp(t), call[t].dst)
    BY <1>7 DEF InputSet
  <2>2. pc[t] = "inputSet" /\ pc'[t] = "inputCopy"
    BY <1>1, <2>1, StepFacts
  <2>3. WritesShadow(call[t].dst, Split(i)) /\ log' = log
    BY <1>4, <2>1, RequestWrites, Declared
  <2>4. tmp' = tmp /\ shadow'[call[t].dst] = Split(i)
    BY <1>1, <1>3, <1>4, <2>3, OwnWrites, BackgroundFacts, Declared
  <2>5. Assemble(shadow'[call[t].dst]) = i
    BY <2>4, BackgroundFacts, Declared
  <2>6. dg_input_indices' = dg_input_indices
    BY <2>1 DEF SET_INDEX
  <2>7. MacroInv(t)'
    BY <1>2, <1>6, <2>2, <2>3, <2>4, <2>5, <2>6 DEF MacroInv, InputInv, OutputInv, InInput, Recorded
  <2>8. QED
    BY <1>2, <2>2, <2>4, <2>6, <2>7 DEF KeepsIndex, AddsInput, InInput
<1>8. CASE InputCopy(t)
  <2>1. Step(t, "inputCopy", "inputFile") /\ CopyIndex(dg_indextmp2(t), dg_indextmp(t))
    BY <1>8 DEF InputCopy
  <2>2. pc[t] = "inputCopy" /\ pc'[t] = "inputFile"
    BY <1>1, <2>1, StepFacts
  <2>3. WritesTmp(dg_indextmp2(t), i) /\ log' = log
    BY <2>1, RequestWrites, Declared
  <2>4. shadow' = shadow /\ tmp'[dg_indextmp2(t)] = i /\ tmp'[dg_indextmp(t)] = i
    BY <1>1, <1>3, <1>4, <2>3, OwnWrites, OwnFacts, BackgroundFacts, Declared
  <2>5. dg_input_indices' = dg_input_indices
    BY <2>1 DEF CopyIndex
  <2>6. MacroInv(t)'
    BY <1>2, <1>6, <2>2, <2>3, <2>4, <2>5 DEF MacroInv, InputInv, OutputInv, InInput, Recorded
  <2>7. QED
    BY <1>2, <2>2, <2>4, <2>5, <2>6 DEF KeepsIndex, AddsInput, InInput
<1>9. CASE InputFile(t)
  <2>1. /\ Step(t, "inputFile", "user")
        /\ dg_input_indices' = Append(dg_input_indices, tmp[dg_indextmp2(t)])
    BY <1>9 DEF InputFile, INDEX_TO_FILE_INPUT
  <2>2. pc[t] = "inputFile" /\ pc'[t] = "user"
    BY <1>1, <2>1, StepFacts
  <2>3. QED
    BY <2>1, <2>2 DEF MacroInv, InputInv, OutputInv, KeepsIndex, AddsInput, InInput
<1>10. CASE OutputNew(t)
  <2>1. /\ Step(t, "outputNew", "outputCopy")
        /\ NEW_INDEX_NOACTIVITYANALYSIS(t, dg_indextmp(t), tmp[dg_indextmp2(t)], 0,
                                        OutputDiffs, dg_valtmp[Unit[t]])
    BY <1>10 DEF OutputNew
  <2>2. pc[t] = "outputNew" /\ pc'[t] = "outputCopy"
    BY <1>1, <2>1, StepFacts
  <2>3. tmp[dg_indextmp2(t)] = call[t].i1 /\ dg_valtmp[Unit[t]] = Value[t]
    BY <1>6, <2>2 DEF OutputInv
  <2>4. call[t].open => dg_disable[t] = 0
    BY <1>4, <2>2, BackgroundFacts DEF Open
  <2>5. tmp[dg_indextmp2(t)] \in Index /\ 0 \in Index /\ OutputDiffs \in Diffs
    BY BackgroundFacts, Declared, ClientAssumption
  <2>6. call[t].open => NewIndexOf(dg_indextmp(t), b, Value[t])
    BY <1>1, <2>1, <2>3, <2>4, <2>5, NewIndexWrites, Declared
  <2>7. call[t].open => RecordedNow(tmp'[dg_indextmp(t)], b, Value[t])
    <3> HIDE DEF b
    <3>1. QED
      BY <1>1, <1>3, <1>4, <2>6, OwnWrites, BackgroundFacts DEF NewIndexOf
  <2>8. dg_input_indices' = dg_input_indices
    BY <2>1 DEF NEW_INDEX_NOACTIVITYANALYSIS
  <2>9. MacroInv(t)'
    BY <1>2, <2>2, <2>7 DEF MacroInv, InputInv, OutputInv, InInput, Recorded, RecordedNow
  <2>10. QED
    BY <2>2, <2>8, <2>9 DEF KeepsIndex, AddsInput, InInput
<1>11. CASE OutputCopy(t)
  <2>1. Step(t, "outputCopy", "outputFile") /\ CopyIndex(dg_indextmp2(t), dg_indextmp(t))
    BY <1>11 DEF OutputCopy
  <2>2. pc[t] = "outputCopy" /\ pc'[t] = "outputFile"
    BY <1>1, <2>1, StepFacts
  <2>3. WritesTmp(dg_indextmp2(t), i) /\ log' = log
    BY <2>1, RequestWrites, Declared
  <2>4. tmp'[dg_indextmp2(t)] = i
    BY <1>1, <1>3, <1>4, <2>3, OwnWrites, BackgroundFacts, Declared
  <2>5. dg_input_indices' = dg_input_indices
    BY <2>1 DEF CopyIndex
  <2>6. call[t].open => Recorded(i, b, Value[t])
    BY <1>6, <2>2 DEF OutputInv
  <2>7. MacroInv(t)'
    BY <1>2, <2>2, <2>3, <2>4, <2>6 DEF MacroInv, InputInv, OutputInv, InInput, Recorded
  <2>8. QED
    BY <2>2, <2>5, <2>7 DEF KeepsIndex, AddsInput, InInput
<1>12. CASE OutputFile(t)
  <2>1. Step(t, "outputFile", "user") /\ dg_input_indices' = dg_input_indices
    BY <1>12 DEF OutputFile, INDEX_TO_FILE_OUTPUT
  <2>2. pc'[t] = "user"
    BY <1>1, <2>1, StepFacts
  <2>3. QED
    BY <2>1, <2>2 DEF MacroInv, InputInv, OutputInv, KeepsIndex, AddsInput, InInput
<1>13. QED
  BY <1>7, <1>8, <1>9, <1>10, <1>11, <1>12 DEF Macro

(* A step of its own thread preserves what is known of a macro. *)
LEMMA OwnDeclaration ==
  ASSUME Background, NEW t \in Threads, CallInv(t), MacroInv(t), User(t) \/ Wrapper(t) \/ Macro(t)
  PROVE  MacroInv(t)' /\ KeepsIndex(t) /\ AddsInput(t)
<1>1. TypeOK /\ ClientTypeOK
  BY BackgroundFacts
<1>2. CASE Wrapper(t)
  BY <1>1, <1>2, WrapperQuiet, QuietKept
<1>3. CASE Macro(t)
  BY <1>3, MacroKept
<1>4. CASE User(t)
  <2>1. ASSUME NEW v \in UserVars(t), InputNew(t, v) \/ OutputGet(t, v)
        PROVE  MacroInv(t)' /\ KeepsIndex(t) /\ AddsInput(t)
    BY <2>1, MacroBeginKept
  <2>2. CASE \E a, dst \in UserVars(t), r \in UserVars(t) \cup {NoVar} : CallX(t, a, r, dst)
    <3>1. pc'[t] \in {"enter", "callY"} /\ dg_input_indices' = dg_input_indices
      BY <1>1, <2>2 DEF CallX, Begin, Goto, Copy, ClientTypeOK
    <3>2. QED
      BY <3>1, QuietKept DEF NoMacroStep, InMacro, InInput
  <2>3. CASE UserDisable(t) \/ UserEnable(t) \/ ThreadEnd(t)
    <3>1. pc'[t] = "user" /\ dg_input_indices' = dg_input_indices
      BY <2>3 DEF UserDisable, UserEnable, ThreadEnd, DISABLE, vars, programVars
    <3>2. QED
      BY <3>1, QuietKept DEF NoMacroStep, InMacro, InInput
  <2>4. QED
    BY <1>4, <2>1, <2>2, <2>3 DEF User
<1>5. QED
  BY <1>2, <1>3, <1>4

\* The invariant behind the theorem on macros.
MacrosInv == CallsInv /\ InputsDiffer /\ \A t \in Threads : MacroInv(t)

(* An index that is being declared is positive and has been assigned. *)
LEMMA DeclaredIndex ==
  ASSUME MacrosInv, NEW t \in Threads, pc[t] \in InInput, call[t].open
  PROVE  tmp[dg_indextmp(t)] \in 1 .. nextindex - 1
<1>1. tmp[dg_indextmp(t)] \in DOMAIN log
  BY DEF MacrosInv, MacroInv, InputInv, Recorded
<1>2. log \in Seq(Entry) /\ Len(log) = nextindex - 1
  BY DEF MacrosInv, CallsInv, IndexInv, TypeOK, LogLength
<1>3. QED
  BY <1>1, <1>2

(* A step of another thread preserves what is known of a macro. *)
LEMMA OthersDeclaration ==
  ASSUME OneThreadPerUnit, MacrosInv, NEW s \in Threads, NEW t \in Threads, s # t,
         Touches(s), AddsInput(s)
  PROVE  MacroInv(t)'
<1>1. pc'[t] = pc[t] /\ call'[t] = call[t]
  BY DEF Touches
<1>2. TypeOK /\ ClientTypeOK /\ CallInv(t) /\ MacroInv(t) /\ MacroInv(s)
  BY DEF MacrosInv, CallsInv, BracketInv, ClientInv
<1>3. tmp'[dg_indextmp(t)] = tmp[dg_indextmp(t)] /\ tmp'[dg_indextmp2(t)] = tmp[dg_indextmp2(t)]
  BY Declared, OwnDisjoint DEF Touches
<1>4. dg_valtmp'[Unit[t]] = dg_valtmp[Unit[t]]
  BY Declared DEF Touches, OneThreadPerUnit
<1>5. pc[t] # "user" => shadow'[call[t].dst] = shadow[call[t].dst]
  BY <1>2, OwnFacts, OwnDisjoint DEF Touches, CallInv, OwnOperands
<1>6. \A i, b, val : Recorded(i, b, val) => RecordedNow(i, b, val)
  BY RecordedStays DEF Touches
<1>7. OutputInv(t)'
  BY <1>1, <1>2, <1>3, <1>4, <1>6 DEF MacroInv, OutputInv, Recorded, RecordedNow
<1> DEFINE i == tmp[dg_indextmp(t)]
           j == tmp[dg_indextmp2(s)]
<1>8. ASSUME pc[t] \in InInput, call[t].open, NEW k \in DOMAIN dg_input_indices'
      PROVE  dg_input_indices'[k] # i
  <2>1. dg_input_indices \in Seq(Index) /\ i \in Index /\ j \in Index
    BY <1>2, Declared DEF TypeOK
  <2>2. \A m \in DOMAIN dg_input_indices : dg_input_indices[m] # i
    BY <1>2, <1>8 DEF MacroInv, InputInv
  <2>3. CASE dg_input_indices' = dg_input_indices
    BY <1>8, <2>2, <2>3
  <2>4. CASE pc[s] = "inputFile" /\ dg_input_indices' = Append(dg_input_indices, j)
    <3>1. j = tmp[dg_indextmp(s)] /\ pc[s] \in InInput
      BY <1>2, <2>4 DEF MacroInv, InputInv, InInput
    <3>2. j # i
      <4>1. CASE call[s].open
        BY <1>8, <3>1, <4>1 DEF MacrosInv, InputsDiffer
      <4>2. CASE ~call[s].open
        <5>1. j = 0
          BY <1>2, <3>1, <4>2 DEF MacroInv, InputInv
        <5>2. i \in 1 .. nextindex - 1
          BY <1>8, DeclaredIndex
        <5>3. QED
          BY <5>1, <5>2
      <4>3. QED
        BY <4>1, <4>2
    <3>3. CASE k = Len(dg_input_indices) + 1
      BY <2>1, <2>4, <3>2, <3>3
    <3>4. CASE k # Len(dg_input_indices) + 1
      <4>1. k \in DOMAIN dg_input_indices /\ dg_input_indices'[k] = dg_input_indices[k]
        BY <1>8, <2>1, <2>4, <3>4
      <4>2. QED
        BY <2>2, <4>1
    <3>5. QED
      BY <3>3, <3>4
  <2>5. QED
    BY <2>3, <2>4 DEF AddsInput
<1>9. InputInv(t)'
  <2>1. InputInv(t)
    BY <1>2 DEF MacroInv
  <2>2. pc[t] \in InInput /\ call[t].open => RecordedNow(i, ZeroBlock, Value[t])
    BY <1>6, <2>1 DEF InputInv
  <2>3. QED
    BY <1>1, <1>3, <1>5, <1>8, <2>1, <2>2 DEF InputInv, Recorded, RecordedNow, InInput
<1>10. QED
  BY <1>7, <1>9 DEF MacroInv

(* The indices that are being declared remain different. *)
LEMMA DifferKept ==
  ASSUME OneThreadPerUnit, MacrosInv, NEW t \in Threads, Touches(t), KeepsIndex(t)
  PROVE  InputsDiffer'
<1>1. ASSUME NEW s \in Threads, s # t
      PROVE  pc'[s] = pc[s] /\ call'[s] = call[s] /\ tmp'[dg_indextmp(s)] = tmp[dg_indextmp(s)]
  <2>1. dg_indextmp(s) \in IndexVars \ OwnIndexVars(t)
    BY <1>1, Declared, OwnDisjoint
  <2>2. QED
    BY <1>1, <2>1 DEF Touches
<1>2. ASSUME NEW s \in Threads, s # t, pc'[s] \in InInput, pc'[t] \in InInput,
             call'[s].open, call'[t].open
      PROVE  tmp'[dg_indextmp(s)] # tmp'[dg_indextmp(t)]
  <2>1. pc[s] \in InInput /\ call[s].open /\ tmp'[dg_indextmp(s)] = tmp[dg_indextmp(s)]
    BY <1>1, <1>2
  <2>2. CASE pc[t] \in InInput /\ call[t].open /\ tmp'[dg_indextmp(t)] = tmp[dg_indextmp(t)]
    BY <1>2, <2>1, <2>2 DEF MacrosInv, InputsDiffer
  <2>3. CASE tmp'[dg_indextmp(t)] = nextindex
    <3>1. tmp[dg_indextmp(s)] \in 1 .. nextindex - 1 /\ nextindex \in Nat
      BY <2>1, DeclaredIndex DEF MacrosInv, CallsInv, IndexInv, TypeOK
    <3>2. QED
      BY <2>1, <2>3, <3>1
  <2>4. QED
    BY <1>2, <2>2, <2>3 DEF KeepsIndex
<1>3. ASSUME NEW r \in Threads, NEW s \in Threads, r # s, pc'[r] \in InInput, pc'[s] \in InInput,
             call'[r].open, call'[s].open
      PROVE  tmp'[dg_indextmp(r)] # tmp'[dg_indextmp(s)]
  <2>1. CASE r = t \/ s = t
    BY <1>2, <1>3, <2>1
  <2>2. CASE r # t /\ s # t
    <3>1. /\ pc[r] \in InInput /\ call[r].open /\ tmp'[dg_indextmp(r)] = tmp[dg_indextmp(r)]
          /\ pc[s] \in InInput /\ call[s].open /\ tmp'[dg_indextmp(s)] = tmp[dg_indextmp(s)]
      BY <1>1, <1>3, <2>2
    <3>2. QED
      BY <1>3, <3>1 DEF MacrosInv, InputsDiffer
  <2>3. QED
    BY <2>1, <2>2
<1>4. QED
  BY <1>3 DEF InputsDiffer

LEMMA MacrosStep ==
  ASSUME ~typegrind, NamesDistinct, ~EndInBracket, OneThreadPerUnit, MacrosInv, [ClientNext]_allVars
  PROVE  MacrosInv'
<1>1. Background /\ CallsInv /\ \A t \in Threads : CallInv(t) /\ MacroInv(t)
  BY DEF Background, CallsInv, MacrosInv
<1>2. CallsInv'
  BY <1>1, CallsStep
<1>3. CASE ProgramEnd \/ UNCHANGED allVars
  <2>1. UNCHANGED <<pc, call, depth, shadow, tmp, log, dg_input_indices, dg_valtmp>>
    BY <1>3 DEF ProgramEnd, Finish, clientVars, allVars, vars, programVars
  <2>2. \A t \in Threads : MacroInv(t)'
    BY <1>1, <2>1 DEF MacroInv, InputInv, OutputInv, Recorded
  <2>3. InputsDiffer'
    BY <2>1 DEF MacrosInv, InputsDiffer
  <2>4. QED
    BY <1>2, <2>2, <2>3 DEF MacrosInv
<1>4. ASSUME NEW t \in Threads, User(t) \/ Wrapper(t) \/ Macro(t)
      PROVE  InputsDiffer' /\ \A s \in Threads : MacroInv(s)'
  <2>1. Touches(t)
    BY <1>1, <1>4, OwnUser, OwnWrapper, OwnMacro
  <2>2. MacroInv(t)' /\ KeepsIndex(t) /\ AddsInput(t)
    BY <1>1, <1>4, OwnDeclaration
  <2>3. \A s \in Threads \ {t} : MacroInv(s)'
    BY <2>1, <2>2, OthersDeclaration
  <2>4. QED
    BY <2>1, <2>2, <2>3, DifferKept
<1>5. QED
  BY <1>2, <1>3, <1>4 DEF ClientNext, MacrosInv

(* A macro writes the index to the file that its invariant describes. *)
LEMMA DeclaresStep ==
  ASSUME ~typegrind, NamesDistinct, MacrosInv, [ClientNext]_allVars, NEW t \in Threads,
         call[t].open, pc[t] # pc'[t]
  PROVE  Declares(t)
<1>1. Background /\ TypeOK /\ ClientTypeOK /\ InputInv(t) /\ OutputInv(t)
      /\ \A s \in Threads : CallInv(s)
  BY BackgroundFacts DEF Background, CallsInv, MacrosInv, MacroInv
<1>2. User(t) \/ Wrapper(t) \/ Macro(t)
  <2>1. CASE ProgramEnd \/ UNCHANGED allVars
    BY <2>1 DEF ProgramEnd, clientVars, allVars
  <2>2. ASSUME NEW s \in Threads, s # t, User(s) \/ Wrapper(s) \/ Macro(s)
        PROVE  FALSE
    BY <1>1, <2>2, OwnUser, OwnWrapper, OwnMacro DEF Touches
  <2>3. QED
    BY <2>1, <2>2 DEF ClientNext
<1>3. ASSUME pc[t] = "inputFile"
      PROVE  LET i == dg_input_indices'[Len(dg_input_indices')] IN
             /\ Recorded(i, ZeroBlock, Value[t])
             /\ i = Assemble(shadow[call[t].dst])
             /\ \A k \in DOMAIN dg_input_indices : dg_input_indices[k] # i
  <2>1. InputFile(t)
    BY <1>2, <1>3 DEF User, CallX, InputNew, OutputGet, Begin, UserDisable, UserEnable, ThreadEnd,
         Wrapper, CallY, Enter, Original, GetX, GetY, PDiff, InnerEnter, InnerOriginal, InnerLeave,
         Leave, NewIndex, SetIndex, Return, Macro, InputSet, InputCopy, OutputNew, OutputCopy,
         OutputFile, Step, Goto
  <2>2. dg_input_indices' = Append(dg_input_indices, tmp[dg_indextmp2(t)])
    BY <2>1 DEF InputFile, INDEX_TO_FILE_INPUT
  <2>3. dg_input_indices \in Seq(Index) /\ tmp[dg_indextmp2(t)] \in Index
    BY <1>1, Declared DEF TypeOK
  <2>4. dg_input_indices'[Len(dg_input_indices')] = tmp[dg_indextmp2(t)]
    BY <2>2, <2>3
  <2>5. QED
    BY <1>1, <1>3, <2>4 DEF InputInv, InInput
<1>4. ASSUME pc[t] = "outputFile"
      PROVE  Recorded(dg_output_indices'[Len(dg_output_indices')],
                      [index1 |-> call[t].i1, index2 |-> 0, diffs |-> OutputDiffs], Value[t])
  <2>1. OutputFile(t)
    BY <1>2, <1>4 DEF User, CallX, InputNew, OutputGet, Begin, UserDisable, UserEnable, ThreadEnd,
         Wrapper, CallY, Enter, Original, GetX, GetY, PDiff, InnerEnter, InnerOriginal, InnerLeave,
         Leave, NewIndex, SetIndex, Return, Macro, InputSet, InputCopy, InputFile, OutputNew,
         OutputCopy, Step, Goto
  <2>2. dg_output_indices' = Append(dg_output_indices, tmp[dg_indextmp2(t)])
    BY <2>1 DEF OutputFile, INDEX_TO_FILE_OUTPUT
  <2>3. dg_output_indices \in Seq(Index) /\ tmp[dg_indextmp2(t)] \in Index
    BY <1>1, Declared DEF TypeOK
  <2>4. dg_output_indices'[Len(dg_output_indices')] = tmp[dg_indextmp2(t)]
    BY <2>2, <2>3
  <2>5. QED
    BY <1>1, <1>4, <2>4 DEF OutputInv
<1>5. QED
  BY <1>3, <1>4 DEF Declares

(***************************************************************************)
(* As long as the macros DG_INPUTF and DG_OUTPUTF of a translation unit    *)
(* are used by one thread only, so that their static variables are not     *)
(* shared, each declares its own variable: the index that DG_INPUTF writes *)
(* to its file is a new one, the variable's and nobody else's, and the one *)
(* that DG_OUTPUTF writes is that of a statement that copies the variable, *)
(* however the requests of the threads interleave.                         *)
(***************************************************************************)
THEOREM DeclarationsCorrect ==
  ~typegrind /\ NamesDistinct /\ ~EndInBracket /\ OneThreadPerUnit =>
    (ClientSpec => DeclaresOwnVariable)
<1> SUFFICES ASSUME ~typegrind, NamesDistinct, ~EndInBracket, OneThreadPerUnit
             PROVE  ClientSpec => DeclaresOwnVariable
  OBVIOUS
<1>1. ClientInit => MacrosInv
  <2> SUFFICES ASSUME ClientInit PROVE MacrosInv
    OBVIOUS
  <2>1. CallsInv /\ \A t \in Threads : pc[t] = "user"
    BY CallsInit DEF ClientInit
  <2>2. QED
    BY <2>1 DEF MacrosInv, InputsDiffer, MacroInv, InputInv, OutputInv, InInput
<1>2. MacrosInv /\ [ClientNext]_allVars => MacrosInv'
  BY MacrosStep
<1>3. MacrosInv /\ [ClientNext]_allVars =>
        [\A t \in Threads : call[t].open /\ pc[t] # pc'[t] => Declares(t)]_allVars
  BY DeclaresStep
<1>4. QED
  BY <1>1, <1>2, <1>3, PTL DEF ClientSpec, DeclaresOwnVariable
=============================================================================
