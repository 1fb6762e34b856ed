----------------------------- MODULE Recording ------------------------------
(***************************************************************************)
(* A recording run of Derivgrind (--record=<directory>): the instrumented  *)
(* program, its client requests and the debugger, all adding statements to *)
(* the tape of module Tape.                                                *)
(*                                                                         *)
(* Valgrind runs one thread at a time and switches threads only between    *)
(* superblocks, so a statement of the program together with its shadow     *)
(* statements is one step, and so is a client request.  The exception is a *)
(* statement whose index is listed in --record-stop: it calls the          *)
(* debugger in the middle of tapeAddStatement_noActivityAnalysis, and the  *)
(* debugger's monitor commands may add statements of their own before the  *)
(* interrupted one continues.  The interrupted calls form the stack        *)
(* frames.                                                                 *)
(***************************************************************************)
EXTENDS Tape

CONSTANTS
  Threads,           \* thread ids of the program
  Vars,              \* floating-point variables of the program
  NoVar,             \* an operand that is a constant
  IndexVars,         \* 8-byte variables in which client code keeps indices
  MarkWhileStopped,  \* may the user give monitor mark at a --record-stop?
  MaxDisable,        \* bound on the nesting of DG_DISABLE brackets
  MaxFileEntries     \* bound on the number of declared inputs and outputs

ASSUME RecordingAssumption ==
  /\ IndexVars \cap Vars = {}
  /\ NoVar \notin Vars
  /\ MarkWhileStopped \in BOOLEAN
  /\ MaxDisable \in Nat
  /\ MaxFileEntries \in Nat

VARIABLES
  shadow,            \* the two shadow layers of every variable
  tmp,               \* the 8-byte indices in the variables of the client code
  dg_disable,        \* per thread, the counter of DG_DISABLE
  frames,            \* calls interrupted by --record-stop, innermost last
  dg_input_indices,  \* contents of the file dg-input-indices
  dg_output_indices, \* contents of the file dg-output-indices
  log                \* history: the statements that were assigned 1, 2, ...

programVars == <<shadow, tmp, dg_disable, dg_input_indices, dg_output_indices>>

vars == <<tapeVars, programVars, frames, log>>

Operand == Vars \cup {NoVar}

Half == 0 .. HALF - 1

(***************************************************************************)
(* A statement to be recorded: its block, the value of its result, and the *)
(* place its index goes to, the shadow of a variable or, for a client      *)
(* request, an 8-byte variable of the client code.                         *)
(***************************************************************************)
Statement == [block : Block, value : Values, dest : Vars \cup IndexVars]

\* What the history keeps of a statement.
Entry == [block : Block, value : Values]

\* An interrupted call: its statement, its thread, its place in the list.
Frame == [stmt : Statement, tid : Threads, at : Nat]

\* The index of an operand; constants are passive.
IndexOf(v) == IF v = NoVar THEN 0 ELSE Assemble(shadow[v])

\* The caller's use of the index that was returned for its statement.
Assign(dest, index) ==
  /\ shadow' = IF dest \in Vars
               THEN [shadow EXCEPT ![dest] = Split(index)] ELSE shadow
  /\ tmp' = IF dest \in IndexVars THEN [tmp EXCEPT ![dest] = index] ELSE tmp

(***************************************************************************)
(* The places after the first i of --record-stop that hold the current     *)
(* nextindex.  The code walks through the list once per call and compares  *)
(* every entry with the current nextindex.                                 *)
(***************************************************************************)
Stops(i) == {j \in DOMAIN recording_stop_indices :
               j > i /\ recording_stop_indices[j] = nextindex}

FirstOf(S) == CHOOSE j \in S : \A k \in S : j <= k

\* No call is interrupted, so the program runs.
Running == recording /\ frames = <<>>

(***************************************************************************)
(* The rest of an interrupted or uninterrupted call once its block has     *)
(* been stored, up to and including the caller's use of the result.        *)
(***************************************************************************)
Complete(stmt, buf) ==
  /\ AdvanceIndex(buf)
  /\ RecordValue(nextindex + 1, AssignedIndex, stmt.value)
  /\ Assign(stmt.dest, AssignedIndex)
  /\ log' = Append(log, [block |-> stmt.block, value |-> stmt.value])

tapeAddStatement_noActivityAnalysis(t, stmt) ==
  \/ /\ dg_disable[t] # 0
     /\ RecordValue(nextindex, DisabledIndex, stmt.value)
     /\ Assign(stmt.dest, DisabledIndex)
     /\ UNCHANGED <<nextindex, buffer_tape, dg_tape, frames, log>>
  \/ /\ dg_disable[t] = 0
     /\ nextindex < MaxIndex
     /\ Stops(0) = {}
     /\ Complete(stmt, Stored(stmt.block))
     /\ UNCHANGED frames
  \/ /\ dg_disable[t] = 0
     /\ nextindex < MaxIndex
     /\ Stops(0) # {}
     /\ buffer_tape' = Stored(stmt.block)
     /\ frames' = Append(frames,
                         [stmt |-> stmt, tid |-> t, at |-> FirstOf(Stops(0))])
     /\ UNCHANGED <<nextindex, buffer_values, dg_tape, dg_values,
                    shadow, tmp, log>>

tapeAddStatement(t, stmt) ==
  \/ /\ stmt.block.index1 = 0 /\ stmt.block.index2 = 0 /\ ~typegrind
     /\ Assign(stmt.dest, 0)
     /\ UNCHANGED <<nextindex, buffer_tape, buffer_values, dg_tape, dg_values,
                    frames, log>>
  \/ /\ ~(stmt.block.index1 = 0 /\ stmt.block.index2 = 0 /\ ~typegrind)
     /\ tapeAddStatement_noActivityAnalysis(t, stmt)

-----------------------------------------------------------------------------
(* Statements of the instrumented program.                                 *)

\* A wrapped operation dst := a op b (dg_bar_writeToTape).
Operation(t, dst, a, b, d, val) ==
  /\ Running
  /\ tapeAddStatement(t,
       [block |-> [index1 |-> IndexOf(a), index2 |-> IndexOf(b), diffs |-> d],
        value |-> val, dest |-> dst])
  /\ UNCHANGED <<recording, dg_disable, dg_input_indices, dg_output_indices>>

\* An operation without a derivative rule (default case of dg_bar_operation).
UnwrappedOperation(dst) ==
  /\ Running
  /\ shadow' = [shadow EXCEPT ![dst] =
                  IF typegrind THEN [Lo |-> HALF - 1, Hi |-> HALF - 1]
                               ELSE [Lo |-> 0, Hi |-> 0]]
  /\ UNCHANGED <<tapeVars, tmp, dg_disable, dg_input_indices,
                 dg_output_indices, frames, log>>

\* A copy dst := src through registers or memory moves both layers.
Copy(dst, src) ==
  /\ Running
  /\ shadow' = [shadow EXCEPT ![dst] = shadow[src]]
  /\ UNCHANGED <<tapeVars, tmp, dg_disable, dg_input_indices,
                 dg_output_indices, frames, log>>

-----------------------------------------------------------------------------
(* Client requests (dg_handle_client_request).                             *)

DISABLE(t, plus, minus) ==
  /\ Running
  /\ dg_disable[t] + plus - minus \in -MaxDisable .. MaxDisable
  /\ dg_disable' = [dg_disable EXCEPT ![t] = @ + plus - minus]
  /\ UNCHANGED <<tapeVars, shadow, tmp, dg_input_indices, dg_output_indices,
                 frames, log>>

GET_INDEX(u, v) ==
  /\ Running
  /\ tmp' = [tmp EXCEPT ![u] = Assemble(shadow[v])]
  /\ UNCHANGED <<tapeVars, shadow, dg_disable, dg_input_indices,
                 dg_output_indices, frames, log>>

SET_INDEX(u, v) ==
  /\ Running
  /\ shadow' = [shadow EXCEPT ![v] = Split(tmp[u])]
  /\ UNCHANGED <<tapeVars, tmp, dg_disable, dg_input_indices,
                 dg_output_indices, frames, log>>

\* Client code copies an index, dg_indextmp2 = dg_indextmp.
CopyIndex(u, w) ==
  /\ Running
  /\ tmp' = [tmp EXCEPT ![u] = tmp[w]]
  /\ UNCHANGED <<tapeVars, shadow, dg_disable, dg_input_indices,
                 dg_output_indices, frames, log>>

\* The indices client code can pass to a request: those in its variables, and 0.
ClientIndices == {0} \cup {tmp[w] : w \in IndexVars}

\* A block of the client's own, the index of which goes to u.
ClientStatement(u, i1, i2, d, val) ==
  [block |-> [index1 |-> i1, index2 |-> i2, diffs |-> d],
   value |-> val, dest |-> u]

NEW_INDEX(t, u, i1, i2, d, val) ==
  /\ Running
  /\ tapeAddStatement(t, ClientStatement(u, i1, i2, d, val))
  /\ UNCHANGED <<recording, dg_disable, dg_input_indices, dg_output_indices>>

NEW_INDEX_NOACTIVITYANALYSIS(t, u, i1, i2, d, val) ==
  /\ Running
  /\ tapeAddStatement_noActivityAnalysis(t, ClientStatement(u, i1, i2, d, val))
  /\ UNCHANGED <<recording, dg_disable, dg_input_indices, dg_output_indices>>

INDEX_TO_FILE_INPUT(u) ==
  /\ Running
  /\ Len(dg_input_indices) < MaxFileEntries
  /\ dg_input_indices' = Append(dg_input_indices, tmp[u])
  /\ UNCHANGED <<tapeVars, shadow, tmp, dg_disable, dg_output_indices,
                 frames, log>>

INDEX_TO_FILE_OUTPUT(u) ==
  /\ Running
  /\ Len(dg_output_indices) < MaxFileEntries
  /\ dg_output_indices' = Append(dg_output_indices, tmp[u])
  /\ UNCHANGED <<tapeVars, shadow, tmp, dg_disable, dg_input_indices,
                 frames, log>>

-----------------------------------------------------------------------------
(* The debugger.                                                           *)

(***************************************************************************)
(* monitor mark, fmark and lmark (dg_handle_gdb_monitor_command).  The     *)
(* debugger has been entered while thread t was the running one, either    *)
(* between two superblocks or from an interrupted call of t.               *)
(***************************************************************************)
mark(t, v, val) ==
  /\ recording
  /\ \/ frames = <<>>
     \/ MarkWhileStopped /\ frames # <<>> /\ t = frames[Len(frames)].tid
  /\ tapeAddStatement_noActivityAnalysis(t,
       [block |-> ZeroBlock, value |-> val, dest |-> v])
  /\ UNCHANGED <<recording, dg_disable, dg_input_indices, dg_output_indices>>

(***************************************************************************)
(* The user continues: VG_(gdbserver) returns into the innermost           *)
(* interrupted call, which stops again if the rest of the list holds the   *)
(* current nextindex.                                                      *)
(***************************************************************************)
Continue ==
  /\ recording
  /\ frames # <<>>
  /\ LET top == frames[Len(frames)] IN
     \/ /\ Stops(top.at) # {}
        /\ frames' = [frames EXCEPT ![Len(frames)].at = FirstOf(Stops(top.at))]
        /\ UNCHANGED <<tapeVars, programVars, log>>
     \/ /\ Stops(top.at) = {}
        /\ nextindex < MaxIndex
        /\ Complete(top.stmt, buffer_tape)
        /\ frames' = SubSeq(frames, 1, Len(frames) - 1)
        /\ UNCHANGED <<recording, dg_disable, dg_input_indices,
                       dg_output_indices>>

-----------------------------------------------------------------------------
Init ==
  /\ dg_bar_tape_initialize
  /\ shadow = [v \in Vars |-> [Lo |-> 0, Hi |-> 0]]
  /\ tmp = [u \in IndexVars |-> 0]
  /\ dg_disable = [t \in Threads |-> 0]
  /\ frames = <<>>
  /\ dg_input_indices = <<>>
  /\ dg_output_indices = <<>>
  /\ log = <<>>

\* dg_fini: the program has ended.
Finish ==
  /\ Running
  /\ dg_bar_tape_finalize
  /\ UNCHANGED <<programVars, frames, log>>

Next ==
  \/ \E t \in Threads, dst \in Vars, a, b \in Operand, d \in Diffs,
        val \in Values : Operation(t, dst, a, b, d, val)
  \/ \E dst \in Vars : UnwrappedOperation(dst)
  \/ \E dst, src \in Vars : Copy(dst, src)
  \/ \E t \in Threads : DISABLE(t, 1, 0) \/ DISABLE(t, 0, 1)
  \/ \E u \in IndexVars, v \in Vars : GET_INDEX(u, v) \/ SET_INDEX(u, v)
  \/ \E u, w \in IndexVars : CopyIndex(u, w)
  \/ \E t \in Threads, u \in IndexVars, i1, i2 \in ClientIndices, d \in Diffs,
        val \in Values :
       \/ NEW_INDEX(t, u, i1, i2, d, val)
       \/ NEW_INDEX_NOACTIVITYANALYSIS(t, u, i1, i2, d, val)
  \/ \E u \in IndexVars : INDEX_TO_FILE_INPUT(u) \/ INDEX_TO_FILE_OUTPUT(u)
  \/ \E t \in Threads, v \in Vars, val \in Values : mark(t, v, val)
  \/ Continue
  \/ Finish

Spec == Init /\ [][Next]_vars

-----------------------------------------------------------------------------
(* Properties.                                                             *)

TypeOK ==
  /\ nextindex \in 1 .. MaxIndex
  /\ buffer_tape \in [Slot -> Block]
  /\ buffer_values \in [Slot -> Values]
  /\ dg_tape \in Seq(Block)
  /\ dg_values \in Seq(Values)
  /\ recording \in BOOLEAN
  /\ shadow \in [Vars -> [Lo : Half, Hi : Half]]
  /\ tmp \in [IndexVars -> Index]
  /\ dg_disable \in [Threads -> Int]
  /\ frames \in Seq(Frame)
  /\ dg_input_indices \in Seq(Index)
  /\ dg_output_indices \in Seq(Index)
  /\ log \in Seq(Entry)

\* Block i as the evaluation will find it, in the file or still in the buffer.
OnTape(i) ==
  IF i < Len(dg_tape) THEN dg_tape[i + 1] ELSE buffer_tape[i % BUFSIZE]

ValueAt(i) ==
  IF i < Len(dg_values) THEN dg_values[i + 1] ELSE buffer_values[i % BUFSIZE]

\* The block of the statement that was assigned index i; 0 is nobody's.
LoggedIn(history, i) == IF i = 0 THEN ZeroBlock ELSE history[i].block

\* The indices whose blocks --tape-in-ram=yes has not thrown away.
Kept == IF tape_in_ram
        THEN nextindex - (nextindex % BUFSIZE) .. nextindex - 1
        ELSE 0 .. nextindex - 1

(***************************************************************************)
(* Whatever the interleaving of threads, client requests, flushes and      *)
(* debugger stops, the block found under an index is the block of the      *)
(* statement whose result was assigned that index                          *)
(* (tapeAddStatement_noActivityAnalysis, dg_bar_tape_finalize).            *)
(***************************************************************************)
TapeHoldsLog ==
  recording \/ ~tape_in_ram => \A i \in Kept : OnTape(i) = LoggedIn(log, i)

\* Index j may stand as an operand in block i.
Precedes(j, i) == j < i \/ (typegrind /\ j = AllOnes)

(***************************************************************************)
(* Every operand on the tape is the index of an earlier block, so one      *)
(* backward sweep of the evaluation suffices.  Operands come from shadow   *)
(* memory, where they may have been put long before, in two halves, by     *)
(* another thread or by the debugger.                                      *)
(***************************************************************************)
OperandsPrecede ==
  ~tape_in_ram =>
    \A i \in 0 .. nextindex - 1 :
      i > 0 => /\ Precedes(OnTape(i).index1, i)
               /\ Precedes(OnTape(i).index2, i)

(***************************************************************************)
(* No shadow and no client variable holds an index that has not been       *)
(* assigned yet: the two halves always assemble to an index of the tape.   *)
(***************************************************************************)
NoDanglingIndex ==
  /\ \A v \in Vars : Precedes(Assemble(shadow[v]), nextindex)
  /\ \A u \in IndexVars : Precedes(tmp[u], nextindex)

(***************************************************************************)
(* With --record-values=yes the i-th value is the value of the statement   *)
(* that was assigned index i ("record values of elementary operations").   *)
(***************************************************************************)
ValuesMatchTape ==
  bar_record_values =>
    \A i \in 1 .. nextindex - 1 : ValueAt(i) = log[i].value

(***************************************************************************)
(* When the program has ended, the files fit together: dg-tape has one     *)
(* block for each index, dg-values is as long, and every declared input    *)
(* and output is an index the evaluation's vectors have an entry for.      *)
(***************************************************************************)
FilesFitTogether ==
  ~recording /\ ~tape_in_ram =>
    /\ Len(dg_tape) = nextindex
    /\ bar_record_values => Len(dg_values) = Len(dg_tape)
    /\ \A k \in DOMAIN dg_input_indices :
         Precedes(dg_input_indices[k], Len(dg_tape))
    /\ \A k \in DOMAIN dg_output_indices :
         Precedes(dg_output_indices[k], Len(dg_tape))

\* The recorded blocks, those in the file and those still in the buffer.
TapeContents == [i \in 1 .. nextindex |-> OnTape(i - 1)]

Log == INSTANCE TapeLog
         WITH Special <- IF typegrind THEN {AllOnes} ELSE {},
              blocks <- TapeContents, file <- dg_tape, closed <- ~recording

(***************************************************************************)
(* File and buffer together implement one append-only sequence of blocks,  *)
(* of which the file always holds a prefix (a run that is killed leaves a  *)
(* valid shorter tape) and in the end everything.                          *)
(***************************************************************************)
ImplementsTapeLog == Log!Spec
=============================================================================
