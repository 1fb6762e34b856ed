-------------------------------- MODULE Tape --------------------------------
(***************************************************************************)
(* The tape of the recording mode, derivgrind/bar/dg_bar_tape.c.           *)
(*                                                                         *)
(* The tape is a sequence of 32-byte blocks: two operand indices and two   *)
(* partial derivatives.  A buffer of BUFSIZE blocks collects them and is   *)
(* written to the file dg-tape whenever nextindex reaches a multiple of    *)
(* BUFSIZE.  A second buffer of the same size collects the values of the   *)
(* results for the file dg-values if --record-values=yes.                  *)
(*                                                                         *)
(* This module holds the tape's state and the operators that change it;    *)
(* module Recording calls them for the instrumented program, the client    *)
(* requests and the debugger.                                              *)
(***************************************************************************)
EXTENDS Integers, Sequences

CONSTANTS
  BUFSIZE,                 \* number of blocks in a buffer (1000000 in the code)
  HALF,                    \* number of values of a shadow half (2^32)
  typegrind,               \* --typegrind=yes
  bar_record_values,       \* --record-values=yes
  tape_in_ram,             \* --tape-in-ram=yes, for benchmarking only
  recording_stop_indices,  \* --record-stop=<i1>,..,<ik>, up to the terminating 0
  Diffs,                   \* pairs of partial derivatives, 0 for two zeros
  Values,                  \* values of results, 0 for the value zero
  MaxIndex                 \* bound: no block gets this index or a higher one

\* 0xff..f, the index that marks the result of an unwrapped operation
AllOnes == HALF * HALF - 1

(***************************************************************************)
(* The code has BUFSIZE = 10^6 and HALF = 2^32.  A buffer of a single      *)
(* block would lose block 0, which occupies slot 0 from the start.  The    *)
(* counter nextindex is 64 bits wide and is assumed not to reach AllOnes.  *)
(***************************************************************************)
ASSUME TapeAssumption ==
  /\ BUFSIZE \in Nat /\ BUFSIZE > 1
  /\ HALF \in Nat /\ HALF > 1
  /\ typegrind \in BOOLEAN
  /\ bar_record_values \in BOOLEAN
  /\ tape_in_ram \in BOOLEAN
  /\ recording_stop_indices \in Seq(Nat \ {0})
  /\ Diffs \subseteq Nat /\ 0 \in Diffs
  /\ Values \subseteq Nat /\ 0 \in Values
  /\ MaxIndex \in Nat /\ MaxIndex > 1 /\ MaxIndex < AllOnes

VARIABLES
  nextindex,       \* index the next block gets
  buffer_tape,     \* blocks not yet written, by slot
  buffer_values,   \* values not yet written, by slot
  dg_tape,         \* contents of the file dg-tape
  dg_values,       \* contents of the file dg-values
  recording        \* TRUE between dg_bar_tape_initialize and _finalize

tapeVars ==
  <<nextindex, buffer_tape, buffer_values, dg_tape, dg_values, recording>>

Slot == 0 .. BUFSIZE - 1

Index == 0 .. AllOnes

Block == [index1 : Index, index2 : Index, diffs : Diffs]

ZeroBlock == [index1 |-> 0, index2 |-> 0, diffs |-> 0]

(***************************************************************************)
(* Stands for the unknown contents of a buffer that VG_(malloc) has just   *)
(* returned; a reader that meets it has read a slot nobody has written.    *)
(***************************************************************************)
Unwritten == [index1 |-> AllOnes, index2 |-> AllOnes, diffs |-> 0]

\* the first n slots of a buffer, as they are written to a file
Prefix(buf, n) == [i \in 1 .. n |-> buf[i - 1]]

dg_bar_tape_initialize ==
  /\ nextindex = 1
  /\ buffer_tape = [s \in Slot |-> ZeroBlock]
  /\ buffer_values = [s \in Slot |-> 0]
  /\ dg_tape = <<>>
  /\ dg_values = <<>>
  /\ recording = TRUE

\* Faulty variant: the block goes to the slot of the index after its own.
StoredOneLate(b) == [buffer_tape EXCEPT ![(nextindex + 1) % BUFSIZE] = b]

\* The tape buffer with block b in the slot of nextindex.
Stored(b) == [buffer_tape EXCEPT ![nextindex % BUFSIZE] = b]

\* Faulty variant: tests whether the buffer is full before it counts.
AdvanceIndexFlushLate(buf) ==
  LET full == nextindex % BUFSIZE = 0 IN
  /\ nextindex' = nextindex + 1
  /\ dg_tape' = IF full /\ ~tape_in_ram
                THEN dg_tape \o Prefix(buf, BUFSIZE) ELSE dg_tape
  /\ buffer_tape' = IF full /\ tape_in_ram
                    THEN [s \in Slot |-> Unwritten] ELSE buf

(***************************************************************************)
(* The second half of tapeAddStatement_noActivityAnalysis: the counter     *)
(* moves on, and a buffer buf that is full now goes to the file or, with   *)
(* --tape-in-ram=yes, is abandoned for a new one.                          *)
(***************************************************************************)
AdvanceIndex(buf) ==
  LET full == (nextindex + 1) % BUFSIZE = 0 IN
  /\ nextindex' = nextindex + 1
  /\ dg_tape' = IF full /\ ~tape_in_ram
                THEN dg_tape \o Prefix(buf, BUFSIZE) ELSE dg_tape
  /\ buffer_tape' = IF full /\ tape_in_ram
                    THEN [s \in Slot |-> Unwritten] ELSE buf

\* Faulty variant: returns the counter after it has moved on.
AssignedIndexAfter == nextindex + 1

\* What a statement that has been recorded with the current nextindex returns.
AssignedIndex == IF typegrind THEN 0 ELSE nextindex

\* What a statement returns while recording is disabled for its thread.
DisabledIndex == IF typegrind THEN AllOnes ELSE 0

\* Faulty variant: the slot of the next value instead of the last index.
valuesAddStatementLate(next, value) ==
  LET buf == [buffer_values EXCEPT ![next % BUFSIZE] = value] IN
  /\ buffer_values' = buf
  /\ dg_values' = IF next % BUFSIZE = 0
                  THEN dg_values \o Prefix(buf, BUFSIZE) ELSE dg_values

(***************************************************************************)
(* valuesAddStatement, called when the counter has the value next.         *)
(***************************************************************************)
valuesAddStatement(next, value) ==
  LET buf == [buffer_values EXCEPT ![(next - 1) % BUFSIZE] = value] IN
  /\ buffer_values' = buf
  /\ dg_values' = IF next % BUFSIZE = 0
                  THEN dg_values \o Prefix(buf, BUFSIZE) ELSE dg_values

\* The callers' condition for recording a value: index is what they were returned.
RecordValue(next, index, value) ==
  IF bar_record_values /\ index # 0
  THEN valuesAddStatement(next, value)
  ELSE UNCHANGED <<buffer_values, dg_values>>

\* Faulty variant: the partly filled buffers are not written.
dg_bar_tape_finalizeNoFlush ==
  /\ recording
  /\ recording' = FALSE
  /\ UNCHANGED <<nextindex, buffer_tape, buffer_values, dg_tape, dg_values>>

dg_bar_tape_finalize ==
  LET pos == nextindex % BUFSIZE IN
  /\ recording
  /\ recording' = FALSE
  /\ dg_tape' = dg_tape \o Prefix(buffer_tape, pos)
  /\ dg_values' = IF bar_record_values
                  THEN dg_values \o Prefix(buffer_values, pos) ELSE dg_values
  /\ UNCHANGED <<nextindex, buffer_tape, buffer_values>>

\* Faulty variants: the halves change places; the lower half is not cut off.
SplitSwapped(index) == [Lo |-> index \div HALF, Hi |-> index % HALF]

SplitNotCut(index) == [Lo |-> index, Hi |-> index \div HALF]

(***************************************************************************)
(* An index is stored in the shadow of a variable as two halves, one per   *)
(* shadow layer (dg_bar_writeToTape, dg_bar_writeToTape_call).             *)
(***************************************************************************)
Split(index) == [Lo |-> index % HALF, Hi |-> index \div HALF]

Assemble(s) == s.Hi * HALF + s.Lo
=============================================================================
