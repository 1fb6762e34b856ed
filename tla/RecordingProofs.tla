-------------------------- MODULE RecordingProofs ---------------------------
(***************************************************************************)
(* Proofs about module Recording, for every buffer size, every number of   *)
(* threads and variables and every list of stop indices: the block under   *)
(* an index is that of its statement; the indices on the tape, in the      *)
(* shadows, in the client's variables and in the index files refer to      *)
(* blocks that were recorded before; the values file goes along with the   *)
(* tape, the files fit together, and buffer and file implement the         *)
(* append-only log of TapeLog.                                             *)
(***************************************************************************)
EXTENDS Recording, ModLemmas, SequenceTheorems, WellFoundedInduction

-----------------------------------------------------------------------------
(* The inductive invariants.                                               *)

\* The index whose block is in slot 0 of the current buffer.
Base == nextindex - (nextindex % BUFSIZE)

\* Every assigned index has its entry in the history.
LogLength == Len(log) = nextindex - 1

\* The file ends where the current buffer begins, or is complete.
FileLength ==
  /\ recording /\ ~tape_in_ram => Len(dg_tape) = Base
  /\ recording /\ tape_in_ram => Len(dg_tape) = 0
  /\ ~recording /\ ~tape_in_ram => Len(dg_tape) = nextindex

FileBlocks ==
  ~tape_in_ram => \A i \in 0 .. Len(dg_tape) - 1 : dg_tape[i + 1] = LoggedIn(log, i)

BufferBlocks ==
  recording => \A s \in 0 .. (nextindex % BUFSIZE) - 1 :
                 buffer_tape[s] = LoggedIn(log, Base + s)

\* The block of an interrupted call is still in its slot.
FrameBlock ==
  frames # <<>> =>
    /\ recording
    /\ nextindex < MaxIndex
    /\ Len(frames) = 1
    /\ buffer_tape[nextindex % BUFSIZE] = frames[1].stmt.block

TapeInv ==
  TypeOK /\ LogLength /\ FileLength /\ FileBlocks /\ BufferBlocks /\ FrameBlock

\* Both operands of block b may stand in block i.
OperandsOf(b, i) == Precedes(b.index1, i) /\ Precedes(b.index2, i)

\* The blocks of the history refer to earlier ones.
LogOperands == \A i \in 1 .. Len(log) : OperandsOf(log[i].block, i)

\* So will the blocks of interrupted calls, whichever index they get.
FrameOperands ==
  \A k \in 1 .. Len(frames) : OperandsOf(frames[k].stmt.block, nextindex)

\* Declared inputs and outputs have been assigned their indices.
FileIndices ==
  /\ \A k \in 1 .. Len(dg_input_indices) :
       Precedes(dg_input_indices[k], nextindex)
  /\ \A k \in 1 .. Len(dg_output_indices) :
       Precedes(dg_output_indices[k], nextindex)

IndexInv ==
  TypeOK /\ LogLength /\ LogOperands /\ FrameOperands /\ NoDanglingIndex
         /\ FileIndices

\* The value of the statement that was assigned index i; 0 is nobody's.
LoggedValueIn(history, i) == IF i = 0 THEN 0 ELSE history[i].value

\* The file of values ends where the file of blocks does.
ValueLength ==
  bar_record_values => Len(dg_values) = IF recording THEN Base ELSE nextindex

FileValues ==
  bar_record_values =>
    \A i \in 0 .. Len(dg_values) - 1 : dg_values[i + 1] = LoggedValueIn(log, i)

BufferValues ==
  bar_record_values /\ recording =>
    \A s \in 0 .. (nextindex % BUFSIZE) - 1 :
      buffer_values[s] = LoggedValueIn(log, Base + s)

ValueInv ==
  TypeOK /\ LogLength /\ FileLength /\ ValueLength /\ FileValues /\ BufferValues

-----------------------------------------------------------------------------
(* Types of the operators of module Tape.                                  *)

(* AllOnes is a natural number above every index that can be assigned. *)
LEMMA IndexFacts ==
  /\ BUFSIZE \in Nat \ {0} /\ HALF \in Nat \ {0}
  /\ AllOnes \in Nat /\ 0 \in Index /\ AllOnes \in Index
  /\ MaxIndex \in Nat /\ MaxIndex < AllOnes
  /\ \A i \in 0 .. MaxIndex : i \in Index
<1>1. BUFSIZE \in Nat \ {0} /\ HALF \in Nat \ {0} /\ MaxIndex \in Nat /\ MaxIndex < AllOnes
  BY TapeAssumption
<1>2. HALF * HALF \in Nat /\ HALF * HALF >= 1
  BY <1>1
<1>3. QED
  BY <1>1, <1>2 DEF AllOnes, Index

(* The two halves of an index fit the two shadow layers ... *)
LEMMA SplitType ==
  ASSUME NEW i \in Index
  PROVE  Split(i) \in [Lo : Half, Hi : Half]
<1>1. HALF * HALF \in Nat /\ i \in Nat /\ i < HALF * HALF
  BY IndexFacts DEF Index, AllOnes
<1>2. i % HALF \in 0 .. HALF - 1
  BY <1>1, ModDiv, IndexFacts
<1>3. i \div HALF \in 0 .. HALF - 1
  BY <1>1, DivBelow, IndexFacts
<1>4. QED
  BY <1>2, <1>3 DEF Split, Half

(* ... two halves give an index ... *)
LEMMA AssembleType ==
  ASSUME NEW s \in [Lo : Half, Hi : Half]
  PROVE  Assemble(s) \in Index
<1>1. s.Lo \in 0 .. (HALF - 1) /\ s.Hi \in 0 .. (HALF - 1)
  BY DEF Half
<1>2. s.Hi * HALF + s.Lo \in 0 .. (HALF * HALF - 1)
  BY <1>1, AssembleBelow, IndexFacts
<1>3. QED
  BY <1>2 DEF Assemble, Index, AllOnes

(* ... and it is the index that was split: the shadow layers lose nothing. *)
LEMMA AssembleSplit ==
  ASSUME NEW i \in Index
  PROVE  Assemble(Split(i)) = i
<1>1. i \in Nat
  BY IndexFacts DEF Index
<1>0. HALF \in Nat \ {0}
  BY IndexFacts
<1>2. i = HALF * (i \div HALF) + (i % HALF) /\ i \div HALF \in Nat
  BY ONLY <1>0, <1>1, ModDiv
<1>3. HALF * (i \div HALF) = (i \div HALF) * HALF
  BY <1>0, <1>2
<1>4. Assemble(Split(i)) = (i \div HALF) * HALF + (i % HALF)
  BY DEF Assemble, Split
<1>5. QED
  BY <1>2, <1>3, <1>4

(* The prefix of a buffer is a sequence of the buffer's elements. *)
LEMMA PrefixType ==
  ASSUME NEW S, NEW buf \in [Slot -> S], NEW n \in 0 .. BUFSIZE
  PROVE  /\ Prefix(buf, n) \in Seq(S)
         /\ Len(Prefix(buf, n)) = n
         /\ \A i \in 1 .. n : Prefix(buf, n)[i] = buf[i - 1]
<1>1. \A i \in 1 .. n : i - 1 \in Slot
  BY IndexFacts DEF Slot
<1>2. Prefix(buf, n) \in [1 .. n -> S]
  BY <1>1 DEF Prefix
<1>3. n \in Nat
  BY IndexFacts
<1>4. Prefix(buf, n) \in Seq(S) /\ Len(Prefix(buf, n)) = n
  BY <1>2, <1>3
<1>5. QED
  BY <1>4 DEF Prefix

(* The slot of an index is a slot of the buffer. *)
LEMMA SlotOf ==
  ASSUME NEW n \in Nat
  PROVE  n % BUFSIZE \in Slot
  BY ModDiv, IndexFacts DEF Slot

(* The place of nextindex in the current buffer. *)
LEMMA Remainder ==
  ASSUME nextindex \in 1 .. MaxIndex
  PROVE  /\ nextindex \in Nat \ {0} /\ BUFSIZE \in Nat \ {0}
         /\ nextindex % BUFSIZE \in 0 .. BUFSIZE - 1
         /\ nextindex % BUFSIZE \in 0 .. BUFSIZE
         /\ (nextindex % BUFSIZE) <= nextindex
<1>1. nextindex \in Nat \ {0} /\ BUFSIZE \in Nat \ {0}
  BY IndexFacts
<1> DEFINE r == nextindex % BUFSIZE
<1>2. r \in 0 .. BUFSIZE - 1 /\ r <= nextindex
  BY <1>1, ModDiv
<1> HIDE DEF r
<1>3. r \in 0 .. BUFSIZE
  BY <1>1, <1>2
<1>4. QED
  BY <1>1, <1>2, <1>3 DEF r

(* Storing a block leaves a buffer of blocks. *)
LEMMA StoredType ==
  ASSUME nextindex \in Nat, buffer_tape \in [Slot -> Block], NEW b \in Block
  PROVE  Stored(b) \in [Slot -> Block]
  BY SlotOf DEF Stored

(* The block of an empty slot and of a fresh buffer. *)
LEMMA BlockTypes == ZeroBlock \in Block /\ Unwritten \in Block
  BY IndexFacts, TapeAssumption DEF Block, ZeroBlock, Unwritten

(* The first stop of a non-empty set of stops is one of them. *)
LEMMA FirstOfStops ==
  ASSUME NEW i \in Nat, Stops(i) # {}
  PROVE  FirstOf(Stops(i)) \in Stops(i) /\ FirstOf(Stops(i)) \in Nat
<1>1. Stops(i) \subseteq Nat
  BY TapeAssumption DEF Stops
<1> DEFINE R == OpToRel(<, Nat)
<1>2. IsWellFoundedOn(R, Nat)
  BY NatLessThanWellFounded
<1> HIDE DEF R
<1>3. PICK j \in Stops(i) : \A k \in Stops(i) : ~(<<k, j>> \in R)
  BY ONLY <1>1, <1>2, WFMin, Stops(i) # {}
<1>4. ASSUME NEW k \in Stops(i) PROVE j <= k
  <2>1. j \in Nat /\ k \in Nat
    BY <1>1
  <2>2. <<k, j>> \in R <=> k < j
    BY <2>1 DEF R, OpToRel
  <2>3. QED
    BY <2>1, <2>2, <1>3
<1>5. QED
  BY <1>1, <1>4 DEF FirstOf

-----------------------------------------------------------------------------
(* Type correctness.                                                       *)

(* What recording a value does to the two variables it concerns. *)
LEMMA RecordValueType ==
  ASSUME buffer_values \in [Slot -> Values], dg_values \in Seq(Values),
         NEW next \in Nat \ {0}, NEW index, NEW value \in Values,
         RecordValue(next, index, value)
  PROVE  buffer_values' \in [Slot -> Values] /\ dg_values' \in Seq(Values)
<1> DEFINE buf == [buffer_values EXCEPT ![(next - 1) % BUFSIZE] = value]
<1>1. buf \in [Slot -> Values]
  BY SlotOf
<1>2. BUFSIZE \in 0 .. BUFSIZE
  BY IndexFacts
<1>3. Prefix(buf, BUFSIZE) \in Seq(Values)
  BY <1>1, <1>2, PrefixType
<1>4. dg_values \o Prefix(buf, BUFSIZE) \in Seq(Values)
  BY <1>3, ConcatProperties
<1>5. QED
  BY <1>1, <1>4 DEF RecordValue, valuesAddStatement

(* What assigning an index does to the two variables it concerns. *)
LEMMA AssignType ==
  ASSUME shadow \in [Vars -> [Lo : Half, Hi : Half]], tmp \in [IndexVars -> Index],
         NEW dest, NEW index \in Index, Assign(dest, index)
  PROVE  /\ shadow' \in [Vars -> [Lo : Half, Hi : Half]]
         /\ tmp' \in [IndexVars -> Index]
  BY SplitType DEF Assign

(* The indices that callers are returned are indices. *)
LEMMA ReturnedTypes ==
  ASSUME nextindex \in 1 .. MaxIndex
  PROVE  AssignedIndex \in Index /\ DisabledIndex \in Index
  BY IndexFacts DEF AssignedIndex, DisabledIndex

(* Completing a call preserves the types of everything it touches. *)
LEMMA CompleteType ==
  ASSUME TypeOK, nextindex < MaxIndex, NEW stmt \in Statement,
         NEW buf \in [Slot -> Block], Complete(stmt, buf)
  PROVE  /\ nextindex' \in 1 .. MaxIndex
         /\ buffer_tape' \in [Slot -> Block]
         /\ dg_tape' \in Seq(Block)
         /\ buffer_values' \in [Slot -> Values] /\ dg_values' \in Seq(Values)
         /\ shadow' \in [Vars -> [Lo : Half, Hi : Half]]
         /\ tmp' \in [IndexVars -> Index]
         /\ log' \in Seq(Entry)
<1>1. nextindex' \in 1 .. MaxIndex
  BY IndexFacts DEF Complete, AdvanceIndex, TypeOK
<1>2. buffer_tape' \in [Slot -> Block]
  BY BlockTypes DEF Complete, AdvanceIndex
<1>3. dg_tape' \in Seq(Block)
  <2>1. BUFSIZE \in 0 .. BUFSIZE
    BY IndexFacts
  <2>2. Prefix(buf, BUFSIZE) \in Seq(Block)
    BY <2>1, PrefixType
  <2>3. dg_tape \o Prefix(buf, BUFSIZE) \in Seq(Block)
    BY <2>2, ConcatProperties DEF TypeOK
  <2>4. QED
    BY <2>3 DEF Complete, AdvanceIndex, TypeOK
<1>4. buffer_values' \in [Slot -> Values] /\ dg_values' \in Seq(Values)
  <2>1. nextindex + 1 \in Nat \ {0} /\ stmt.value \in Values
    BY IndexFacts DEF TypeOK, Statement
  <2>2. RecordValue(nextindex + 1, AssignedIndex, stmt.value)
    BY DEF Complete
  <2>3. QED
    BY <2>1, <2>2, RecordValueType DEF TypeOK
<1>5. shadow' \in [Vars -> [Lo : Half, Hi : Half]] /\ tmp' \in [IndexVars -> Index]
  BY ReturnedTypes, AssignType DEF Complete, TypeOK
<1>6. log' \in Seq(Entry)
  <2>1. [block |-> stmt.block, value |-> stmt.value] \in Entry
    BY DEF Statement, Entry
  <2>2. QED
    BY <2>1, AppendProperties DEF Complete, TypeOK
<1>7. QED
  BY <1>1, <1>2, <1>3, <1>4, <1>5, <1>6

(* A call on the tape preserves the types of everything it touches. *)
LEMMA AddType ==
  ASSUME TypeOK, NEW t \in Threads, NEW stmt \in Statement,
         tapeAddStatement_noActivityAnalysis(t, stmt)
  PROVE  /\ nextindex' \in 1 .. MaxIndex
         /\ buffer_tape' \in [Slot -> Block]
         /\ dg_tape' \in Seq(Block)
         /\ buffer_values' \in [Slot -> Values] /\ dg_values' \in Seq(Values)
         /\ shadow' \in [Vars -> [Lo : Half, Hi : Half]]
         /\ tmp' \in [IndexVars -> Index]
         /\ frames' \in Seq(Frame)
         /\ log' \in Seq(Entry)
<1>1. stmt.block \in Block /\ stmt.value \in Values
  BY DEF Statement
<1>2. nextindex \in Nat \ {0}
  BY DEF TypeOK
<1>3. Stored(stmt.block) \in [Slot -> Block]
  BY <1>1, <1>2, StoredType DEF TypeOK
<1>4. CASE /\ dg_disable[t] # 0
           /\ RecordValue(nextindex, DisabledIndex, stmt.value)
           /\ Assign(stmt.dest, DisabledIndex)
           /\ UNCHANGED <<nextindex, buffer_tape, dg_tape, frames, log>>
  <2>1. buffer_values' \in [Slot -> Values] /\ dg_values' \in Seq(Values)
    BY <1>1, <1>2, <1>4, RecordValueType DEF TypeOK
  <2>2. shadow' \in [Vars -> [Lo : Half, Hi : Half]] /\ tmp' \in [IndexVars -> Index]
    BY <1>4, ReturnedTypes, AssignType DEF TypeOK
  <2>3. QED
    BY <1>4, <2>1, <2>2 DEF TypeOK
<1>5. CASE /\ nextindex < MaxIndex
           /\ Complete(stmt, Stored(stmt.block))
           /\ UNCHANGED frames
  BY <1>3, <1>5, CompleteType DEF TypeOK
<1>6. CASE /\ nextindex < MaxIndex
           /\ Stops(0) # {}
           /\ buffer_tape' = Stored(stmt.block)
           /\ frames' = Append(frames,
                         [stmt |-> stmt, tid |-> t, at |-> FirstOf(Stops(0))])
           /\ UNCHANGED <<nextindex, buffer_values, dg_tape, dg_values,
                          shadow, tmp, log>>
  <2>1. FirstOf(Stops(0)) \in Nat
    BY <1>6, FirstOfStops
  <2>2. [stmt |-> stmt, tid |-> t, at |-> FirstOf(Stops(0))] \in Frame
    BY <2>1 DEF Frame
  <2>3. frames' \in Seq(Frame)
    BY <1>6, <2>2, AppendProperties DEF TypeOK
  <2>4. QED
    BY <1>3, <1>6, <2>3 DEF TypeOK
<1>7. QED
  BY <1>4, <1>5, <1>6 DEF tapeAddStatement_noActivityAnalysis

(* The same with activity analysis. *)
LEMMA AddActiveType ==
  ASSUME TypeOK, NEW t \in Threads, NEW stmt \in Statement,
         tapeAddStatement(t, stmt)
  PROVE  /\ nextindex' \in 1 .. MaxIndex
         /\ buffer_tape' \in [Slot -> Block]
         /\ dg_tape' \in Seq(Block)
         /\ buffer_values' \in [Slot -> Values] /\ dg_values' \in Seq(Values)
         /\ shadow' \in [Vars -> [Lo : Half, Hi : Half]]
         /\ tmp' \in [IndexVars -> Index]
         /\ frames' \in Seq(Frame)
         /\ log' \in Seq(Entry)
<1>1. CASE /\ Assign(stmt.dest, 0)
           /\ UNCHANGED <<nextindex, buffer_tape, buffer_values, dg_tape,
                          dg_values, frames, log>>
  <2>1. shadow' \in [Vars -> [Lo : Half, Hi : Half]] /\ tmp' \in [IndexVars -> Index]
    BY <1>1, IndexFacts, AssignType DEF TypeOK
  <2>2. QED
    BY <1>1, <2>1 DEF TypeOK
<1>2. CASE tapeAddStatement_noActivityAnalysis(t, stmt)
  BY <1>2, AddType
<1>3. QED
  BY <1>1, <1>2 DEF tapeAddStatement

(* An operand of the program has an index. *)
LEMMA IndexOfType ==
  ASSUME TypeOK, NEW v \in Operand
  PROVE  IndexOf(v) \in Index
  BY AssembleType, IndexFacts DEF IndexOf, TypeOK, Operand

(* Every step of Next preserves the types. *)
LEMMA TypeStep == TypeOK /\ [Next]_vars => TypeOK'
<1> SUFFICES ASSUME TypeOK, [Next]_vars PROVE TypeOK'
  OBVIOUS
<1>1. ASSUME NEW t \in Threads, NEW dst \in Vars, NEW a \in Operand,
             NEW b \in Operand, NEW d \in Diffs, NEW val \in Values,
             Operation(t, dst, a, b, d, val)
      PROVE  TypeOK'
  <2> DEFINE stmt == [block |-> [index1 |-> IndexOf(a), index2 |-> IndexOf(b),
                                 diffs |-> d], value |-> val, dest |-> dst]
  <2>1. stmt \in Statement
    BY IndexOfType DEF Statement, Block
  <2>2. tapeAddStatement(t, stmt)
    BY <1>1 DEF Operation
  <2> HIDE DEF stmt
  <2>3. QED
    BY <1>1, <2>1, <2>2, AddActiveType DEF TypeOK, Operation
<1>2. ASSUME NEW dst \in Vars, UnwrappedOperation(dst)
      PROVE  TypeOK'
  <2>1. 0 \in Half /\ HALF - 1 \in Half
    BY IndexFacts DEF Half
  <2>2. QED
    BY <1>2, <2>1 DEF TypeOK, UnwrappedOperation, tapeVars
<1>3. ASSUME NEW dst \in Vars, NEW src \in Vars, Copy(dst, src)
      PROVE  TypeOK'
  BY <1>3 DEF TypeOK, Copy, tapeVars
<1>4. ASSUME NEW t \in Threads, NEW plus \in Int, NEW minus \in Int,
             DISABLE(t, plus, minus)
      PROVE  TypeOK'
  BY <1>4 DEF TypeOK, DISABLE, tapeVars
<1>5. ASSUME NEW t \in IndexVars, NEW v \in Vars, GET_INDEX(t, v)
      PROVE  TypeOK'
  <2>1. Assemble(shadow[v]) \in Index
    BY AssembleType DEF TypeOK
  <2>2. QED
    BY <1>5, <2>1 DEF TypeOK, GET_INDEX, tapeVars
<1>6. ASSUME NEW t \in IndexVars, NEW v \in Vars, SET_INDEX(t, v)
      PROVE  TypeOK'
  <2>1. Split(tmp[t]) \in [Lo : Half, Hi : Half]
    BY SplitType DEF TypeOK
  <2>2. QED
    BY <1>6, <2>1 DEF TypeOK, SET_INDEX, tapeVars
<1>7. ASSUME NEW t \in Threads, NEW u \in IndexVars, NEW d \in Diffs, NEW val \in Values,
             NEW i1 \in ClientIndices, NEW i2 \in ClientIndices,
             \/ NEW_INDEX(t, u, i1, i2, d, val)
             \/ NEW_INDEX_NOACTIVITYANALYSIS(t, u, i1, i2, d, val)
      PROVE  TypeOK'
  <2> DEFINE stmt == ClientStatement(u, i1, i2, d, val)
  <2>1. stmt \in Statement
    <3>1. i1 \in Index /\ i2 \in Index
      BY IndexFacts DEF TypeOK, ClientIndices
    <3>2. QED
      BY <3>1 DEF Statement, Block, ClientStatement
  <2>2. \/ tapeAddStatement(t, stmt)
        \/ tapeAddStatement_noActivityAnalysis(t, stmt)
    BY <1>7 DEF NEW_INDEX, NEW_INDEX_NOACTIVITYANALYSIS
  <2>3. UNCHANGED <<recording, dg_disable, dg_input_indices, dg_output_indices>>
    BY <1>7 DEF NEW_INDEX, NEW_INDEX_NOACTIVITYANALYSIS
  <2> HIDE DEF stmt
  <2>4. QED
    BY <2>1, <2>2, <2>3, AddType, AddActiveType DEF TypeOK
<1>8. ASSUME NEW t \in IndexVars, INDEX_TO_FILE_INPUT(t) \/ INDEX_TO_FILE_OUTPUT(t)
      PROVE  TypeOK'
  <2>1. /\ Append(dg_input_indices, tmp[t]) \in Seq(Index)
        /\ Append(dg_output_indices, tmp[t]) \in Seq(Index)
    BY AppendProperties DEF TypeOK
  <2>2. QED
    BY <1>8, <2>1 DEF TypeOK, INDEX_TO_FILE_INPUT, INDEX_TO_FILE_OUTPUT, tapeVars
<1>9. ASSUME NEW t \in Threads, NEW v \in Vars, NEW val \in Values, mark(t, v, val)
      PROVE  TypeOK'
  <2> DEFINE stmt == [block |-> ZeroBlock, value |-> val, dest |-> v]
  <2>1. stmt \in Statement
    BY BlockTypes DEF Statement
  <2>2. tapeAddStatement_noActivityAnalysis(t, stmt)
    BY <1>9 DEF mark
  <2> HIDE DEF stmt
  <2>3. QED
    BY <1>9, <2>1, <2>2, AddType DEF TypeOK, mark
<1>10. ASSUME Continue
       PROVE  TypeOK'
  <2> DEFINE n == Len(frames)
  <2>1. n \in Nat /\ n \in 1 .. n /\ n \in DOMAIN frames /\ frames[n] \in Frame
    BY <1>10, EmptySeq, LenProperties DEF Continue, TypeOK
  <2>2. CASE /\ Stops(frames[n].at) # {}
             /\ frames' = [frames EXCEPT ![n].at = FirstOf(Stops(frames[n].at))]
             /\ UNCHANGED <<tapeVars, programVars, log>>
    <3>1. FirstOf(Stops(frames[n].at)) \in Nat
      BY <2>1, <2>2, FirstOfStops DEF Frame
    <3>2. [frames[n] EXCEPT !.at = FirstOf(Stops(frames[n].at))] \in Frame
      BY <2>1, <3>1 DEF Frame
    <3>3. frames' \in Seq(Frame)
      BY <2>1, <2>2, <3>2, ExceptSeq DEF TypeOK
    <3>4. QED
      BY <2>2, <3>3 DEF TypeOK, tapeVars, programVars
  <2>3. CASE /\ nextindex < MaxIndex
             /\ Complete(frames[n].stmt, buffer_tape)
             /\ frames' = SubSeq(frames, 1, n - 1)
             /\ UNCHANGED <<recording, dg_disable, dg_input_indices,
                            dg_output_indices>>
    <3>1. frames[n].stmt \in Statement
      BY <2>1 DEF Frame
    <3>2. frames' \in Seq(Frame)
      BY <2>1, <2>3, SubSeqProperties DEF TypeOK
    <3>3. buffer_tape \in [Slot -> Block]
      BY DEF TypeOK
    <3>4. QED
      BY <2>3, <3>1, <3>2, <3>3, CompleteType DEF TypeOK
  <2>4. QED
    BY <1>10, <2>2, <2>3 DEF Continue
<1>11. ASSUME Finish
       PROVE  TypeOK'
  <2>1. nextindex % BUFSIZE \in 0 .. BUFSIZE
    BY ModDiv, IndexFacts DEF TypeOK
  <2>2. /\ Prefix(buffer_tape, nextindex % BUFSIZE) \in Seq(Block)
        /\ Prefix(buffer_values, nextindex % BUFSIZE) \in Seq(Values)
    BY <2>1, PrefixType DEF TypeOK
  <2>3. /\ dg_tape \o Prefix(buffer_tape, nextindex % BUFSIZE) \in Seq(Block)
        /\ dg_values \o Prefix(buffer_values, nextindex % BUFSIZE) \in Seq(Values)
    BY <2>2, ConcatProperties DEF TypeOK
  <2>4. QED
    BY <1>11, <2>3 DEF TypeOK, Finish, dg_bar_tape_finalize, programVars
<1>12. CASE UNCHANGED vars
  BY <1>12 DEF TypeOK, vars, tapeVars, programVars
<1>13. ASSUME NEW u \in IndexVars, NEW w \in IndexVars, CopyIndex(u, w)
       PROVE  TypeOK'
  BY <1>13 DEF TypeOK, CopyIndex, tapeVars
<1>14. QED
  BY <1>1, <1>2, <1>3, <1>4, <1>5, <1>6, <1>7, <1>8, <1>9, <1>10, <1>11, <1>12, <1>13
  DEF Next

(***************************************************************************)
(* Every variable of a recording run keeps its type, debugger stops and    *)
(* all; in particular every pair of shadow halves is an index and no file  *)
(* receives anything but blocks, values and indices.                       *)
(***************************************************************************)
THEOREM TypeCorrect == Spec => []TypeOK
<1>1. Init => TypeOK
  <2>1. 0 \in Half
    BY IndexFacts DEF Half
  <2>2. QED
    BY <2>1, IndexFacts, BlockTypes, TapeAssumption
    DEF Init, TypeOK, dg_bar_tape_initialize
<1>2. QED
  BY <1>1, TypeStep, PTL DEF Spec

-----------------------------------------------------------------------------
(* The tape holds what was recorded.                                       *)

(* The history grows by the completed statement and keeps the earlier ones. *)
LEMMA LogGrows ==
  ASSUME TypeOK, LogLength, NEW stmt \in Statement, NEW buf, Complete(stmt, buf)
  PROVE  /\ Len(log') = nextindex
         /\ \A i \in 0 .. nextindex - 1 : LoggedIn(log', i) = LoggedIn(log, i)
         /\ LoggedIn(log', nextindex) = stmt.block
<1>1. log \in Seq(Entry) /\ Len(log) = nextindex - 1 /\ nextindex \in Nat \ {0}
  BY DEF TypeOK, LogLength
<1>2. [block |-> stmt.block, value |-> stmt.value] \in Entry
  BY DEF Statement, Entry
<1>3. log' = Append(log, [block |-> stmt.block, value |-> stmt.value])
  BY DEF Complete
<1>4. /\ Len(log') = nextindex
      /\ \A i \in 1 .. nextindex - 1 : log'[i] = log[i]
      /\ log'[nextindex] = [block |-> stmt.block, value |-> stmt.value]
  BY <1>1, <1>2, <1>3, AppendProperties
<1>5. ASSUME NEW i \in 0 .. nextindex - 1 PROVE LoggedIn(log', i) = LoggedIn(log, i)
  BY <1>4, <1>5, <1>1 DEF LoggedIn
<1>6. LoggedIn(log', nextindex) = stmt.block
  BY <1>4, <1>1 DEF LoggedIn
<1>7. QED
  BY <1>4, <1>5, <1>6

(***************************************************************************)
(* Completing a call whose block is in its slot, with the other slots of   *)
(* the current buffer untouched, keeps file and buffer in step with the    *)
(* history, whether or not the buffer is full afterwards.                  *)
(***************************************************************************)
LEMMA CompleteTape ==
  ASSUME TapeInv, recording, nextindex < MaxIndex, NEW stmt \in Statement,
         NEW buf \in [Slot -> Block],
         buf[nextindex % BUFSIZE] = stmt.block,
         \A k \in 0 .. (nextindex % BUFSIZE) - 1 : buf[k] = buffer_tape[k],
         Complete(stmt, buf), UNCHANGED recording
  PROVE  LogLength' /\ FileLength' /\ FileBlocks' /\ BufferBlocks'
<1> DEFINE n == nextindex
           r == n % BUFSIZE
           B == BUFSIZE
<1>1. /\ n \in Nat \ {0} /\ B \in Nat \ {0} /\ r \in 0 .. B - 1 /\ r <= n
      /\ nextindex' = n + 1
      /\ nextindex' % B = IF r = B - 1 THEN 0 ELSE r + 1
      /\ Base = n - r
      /\ B > 1
  <2>1. n \in Nat \ {0} /\ B \in Nat \ {0} /\ B > 1
    BY IndexFacts, TapeAssumption DEF TapeInv, TypeOK
  <2>2. nextindex' = n + 1
    BY DEF Complete, AdvanceIndex
  <2>3. r \in 0 .. B - 1 /\ r <= n
    BY <2>1, ModDiv
  <2>4. (n + 1) % B = IF r = B - 1 THEN 0 ELSE r + 1
    BY <2>1, ModSucc
  <2>5. QED
    BY <2>1, <2>2, <2>3, <2>4 DEF Base
<1>2. /\ Len(log') = n
      /\ \A i \in 0 .. n - 1 : LoggedIn(log', i) = LoggedIn(log, i)
      /\ LoggedIn(log', n) = stmt.block
  BY LogGrows DEF TapeInv
<1>3. dg_tape \in Seq(Block) /\ Len(dg_tape) \in Nat
  BY LenProperties DEF TapeInv, TypeOK
<1>4. \A k \in 0 .. r - 1 : buf[k] = LoggedIn(log, Base + k)
  BY <1>1 DEF TapeInv, BufferBlocks
<1>5. LogLength'
  BY <1>1, <1>2 DEF LogLength
<1>6. CASE r = B - 1
  <2>1. nextindex' % B = 0 /\ Base' = n + 1
    BY <1>1, <1>6 DEF Base
  <2>2. BufferBlocks'
    BY <2>1 DEF BufferBlocks
  <2>3. CASE tape_in_ram
    <3>1. dg_tape' = dg_tape
      BY <2>3 DEF Complete, AdvanceIndex
    <3>2. QED
      BY <1>5, <2>2, <2>3, <3>1 DEF FileLength, FileBlocks, TapeInv
  <2>4. CASE ~tape_in_ram
    <3>1. dg_tape' = dg_tape \o Prefix(buf, B)
      BY <2>1, <2>4, <1>1 DEF Complete, AdvanceIndex
    <3>2. B \in 0 .. BUFSIZE
      BY <1>1
    <3>3. /\ Prefix(buf, B) \in Seq(Block) /\ Len(Prefix(buf, B)) = B
          /\ \A i \in 1 .. B : Prefix(buf, B)[i] = buf[i - 1]
      BY <3>2, PrefixType
    <3>4. Len(dg_tape) = n - r
      BY <2>4, <1>1 DEF TapeInv, FileLength
    <3>5. /\ Len(dg_tape') = Len(dg_tape) + B
          /\ \A i \in 1 .. Len(dg_tape) + B :
               dg_tape'[i] = IF i <= Len(dg_tape) THEN dg_tape[i]
                             ELSE Prefix(buf, B)[i - Len(dg_tape)]
      BY <3>1, <3>3, <1>3, ConcatProperties
    <3>6. Len(dg_tape') = n + 1
      BY <3>4, <3>5, <1>1, <1>6
    <3>7. FileLength'
      BY <2>1, <2>4, <3>6 DEF FileLength
    <3>8. ASSUME NEW i \in 0 .. n PROVE dg_tape'[i + 1] = LoggedIn(log', i)
      <4>1. CASE i < n - r
        <5>1. dg_tape'[i + 1] = dg_tape[i + 1]
          BY <4>1, <3>4, <3>5, <1>1
        <5>2. dg_tape[i + 1] = LoggedIn(log, i)
          <6>1. i \in 0 .. Len(dg_tape) - 1
            BY ONLY <4>1, <3>4, <1>1, i \in 0 .. n
          <6>2. \A j \in 0 .. Len(dg_tape) - 1 : dg_tape[j + 1] = LoggedIn(log, j)
            BY ONLY TapeInv, <2>4 DEF TapeInv, FileBlocks
          <6>3. QED
            BY ONLY <6>1, <6>2
        <5>3. QED
          BY <5>1, <5>2, <4>1, <1>1, <1>2
      <4>2. CASE i >= n - r
        <5>0. n - r \in Int /\ r \in Int /\ i \in Int /\ i <= (n - r) + r
          BY <1>1
        <5>1. PICK k \in 0 .. r : i = (n - r) + k
          BY ONLY <4>2, <5>0, OffsetFrom
        <5>2. dg_tape'[i + 1] = Prefix(buf, B)[k + 1]
          BY <5>1, <3>4, <3>5, <1>1, <1>6
        <5>3. Prefix(buf, B)[k + 1] = buf[k]
          <6>1. k + 1 \in 1 .. B /\ (k + 1) - 1 = k
            BY <1>1
          <6>2. QED
            BY ONLY <3>3, <6>1
        <5>4. CASE k = r
          BY <5>2, <5>3, <5>4, <5>1, <1>1, <1>2
        <5>5. CASE k # r
          <6>1. k \in 0 .. r - 1 /\ i \in 0 .. n - 1 /\ i = Base + k
            BY <5>1, <5>5, <1>1
          <6>2. buf[k] = LoggedIn(log, i)
            BY <6>1, <1>4
          <6>3. QED
            BY <6>1, <6>2, <5>2, <5>3, <1>2
        <5>6. QED
          BY <5>4, <5>5
      <4>3. QED
        BY <4>1, <4>2, <1>1
    <3>9. FileBlocks'
      BY <3>6, <3>8, <1>1 DEF FileBlocks
    <3>10. QED
      BY <1>5, <2>2, <3>7, <3>9
  <2>5. QED
    BY <2>3, <2>4
<1>7. CASE r # B - 1
  <2>1. nextindex' % B = r + 1 /\ Base' = Base /\ r + 1 # 0
    BY <1>1, <1>7 DEF Base
  <2>2. dg_tape' = dg_tape /\ buffer_tape' = buf
    BY <2>1, <1>1 DEF Complete, AdvanceIndex
  <2>3. FileLength'
    BY <2>1, <2>2 DEF FileLength, TapeInv
  <2>4. FileBlocks'
    <3>1. ~tape_in_ram => Len(dg_tape) = n - r
      BY <1>1 DEF TapeInv, FileLength
    <3>2. QED
      BY <2>2, <3>1, <1>1, <1>2, <1>3 DEF FileBlocks, TapeInv
  <2>5. ASSUME NEW k \in 0 .. r PROVE buffer_tape'[k] = LoggedIn(log', Base + k)
    <3>1. CASE k = r
      <4>1. Base + k = n
        BY <3>1, <1>1
      <4>2. QED
        BY <3>1, <4>1, <2>2, <1>2
    <3>2. CASE k # r
      <4>1. k \in 0 .. r - 1 /\ Base + k \in 0 .. n - 1
        BY <3>2, <1>1
      <4>2. QED
        BY <4>1, <2>2, <1>2, <1>4
    <3>3. QED
      BY <3>1, <3>2
  <2>6. BufferBlocks'
    BY <2>1, <2>5, <1>1 DEF BufferBlocks
  <2>7. QED
    BY <1>5, <2>3, <2>4, <2>6
<1>8. QED
  BY <1>6, <1>7

(***************************************************************************)
(* A call on the tape from a state in which no call is interrupted: it is  *)
(* dropped, it completes, or it becomes the interrupted one.               *)
(***************************************************************************)
LEMMA AddTape ==
  ASSUME TapeInv, recording, frames = <<>>, UNCHANGED recording,
         NEW t \in Threads, NEW stmt \in Statement,
         tapeAddStatement_noActivityAnalysis(t, stmt)
  PROVE  LogLength' /\ FileLength' /\ FileBlocks' /\ BufferBlocks' /\ FrameBlock'
<1> USE DEF TapeInv
<1>1. nextindex \in Nat /\ nextindex % BUFSIZE \in Slot /\ stmt.block \in Block
  BY SlotOf DEF TypeOK, Statement
<1>2. /\ Stored(stmt.block) \in [Slot -> Block]
      /\ Stored(stmt.block)[nextindex % BUFSIZE] = stmt.block
      /\ \A k \in 0 .. (nextindex % BUFSIZE) - 1 :
           Stored(stmt.block)[k] = buffer_tape[k]
  <2>1. \A k \in 0 .. (nextindex % BUFSIZE) - 1 :
          k \in Slot /\ k # nextindex % BUFSIZE
    BY <1>1, IndexFacts DEF Slot
  <2>2. QED
    BY <1>1, <2>1, StoredType DEF Stored, TypeOK
<1>3. CASE UNCHANGED <<nextindex, buffer_tape, dg_tape, frames, log>>
  BY <1>3 DEF LogLength, FileLength, FileBlocks, BufferBlocks, FrameBlock, Base
<1>4. CASE /\ nextindex < MaxIndex
           /\ Complete(stmt, Stored(stmt.block))
           /\ UNCHANGED frames
  <2>1. LogLength' /\ FileLength' /\ FileBlocks' /\ BufferBlocks'
    BY <1>2, <1>4, CompleteTape
  <2>2. FrameBlock'
    BY <1>4 DEF FrameBlock
  <2>3. QED
    BY <2>1, <2>2
<1>5. CASE /\ nextindex < MaxIndex
           /\ buffer_tape' = Stored(stmt.block)
           /\ frames' = Append(frames,
                         [stmt |-> stmt, tid |-> t, at |-> FirstOf(Stops(0))])
           /\ UNCHANGED <<nextindex, dg_tape, log>>
  <2>1. LogLength' /\ FileLength' /\ FileBlocks'
    BY <1>5 DEF LogLength, FileLength, FileBlocks, Base
  <2>2. BufferBlocks'
    BY <1>2, <1>5 DEF BufferBlocks, Base
  <2>3. frames' = <<[stmt |-> stmt, tid |-> t, at |-> FirstOf(Stops(0))]>>
    BY <1>5
  <2>4. FrameBlock'
    BY <1>2, <1>5, <2>3 DEF FrameBlock
  <2>5. QED
    BY <2>1, <2>2, <2>4
<1>6. QED
  BY <1>3, <1>4, <1>5 DEF tapeAddStatement_noActivityAnalysis

(* The same with activity analysis. *)
LEMMA AddActiveTape ==
  ASSUME TapeInv, recording, frames = <<>>, UNCHANGED recording,
         NEW t \in Threads, NEW stmt \in Statement, tapeAddStatement(t, stmt)
  PROVE  LogLength' /\ FileLength' /\ FileBlocks' /\ BufferBlocks' /\ FrameBlock'
<1>1. CASE UNCHANGED <<nextindex, buffer_tape, dg_tape, frames, log>>
  BY <1>1 DEF TapeInv, LogLength, FileLength, FileBlocks, BufferBlocks, FrameBlock, Base
<1>2. CASE tapeAddStatement_noActivityAnalysis(t, stmt)
  BY <1>2, AddTape
<1>3. QED
  BY <1>1, <1>2 DEF tapeAddStatement

(* Every step preserves TapeInv if nobody marks variables at a stop. *)
LEMMA TapeStep ==
  ASSUME ~MarkWhileStopped, TapeInv, [Next]_vars
  PROVE  TapeInv'
<1> DEFINE Goal == LogLength' /\ FileLength' /\ FileBlocks' /\ BufferBlocks' /\ FrameBlock'
<1>0. TypeOK /\ TypeOK'
  BY TypeStep DEF TapeInv
<1> SUFFICES Goal
  BY <1>0 DEF TapeInv
<1>1. ASSUME NEW t \in Threads, NEW dst \in Vars, NEW a \in Operand,
             NEW b \in Operand, NEW d \in Diffs, NEW val \in Values,
             Operation(t, dst, a, b, d, val)
      PROVE  Goal
  <2> DEFINE stmt == [block |-> [index1 |-> IndexOf(a), index2 |-> IndexOf(b),
                                 diffs |-> d], value |-> val, dest |-> dst]
  <2>1. stmt \in Statement
    BY <1>0, IndexOfType DEF Statement, Block
  <2>2. tapeAddStatement(t, stmt) /\ recording /\ frames = <<>> /\ UNCHANGED recording
    BY <1>1 DEF Operation, Running
  <2> HIDE DEF stmt
  <2>3. QED
    BY <2>1, <2>2, AddActiveTape
<1>2. ASSUME NEW t \in Threads, NEW u \in IndexVars, NEW d \in Diffs, NEW val \in Values,
             NEW i1 \in ClientIndices, NEW i2 \in ClientIndices,
             \/ NEW_INDEX(t, u, i1, i2, d, val)
             \/ NEW_INDEX_NOACTIVITYANALYSIS(t, u, i1, i2, d, val)
      PROVE  Goal
  <2> DEFINE stmt == ClientStatement(u, i1, i2, d, val)
  <2>1. stmt \in Statement
    <3>1. i1 \in Index /\ i2 \in Index
      BY <1>0, IndexFacts DEF TypeOK, ClientIndices
    <3>2. QED
      BY <3>1 DEF Statement, Block, ClientStatement
  <2>2. /\ tapeAddStatement(t, stmt) \/ tapeAddStatement_noActivityAnalysis(t, stmt)
        /\ recording /\ frames = <<>> /\ UNCHANGED recording
    BY <1>2 DEF NEW_INDEX, NEW_INDEX_NOACTIVITYANALYSIS, Running
  <2> HIDE DEF stmt
  <2>3. QED
    BY <2>1, <2>2, AddTape, AddActiveTape
<1>3. ASSUME NEW t \in Threads, NEW v \in Vars, NEW val \in Values, mark(t, v, val)
      PROVE  Goal
  <2> DEFINE stmt == [block |-> ZeroBlock, value |-> val, dest |-> v]
  <2>1. stmt \in Statement
    BY BlockTypes DEF Statement
  <2>2. /\ tapeAddStatement_noActivityAnalysis(t, stmt)
        /\ recording /\ frames = <<>> /\ UNCHANGED recording
    BY <1>3 DEF mark
  <2> HIDE DEF stmt
  <2>3. QED
    BY <2>1, <2>2, AddTape
<1>4. ASSUME Continue
      PROVE  Goal
  <2>1. /\ Len(frames) = 1 /\ recording /\ nextindex < MaxIndex
        /\ buffer_tape[nextindex % BUFSIZE] = frames[1].stmt.block
    BY <1>4 DEF Continue, TapeInv, FrameBlock
  <2>2. frames[1] \in Frame /\ frames[1].stmt \in Statement
    <3>1. frames \in Seq(Frame) /\ 1 \in 1 .. Len(frames)
      BY <1>0, <2>1 DEF TypeOK
    <3>2. frames[1] \in Frame
      BY <3>1, ElementOfSeq
    <3>3. QED
      BY <3>2 DEF Frame
  <2>3. CASE /\ frames' = [frames EXCEPT ![1].at = FirstOf(Stops(frames[1].at))]
             /\ UNCHANGED <<tapeVars, programVars, log>>
    <3>1. Len(frames') = 1 /\ frames'[1].stmt = frames[1].stmt
      BY <1>0, <2>1, <2>2, <2>3 DEF TypeOK, Frame
    <3>2. QED
      BY <2>1, <2>3, <3>1
      DEF TapeInv, LogLength, FileLength, FileBlocks, BufferBlocks, FrameBlock,
          Base, tapeVars
  <2>4. CASE /\ Complete(frames[1].stmt, buffer_tape)
             /\ frames' = SubSeq(frames, 1, 0)
             /\ UNCHANGED recording
    <3>1. buffer_tape \in [Slot -> Block]
      BY <1>0 DEF TypeOK
    <3>2. LogLength' /\ FileLength' /\ FileBlocks' /\ BufferBlocks'
      BY <2>1, <2>2, <2>4, <3>1, CompleteTape
    <3>3. frames' = <<>>
      BY <2>4, <1>0 DEF TypeOK
    <3>4. QED
      BY <3>2, <3>3 DEF FrameBlock
  <2>5. \/ /\ frames' = [frames EXCEPT ![Len(frames)].at =
                                  FirstOf(Stops(frames[Len(frames)].at))]
           /\ UNCHANGED <<tapeVars, programVars, log>>
        \/ /\ Complete(frames[Len(frames)].stmt, buffer_tape)
           /\ frames' = SubSeq(frames, 1, Len(frames) - 1)
           /\ UNCHANGED recording
    BY <1>4, Zenon DEF Continue
  <2>6. Len(frames) = 1 /\ Len(frames) - 1 = 0
    BY <2>1
  <2>7. QED
    BY <2>3, <2>4, <2>5, <2>6, Zenon
<1>5. ASSUME Finish
      PROVE  Goal
  <2> DEFINE r == nextindex % BUFSIZE
  <2>1. /\ recording /\ ~recording' /\ frames' = <<>> /\ log' = log
        /\ nextindex' = nextindex
        /\ dg_tape' = dg_tape \o Prefix(buffer_tape, r)
    BY <1>5 DEF Finish, dg_bar_tape_finalize, Running
  <2>2. nextindex \in Nat /\ r \in 0 .. BUFSIZE /\ r <= nextindex /\ dg_tape \in Seq(Block)
    BY <1>0, Remainder DEF TypeOK
  <2>3. /\ Prefix(buffer_tape, r) \in Seq(Block) /\ Len(Prefix(buffer_tape, r)) = r
        /\ \A i \in 1 .. r : Prefix(buffer_tape, r)[i] = buffer_tape[i - 1]
    BY <1>0, <2>2, PrefixType DEF TypeOK
  <2> DEFINE p == Prefix(buffer_tape, r)
  <2>p. p \in Seq(Block) /\ Len(p) = r /\ dg_tape' = dg_tape \o p
    BY <2>1, <2>3
  <2> HIDE DEF p, r
  <2>4. /\ Len(dg_tape') = Len(dg_tape) + r
        /\ \A i \in 1 .. Len(dg_tape) + r :
             dg_tape'[i] = IF i <= Len(dg_tape) THEN dg_tape[i]
                           ELSE p[i - Len(dg_tape)]
    BY ONLY <2>2, <2>p, ConcatProperties
  <2>5. CASE tape_in_ram
    BY <2>1, <2>5 DEF TapeInv, LogLength, FileLength, FileBlocks, BufferBlocks, FrameBlock
  <2>6. CASE ~tape_in_ram
    <3>1. Len(dg_tape) = nextindex - r /\ Base = nextindex - r
      BY <2>1, <2>6 DEF TapeInv, FileLength, Base, r
    <3>2. Len(dg_tape') = nextindex
      BY <2>2, <2>4, <3>1
    <3>3. ASSUME NEW i \in 0 .. nextindex - 1 PROVE dg_tape'[i + 1] = LoggedIn(log, i)
      <4>1. CASE i < nextindex - r
        <5>1. dg_tape'[i + 1] = dg_tape[i + 1]
          BY <4>1, <2>2, <2>4, <3>1
        <5>2. QED
          BY <5>1, <4>1, <2>2, <2>6, <3>1 DEF TapeInv, FileBlocks
      <4>2. CASE i >= nextindex - r
        <5>0. nextindex - r \in Int /\ r - 1 \in Int /\ i \in Int /\ i <= (nextindex - r) + (r - 1)
          BY <2>2
        <5>1. PICK k \in 0 .. r - 1 : i = (nextindex - r) + k
          BY ONLY <4>2, <5>0, OffsetFrom
        <5>a. /\ i + 1 \in 1 .. Len(dg_tape) + r /\ ~(i + 1 <= Len(dg_tape))
              /\ i + 1 - Len(dg_tape) = k + 1
          BY ONLY <5>1, <2>2, <3>1, i \in 0 .. nextindex - 1, k \in 0 .. r - 1
        <5>2. dg_tape'[i + 1] = Prefix(buffer_tape, r)[k + 1]
          <6>1. dg_tape'[i + 1] = p[i + 1 - Len(dg_tape)]
            BY ONLY <5>a, <2>4
          <6>2. QED
            BY <6>1, <5>a DEF p
        <5>3. k + 1 \in 1 .. r /\ (k + 1) - 1 = k
          BY <2>2
        <5>4. Prefix(buffer_tape, r)[k + 1] = buffer_tape[k]
          BY ONLY <2>3, <5>3
        <5>5. buffer_tape[k] = LoggedIn(log, Base + k)
          BY <2>1 DEF TapeInv, BufferBlocks, r
        <5>6. QED
          BY <5>1, <5>2, <5>4, <5>5, <3>1
      <4>3. QED
        BY <4>1, <4>2, <2>2
    <3>4. QED
      BY <2>1, <2>2, <2>6, <3>2, <3>3
      DEF TapeInv, LogLength, FileLength, FileBlocks, BufferBlocks, FrameBlock
  <2>7. QED
    BY <2>5, <2>6
<1>6. ASSUME UNCHANGED <<tapeVars, frames, log>>
      PROVE  Goal
  BY <1>6 DEF TapeInv, LogLength, FileLength, FileBlocks, BufferBlocks, FrameBlock,
              Base, tapeVars
<1>7. QED
  BY <1>1, <1>2, <1>3, <1>4, <1>5, <1>6
  DEF Next, vars, UnwrappedOperation, Copy, DISABLE, GET_INDEX, SET_INDEX, CopyIndex,
      INDEX_TO_FILE_INPUT, INDEX_TO_FILE_OUTPUT

(* TapeInv is what TapeHoldsLog says, with the slots spelled out. *)
LEMMA TapeInvImplies == TapeInv => TapeHoldsLog
<1> SUFFICES ASSUME TapeInv, recording \/ ~tape_in_ram, NEW i \in Kept
             PROVE  OnTape(i) = LoggedIn(log, i)
  BY DEF TapeHoldsLog
<1> DEFINE r == nextindex % BUFSIZE
<1>1. /\ nextindex \in Nat /\ r \in 0 .. BUFSIZE - 1 /\ r <= nextindex
      /\ BUFSIZE \in Nat \ {0} /\ Base = nextindex - r
  BY Remainder DEF TapeInv, TypeOK, Base
<1>2. i \in 0 .. nextindex - 1 /\ (tape_in_ram => i >= nextindex - r)
  BY <1>1 DEF Kept
<1>3. CASE i < Len(dg_tape)
  <2>1. ~tape_in_ram
    BY <1>1, <1>2, <1>3 DEF TapeInv, FileLength
  <2>2. QED
    BY <1>2, <1>3, <2>1 DEF TapeInv, FileBlocks, OnTape, TypeOK
<1>4. CASE ~(i < Len(dg_tape))
  <2>1. recording /\ i >= nextindex - r
    BY <1>1, <1>2, <1>4 DEF TapeInv, FileLength
  <2>0. nextindex - r \in Int /\ r - 1 \in Int /\ i \in Int /\ i <= (nextindex - r) + (r - 1)
    BY <1>1, <1>2
  <2>2. PICK k \in 0 .. r - 1 : i = (nextindex - r) + k
    BY ONLY <2>0, <2>1, OffsetFrom
  <2>3. k \in 0 .. BUFSIZE - 1
    BY <1>1
  <2>4. i % BUFSIZE = k
    BY <1>1, <2>2, <2>3, ModOffset
  <2>5. buffer_tape[k] = LoggedIn(log, Base + k)
    BY <2>1 DEF TapeInv, BufferBlocks
  <2>6. QED
    BY <1>1, <1>4, <2>2, <2>4, <2>5 DEF OnTape
<1>5. QED
  BY <1>3, <1>4

(* TapeInv holds initially: block 0 is in slot 0 and the file is empty. *)
LEMMA TapeInit == Init => TapeInv
<1> SUFFICES ASSUME Init PROVE TapeInv
  OBVIOUS
<1>1. TypeOK
  <2>1. 0 \in Half
    BY IndexFacts DEF Half
  <2>2. QED
    BY <2>1, IndexFacts, BlockTypes, TapeAssumption
    DEF Init, TypeOK, dg_bar_tape_initialize
<1>a. BUFSIZE \in Nat /\ BUFSIZE > 1
  BY TapeAssumption
<1>b. 1 % BUFSIZE = 1
  BY ONLY <1>a, OneMod
<1>2. nextindex = 1 /\ 1 % BUFSIZE = 1 /\ 0 \in Slot
  BY <1>a, <1>b DEF Init, dg_bar_tape_initialize, Slot
<1>3. QED
  BY <1>1, <1>2
  DEF TapeInv, Init, dg_bar_tape_initialize, LogLength, FileLength, FileBlocks,
      BufferBlocks, FrameBlock, Base, LoggedIn

(***************************************************************************)
(* For every buffer size, any number of threads and variables, any list of *)
(* stop indices and with or without --typegrind, --record-values and       *)
(* --tape-in-ram: the block found under an index is the block of the       *)
(* statement that was assigned the index, as long as the user gives no     *)
(* monitor mark while a call is interrupted by --record-stop.              *)
(***************************************************************************)
THEOREM TapeCorrect == ~MarkWhileStopped => (Spec => []TapeHoldsLog)
<1> SUFFICES ASSUME ~MarkWhileStopped PROVE Spec => []TapeHoldsLog
  OBVIOUS
<1>1. TapeInv /\ [Next]_vars => TapeInv'
  BY TapeStep
<1>2. QED
  BY <1>1, TapeInit, TapeInvImplies, PTL DEF Spec

-----------------------------------------------------------------------------
(* Indices: they refer to blocks that were recorded before.                 *)


(* An index that may stand in block n may stand in any later one. *)
LEMMA PrecedesLater ==
  ASSUME NEW j \in Nat, NEW n \in Nat, NEW m \in Nat, n <= m, Precedes(j, n)
  PROVE  Precedes(j, m)
  BY DEF Precedes

(* The same for both operands of a block. *)
LEMMA OperandsLater ==
  ASSUME NEW b \in Block, NEW n \in Nat, NEW m \in Nat, n <= m, OperandsOf(b, n)
  PROVE  OperandsOf(b, m)
<1>1. b.index1 \in Nat /\ b.index2 \in Nat
  BY IndexFacts DEF Block, Index
<1>2. QED
  BY <1>1, PrecedesLater DEF OperandsOf

(* The caller's use of an index that precedes n leaves no dangling index. *)
LEMMA AssignIndex ==
  ASSUME TypeOK, NoDanglingIndex, NEW n \in Nat, nextindex <= n, NEW dest,
         NEW index \in Index, Precedes(index, n), Assign(dest, index)
  PROVE  /\ \A v \in Vars : Precedes(Assemble(shadow'[v]), n)
         /\ \A u \in IndexVars : Precedes(tmp'[u], n)
<1>1. nextindex \in Nat
  BY DEF TypeOK
<1>2. ASSUME NEW v \in Vars PROVE Precedes(Assemble(shadow'[v]), n)
  <2>1. CASE shadow'[v] = Split(index)
    BY <2>1, AssembleSplit
  <2>2. CASE shadow'[v] = shadow[v]
    <3>1. Assemble(shadow[v]) \in Nat
      BY AssembleType, IndexFacts DEF TypeOK, Index
    <3>2. Precedes(Assemble(shadow[v]), nextindex)
      BY DEF NoDanglingIndex
    <3>3. QED
      BY <1>1, <2>2, <3>1, <3>2, PrecedesLater
  <2>3. QED
    BY <2>1, <2>2 DEF Assign, TypeOK
<1>3. ASSUME NEW t \in IndexVars PROVE Precedes(tmp'[t], n)
  <2>1. CASE tmp'[t] = index
    BY <2>1
  <2>2. CASE tmp'[t] = tmp[t]
    <3>1. tmp[t] \in Nat
      BY IndexFacts DEF TypeOK, Index
    <3>2. Precedes(tmp[t], nextindex)
      BY DEF NoDanglingIndex
    <3>3. QED
      BY <1>1, <2>2, <3>1, <3>2, PrecedesLater
  <2>3. QED
    BY <2>1, <2>2 DEF Assign, TypeOK
<1>4. QED
  BY <1>2, <1>3

(* What a call returns is an index that precedes the next one. *)
LEMMA ReturnedPrecede ==
  ASSUME TypeOK
  PROVE  /\ Precedes(AssignedIndex, nextindex + 1)
         /\ Precedes(DisabledIndex, nextindex)
         /\ Precedes(0, nextindex)
<1>1. nextindex \in Nat \ {0}
  BY DEF TypeOK
<1>2. QED
  BY <1>1, IndexFacts DEF Precedes, AssignedIndex, DisabledIndex

(* Completing a call extends the history by a block with earlier operands. *)
LEMMA CompleteIndex ==
  ASSUME TypeOK, LogLength, LogOperands, NoDanglingIndex, nextindex < MaxIndex,
         NEW stmt \in Statement, NEW buf, OperandsOf(stmt.block, nextindex),
         Complete(stmt, buf)
  PROVE  /\ nextindex' = nextindex + 1
         /\ LogLength' /\ LogOperands' /\ NoDanglingIndex'
<1>1. nextindex \in Nat \ {0} /\ nextindex' = nextindex + 1
  BY DEF TypeOK, Complete, AdvanceIndex
<1>2. /\ Len(log') = nextindex
      /\ \A i \in 0 .. nextindex - 1 : LoggedIn(log', i) = LoggedIn(log, i)
      /\ LoggedIn(log', nextindex) = stmt.block
  BY LogGrows
<1>3. LogLength'
  BY <1>1, <1>2 DEF LogLength
<1>4. LogOperands'
  <2>1. ASSUME NEW i \in 1 .. nextindex PROVE OperandsOf(log'[i].block, i)
    <3>1. CASE i = nextindex
      BY <3>1, <1>1, <1>2 DEF LoggedIn
    <3>2. CASE i # nextindex
      <4>1. i \in 1 .. Len(log) /\ i \in 0 .. nextindex - 1 /\ i # 0
        BY <3>2, <1>1 DEF LogLength
      <4>2. log'[i].block = log[i].block
        BY <4>1, <1>2 DEF LoggedIn
      <4>3. QED
        BY <4>1, <4>2 DEF LogOperands
    <3>3. QED
      BY <3>1, <3>2
  <2>2. QED
    BY <1>2, <2>1, <1>1 DEF LogOperands, OperandsOf, Precedes
<1>5. NoDanglingIndex'
  <2>1. AssignedIndex \in Index /\ Precedes(AssignedIndex, nextindex + 1)
    BY ReturnedTypes, ReturnedPrecede DEF TypeOK
  <2>2. /\ \A v \in Vars : Precedes(Assemble(shadow'[v]), nextindex + 1)
        /\ \A u \in IndexVars : Precedes(tmp'[u], nextindex + 1)
    BY <1>1, <2>1, AssignIndex DEF Complete
  <2>3. QED
    BY <1>1, <2>2 DEF NoDanglingIndex, Precedes, Assemble
<1>6. QED
  BY <1>1, <1>3, <1>4, <1>5

(* A larger counter keeps the interrupted calls' operands and the files valid. *)
LEMMA CounterGrows ==
  ASSUME TypeOK, FrameOperands, FileIndices, NEW n \in Nat, nextindex <= n
  PROVE  /\ \A k \in 1 .. Len(frames) : OperandsOf(frames[k].stmt.block, n)
         /\ \A k \in 1 .. Len(dg_input_indices) : Precedes(dg_input_indices[k], n)
         /\ \A k \in 1 .. Len(dg_output_indices) : Precedes(dg_output_indices[k], n)
<1>1. nextindex \in Nat
  BY DEF TypeOK
<1>2. ASSUME NEW k \in 1 .. Len(frames) PROVE OperandsOf(frames[k].stmt.block, n)
  <2>1. frames[k] \in Frame
    BY ElementOfSeq DEF TypeOK
  <2>2. frames[k].stmt.block \in Block
    BY <2>1 DEF Frame, Statement
  <2>3. OperandsOf(frames[k].stmt.block, nextindex)
    BY DEF FrameOperands
  <2>4. QED
    BY <1>1, <2>2, <2>3, OperandsLater
<1>3. \A j \in Index : j \in Nat
  BY IndexFacts DEF Index
<1>4. ASSUME NEW k \in 1 .. Len(dg_input_indices) PROVE Precedes(dg_input_indices[k], n)
  <2>1. dg_input_indices[k] \in Nat
    BY <1>3, ElementOfSeq DEF TypeOK
  <2>2. QED
    BY <1>1, <2>1, PrecedesLater DEF FileIndices
<1>5. ASSUME NEW k \in 1 .. Len(dg_output_indices) PROVE Precedes(dg_output_indices[k], n)
  <2>1. dg_output_indices[k] \in Nat
    BY <1>3, ElementOfSeq DEF TypeOK
  <2>2. QED
    BY <1>1, <2>1, PrecedesLater DEF FileIndices
<1>6. QED
  BY <1>2, <1>4, <1>5

(***************************************************************************)
(* A call on the tape with operands that precede nextindex, from the       *)
(* program or from the debugger at a stop: it is dropped, it completes, or *)
(* it joins the interrupted ones.                                          *)
(***************************************************************************)
LEMMA AddIndex ==
  ASSUME IndexInv, TypeOK', NEW t \in Threads, NEW stmt \in Statement,
         OperandsOf(stmt.block, nextindex),
         tapeAddStatement_noActivityAnalysis(t, stmt),
         UNCHANGED <<dg_input_indices, dg_output_indices>>
  PROVE  IndexInv'
<1> USE DEF IndexInv
<1>1. nextindex \in Nat \ {0}
  BY DEF TypeOK
<1>2. CASE /\ Assign(stmt.dest, DisabledIndex)
           /\ UNCHANGED <<nextindex, frames, log>>
  <2>1. DisabledIndex \in Index /\ Precedes(DisabledIndex, nextindex)
    BY ReturnedTypes, ReturnedPrecede DEF TypeOK
  <2>2. NoDanglingIndex'
    <3>1. /\ \A v \in Vars : Precedes(Assemble(shadow'[v]), nextindex)
          /\ \A u \in IndexVars : Precedes(tmp'[u], nextindex)
      BY <1>1, <1>2, <2>1, AssignIndex
    <3>2. QED
      BY <1>2, <3>1 DEF NoDanglingIndex, Precedes, Assemble
  <2>3. LogLength' /\ LogOperands' /\ FrameOperands' /\ FileIndices'
    BY <1>2 DEF LogLength, LogOperands, FrameOperands, FileIndices, OperandsOf, Precedes
  <2>4. QED
    BY <2>2, <2>3
<1>3. CASE /\ nextindex < MaxIndex
           /\ Complete(stmt, Stored(stmt.block))
           /\ UNCHANGED frames
  <2>1. /\ nextindex' = nextindex + 1
        /\ LogLength' /\ LogOperands' /\ NoDanglingIndex'
    BY <1>3, CompleteIndex
  <2>2. nextindex + 1 \in Nat /\ nextindex <= nextindex + 1
    BY <1>1
  <2>3. /\ \A k \in 1 .. Len(frames) : OperandsOf(frames[k].stmt.block, nextindex + 1)
        /\ \A k \in 1 .. Len(dg_input_indices) :
             Precedes(dg_input_indices[k], nextindex + 1)
        /\ \A k \in 1 .. Len(dg_output_indices) :
             Precedes(dg_output_indices[k], nextindex + 1)
    BY <2>2, CounterGrows
  <2>4. FrameOperands' /\ FileIndices'
    BY <1>3, <2>1, <2>3 DEF FrameOperands, FileIndices, OperandsOf, Precedes
  <2>5. QED
    BY <2>1, <2>4
<1>4. CASE /\ frames' = Append(frames,
                         [stmt |-> stmt, tid |-> t, at |-> FirstOf(Stops(0))])
           /\ UNCHANGED <<nextindex, shadow, tmp, log>>
  <2> DEFINE f == [stmt |-> stmt, tid |-> t, at |-> FirstOf(Stops(0))]
  <2>1. LogLength' /\ LogOperands' /\ NoDanglingIndex' /\ FileIndices'
    BY <1>4 DEF LogLength, LogOperands, NoDanglingIndex, FileIndices, OperandsOf,
                Precedes, Assemble
  <2>2. frames \in Seq(Frame) /\ frames' = Append(frames, f) /\ f.stmt = stmt
    BY <1>4 DEF TypeOK
  <2> HIDE DEF f
  <2>3. /\ Len(frames) \in Nat /\ Len(frames') = Len(frames) + 1
        /\ \A k \in 1 .. Len(frames) : frames'[k] = frames[k]
        /\ frames'[Len(frames) + 1] = f
    BY <2>2
  <2>4. ASSUME NEW k \in 1 .. Len(frames')
        PROVE  OperandsOf(frames'[k].stmt.block, nextindex)
    <3>1. CASE k \in 1 .. Len(frames)
      BY <2>3, <3>1 DEF FrameOperands
    <3>2. CASE k = Len(frames) + 1
      BY <2>2, <2>3, <3>2
    <3>3. QED
      BY <2>3, <3>1, <3>2
  <2>5. FrameOperands'
    BY <1>4, <2>4 DEF FrameOperands, OperandsOf, Precedes
  <2>6. QED
    BY <2>1, <2>5
<1>5. QED
  BY <1>2, <1>3, <1>4 DEF tapeAddStatement_noActivityAnalysis

(* The same with activity analysis. *)
LEMMA AddActiveIndex ==
  ASSUME IndexInv, TypeOK', NEW t \in Threads, NEW stmt \in Statement,
         OperandsOf(stmt.block, nextindex), tapeAddStatement(t, stmt),
         UNCHANGED <<dg_input_indices, dg_output_indices>>
  PROVE  IndexInv'
<1>1. CASE Assign(stmt.dest, 0) /\ UNCHANGED <<nextindex, frames, log>>
  <2>1. /\ \A v \in Vars : Precedes(Assemble(shadow'[v]), nextindex)
        /\ \A u \in IndexVars : Precedes(tmp'[u], nextindex)
    <3>1. nextindex \in Nat /\ nextindex <= nextindex /\ 0 \in Index
      BY IndexFacts DEF IndexInv, TypeOK
    <3>2. Precedes(0, nextindex)
      BY ReturnedPrecede DEF IndexInv
    <3>3. QED
      BY <1>1, <3>1, <3>2, AssignIndex DEF IndexInv
  <2>2. QED
    BY <1>1, <2>1
    DEF IndexInv, LogLength, LogOperands, FrameOperands, FileIndices,
        NoDanglingIndex, OperandsOf, Precedes, Assemble
<1>2. CASE tapeAddStatement_noActivityAnalysis(t, stmt)
  BY <1>2, AddIndex
<1>3. QED
  BY <1>1, <1>2 DEF tapeAddStatement

(* A file of indices after another one has been appended, or as it was. *)
LEMMA AppendPrecedes ==
  ASSUME NEW s \in Seq(Index), NEW i \in Index, NEW n, Precedes(i, n),
         \A k \in 1 .. Len(s) : Precedes(s[k], n),
         NEW u \in {s, Append(s, i)}
  PROVE  \A k \in 1 .. Len(u) : Precedes(u[k], n)
<1>1. CASE u = s
  BY <1>1
<1>2. CASE u = Append(s, i)
  <2>1. /\ Len(s) \in Nat /\ Len(u) = Len(s) + 1
        /\ \A k \in 1 .. Len(s) : u[k] = s[k]
        /\ u[Len(s) + 1] = i
    BY <1>2
  <2>2. ASSUME NEW k \in 1 .. Len(u) PROVE k \in 1 .. Len(s) \/ k = Len(s) + 1
    BY <2>1
  <2>3. QED
    BY <2>1, <2>2
<1>3. QED
  BY <1>1, <1>2

(* Every step preserves IndexInv, with or without marks at stops. *)
LEMMA IndexStep == IndexInv /\ [Next]_vars => IndexInv'
<1> SUFFICES ASSUME IndexInv, [Next]_vars PROVE IndexInv'
  OBVIOUS
<1>0. TypeOK /\ TypeOK' /\ nextindex \in Nat \ {0}
  BY TypeStep, SMTT(40) DEF IndexInv, TypeOK
<1>a. Precedes(0, nextindex)
  BY <1>0, ReturnedPrecede
<1>1. ASSUME NEW t \in Threads, NEW dst \in Vars, NEW a \in Operand,
             NEW b \in Operand, NEW d \in Diffs, NEW val \in Values,
             Operation(t, dst, a, b, d, val)
      PROVE  IndexInv'
  <2> DEFINE stmt == [block |-> [index1 |-> IndexOf(a), index2 |-> IndexOf(b),
                                 diffs |-> d], value |-> val, dest |-> dst]
  <2>1. stmt \in Statement
    BY <1>0, IndexOfType DEF Statement, Block
  <2>2. Precedes(IndexOf(a), nextindex) /\ Precedes(IndexOf(b), nextindex)
    BY <1>a DEF IndexInv, NoDanglingIndex, IndexOf, Operand
  <2>3. OperandsOf(stmt.block, nextindex)
    BY <2>2 DEF OperandsOf
  <2>4. /\ tapeAddStatement(t, stmt)
        /\ UNCHANGED <<dg_input_indices, dg_output_indices>>
    BY <1>1 DEF Operation
  <2> HIDE DEF stmt
  <2>5. QED
    BY <1>0, <2>1, <2>3, <2>4, AddActiveIndex
<1>2. ASSUME NEW dst \in Vars, UnwrappedOperation(dst)
      PROVE  IndexInv'
  <2> DEFINE h == IF typegrind THEN [Lo |-> HALF - 1, Hi |-> HALF - 1]
                               ELSE [Lo |-> 0, Hi |-> 0]
  <2>1. Assemble(h) = IF typegrind THEN AllOnes ELSE 0
    <3>1. HALF \in Nat
      BY IndexFacts
    <3>2. (HALF - 1) * HALF + (HALF - 1) = HALF * HALF - 1
      BY <3>1
    <3>3. 0 * HALF + 0 = 0
      BY <3>1
    <3>4. QED
      BY <3>2, <3>3 DEF Assemble, AllOnes
  <2>2. Precedes(Assemble(h), nextindex)
    BY <1>a, <2>1 DEF Precedes
  <2>3. \A v \in Vars : shadow'[v] = h \/ shadow'[v] = shadow[v]
    BY <1>0, <1>2 DEF UnwrappedOperation, TypeOK
  <2>4. UNCHANGED <<nextindex, tmp, frames, log, dg_input_indices, dg_output_indices>>
    BY <1>2 DEF UnwrappedOperation, tapeVars
  <2> HIDE DEF h
  <2>5. \A v \in Vars : Precedes(Assemble(shadow'[v]), nextindex)
    BY <2>2, <2>3 DEF IndexInv, NoDanglingIndex
  <2>6. NoDanglingIndex'
    BY <2>4, <2>5 DEF IndexInv, NoDanglingIndex, Precedes, Assemble
  <2>7. QED
    BY <1>0, <2>4, <2>6
    DEF IndexInv, LogLength, LogOperands, FrameOperands, FileIndices, OperandsOf, Precedes
<1>3. ASSUME NEW dst \in Vars, NEW src \in Vars, Copy(dst, src)
      PROVE  IndexInv'
  <2>1. \A v \in Vars : shadow'[v] = shadow[src] \/ shadow'[v] = shadow[v]
    BY <1>0, <1>3 DEF Copy, TypeOK
  <2>2. UNCHANGED <<nextindex, tmp, frames, log, dg_input_indices, dg_output_indices>>
    BY <1>3 DEF Copy, tapeVars
  <2>3. \A v \in Vars : Precedes(Assemble(shadow'[v]), nextindex)
    BY <2>1 DEF IndexInv, NoDanglingIndex
  <2>4. NoDanglingIndex'
    BY <2>2, <2>3 DEF IndexInv, NoDanglingIndex, Precedes, Assemble
  <2>5. QED
    BY <1>0, <2>2, <2>4
    DEF IndexInv, LogLength, LogOperands, FrameOperands, FileIndices, OperandsOf, Precedes
<1>4. ASSUME NEW t \in IndexVars, NEW v \in Vars, GET_INDEX(t, v)
      PROVE  IndexInv'
  <2>1. \A u \in IndexVars : tmp'[u] = Assemble(shadow[v]) \/ tmp'[u] = tmp[u]
    BY <1>0, <1>4 DEF GET_INDEX, TypeOK
  <2>2. UNCHANGED <<nextindex, shadow, frames, log, dg_input_indices, dg_output_indices>>
    BY <1>4 DEF GET_INDEX, tapeVars
  <2>3. \A u \in IndexVars : Precedes(tmp'[u], nextindex)
    BY <2>1 DEF IndexInv, NoDanglingIndex
  <2>4. NoDanglingIndex'
    BY <2>2, <2>3 DEF IndexInv, NoDanglingIndex, Precedes, Assemble
  <2>5. QED
    BY <1>0, <2>2, <2>4
    DEF IndexInv, LogLength, LogOperands, FrameOperands, FileIndices, OperandsOf, Precedes
<1>5. ASSUME NEW t \in IndexVars, NEW v \in Vars, SET_INDEX(t, v)
      PROVE  IndexInv'
  <2>1. \A u \in Vars : shadow'[u] = Split(tmp[t]) \/ shadow'[u] = shadow[u]
    BY <1>0, <1>5 DEF SET_INDEX, TypeOK
  <2>2. Assemble(Split(tmp[t])) = tmp[t]
    BY <1>0, AssembleSplit DEF TypeOK
  <2>3. UNCHANGED <<nextindex, tmp, frames, log, dg_input_indices, dg_output_indices>>
    BY <1>5 DEF SET_INDEX, tapeVars
  <2>4. \A u \in Vars : Precedes(Assemble(shadow'[u]), nextindex)
    BY <2>1, <2>2 DEF IndexInv, NoDanglingIndex
  <2>5. NoDanglingIndex'
    BY <2>3, <2>4 DEF IndexInv, NoDanglingIndex, Precedes, Assemble
  <2>6. QED
    BY <1>0, <2>3, <2>5
    DEF IndexInv, LogLength, LogOperands, FrameOperands, FileIndices, OperandsOf, Precedes
<1>6. ASSUME NEW t \in Threads, NEW u \in IndexVars, NEW d \in Diffs, NEW val \in Values,
             NEW i1 \in ClientIndices, NEW i2 \in ClientIndices,
             \/ NEW_INDEX(t, u, i1, i2, d, val)
             \/ NEW_INDEX_NOACTIVITYANALYSIS(t, u, i1, i2, d, val)
      PROVE  IndexInv'
  <2> DEFINE stmt == ClientStatement(u, i1, i2, d, val)
  <2>1. stmt \in Statement
    <3>1. i1 \in Index /\ i2 \in Index
      BY <1>0, IndexFacts DEF TypeOK, ClientIndices
    <3>2. QED
      BY <3>1 DEF Statement, Block, ClientStatement
  <2>2. OperandsOf(stmt.block, nextindex)
    BY <1>a DEF OperandsOf, ClientStatement, ClientIndices, IndexInv, NoDanglingIndex
  <2>3. /\ tapeAddStatement(t, stmt) \/ tapeAddStatement_noActivityAnalysis(t, stmt)
        /\ UNCHANGED <<dg_input_indices, dg_output_indices>>
    BY <1>6 DEF NEW_INDEX, NEW_INDEX_NOACTIVITYANALYSIS
  <2> HIDE DEF stmt
  <2>4. QED
    BY <1>0, <2>1, <2>2, <2>3, AddIndex, AddActiveIndex
<1>7. ASSUME NEW t \in IndexVars, INDEX_TO_FILE_INPUT(t) \/ INDEX_TO_FILE_OUTPUT(t)
      PROVE  IndexInv'
  <2>1. tmp[t] \in Index /\ Precedes(tmp[t], nextindex)
    BY <1>0 DEF TypeOK, IndexInv, NoDanglingIndex
  <2>2. /\ dg_input_indices' \in {dg_input_indices, Append(dg_input_indices, tmp[t])}
        /\ dg_output_indices' \in {dg_output_indices, Append(dg_output_indices, tmp[t])}
        /\ UNCHANGED <<nextindex, shadow, tmp, frames, log>>
    BY <1>7 DEF INDEX_TO_FILE_INPUT, INDEX_TO_FILE_OUTPUT, tapeVars
  <2>3. \A k \in 1 .. Len(dg_input_indices') : Precedes(dg_input_indices'[k], nextindex)
    BY <1>0, <2>1, <2>2, AppendPrecedes DEF TypeOK, IndexInv, FileIndices
  <2>4. \A k \in 1 .. Len(dg_output_indices') : Precedes(dg_output_indices'[k], nextindex)
    BY <1>0, <2>1, <2>2, AppendPrecedes DEF TypeOK, IndexInv, FileIndices
  <2>5. FileIndices'
    BY <2>2, <2>3, <2>4 DEF FileIndices, Precedes
  <2>6. QED
    BY <1>0, <2>2, <2>5
    DEF IndexInv, LogLength, LogOperands, FrameOperands, NoDanglingIndex, OperandsOf,
        Precedes, Assemble
<1>8. ASSUME NEW t \in Threads, NEW v \in Vars, NEW val \in Values, mark(t, v, val)
      PROVE  IndexInv'
  <2> DEFINE stmt == [block |-> ZeroBlock, value |-> val, dest |-> v]
  <2>1. stmt \in Statement
    BY BlockTypes DEF Statement
  <2>2. OperandsOf(stmt.block, nextindex)
    BY <1>a DEF OperandsOf, ZeroBlock
  <2>3. /\ tapeAddStatement_noActivityAnalysis(t, stmt)
        /\ UNCHANGED <<dg_input_indices, dg_output_indices>>
    BY <1>8 DEF mark
  <2> HIDE DEF stmt
  <2>4. QED
    BY <1>0, <2>1, <2>2, <2>3, AddIndex
<1>9. ASSUME Continue
      PROVE  IndexInv'
  <2> DEFINE n == Len(frames)
  <2>1. n \in Nat /\ n \in 1 .. n /\ n \in DOMAIN frames /\ frames[n] \in Frame
    BY <1>0, <1>9, EmptySeq, LenProperties, SMTT(40) DEF Continue, TypeOK
  <2>2. frames \in Seq(Frame) /\ frames[n].stmt \in Statement
    BY <1>0, <2>1 DEF TypeOK, Frame
  <2>3. CASE /\ frames' = [frames EXCEPT ![n].at = FirstOf(Stops(frames[n].at))]
             /\ UNCHANGED <<tapeVars, programVars, log>>
    <3>1. /\ Len(frames') = n
          /\ \A k \in 1 .. n : frames'[k].stmt = frames[k].stmt
      BY <2>1, <2>2, <2>3 DEF Frame
    <3>2. UNCHANGED <<nextindex, shadow, tmp, log, dg_input_indices, dg_output_indices>>
      BY <2>3 DEF tapeVars, programVars
    <3>3. QED
      BY <1>0, <3>1, <3>2
      DEF IndexInv, LogLength, LogOperands, FrameOperands, FileIndices,
          NoDanglingIndex, OperandsOf, Precedes, Assemble
  <2>4. CASE /\ nextindex < MaxIndex
             /\ Complete(frames[n].stmt, buffer_tape)
             /\ frames' = SubSeq(frames, 1, n - 1)
             /\ UNCHANGED <<dg_input_indices, dg_output_indices>>
    <3>1. OperandsOf(frames[n].stmt.block, nextindex)
      BY <2>1 DEF IndexInv, FrameOperands
    <3>2. /\ nextindex' = nextindex + 1
          /\ LogLength' /\ LogOperands' /\ NoDanglingIndex'
      BY <1>0, <2>2, <2>4, <3>1, CompleteIndex DEF IndexInv
    <3>3. nextindex + 1 \in Nat /\ nextindex <= nextindex + 1
      BY <1>0
    <3>4. /\ \A k \in 1 .. n : OperandsOf(frames[k].stmt.block, nextindex + 1)
          /\ \A k \in 1 .. Len(dg_input_indices) :
               Precedes(dg_input_indices[k], nextindex + 1)
          /\ \A k \in 1 .. Len(dg_output_indices) :
               Precedes(dg_output_indices[k], nextindex + 1)
      BY <1>0, <3>3, CounterGrows DEF IndexInv
    <3>5. /\ Len(frames') = n - 1
          /\ \A k \in 1 .. n - 1 : frames'[k] = frames[k]
      <4>1. 1 \in 1 .. n + 1 /\ n - 1 \in 0 .. n /\ n - 1 + 1 - 1 = n - 1
        BY <2>1
      <4>2. /\ Len(SubSeq(frames, 1, n - 1)) = n - 1
            /\ \A k \in 1 .. n - 1 : SubSeq(frames, 1, n - 1)[k] = frames[k]
        BY <2>2, <4>1, SubSeqProperties
      <4>3. QED
        BY <2>4, <4>2, Zenon
    <3>6. FrameOperands'
      BY <2>1, <3>2, <3>4, <3>5 DEF FrameOperands, OperandsOf, Precedes
    <3>7. FileIndices'
      BY <2>4, <3>2, <3>4 DEF FileIndices, Precedes
    <3>8. QED
      BY <1>0, <3>2, <3>6, <3>7 DEF IndexInv
  <2>5. QED
    BY <1>9, <2>3, <2>4, Zenon DEF Continue
<1>10. ASSUME UNCHANGED <<nextindex, shadow, tmp, frames, log, dg_input_indices,
                          dg_output_indices>>
       PROVE  IndexInv'
  BY <1>0, <1>10
  DEF IndexInv, LogLength, LogOperands, FrameOperands, FileIndices, NoDanglingIndex,
      OperandsOf, Precedes, Assemble
<1>11. ASSUME NEW u \in IndexVars, NEW w \in IndexVars, CopyIndex(u, w)
       PROVE  IndexInv'
  <2>1. \A x \in IndexVars : tmp'[x] = tmp[w] \/ tmp'[x] = tmp[x]
    BY <1>0, <1>11 DEF CopyIndex, TypeOK
  <2>2. UNCHANGED <<nextindex, shadow, frames, log, dg_input_indices, dg_output_indices>>
    BY <1>11 DEF CopyIndex, tapeVars
  <2>3. \A x \in IndexVars : Precedes(tmp'[x], nextindex)
    BY <2>1 DEF IndexInv, NoDanglingIndex
  <2>4. NoDanglingIndex'
    BY <2>2, <2>3 DEF IndexInv, NoDanglingIndex, Precedes, Assemble
  <2>5. QED
    BY <1>0, <2>2, <2>4
    DEF IndexInv, LogLength, LogOperands, FrameOperands, FileIndices, OperandsOf, Precedes
<1>12. QED
  BY <1>1, <1>2, <1>3, <1>4, <1>5, <1>6, <1>7, <1>8, <1>9, <1>10, <1>11
  DEF Next, vars, tapeVars, programVars, DISABLE, Finish, dg_bar_tape_finalize

(* IndexInv holds initially: no index has been assigned. *)
LEMMA IndexInit == Init => IndexInv
<1> SUFFICES ASSUME Init PROVE IndexInv
  OBVIOUS
<1>1. TypeOK
  BY TapeInit DEF TapeInv
<1>2. Precedes(0, nextindex)
  BY <1>1, ReturnedPrecede
<1>3. Assemble([Lo |-> 0, Hi |-> 0]) = 0
  BY IndexFacts DEF Assemble
<1>4. NoDanglingIndex
  BY <1>2, <1>3 DEF NoDanglingIndex, Init
<1>5. QED
  BY <1>1, <1>4
  DEF IndexInv, Init, dg_bar_tape_initialize, LogLength, LogOperands, FrameOperands,
      FileIndices

(***************************************************************************)
(* For every buffer size, any number of threads and variables, any list of *)
(* stop indices and even with monitor marks at stops: the halves in a      *)
(* shadow always assemble to an index that has been assigned (or to        *)
(* 0xff..f under --typegrind), and so does what a client request works on. *)
(***************************************************************************)
THEOREM IndicesAssigned == Spec => []NoDanglingIndex
<1>1. IndexInv => NoDanglingIndex
  BY DEF IndexInv
<1>2. QED
  BY <1>1, IndexInit, IndexStep, PTL DEF Spec

(* A block of the history that is on the tape has earlier operands. *)
LEMMA OperandsFromLog == TapeHoldsLog /\ IndexInv => OperandsPrecede
<1> SUFFICES ASSUME TapeHoldsLog, IndexInv, ~tape_in_ram,
                    NEW i \in 0 .. nextindex - 1, i > 0
             PROVE  Precedes(OnTape(i).index1, i) /\ Precedes(OnTape(i).index2, i)
  BY DEF OperandsPrecede
<1>1. OnTape(i) = LoggedIn(log, i)
  BY DEF TapeHoldsLog, Kept
<1>2. i \in 1 .. Len(log) /\ i # 0
  BY DEF IndexInv, TypeOK, LogLength
<1>3. OperandsOf(log[i].block, i)
  BY <1>2 DEF IndexInv, LogOperands
<1>4. QED
  BY <1>1, <1>2, <1>3 DEF LoggedIn, OperandsOf

(***************************************************************************)
(* Every operand on the tape is an earlier index, so that the evaluation   *)
(* meets each result before its operands when it walks backwards.          *)
(***************************************************************************)
THEOREM OperandsCorrect == ~MarkWhileStopped => (Spec => []OperandsPrecede)
<1> SUFFICES ASSUME ~MarkWhileStopped PROVE Spec => []OperandsPrecede
  OBVIOUS
<1>1. Spec => []TapeHoldsLog
  BY TapeCorrect
<1>2. QED
  BY <1>1, IndexInit, IndexStep, OperandsFromLog, PTL DEF Spec

-----------------------------------------------------------------------------
(* The files: dg-values in step with dg-tape.                              *)

(***************************************************************************)
(* What a step can do to the tape and its history: nothing, store the      *)
(* block of a call that is then interrupted, drop a call because recording *)
(* is disabled, complete a call, or write out the buffers at the end.      *)
(***************************************************************************)
LEMMA StepKinds ==
  ASSUME TypeOK, [Next]_vars
  PROVE  \/ UNCHANGED <<nextindex, buffer_values, dg_tape, dg_values, recording, log>>
         \/ \E val \in Values :
              /\ RecordValue(nextindex, DisabledIndex, val)
              /\ UNCHANGED <<nextindex, buffer_tape, dg_tape, recording, log>>
         \/ \E stmt \in Statement, buf \in [Slot -> Block] :
              /\ recording /\ nextindex < MaxIndex
              /\ Complete(stmt, buf) /\ UNCHANGED recording
         \/ Finish
<1> DEFINE Goal ==
         \/ UNCHANGED <<nextindex, buffer_values, dg_tape, dg_values, recording, log>>
         \/ \E val \in Values :
              /\ RecordValue(nextindex, DisabledIndex, val)
              /\ UNCHANGED <<nextindex, buffer_tape, dg_tape, recording, log>>
         \/ \E stmt \in Statement, buf \in [Slot -> Block] :
              /\ recording /\ nextindex < MaxIndex
              /\ Complete(stmt, buf) /\ UNCHANGED recording
         \/ Finish
<1>1. ASSUME NEW t \in Threads, NEW stmt \in Statement, recording, UNCHANGED recording,
             tapeAddStatement(t, stmt) \/ tapeAddStatement_noActivityAnalysis(t, stmt)
      PROVE  Goal
  <2>1. stmt.value \in Values /\ Stored(stmt.block) \in [Slot -> Block]
    BY StoredType DEF TypeOK, Statement
  <2>2. CASE tapeAddStatement_noActivityAnalysis(t, stmt)
    BY <1>1, <2>1, <2>2 DEF tapeAddStatement_noActivityAnalysis
  <2>3. QED
    BY <1>1, <2>2 DEF tapeAddStatement
<1>2. ASSUME NEW t \in Threads, NEW dst \in Vars, NEW a \in Operand,
             NEW b \in Operand, NEW d \in Diffs, NEW val \in Values,
             Operation(t, dst, a, b, d, val)
      PROVE  Goal
  <2> DEFINE stmt == [block |-> [index1 |-> IndexOf(a), index2 |-> IndexOf(b),
                                 diffs |-> d], value |-> val, dest |-> dst]
  <2>1. stmt \in Statement
    BY IndexOfType DEF Statement, Block
  <2>2. tapeAddStatement(t, stmt) /\ recording /\ UNCHANGED recording
    BY <1>2 DEF Operation, Running
  <2> HIDE DEF stmt
  <2>3. QED
    BY <1>1, <2>1, <2>2
<1>3. ASSUME NEW t \in Threads, NEW u \in IndexVars, NEW d \in Diffs, NEW val \in Values,
             NEW i1 \in ClientIndices, NEW i2 \in ClientIndices,
             \/ NEW_INDEX(t, u, i1, i2, d, val)
             \/ NEW_INDEX_NOACTIVITYANALYSIS(t, u, i1, i2, d, val)
      PROVE  Goal
  <2> DEFINE stmt == ClientStatement(u, i1, i2, d, val)
  <2>1. i1 \in Index /\ i2 \in Index
    BY IndexFacts DEF TypeOK, ClientIndices
  <2>2. stmt \in Statement
    BY <2>1 DEF Statement, Block, ClientStatement
  <2>3. /\ tapeAddStatement(t, stmt) \/ tapeAddStatement_noActivityAnalysis(t, stmt)
        /\ recording /\ UNCHANGED recording
    BY <1>3 DEF NEW_INDEX, NEW_INDEX_NOACTIVITYANALYSIS, Running
  <2> HIDE DEF stmt
  <2>4. QED
    BY <1>1, <2>2, <2>3
<1>4. ASSUME NEW t \in Threads, NEW v \in Vars, NEW val \in Values, mark(t, v, val)
      PROVE  Goal
  <2> DEFINE stmt == [block |-> ZeroBlock, value |-> val, dest |-> v]
  <2>1. stmt \in Statement
    BY BlockTypes DEF Statement
  <2>2. tapeAddStatement_noActivityAnalysis(t, stmt) /\ recording /\ UNCHANGED recording
    BY <1>4 DEF mark
  <2> HIDE DEF stmt
  <2>3. QED
    BY <1>1, <2>1, <2>2
<1>5. ASSUME Continue
      PROVE  Goal
  <2> DEFINE top == frames[Len(frames)]
  <2>1. top \in Frame /\ recording
    BY <1>5, EmptySeq, LenProperties DEF Continue, TypeOK
  <2>2. top.stmt \in Statement /\ buffer_tape \in [Slot -> Block]
    BY <2>1 DEF Frame, TypeOK
  <2>3. \/ UNCHANGED tapeVars /\ UNCHANGED log
        \/ nextindex < MaxIndex /\ Complete(top.stmt, buffer_tape) /\ UNCHANGED recording
    BY <1>5, Zenon DEF Continue
  <2> HIDE DEF top
  <2>4. QED
    BY <2>1, <2>2, <2>3 DEF tapeVars
<1>6. ASSUME UNCHANGED <<tapeVars, log>>
      PROVE  Goal
  BY <1>6 DEF tapeVars
<1>7. QED
  BY <1>2, <1>3, <1>4, <1>5, <1>6
  DEF Next, vars, UnwrappedOperation, Copy, DISABLE, GET_INDEX, SET_INDEX, CopyIndex,
      INDEX_TO_FILE_INPUT, INDEX_TO_FILE_OUTPUT

\* The sequence g is file followed by the first n slots of buf.
Continues(g, file, buf, n) ==
  /\ Len(file) \in Nat /\ Len(g) = Len(file) + n
  /\ \A i \in 0 .. Len(file) - 1 : g[i + 1] = file[i + 1]
  /\ \A k \in 0 .. n - 1 : g[(Len(file) + k) + 1] = buf[k]

(* A file after the first n slots of a buffer have been appended to it. *)
LEMMA FileGrows ==
  ASSUME NEW S, NEW file \in Seq(S), NEW buf \in [Slot -> S], NEW n \in 0 .. BUFSIZE
  PROVE  Continues(file \o Prefix(buf, n), file, buf, n)
<1> DEFINE p == Prefix(buf, n)
           g == file \o p
<1>1. n \in Nat /\ Len(file) \in Nat
  BY IndexFacts, LenProperties
<1>2. p \in Seq(S) /\ Len(p) = n /\ \A i \in 1 .. n : p[i] = buf[i - 1]
  BY PrefixType
<1>3. /\ Len(g) = Len(file) + n
      /\ \A i \in 1 .. Len(file) + n :
           g[i] = IF i <= Len(file) THEN file[i] ELSE p[i - Len(file)]
  <2> HIDE DEF p
  <2>1. QED
    BY <1>1, <1>2, ConcatProperties
<1> HIDE DEF p, g
<1>4. ASSUME NEW i \in 0 .. Len(file) - 1 PROVE g[i + 1] = file[i + 1]
  BY <1>1, <1>3
<1>5. ASSUME NEW k \in 0 .. n - 1 PROVE g[(Len(file) + k) + 1] = buf[k]
  <2>1. /\ Len(file) + k + 1 \in 1 .. Len(file) + n
        /\ ~(Len(file) + k + 1 <= Len(file))
        /\ Len(file) + k + 1 - Len(file) = k + 1
        /\ k + 1 \in 1 .. n /\ (k + 1) - 1 = k
    BY <1>1
  <2>2. g[(Len(file) + k) + 1] = p[k + 1]
    <3> DEFINE j == Len(file) + k + 1
    <3>1. j \in 1 .. Len(file) + n /\ ~(j <= Len(file)) /\ j - Len(file) = k + 1
      BY <2>1
    <3> HIDE DEF j
    <3>2. g[j] = p[k + 1]
      BY ONLY <1>3, <3>1
    <3>3. QED
      BY <3>2 DEF j
  <2>3. QED
    BY <1>2, <2>1, <2>2
<1>6. Continues(g, file, buf, n)
  BY <1>1, <1>3, <1>4, <1>5 DEF Continues
<1>7. QED
  BY <1>6 DEF g, p

(* Completing a call records its value under the index it is assigned. *)
LEMMA CompleteValues ==
  ASSUME ~typegrind, ValueInv, recording, nextindex < MaxIndex,
         NEW stmt \in Statement, NEW buf \in [Slot -> Block],
         Complete(stmt, buf), UNCHANGED recording
  PROVE  LogLength' /\ FileLength' /\ ValueLength' /\ FileValues' /\ BufferValues'
<1> DEFINE n == nextindex
           r == n % BUFSIZE
           B == BUFSIZE
<1>1. /\ n \in Nat \ {0} /\ B \in Nat \ {0} /\ r \in 0 .. B - 1 /\ r <= n
      /\ B > 1 /\ nextindex' = n + 1 /\ Base = n - r
      /\ nextindex' % B = IF r = B - 1 THEN 0 ELSE r + 1
      /\ B \in 0 .. BUFSIZE /\ r \in Slot
  <2>1. n \in Nat \ {0} /\ B \in Nat \ {0} /\ B > 1
    BY IndexFacts, TapeAssumption DEF ValueInv, TypeOK
  <2>2. nextindex' = n + 1
    BY DEF Complete, AdvanceIndex
  <2>3. r \in 0 .. B - 1 /\ r <= n
    BY <2>1, ModDiv
  <2>4. (n + 1) % B = IF r = B - 1 THEN 0 ELSE r + 1
    BY <2>1, ModSucc
  <2>5. QED
    BY <2>1, <2>2, <2>3, <2>4 DEF Base, Slot
<1>2. /\ Len(log') = n
      /\ \A i \in 0 .. n - 1 : LoggedValueIn(log', i) = LoggedValueIn(log, i)
      /\ LoggedValueIn(log', n) = stmt.value
  <2>1. log \in Seq(Entry) /\ Len(log) = n - 1
    BY DEF ValueInv, TypeOK, LogLength
  <2>2. [block |-> stmt.block, value |-> stmt.value] \in Entry
    BY DEF Statement, Entry
  <2>3. log' = Append(log, [block |-> stmt.block, value |-> stmt.value])
    BY DEF Complete
  <2>4. /\ Len(log') = n
        /\ \A i \in 1 .. n - 1 : log'[i] = log[i]
        /\ log'[n] = [block |-> stmt.block, value |-> stmt.value]
    BY <1>1, <2>1, <2>2, <2>3, AppendProperties
  <2>5. ASSUME NEW i \in 0 .. n - 1 PROVE LoggedValueIn(log', i) = LoggedValueIn(log, i)
    BY <1>1, <2>4 DEF LoggedValueIn
  <2>6. LoggedValueIn(log', n) = stmt.value
    BY <1>1, <2>4 DEF LoggedValueIn
  <2>7. QED
    BY <2>4, <2>5, <2>6
<1>3. LogLength'
  BY <1>1, <1>2 DEF LogLength
<1>4. /\ r = B - 1 => Base' = n + 1 /\ nextindex' % B = 0
      /\ r # B - 1 => Base' = Base /\ nextindex' % B = r + 1
  BY <1>1 DEF Base
<1>5. FileLength'
  <2>1. tape_in_ram \/ r # B - 1 => dg_tape' = dg_tape
    BY <1>1 DEF Complete, AdvanceIndex
  <2>2. ~tape_in_ram /\ r = B - 1 => dg_tape' = dg_tape \o Prefix(buf, B)
    BY <1>1 DEF Complete, AdvanceIndex
  <2>3. Len(dg_tape \o Prefix(buf, B)) = Len(dg_tape) + B
    <3>1. dg_tape \in Seq(Block) /\ B \in 0 .. BUFSIZE
      BY <1>1 DEF ValueInv, TypeOK
    <3>2. Continues(dg_tape \o Prefix(buf, B), dg_tape, buf, B)
      BY <3>1, FileGrows, Zenon
    <3>3. QED
      BY <3>2 DEF Continues
  <2>4. QED
    BY <1>1, <1>4, <2>1, <2>2, <2>3 DEF ValueInv, FileLength
<1>6. CASE ~bar_record_values
  BY <1>3, <1>5, <1>6 DEF ValueLength, FileValues, BufferValues
<1>7. CASE bar_record_values
  <2> DEFINE vals == [buffer_values EXCEPT ![r] = stmt.value]
  <2>1. /\ buffer_values' = vals
        /\ dg_values' = IF r = B - 1 THEN dg_values \o Prefix(vals, B) ELSE dg_values
    <3>1. AssignedIndex # 0
      BY <1>1 DEF AssignedIndex
    <3>2. valuesAddStatement(n + 1, stmt.value)
      BY <1>7, <3>1 DEF Complete, RecordValue
    <3>3. (n + 1) - 1 = n /\ ((n + 1) % B = 0 <=> r = B - 1)
      BY <1>1
    <3>4. QED
      BY <3>2, <3>3, Zenon DEF valuesAddStatement
  <2>2. /\ vals \in [Slot -> Values] /\ vals[r] = stmt.value
        /\ \A k \in 0 .. r - 1 : vals[k] = buffer_values[k]
    <3>1. \A k \in 0 .. r - 1 : k \in Slot /\ k # r
      BY <1>1 DEF Slot
    <3>2. QED
      BY <1>1, <3>1 DEF ValueInv, TypeOK, Statement
  <2>3. Len(dg_values) = n - r /\ dg_values \in Seq(Values)
    BY <1>1, <1>7 DEF ValueInv, ValueLength, TypeOK
  <2> HIDE DEF vals
  <2>4. ASSUME NEW k \in 0 .. r PROVE vals[k] = LoggedValueIn(log', (n - r) + k)
    <3>1. CASE k = r
      BY <1>1, <1>2, <2>2, <3>1
    <3>2. CASE k # r
      <4>1. k \in 0 .. r - 1 /\ (n - r) + k \in 0 .. n - 1
        BY <1>1, <3>2
      <4>2. buffer_values[k] = LoggedValueIn(log, (n - r) + k)
        BY <1>1, <1>7, <4>1 DEF ValueInv, BufferValues
      <4>3. QED
        BY <1>2, <2>2, <4>1, <4>2
    <3>3. QED
      BY <3>1, <3>2
  <2>5. ASSUME NEW i \in 0 .. Len(dg_values) - 1
        PROVE  dg_values[i + 1] = LoggedValueIn(log', i)
    <3>1. i \in 0 .. n - 1
      BY <1>1, <2>3
    <3>2. dg_values[i + 1] = LoggedValueIn(log, i)
      BY <1>7 DEF ValueInv, FileValues
    <3>3. QED
      BY <1>2, <3>1, <3>2
  <2>6. CASE r # B - 1
    <3>1. ValueLength' /\ FileValues'
      BY <1>1, <1>4, <2>1, <2>3, <2>5, <2>6 DEF ValueLength, FileValues
    <3>2. BufferValues'
      <4>1. (nextindex' % BUFSIZE) - 1 = r /\ Base' = n - r
        BY <1>1, <1>4, <2>6
      <4>2. \A k \in 0 .. r : buffer_values'[k] = LoggedValueIn(log', (n - r) + k)
        BY <2>1, <2>4
      <4>3. QED
        BY <4>1, <4>2 DEF BufferValues
    <3>3. QED
      BY <1>3, <1>5, <3>1, <3>2
  <2>7. CASE r = B - 1
    <3>1. dg_values' = dg_values \o Prefix(vals, B)
      BY <2>1, <2>7
    <3>2. /\ Len(dg_values') = Len(dg_values) + B
          /\ \A i \in 0 .. Len(dg_values) - 1 : dg_values'[i + 1] = dg_values[i + 1]
          /\ \A k \in 0 .. B - 1 : dg_values'[(Len(dg_values) + k) + 1] = vals[k]
      <4>1. B \in 0 .. BUFSIZE /\ vals \in [Slot -> Values] /\ dg_values \in Seq(Values)
        BY <1>1, <2>2, <2>3
      <4>2. Continues(dg_values \o Prefix(vals, B), dg_values, vals, B)
        BY <4>1, FileGrows, Zenon
      <4>3. Continues(dg_values', dg_values, vals, B)
        BY <3>1, <4>2
      <4>4. QED
        BY <4>3 DEF Continues
    <3>3. Len(dg_values') = n + 1
      BY <1>1, <2>3, <2>7, <3>2
    <3>4. ASSUME NEW i \in 0 .. n PROVE dg_values'[i + 1] = LoggedValueIn(log', i)
      <4>1. CASE i < n - r
        <5>1. i \in 0 .. Len(dg_values) - 1
          BY <1>1, <2>3, <4>1
        <5>2. QED
          BY <2>5, <3>2, <5>1
      <4>2. CASE i >= n - r
        <5>1. n - r \in Int /\ r \in Int /\ i \in Int /\ i <= (n - r) + r
          BY <1>1
        <5>2. PICK k \in 0 .. r : i = (n - r) + k
          BY ONLY <4>2, <5>1, OffsetFrom
        <5>3. k \in 0 .. B - 1
          BY <1>1
        <5>4. dg_values'[(Len(dg_values) + k) + 1] = vals[k]
          BY <3>2, <5>3
        <5>5. QED
          BY <2>3, <2>4, <5>2, <5>4
      <4>3. QED
        BY <1>1, <4>1, <4>2
    <3>5. FileValues'
      BY <1>1, <3>3, <3>4 DEF FileValues
    <3>6. ValueLength' /\ BufferValues'
      BY <1>1, <1>4, <2>7, <3>3 DEF ValueLength, BufferValues
    <3>7. QED
      BY <1>3, <1>5, <3>5, <3>6
  <2>8. QED
    BY <2>6, <2>7
<1>8. QED
  BY <1>6, <1>7

(* Every step preserves ValueInv, with or without marks at stops. *)
LEMMA ValueStep ==
  ASSUME ~typegrind, ValueInv, [Next]_vars
  PROVE  ValueInv'
<1> DEFINE Goal == LogLength' /\ FileLength' /\ ValueLength' /\ FileValues' /\ BufferValues'
<1>0. TypeOK /\ TypeOK'
  BY TypeStep DEF ValueInv
<1> SUFFICES Goal
  BY <1>0 DEF ValueInv
<1>1. ASSUME UNCHANGED <<nextindex, buffer_values, dg_tape, dg_values, recording, log>>
      PROVE  Goal
  BY <1>1
  DEF ValueInv, LogLength, FileLength, ValueLength, FileValues, BufferValues, Base
<1>2. ASSUME NEW val \in Values, RecordValue(nextindex, DisabledIndex, val),
             UNCHANGED <<nextindex, buffer_tape, dg_tape, recording, log>>
      PROVE  Goal
  <2>1. UNCHANGED <<buffer_values, dg_values>>
    BY <1>2 DEF RecordValue, DisabledIndex
  <2>2. QED
    BY <1>1, <1>2, <2>1
<1>3. ASSUME NEW stmt \in Statement, NEW buf \in [Slot -> Block],
             recording, nextindex < MaxIndex, Complete(stmt, buf), UNCHANGED recording
      PROVE  Goal
  BY <1>3, CompleteValues
<1>4. ASSUME Finish
      PROVE  Goal
  <2> DEFINE r == nextindex % BUFSIZE
  <2>1. /\ recording /\ ~recording' /\ log' = log /\ nextindex' = nextindex
        /\ dg_tape' = dg_tape \o Prefix(buffer_tape, r)
        /\ bar_record_values => dg_values' = dg_values \o Prefix(buffer_values, r)
    BY <1>4 DEF Finish, dg_bar_tape_finalize, Running
  <2>2. /\ nextindex \in Nat /\ r \in 0 .. BUFSIZE /\ r <= nextindex /\ r \in Nat
        /\ dg_tape \in Seq(Block) /\ dg_values \in Seq(Values)
        /\ buffer_tape \in [Slot -> Block] /\ buffer_values \in [Slot -> Values]
    BY <1>0, Remainder, SMTT(40) DEF TypeOK
  <2>3. Base = nextindex - r
    BY DEF Base
  <2>4. Continues(dg_tape \o Prefix(buffer_tape, r), dg_tape, buffer_tape, r)
    BY <2>2, FileGrows, Zenon
  <2>5. Continues(dg_values \o Prefix(buffer_values, r), dg_values, buffer_values, r)
    BY <2>2, FileGrows, Zenon
  <2>6. bar_record_values /\ recording =>
          \A k \in 0 .. r - 1 : buffer_values[k] = LoggedValueIn(log, Base + k)
    BY DEF ValueInv, BufferValues
  <2> HIDE DEF r
  <2>7. Len(dg_tape') = Len(dg_tape) + r
    BY <2>1, <2>4 DEF Continues
  <2>8. LogLength' /\ FileLength'
    BY <2>1, <2>2, <2>3, <2>7 DEF ValueInv, LogLength, FileLength
  <2>9. CASE ~bar_record_values
    BY <2>8, <2>9 DEF ValueLength, FileValues, BufferValues
  <2>10. CASE bar_record_values
    <3>1. Continues(dg_values', dg_values, buffer_values, r)
      BY <2>1, <2>5, <2>10
    <3>2. Len(dg_values) = nextindex - r /\ Len(dg_values') = nextindex
      BY <2>1, <2>2, <2>3, <2>10, <3>1 DEF ValueInv, ValueLength, Continues
    <3>3. ASSUME NEW i \in 0 .. nextindex - 1
          PROVE  dg_values'[i + 1] = LoggedValueIn(log, i)
      <4>1. CASE i < nextindex - r
        <5>1. i \in 0 .. Len(dg_values) - 1
          BY <2>2, <3>2, <4>1
        <5>2. dg_values'[i + 1] = dg_values[i + 1]
          BY <3>1, <5>1 DEF Continues
        <5>3. QED
          BY <2>10, <5>1, <5>2 DEF ValueInv, FileValues
      <4>2. CASE i >= nextindex - r
        <5>1. /\ nextindex - r \in Int /\ r - 1 \in Int /\ i \in Int
              /\ i <= (nextindex - r) + (r - 1)
          BY <2>2
        <5>2. PICK k \in 0 .. r - 1 : i = (nextindex - r) + k
          BY ONLY <4>2, <5>1, OffsetFrom
        <5>3. dg_values'[(Len(dg_values) + k) + 1] = buffer_values[k]
          BY <3>1 DEF Continues
        <5>4. QED
          BY <2>1, <2>3, <2>6, <2>10, <3>2, <5>2, <5>3
      <4>3. QED
        BY <2>2, <4>1, <4>2
    <3>4. QED
      BY <2>1, <2>2, <2>8, <3>2, <3>3 DEF ValueLength, FileValues, BufferValues
  <2>11. QED
    BY <2>9, <2>10
<1>5. QED
  BY <1>0, <1>1, <1>2, <1>3, <1>4, StepKinds

(* ValueInv holds initially: slot 0 belongs to block 0, which has no value. *)
LEMMA ValueInit == Init => ValueInv
<1> SUFFICES ASSUME Init PROVE ValueInv
  OBVIOUS
<1>1. TapeInv
  BY TapeInit
<1>2. BUFSIZE \in Nat /\ BUFSIZE > 1 /\ 0 \in Slot
  BY TapeAssumption DEF Slot
<1>3. 1 % BUFSIZE = 1
  BY ONLY <1>2, OneMod
<1>4. QED
  BY <1>1, <1>2, <1>3
  DEF TapeInv, ValueInv, Init, dg_bar_tape_initialize, ValueLength, FileValues,
      BufferValues, Base, LoggedValueIn

(* ValueInv is what ValuesMatchTape says, with the slots spelled out. *)
LEMMA ValueInvImplies == ValueInv => ValuesMatchTape
<1> SUFFICES ASSUME ValueInv, bar_record_values, NEW i \in 1 .. nextindex - 1
             PROVE  ValueAt(i) = log[i].value
  BY DEF ValuesMatchTape
<1> DEFINE r == nextindex % BUFSIZE
<1>1. /\ nextindex \in Nat /\ r \in 0 .. BUFSIZE - 1 /\ r <= nextindex
      /\ BUFSIZE \in Nat \ {0} /\ Base = nextindex - r
  BY Remainder DEF ValueInv, TypeOK, Base
<1>2. LoggedValueIn(log, i) = log[i].value
  BY <1>1 DEF LoggedValueIn
<1>3. CASE i < Len(dg_values)
  BY <1>2, <1>3 DEF ValueInv, FileValues, ValueAt, TypeOK
<1>4. CASE ~(i < Len(dg_values))
  <2>1. recording /\ i >= nextindex - r
    BY <1>1, <1>4 DEF ValueInv, ValueLength
  <2>2. nextindex - r \in Int /\ r - 1 \in Int /\ i \in Int /\ i <= (nextindex - r) + (r - 1)
    BY <1>1
  <2>3. PICK k \in 0 .. r - 1 : i = (nextindex - r) + k
    BY ONLY <2>1, <2>2, OffsetFrom
  <2>4. k \in 0 .. BUFSIZE - 1
    BY <1>1
  <2>5. i % BUFSIZE = k
    BY <1>1, <2>3, <2>4, ModOffset
  <2>6. buffer_values[k] = LoggedValueIn(log, Base + k)
    BY <2>1 DEF ValueInv, BufferValues
  <2>7. QED
    BY <1>1, <1>2, <1>4, <2>3, <2>5, <2>6 DEF ValueAt
<1>5. QED
  BY <1>3, <1>4

(***************************************************************************)
(* With --record-values=yes and without --typegrind, the value found under *)
(* an index is the value of the statement that was assigned the index, for *)
(* every buffer size and list of stop indices, with disabled threads,      *)
(* statements that activity analysis drops and marks at debugger stops.    *)
(***************************************************************************)
THEOREM ValuesCorrect == ~typegrind => (Spec => []ValuesMatchTape)
<1> SUFFICES ASSUME ~typegrind PROVE Spec => []ValuesMatchTape
  OBVIOUS
<1>1. ValueInv /\ [Next]_vars => ValueInv'
  BY ValueStep
<1>2. QED
  BY <1>1, ValueInit, ValueInvImplies, PTL DEF Spec

(* The lengths of the files and the declared indices fit together. *)
LEMMA FilesFit == ValueInv /\ IndexInv => FilesFitTogether
<1> SUFFICES ASSUME ValueInv, IndexInv, ~recording, ~tape_in_ram
             PROVE  FilesFitTogether
  BY DEF FilesFitTogether
<1>1. Len(dg_tape) = nextindex /\ (bar_record_values => Len(dg_values) = nextindex)
  BY DEF ValueInv, FileLength, ValueLength
<1>2. /\ DOMAIN dg_input_indices = 1 .. Len(dg_input_indices)
      /\ DOMAIN dg_output_indices = 1 .. Len(dg_output_indices)
  BY LenProperties DEF ValueInv, TypeOK
<1>3. QED
  BY <1>1, <1>2 DEF IndexInv, FileIndices, FilesFitTogether

(***************************************************************************)
(* When the program has ended, dg-tape has one block for every index,      *)
(* dg-values is as long, and the declared inputs and outputs lie within    *)
(* the tape, also after marks at debugger stops (without --typegrind).     *)
(***************************************************************************)
THEOREM FilesCorrect == ~typegrind => (Spec => []FilesFitTogether)
<1> SUFFICES ASSUME ~typegrind PROVE Spec => []FilesFitTogether
  OBVIOUS
<1>1. ValueInv /\ [Next]_vars => ValueInv'
  BY ValueStep
<1>2. QED
  BY <1>1, ValueInit, IndexInit, IndexStep, FilesFit, PTL DEF Spec

-----------------------------------------------------------------------------
(* File and buffer implement one append-only sequence of blocks.           *)

\* The blocks of the indices below n, as the history has them.
LoggedBlocks(history, n) == [i \in 1 .. n |-> LoggedIn(history, i - 1)]

(* The recorded blocks are the blocks of the history. *)
LEMMA ContentsLogged ==
  ASSUME TapeInv, ~tape_in_ram
  PROVE  /\ TapeContents = LoggedBlocks(log, nextindex)
         /\ TapeContents \in Seq(Block) /\ Len(TapeContents) = nextindex
         /\ nextindex \in Nat \ {0}
<1>1. nextindex \in Nat \ {0} /\ log \in Seq(Entry) /\ Len(log) = nextindex - 1
  BY DEF TapeInv, TypeOK, LogLength
<1>2. ASSUME NEW i \in 1 .. nextindex
      PROVE  OnTape(i - 1) = LoggedIn(log, i - 1) /\ LoggedIn(log, i - 1) \in Block
  <2>1. i - 1 \in 0 .. nextindex - 1
    BY <1>1
  <2>2. OnTape(i - 1) = LoggedIn(log, i - 1)
    BY <2>1, TapeInvImplies DEF TapeHoldsLog, Kept
  <2>3. CASE i - 1 = 0
    BY <2>2, <2>3, BlockTypes DEF LoggedIn
  <2>4. CASE i - 1 # 0
    <3>1. i - 1 \in 1 .. Len(log)
      BY <1>1, <2>1, <2>4
    <3>2. log[i - 1] \in Entry
      BY <1>1, <3>1, ElementOfSeq
    <3>3. QED
      BY <2>2, <2>4, <3>2 DEF LoggedIn, Entry
  <2>5. QED
    BY <2>3, <2>4
<1>3. TapeContents = LoggedBlocks(log, nextindex)
  BY <1>2 DEF TapeContents, LoggedBlocks
<1>4. TapeContents \in [1 .. nextindex -> Block]
  BY <1>2, <1>3 DEF LoggedBlocks
<1>5. QED
  BY <1>1, <1>3, <1>4

(* A file with a block for each index is the whole sequence. *)
LEMMA FileIsContents ==
  ASSUME TapeInv, ~tape_in_ram, Len(dg_tape) = nextindex
  PROVE  dg_tape = LoggedBlocks(log, nextindex)
<1>1. dg_tape \in Seq(Block) /\ nextindex \in Nat
  BY DEF TapeInv, TypeOK
<1>2. ASSUME NEW i \in 1 .. nextindex PROVE dg_tape[i] = LoggedIn(log, i - 1)
  <2>1. i - 1 \in 0 .. Len(dg_tape) - 1 /\ (i - 1) + 1 = i
    BY <1>1
  <2>2. dg_tape[(i - 1) + 1] = LoggedIn(log, i - 1)
    BY <2>1 DEF TapeInv, FileBlocks
  <2>3. QED
    BY <2>1, <2>2
<1>3. dg_tape = [i \in 1 .. nextindex |-> dg_tape[i]]
  BY <1>1
<1>4. QED
  BY <1>2, <1>3 DEF LoggedBlocks

(* A completed call adds its block to the sequence, and the file is left   *)
(* alone or holds the whole sequence.                                      *)
LEMMA CompleteLog ==
  ASSUME TapeInv, TapeInv', IndexInv, IndexInv', ~tape_in_ram, recording,
         UNCHANGED recording, NEW stmt \in Statement, NEW buf, Complete(stmt, buf)
  PROVE  Log!Record
<1> DEFINE n == nextindex
<1>1. /\ TapeContents = LoggedBlocks(log, n) /\ TapeContents \in Seq(Block)
      /\ Len(TapeContents) = n /\ n \in Nat \ {0}
  BY ContentsLogged
<1>2. n' = n + 1 /\ recording'
  BY DEF Complete, AdvanceIndex
<1>3. (TapeInv /\ ~tape_in_ram => TapeContents = LoggedBlocks(log, nextindex))'
  BY ContentsLogged, PTL
<1>4. TapeContents' = LoggedBlocks(log', n + 1)
  BY <1>2, <1>3 DEF LoggedBlocks, LoggedIn
<1>5. /\ Len(log') = n
      /\ \A i \in 0 .. n - 1 : LoggedIn(log', i) = LoggedIn(log, i)
      /\ LoggedIn(log', n) = stmt.block
  BY LogGrows DEF TapeInv
<1>6. TapeContents' = Append(TapeContents, stmt.block)
  <2> DEFINE s == LoggedBlocks(log, n)
             t == LoggedBlocks(log', n + 1)
  <2>1. stmt.block \in Block
    BY DEF Statement
  <2>2. s \in Seq(Block) /\ Len(s) = n
    BY <1>1
  <2>3. /\ Append(s, stmt.block) \in Seq(Block)
        /\ Append(s, stmt.block) = [i \in 1 .. n + 1 |->
                                      IF i \in 1 .. n THEN s[i] ELSE stmt.block]
    BY <1>1, <2>1, <2>2
  <2>4. ASSUME NEW i \in 1 .. n + 1
        PROVE  t[i] = IF i \in 1 .. n THEN s[i] ELSE stmt.block
    <3>1. CASE i \in 1 .. n
      <4>1. i - 1 \in 0 .. n - 1
        BY <1>1, <3>1
      <4>2. QED
        BY <1>5, <3>1, <4>1 DEF LoggedBlocks
    <3>2. CASE i = n + 1
      <4>1. i - 1 = n /\ i \notin 1 .. n
        BY <1>1, <3>2
      <4>2. QED
        BY <1>5, <4>1 DEF LoggedBlocks
    <3>3. QED
      BY <1>1, <3>1, <3>2
  <2>5. t = [i \in 1 .. n + 1 |-> t[i]]
    BY DEF LoggedBlocks
  <2> HIDE DEF s, t
  <2>6. t = Append(s, stmt.block)
    BY <2>3, <2>4, <2>5, Zenon
  <2>7. QED
    BY <1>1, <1>4, <2>6 DEF s, t
<1>7. /\ Len(TapeContents') = n + 1
      /\ TapeContents'[n + 1] = stmt.block
  BY <1>1, <1>6
<1>8. stmt.block \in Block /\ stmt.block.index1 \in Nat /\ stmt.block.index2 \in Nat
  BY IndexFacts DEF Statement, Block, Index
<1>9. OperandsOf(stmt.block, n)
  <2>1. n \in 1 .. Len(log') /\ log'[n].block = stmt.block
    BY <1>1, <1>5 DEF LoggedIn
  <2>2. \A i \in 1 .. Len(log') : OperandsOf(log'[i].block, i)
    BY DEF IndexInv, LogOperands, OperandsOf, Precedes
  <2>3. QED
    BY <2>1, <2>2
<1>10. Log!Usable(stmt.block.index1) /\ Log!Usable(stmt.block.index2)
  BY <1>1, <1>9, TapeAssumption DEF OperandsOf, Precedes, Log!Usable
<1>11. dg_tape' \in {dg_tape, TapeContents'}
  <2>1. CASE (n + 1) % BUFSIZE # 0
    BY <2>1 DEF Complete, AdvanceIndex
  <2>2. CASE (n + 1) % BUFSIZE = 0
    <3>1. (Len(dg_tape) = nextindex)'
      BY <1>1, <1>2, <2>2 DEF TapeInv, FileLength, Base
    <3>2. (TapeInv /\ ~tape_in_ram /\ Len(dg_tape) = nextindex =>
             dg_tape = LoggedBlocks(log, nextindex))'
      BY FileIsContents, PTL
    <3>3. QED
      BY <1>2, <1>4, <3>1, <3>2 DEF LoggedBlocks, LoggedIn
  <2>3. QED
    BY <2>1, <2>2
<1>12. QED
  BY <1>2, <1>6, <1>7, <1>8, <1>10, <1>11 DEF Log!Record

(* Every step is a step of the append-only sequence, or changes nothing of it. *)
LEMMA LogRefines ==
  ASSUME ~tape_in_ram, TapeInv, TapeInv', IndexInv, IndexInv', [Next]_vars
  PROVE  [Log!Next]_Log!vars
<1>1. TapeContents = LoggedBlocks(log, nextindex)
  BY ContentsLogged
<1>2. TapeContents' = LoggedBlocks(log', nextindex')
  <2>1. (TapeInv /\ ~tape_in_ram => TapeContents = LoggedBlocks(log, nextindex))'
    BY ContentsLogged, PTL
  <2>2. QED
    BY <2>1 DEF LoggedBlocks, LoggedIn
<1>3. ASSUME UNCHANGED <<nextindex, dg_tape, recording, log>>
      PROVE  UNCHANGED Log!vars
  BY <1>1, <1>2, <1>3 DEF Log!vars
<1>4. ASSUME Finish
      PROVE  Log!Close
  <2>1. recording /\ ~recording' /\ UNCHANGED <<nextindex, log>>
    BY <1>4 DEF Finish, dg_bar_tape_finalize
  <2>2. (Len(dg_tape) = nextindex)'
    BY <2>1 DEF TapeInv, FileLength
  <2>3. (TapeInv /\ ~tape_in_ram /\ Len(dg_tape) = nextindex =>
           dg_tape = LoggedBlocks(log, nextindex))'
    BY FileIsContents, PTL
  <2>4. dg_tape' = LoggedBlocks(log', nextindex')
    BY <2>2, <2>3 DEF LoggedBlocks, LoggedIn
  <2>5. QED
    BY <1>1, <1>2, <2>1, <2>4 DEF Log!Close
<1>5. ASSUME NEW stmt \in Statement, NEW buf \in [Slot -> Block], recording,
             Complete(stmt, buf), UNCHANGED recording
      PROVE  Log!Record
  BY <1>5, CompleteLog
<1>6. QED
  BY <1>3, <1>4, <1>5, StepKinds DEF Log!Next, TapeInv

(* Block 0 is the sequence to begin with. *)
LEMMA LogInit == ~tape_in_ram /\ Init => Log!Init
<1> SUFFICES ASSUME ~tape_in_ram, Init PROVE Log!Init
  OBVIOUS
<1>1. TapeContents = LoggedBlocks(log, 1)
  BY TapeInit, ContentsLogged DEF Init, dg_bar_tape_initialize
<1>2. LoggedBlocks(log, 1) = <<ZeroBlock>>
  BY DEF LoggedBlocks, LoggedIn
<1>3. QED
  BY <1>1, <1>2, BlockTypes DEF Init, dg_bar_tape_initialize, Log!Init

(***************************************************************************)
(* For every buffer size: file and buffer together are one append-only     *)
(* sequence of blocks with operands that refer backwards, of which the     *)
(* file holds a prefix that the evaluation can use and, at the end,        *)
(* everything (without --tape-in-ram and without marks at stops).          *)
(***************************************************************************)
THEOREM TapeLogImplemented ==
  ~MarkWhileStopped /\ ~tape_in_ram => (Spec => ImplementsTapeLog)
<1> SUFFICES ASSUME ~MarkWhileStopped, ~tape_in_ram PROVE Spec => ImplementsTapeLog
  OBVIOUS
<1>1. TapeInv /\ [Next]_vars => TapeInv'
  BY TapeStep
<1>2. TapeInv /\ TapeInv' /\ IndexInv /\ IndexInv' /\ [Next]_vars => [Log!Next]_Log!vars
  BY LogRefines
<1>3. Init => Log!Init
  BY LogInit
<1>4. QED
  BY <1>1, <1>2, <1>3, TapeInit, IndexInit, IndexStep, PTL
  DEF Spec, ImplementsTapeLog, Log!Spec
=============================================================================
