------------------------------ MODULE TapeLog ------------------------------
(***************************************************************************)
(* What the tape promises its two users, the instrumented program that     *)
(* records on it and the evaluation that reads the file afterwards.        *)
(*                                                                         *)
(*  - The recorded statements form one append-only sequence.  The index of *)
(*    a statement is its position in that sequence, counted from 0, and    *)
(*    position 0 is a block that no operation has produced.                *)
(*  - An operand of a statement is the index of an earlier statement, or   *)
(*    one of the marks in Special, so walking the tape backwards meets     *)
(*    every result before its operands.                                    *)
(*  - At any time the file holds a prefix of that sequence; once the tape  *)
(*    has been closed it holds all of it.                                  *)
(*                                                                         *)
(* Recording implements this specification with a buffer of BUFSIZE blocks *)
(* that is written out whenever it is full.                                *)
(***************************************************************************)
EXTENDS Naturals, Sequences

CONSTANTS
  Block,    \* what can be recorded: index1, index2 and the partial derivatives
  Special   \* indices that denote no statement of the sequence

VARIABLES
  blocks,   \* the sequence of recorded blocks
  file,     \* the blocks that have reached the file
  closed    \* TRUE once the recording has ended

vars == <<blocks, file, closed>>

\* index i may be used as an operand of the next statement
Usable(i) == i \in Special \/ i < Len(blocks)

Init ==
  /\ \E dummy \in Block : blocks = <<dummy>>
  /\ file = <<>>
  /\ closed = FALSE

\* One statement is added; the file may catch up with the recording.
Record ==
  /\ ~closed
  /\ LET b == blocks'[Len(blocks')] IN
       /\ b \in Block
       /\ Usable(b.index1) /\ Usable(b.index2)
       /\ blocks' = Append(blocks, b)
  /\ file' \in {file, blocks'}
  /\ UNCHANGED closed

\* The recording ends with the complete sequence in the file.
Close ==
  /\ ~closed
  /\ closed' = TRUE
  /\ file' = blocks
  /\ UNCHANGED blocks

Next == Record \/ Close

Spec == Init /\ [][Next]_vars
=============================================================================
