--------------------------- MODULE TapeEvaluation ---------------------------
(***************************************************************************)
(* The evaluation of a tape: class Tapefile in                             *)
(* derivgrind/eval/dg_bar_tape_eval.hpp and the program tape-evaluation.   *)
(*                                                                         *)
(* The program finds out how many blocks the file dg-tape has, seeds a     *)
(* vector with one entry per block, visits the blocks in forward or        *)
(* backward order, and extracts the derivatives it is asked for.  The      *)
(* blocks are loaded in chunks of bufsize-many; a step of this module      *)
(* loads one chunk or visits one block of it.  Index arithmetic is that of *)
(* unsigned long long, modulo WORD; derivatives are integers here.         *)
(***************************************************************************)
EXTENDS Integers, Sequences, FiniteSets

CONSTANTS
  bufsize,     \* blocks per chunk (100 in the code)
  HIGH,        \* 0x8000000000000000: indices from here on are special
  Special,     \* special indices that occur on the tape
  DiffPairs,   \* pairs of partial derivatives
  Gradients,   \* dot or bar values given by the user
  Modes,       \* what the user asks for
  Endings,     \* how the text files may end, see TextFile
  MaxBlocks,   \* bound on the length of the tape
  MaxSeeds,    \* bound on the length of the file of indices to be seeded
  MaxReads     \* bound on the length of the file of indices to be read out

WORD == 2 * HIGH

ASSUME EvaluationAssumption ==
  /\ bufsize \in Nat \ {0}
  /\ HIGH \in Nat /\ MaxBlocks \in Nat /\ MaxBlocks < HIGH
  /\ Special \subseteq HIGH .. WORD - 1
  /\ DiffPairs \subseteq Int \X Int
  /\ Gradients \subseteq Int
  /\ Modes \subseteq {"backward", "forward", "stats", "typegrind"}
  /\ Endings \subseteq {"newline", "number", "text"}
  /\ MaxSeeds \in Nat /\ MaxReads \in Nat

VARIABLES
  tape,           \* contents of the file dg-tape
  mode,           \* what the user asked for
  seedIndices,    \* text file with the indices to be seeded
  seedGradients,  \* text file with their dot or bar values
  readIndices,    \* text file with the indices to be read out
  pc,             \* "seed", "load", "visit", "read", "done", "exit1", or:
                  \* "pushing" in a loop without end, "crash" after a wild write
  derivativevec,  \* one entry per block; influencervec in mode typegrind
  chunk,          \* number of the current chunk
  tape_buf,       \* the blocks of the current chunk
  block_in_chunk, \* position in the current chunk
  counts,         \* nZero, nOne and nTwo
  called,         \* indices the typegrind callback was called for
  gradients,      \* text file with the derivatives that were read out
  visited         \* history: arguments of fun, call by call

inputs == <<tape, mode, seedIndices, seedGradients, readIndices>>

position == <<chunk, tape_buf, block_in_chunk, visited>>

results == <<derivativevec, counts, called>>

vars == <<inputs, pc, position, results, gradients>>

number_of_blocks == Len(tape)

\* The value of an unsigned long long.
U(n) == n % WORD

BoundedSeqs(S, n) == UNION {[1 .. k -> S] : k \in 0 .. n}

(***************************************************************************)
(* A text file of scalars.  The file ends after the newline of the last    *)
(* scalar, after the scalar itself, or the scalars are followed by text    *)
(* that is no number; nothing behind such text is ever read.               *)
(***************************************************************************)
TextFile(S, n) == [data : BoundedSeqs(S, n), ending : Endings]

-----------------------------------------------------------------------------
(* Text files (tape-evaluation-utils.hpp).                                 *)

(***************************************************************************)
(* Extraction of a number that is followed by the end of the file sets     *)
(* eof, and the loop leaves before it has stored the number.               *)
(***************************************************************************)
readFromTextFile(file) ==
  IF file.ending = "number" THEN SubSeq(file.data, 1, Len(file.data) - 1)
  ELSE file.data

\* Extraction of text that is no number fails without eof, then and whenever
\* it is tried again: the loop never leaves, and keeps pushing.
Endless(file) == file.ending = "text"

\* Faulty variant: a variable listed twice is seeded once.
SeededOnce(vec, indices, grads) ==
  LET after[k \in 0 .. Len(indices)] ==
        IF k = 0 THEN vec
        ELSE [after[k - 1] EXCEPT ![indices[k]] = grads[k]]
  IN after[Len(indices)]

\* The vector after the loop over the first k indices.
Seeded(vec, indices, grads) ==
  LET after[k \in 0 .. Len(indices)] ==
        IF k = 0 THEN vec
        ELSE [after[k - 1] EXCEPT ![indices[k]] = @ + grads[k]]
  IN after[Len(indices)]

seedGradientVectorFromTextFile ==
  LET indices == readFromTextFile(seedIndices)
      grads   == readFromTextFile(seedGradients)
  IN
  /\ pc = "seed"
  /\ \/ /\ Endless(seedIndices) \/ Endless(seedGradients)
        /\ pc' = "pushing"
        /\ UNCHANGED derivativevec
     \/ /\ ~Endless(seedIndices) /\ ~Endless(seedGradients)
        /\ Len(indices) # Len(grads)
        /\ pc' = "exit1"
        /\ UNCHANGED derivativevec
     \/ /\ ~Endless(seedIndices) /\ ~Endless(seedGradients)
        /\ Len(indices) = Len(grads)
        /\ pc' = "load"
        /\ derivativevec' = Seeded(derivativevec, indices, grads)
  /\ UNCHANGED <<inputs, position, counts, called, gradients>>

readGradientVectorToTextFile ==
  /\ pc = "read"
  /\ pc' = "done"
  /\ LET indices == readFromTextFile(readIndices) IN
     gradients' = [k \in 1 .. Len(indices) |-> derivativevec[indices[k]]]
  /\ UNCHANGED <<inputs, position, results>>

-----------------------------------------------------------------------------
(* The traversal of the tape (iterate, iterate_impl).                      *)

begin == IF mode \in {"backward", "typegrind"} THEN U(number_of_blocks - 1) ELSE 0

end == IF mode \in {"backward", "typegrind"} THEN 0 ELSE U(number_of_blocks - 1)

forward == end >= begin

number_of_blocks_in_subtape ==
  U(IF forward THEN end - begin + 1 ELSE begin - end + 1)

\* Faulty variant: no chunk for the remaining blocks.
NoLastChunk == number_of_blocks_in_subtape \div bufsize

number_of_chunks_in_subtape == number_of_blocks_in_subtape \div bufsize + 1

\* Faulty variant: the last chunk is taken to be full.
FullChunk == bufsize

chunk_count ==
  IF chunk = number_of_chunks_in_subtape - 1
  THEN number_of_blocks_in_subtape - (number_of_chunks_in_subtape - 1) * bufsize
  ELSE bufsize

chunk_begin ==
  U(IF forward THEN begin + chunk * bufsize
               ELSE begin - chunk * bufsize - chunk_count + 1)

(***************************************************************************)
(* loadfun fills the first count slots of the buffer from block i of the   *)
(* file on.  Slots for which the file has no block keep their contents.    *)
(***************************************************************************)
loadfun(i, count) ==
  [s \in DOMAIN tape_buf |->
     IF s < count /\ i + s < number_of_blocks THEN tape[i + s + 1] ELSE tape_buf[s]]

\* Faulty variant: the loop over the chunks is not left.
NeverAfterIteration == "load"

\* The loop's end: the program reads the derivatives out, or is done.
AfterIteration == IF mode \in {"backward", "forward"} THEN "read" ELSE "done"

LoadChunk ==
  /\ pc = "load"
  /\ \/ /\ chunk < number_of_chunks_in_subtape
        /\ tape_buf' = loadfun(chunk_begin, chunk_count)
        /\ block_in_chunk' = IF forward THEN 0 ELSE chunk_count - 1
        /\ pc' = "visit"
     \/ /\ chunk = number_of_chunks_in_subtape
        /\ pc' = AfterIteration
        /\ UNCHANGED <<tape_buf, block_in_chunk>>
  /\ UNCHANGED <<inputs, results, chunk, gradients, visited>>

\* The index passed to fun for the current block of the chunk.
CurrentIndex ==
  U(IF forward
    THEN begin + chunk * bufsize + block_in_chunk
    ELSE begin - chunk * bufsize - chunk_count + block_in_chunk + 1)

-----------------------------------------------------------------------------
(* The functions called for every block.                                   *)

Ordinary(i) == i # 0 /\ i < HIGH

evaluateBackward(index, b) ==
  LET v1 == IF Ordinary(b.index1)
            THEN [derivativevec EXCEPT
                    ![b.index1] = @ + derivativevec[index] * b.diff1]
            ELSE derivativevec
      v2 == IF Ordinary(b.index2)
            THEN [v1 EXCEPT ![b.index2] = @ + v1[index] * b.diff2]
            ELSE v1
  IN
  /\ derivativevec' = IF derivativevec[index] # 0 THEN v2 ELSE derivativevec
  /\ UNCHANGED <<counts, called>>

evaluateForward(index, b) ==
  LET v1 == IF Ordinary(b.index1) /\ derivativevec[b.index1] # 0
            THEN [derivativevec EXCEPT
                    ![index] = @ + derivativevec[b.index1] * b.diff1]
            ELSE derivativevec
      v2 == IF Ordinary(b.index2) /\ v1[b.index2] # 0
            THEN [v1 EXCEPT ![index] = @ + v1[b.index2] * b.diff2]
            ELSE v1
  IN
  /\ derivativevec' = v2
  /\ UNCHANGED <<counts, called>>

\* Faulty variant: one zero index is enough for the first class.
statsOneZero(index, b) ==
  LET kind == IF b.index1 = 0 \/ b.index2 = 0 THEN "nZero" ELSE "nTwo" IN
  /\ counts' = [counts EXCEPT ![kind] = @ + 1]
  /\ UNCHANGED <<derivativevec, called>>

stats(index, b) ==
  LET kind == IF b.index1 = 0 /\ b.index2 = 0 THEN "nZero"
              ELSE IF b.index1 # 0 /\ b.index2 # 0 THEN "nTwo" ELSE "nOne"
  IN
  /\ counts' = [counts EXCEPT ![kind] = @ + 1]
  /\ UNCHANGED <<derivativevec, called>>

\* A block with an operand of unknown origin.
HasSpecial(b) == b.index1 >= HIGH \/ b.index2 >= HIGH

(***************************************************************************)
(* The assignments influencervec[index1] = 1 for a special index write     *)
(* outside of the vector, 2^63 bytes and more away from its first entry or *)
(* just before it.  None of its entries is there; if nothing else that the *)
(* program needs is there either, the scan goes on.                        *)
(***************************************************************************)
evaluate_for_typegrind(index, b) ==
  /\ called' = IF derivativevec[index] = 1 /\ HasSpecial(b)
               THEN called \cup {index} ELSE called
  /\ UNCHANGED <<derivativevec, counts>>

fun(index, b) ==
  \/ mode = "backward" /\ evaluateBackward(index, b)
  \/ mode = "forward" /\ evaluateForward(index, b)
  \/ mode = "stats" /\ stats(index, b)
  \/ mode = "typegrind" /\ evaluate_for_typegrind(index, b)

InChunk == IF forward THEN block_in_chunk < chunk_count ELSE block_in_chunk >= 0

VisitBlock ==
  /\ pc = "visit"
  /\ InChunk
  /\ fun(CurrentIndex, tape_buf[block_in_chunk])
  /\ visited' = Append(visited, <<CurrentIndex, tape_buf[block_in_chunk]>>)
  /\ block_in_chunk' = block_in_chunk + (IF forward THEN 1 ELSE -1)
  /\ UNCHANGED <<inputs, pc, chunk, tape_buf, gradients>>

\* The other outcome of such a write: the program does not survive it.
WildWrite ==
  /\ pc = "visit"
  /\ InChunk
  /\ mode = "typegrind"
  /\ derivativevec[CurrentIndex] = 1 /\ HasSpecial(tape_buf[block_in_chunk])
  /\ pc' = "crash"
  /\ UNCHANGED <<inputs, position, results, gradients>>

\* Faulty variant: counts blocks instead of chunks.
EndChunkByBlocks ==
  /\ pc = "visit"
  /\ ~InChunk
  /\ chunk' = chunk + bufsize
  /\ pc' = "load"
  /\ UNCHANGED <<inputs, results, tape_buf, block_in_chunk, gradients, visited>>

EndChunk ==
  /\ pc = "visit"
  /\ ~InChunk
  /\ chunk' = chunk + 1
  /\ pc' = "load"
  /\ UNCHANGED <<inputs, results, tape_buf, block_in_chunk, gradients, visited>>

-----------------------------------------------------------------------------
\* Stands for the unknown contents of the buffer before the first chunk.
Unread == [index1 |-> HIGH, index2 |-> HIGH, diff1 |-> 0, diff2 |-> 0]

\* The block of index 0.
Dummy == [index1 |-> 0, index2 |-> 0, diff1 |-> 0, diff2 |-> 0]

\* The blocks that may stand at index i of a recorded tape.
BlockAt(i, special, pairs) ==
  LET operand == (0 .. i - 1) \cup special IN
  IF i = 0 THEN {Dummy}
  ELSE {[index1 |-> j, index2 |-> k, diff1 |-> d[1], diff2 |-> d[2]] :
          j \in operand, k \in operand, d \in pairs}

\* The recorded tapes of n blocks.
Tapes(n, special, pairs) ==
  {tp \in [1 .. n -> UNION {BlockAt(i, special, pairs) : i \in 0 .. n - 1}] :
     \A i \in 1 .. n : tp[i] \in BlockAt(i - 1, special, pairs)}

(***************************************************************************)
(* The program starts with mode and text files given.  The vector is       *)
(* zeroed and as long as the tape.  In mode typegrind the entries of the   *)
(* output variables are set to 1 instead of being seeded.                  *)
(***************************************************************************)
Start ==
  /\ derivativevec =
       [i \in 0 .. number_of_blocks - 1 |->
          IF mode = "typegrind" /\ i \in {readIndices.data[k] :
                                          k \in DOMAIN readIndices.data}
          THEN 1 ELSE 0]
  /\ pc = IF mode \in {"backward", "forward"} THEN "seed" ELSE "load"
  /\ chunk = 0
  /\ tape_buf = [s \in 0 .. bufsize - 1 |-> Unread]
  /\ block_in_chunk = 0
  /\ counts = [nZero |-> 0, nOne |-> 0, nTwo |-> 0]
  /\ called = {}
  /\ gradients = <<>>
  /\ visited = <<>>

\* A recorded tape and what the user may give with it.  Derivgrind writes a
\* newline after every index.
Inputs ==
  \E n \in 0 .. MaxBlocks :
    /\ tape \in Tapes(n, Special, DiffPairs)
    /\ mode \in Modes
    /\ seedIndices \in TextFile(0 .. n - 1, MaxSeeds)
    /\ seedGradients \in TextFile(Gradients, MaxSeeds)
    /\ readIndices \in [data : BoundedSeqs(0 .. n - 1, MaxReads), ending : {"newline"}]

Init == Inputs /\ Start

Next ==
  \/ seedGradientVectorFromTextFile
  \/ LoadChunk
  \/ VisitBlock
  \/ WildWrite
  \/ EndChunk
  \/ readGradientVectorToTextFile

\* The program is sequential: it runs until it exits.
Spec == Init /\ [][Next]_vars /\ WF_vars(Next)

-----------------------------------------------------------------------------
(* Properties.                                                             *)

TypeOK ==
  /\ pc \in {"seed", "load", "visit", "read", "done", "exit1", "pushing", "crash"}
  /\ derivativevec \in [0 .. number_of_blocks - 1 -> Int]
  /\ chunk \in 0 .. number_of_chunks_in_subtape
  /\ DOMAIN tape_buf = 0 .. bufsize - 1
  /\ block_in_chunk \in -1 .. bufsize
  /\ counts \in [{"nZero", "nOne", "nTwo"} -> 0 .. number_of_blocks]
  /\ called \subseteq 0 .. number_of_blocks - 1
  /\ gradients \in Seq(Int)

\* The index of the k-th block of the traversal.
KthIndex(k) == IF begin = 0 THEN k - 1 ELSE number_of_blocks - k

(***************************************************************************)
(* However the length of the tape relates to the size of a chunk, the      *)
(* traversal passes every block to fun exactly once, under its own index,  *)
(* in ascending order (evaluateForward, stats) or in descending order      *)
(* (evaluateBackward, evaluate_for_typegrind).                             *)
(***************************************************************************)
VisitsInOrder ==
  /\ \A k \in 1 .. Len(visited) :
       visited[k] = <<KthIndex(k), tape[KthIndex(k) + 1]>>
  /\ pc \in {"read", "done"} => Len(visited) = number_of_blocks

(***************************************************************************)
(* A chunk fits the buffer and lies within the file.  A read beyond the    *)
(* end would make the stream fail, and with it all later reads.            *)
(***************************************************************************)
LoadsWithinFile ==
  pc = "load" /\ chunk < number_of_chunks_in_subtape =>
    /\ chunk_count \in 0 .. bufsize
    /\ chunk_begin + chunk_count <= number_of_blocks

(***************************************************************************)
(* The derivative of the variable with index j with respect to the         *)
(* variables with indices from 1 on, by the chain rule: the reference      *)
(* definition for both evaluations.                                        *)
(***************************************************************************)
Derivative(j) ==
  LET Idx == 1 .. number_of_blocks - 1
      D[m \in 0 .. number_of_blocks - 1] ==
        LET b == tape[m + 1] IN
        [i \in Idx |->
           IF m = i THEN 1
           ELSE IF m < i THEN 0
           ELSE (IF Ordinary(b.index1) THEN b.diff1 * D[b.index1][i] ELSE 0)
              + (IF Ordinary(b.index2) THEN b.diff2 * D[b.index2][i] ELSE 0)]
  IN D[j]

SumSeq(s) ==
  LET upTo[k \in 0 .. Len(s)] == IF k = 0 THEN 0 ELSE upTo[k - 1] + s[k]
  IN upTo[Len(s)]

(***************************************************************************)
(* The derivative that belongs to index r: in backward mode the sum over   *)
(* the seeded outputs of bar value times derivative with respect to the    *)
(* variable, in forward mode the sum over the seeded inputs of dot value   *)
(* times derivative of the variable.                                       *)
(***************************************************************************)
ChainRule(r) ==
  LET s == readFromTextFile(seedIndices)
      g == readFromTextFile(seedGradients)
  IN SumSeq([m \in 1 .. Len(s) |->
       IF s[m] = 0 THEN 0
       ELSE g[m] * (IF mode = "backward" THEN Derivative(s[m])[r]
                                         ELSE Derivative(r)[s[m]])])

(***************************************************************************)
(* The derivatives in the output file are those of the chain rule.  Index  *)
(* 0, which stands for passive variables, is left out: its entry of the    *)
(* vector also collects what other passive variables were seeded with.     *)
(***************************************************************************)
GradientIsChainRule ==
  pc = "done" /\ mode \in {"backward", "forward"} =>
    \A k \in 1 .. Len(gradients) :
      readIndices.data[k] # 0 => gradients[k] = ChainRule(readIndices.data[k])

\* The number of indices of a block that are not zero.
Operands(b) == Cardinality({x \in {1, 2} : (IF x = 1 THEN b.index1 ELSE b.index2) # 0})

\* How many of the first v blocks have m such indices.
NumberOf(m, v) == Cardinality({i \in 1 .. v : Operands(tape[i]) = m})

(***************************************************************************)
(* The statistics count every block once, among them the dummy block.      *)
(***************************************************************************)
StatsCount ==
  pc = "done" /\ mode = "stats" =>
    counts = [nZero |-> NumberOf(0, number_of_blocks),
              nOne  |-> NumberOf(1, number_of_blocks),
              nTwo  |-> NumberOf(2, number_of_blocks)]

\* The program does not stumble over text that is no number.
OnlyNumbers ==
  mode \in {"backward", "forward"} => ~Endless(seedIndices) /\ ~Endless(seedGradients)

(***************************************************************************)
(* The evaluation comes to its end, for tapes of every length, modulo 2^64 *)
(* arithmetic and empty chunks included, as long as the text files it      *)
(* reads hold numbers.                                                     *)
(***************************************************************************)
Terminates == OnlyNumbers => <>(pc \in {"done", "exit1", "crash"})

\* The indices that the variable with index j depends on.
Influences(j) ==
  LET reach[m \in 0 .. number_of_blocks - 1] ==
        LET b == tape[m + 1] IN
        {m} \cup (IF Ordinary(b.index1) THEN reach[b.index1] ELSE {})
            \cup (IF Ordinary(b.index2) THEN reach[b.index2] ELSE {})
  IN reach[j]

\* The blocks typegrind is meant to find.
Suspicious ==
  {i \in UNION {Influences(readIndices.data[k]) : k \in DOMAIN readIndices.data} :
     HasSpecial(tape[i + 1])}

(***************************************************************************)
(* What dg_bar_tape_eval.hpp says of evaluate_for_typegrind: it proceeds   *)
(* like a tape evaluation to find out which indices can influence the      *)
(* output, and calls back for every such variable.                         *)
(***************************************************************************)
TypegrindFindsAll ==
  pc = "done" /\ mode = "typegrind" => Suspicious \subseteq called
=============================================================================
