-------------------------- MODULE EvaluationProofs --------------------------
(***************************************************************************)
(* Proofs about module TapeEvaluation, for every tape, every chunk size    *)
(* and all text files: the traversal visits every block once, in order,    *)
(* and loads nothing beyond the file; both evaluations compute the chain   *)
(* rule; and the statistics count what they say.                           *)
(***************************************************************************)
EXTENDS TapeEvaluation, ModLemmas, SequenceTheorems, FiniteSetTheorems,
        WellFoundedInduction

-----------------------------------------------------------------------------
(* The inductive invariants.                                               *)

\* The blocks of the current chunk are in the buffer.
ChunkLoaded ==
  \A s \in 0 .. chunk_count - 1 : tape_buf[s] = tape[chunk_begin + s + 1]

(***************************************************************************)
(* How far the traversal has got: the number of visited blocks, from the   *)
(* number of the chunk and the position in it.                             *)
(***************************************************************************)
Progress ==
  LET v == Len(visited) IN
  /\ v \in 0 .. number_of_blocks
  /\ visited = [k \in 1 .. v |-> <<KthIndex(k), tape[KthIndex(k) + 1]>>]
  /\ pc \in {"seed", "exit1", "pushing"} => v = 0 /\ chunk = 0
  /\ pc = "load" => v = IF chunk < number_of_chunks_in_subtape
                        THEN chunk * bufsize ELSE number_of_blocks
  /\ pc = "visit" =>
       /\ chunk < number_of_chunks_in_subtape
       /\ ChunkLoaded
       /\ IF forward
          THEN block_in_chunk \in 0 .. chunk_count /\ v = chunk * bufsize + block_in_chunk
          ELSE /\ block_in_chunk \in -1 .. chunk_count - 1
               /\ v = chunk * bufsize + (chunk_count - 1 - block_in_chunk)
  /\ pc \in {"read", "done"} => v = number_of_blocks

\* Every block has been counted at most once.
CountsBelow == \A kind \in {"nZero", "nOne", "nTwo"} : counts[kind] <= Len(visited)

EvaluationInv == Inputs /\ TypeOK /\ Progress /\ CountsBelow

\* Unless the program exits, the seeds have as many indices as gradients.
SeedsGiven ==
  mode \in {"backward", "forward"} /\ pc \notin {"seed", "exit1", "pushing"} =>
    Len(readFromTextFile(seedIndices)) = Len(readFromTextFile(seedGradients))

\* A vector that is going to be seeded is zero.
ZeroAtFirst ==
  pc = "seed" => /\ mode \in {"backward", "forward"}
                 /\ derivativevec = [i \in 0 .. number_of_blocks - 1 |-> 0]

\* The dot value that the user gave variable i.
SeedOf(i) ==
  LET s == readFromTextFile(seedIndices)
      g == readFromTextFile(seedGradients)
  IN SumSeq([m \in 1 .. Len(s) |-> IF s[m] = i THEN g[m] ELSE 0])

(***************************************************************************)
(* Forward mode: a visited variable has its derivative, another one its    *)
(* seed.                                                                   *)
(***************************************************************************)
ForwardSoFar ==
  mode = "forward" /\ pc \notin {"seed", "exit1", "pushing"} =>
    \A j \in 1 .. number_of_blocks - 1 :
      derivativevec[j] = IF j < Len(visited) THEN ChainRule(j) ELSE SeedOf(j)

(***************************************************************************)
(* Backward mode: a visited variable has its derivative.  The derivative   *)
(* with respect to another one is what the entries of the unvisited        *)
(* variables give, each multiplied by its own derivative.                  *)
(***************************************************************************)
Pending(r, c) == SumSeq([j \in 1 .. c - 1 |-> derivativevec[j] * Derivative(j)[r]])

BackwardSoFar ==
  mode = "backward" /\ pc \notin {"seed", "exit1", "pushing"} =>
    LET c == number_of_blocks - Len(visited) IN
    \A r \in 1 .. number_of_blocks - 1 :
      ChainRule(r) = IF r < c THEN Pending(r, c) ELSE derivativevec[r]

\* What has been read out.
ReadOut ==
  pc = "done" /\ mode \in {"backward", "forward"} =>
    gradients = [k \in 1 .. Len(readIndices.data) |-> derivativevec[readIndices.data[k]]]

\* Every visited block has been counted.
StatsSoFar ==
  mode = "stats" =>
    counts = [nZero |-> NumberOf(0, Len(visited)),
              nOne  |-> NumberOf(1, Len(visited)),
              nTwo  |-> NumberOf(2, Len(visited))]

ResultInv ==
  /\ SeedsGiven /\ ZeroAtFirst /\ ForwardSoFar /\ BackwardSoFar
  /\ ReadOut /\ StatsSoFar

-----------------------------------------------------------------------------
(* The inputs.                                                             *)

(* Sequences of bounded length are sequences. *)
LEMMA BoundedFacts ==
  ASSUME NEW S, NEW n \in Nat, NEW s \in BoundedSeqs(S, n)
  PROVE  s \in Seq(S) /\ Len(s) \in Nat /\ s \in [1 .. Len(s) -> S]
<1>1. PICK k \in 0 .. n : s \in [1 .. k -> S]
  BY DEF BoundedSeqs
<1>2. QED
  BY <1>1

(* Reading a text file gives a sequence of its scalars. *)
LEMMA ReadFacts ==
  ASSUME NEW S, NEW n \in Nat, NEW file \in TextFile(S, n)
  PROVE  readFromTextFile(file) \in Seq(S)
<1>1. file.data \in BoundedSeqs(S, n)
  BY DEF TextFile
<1>2. file.data \in Seq(S) /\ Len(file.data) \in Nat
  BY <1>1, BoundedFacts
<1>3. SubSeq(file.data, 1, Len(file.data) - 1) \in Seq(S)
  <2> DEFINE s == file.data
             m == Len(s) - 1
  <2>1. m \in Int /\ \A i \in 1 .. m : s[i] \in S
    BY <1>2, ElementOfSeq
  <2> HIDE DEF s, m
  <2>2. SubSeq(s, 1, m) \in Seq(S)
    BY <2>1, SubSeqProperties
  <2>3. QED
    BY <2>2 DEF s, m
<1>4. QED
  BY <1>2, <1>3 DEF readFromTextFile

\* The block of index i.
BlockOf(i) == tape[i + 1]

(* A block of the tape refers to earlier blocks or has special operands. *)
LEMMA BlockFacts ==
  ASSUME NEW i \in Nat, NEW b \in BlockAt(i, Special, DiffPairs)
  PROVE  /\ b.index1 \in Nat /\ b.index2 \in Nat
         /\ b.diff1 \in Int /\ b.diff2 \in Int
         /\ Ordinary(b.index1) => b.index1 \in 1 .. i - 1
         /\ Ordinary(b.index2) => b.index2 \in 1 .. i - 1
<1>1. HIGH \in Nat /\ Special \subseteq HIGH .. WORD - 1 /\ WORD \in Nat
  BY EvaluationAssumption DEF WORD
<1>2. \A j \in (0 .. i - 1) \cup Special :
        j \in Nat /\ (Ordinary(j) => j \in 1 .. i - 1)
  BY <1>1 DEF Ordinary
<1>3. CASE i = 0
  BY <1>3 DEF BlockAt, Dummy, Ordinary
<1>4. CASE i # 0
  <2>1. PICK j \in (0 .. i - 1) \cup Special, k \in (0 .. i - 1) \cup Special,
             d \in DiffPairs :
          b = [index1 |-> j, index2 |-> k, diff1 |-> d[1], diff2 |-> d[2]]
    BY <1>4 DEF BlockAt
  <2>2. d[1] \in Int /\ d[2] \in Int
    BY EvaluationAssumption
  <2>3. QED
    BY <1>2, <2>1, <2>2
<1>5. QED
  BY <1>3, <1>4

(* What is known of the inputs. *)
LEMMA InputFacts ==
  ASSUME Inputs
  PROVE  /\ number_of_blocks \in Nat /\ number_of_blocks < HIGH
         /\ HIGH \in Nat \ {0} /\ bufsize \in Nat \ {0} /\ WORD = 2 * HIGH
         /\ mode \in {"backward", "forward", "stats", "typegrind"}
         /\ DOMAIN tape = 1 .. number_of_blocks
         /\ \A i \in 0 .. number_of_blocks - 1 :
              BlockOf(i) \in BlockAt(i, Special, DiffPairs)
         /\ readFromTextFile(seedIndices) \in Seq(0 .. number_of_blocks - 1)
         /\ readFromTextFile(seedGradients) \in Seq(Int)
         /\ readIndices.data \in Seq(0 .. number_of_blocks - 1)
         /\ readIndices.ending = "newline"
<1>1. PICK n \in 0 .. MaxBlocks :
        /\ tape \in Tapes(n, Special, DiffPairs)
        /\ mode \in Modes
        /\ seedIndices \in TextFile(0 .. n - 1, MaxSeeds)
        /\ seedGradients \in TextFile(Gradients, MaxSeeds)
        /\ readIndices \in [data : BoundedSeqs(0 .. n - 1, MaxReads),
                            ending : {"newline"}]
  BY DEF Inputs
<1>2. /\ n \in Nat /\ n < HIGH /\ HIGH \in Nat \ {0} /\ bufsize \in Nat \ {0}
      /\ Gradients \subseteq Int /\ MaxSeeds \in Nat /\ MaxReads \in Nat
  BY EvaluationAssumption
<1>3. /\ tape \in [1 .. n -> UNION {BlockAt(i, Special, DiffPairs) : i \in 0 .. n - 1}]
      /\ \A i \in 1 .. n : tape[i] \in BlockAt(i - 1, Special, DiffPairs)
  BY <1>1 DEF Tapes
<1>4. Len(tape) = n /\ DOMAIN tape = 1 .. n
  BY <1>2, <1>3
<1>5. ASSUME NEW i \in 0 .. n - 1
      PROVE  BlockOf(i) \in BlockAt(i, Special, DiffPairs)
  <2>1. i + 1 \in 1 .. n /\ (i + 1) - 1 = i
    BY <1>2
  <2>2. QED
    BY <1>3, <2>1 DEF BlockOf
<1>6. readFromTextFile(seedIndices) \in Seq(0 .. n - 1)
  BY <1>1, <1>2, ReadFacts
<1>7. readFromTextFile(seedGradients) \in Seq(Int)
  <2>1. readFromTextFile(seedGradients) \in Seq(Gradients)
    BY <1>1, <1>2, ReadFacts
  <2> DEFINE g == readFromTextFile(seedGradients)
  <2> HIDE DEF g
  <2>2. g \in [1 .. Len(g) -> Gradients] /\ Len(g) \in Nat
    BY <2>1, LenProperties DEF g
  <2>3. g \in [1 .. Len(g) -> Int]
    BY <1>2, <2>2
  <2>4. g \in Seq(Int)
    BY <2>2, <2>3
  <2>5. QED
    BY <2>4 DEF g
<1>8. readIndices.data \in Seq(0 .. n - 1) /\ readIndices.ending = "newline"
  BY <1>1, <1>2, BoundedFacts
<1>9. QED
  BY <1>1, <1>2, <1>4, <1>5, <1>6, <1>7, <1>8, EvaluationAssumption
  DEF number_of_blocks, WORD

-----------------------------------------------------------------------------
(* The chunks of the traversal.                                            *)

(* Arithmetic modulo WORD leaves the numbers below WORD alone. *)
LEMMA UFacts ==
  ASSUME HIGH \in Nat \ {0}
  PROVE  /\ WORD \in Nat \ {0}
         /\ \A n \in 0 .. WORD - 1 : U(n) = n
         /\ U(-1) = WORD - 1
         /\ U(WORD) = 0
<1>1. WORD \in Nat \ {0}
  BY DEF WORD
<1>2. ASSUME NEW n \in 0 .. WORD - 1
      PROVE  U(n) = n
  <2>1. n = WORD * 0 + n /\ n \in Int
    BY <1>1
  <2>2. n % WORD = n
    BY <1>1, <2>1, ModUnique
  <2>3. QED
    BY <2>2 DEF U
<1>3. U(-1) = WORD - 1
  <2>1. -1 = WORD * (-1) + (WORD - 1) /\ WORD - 1 \in 0 .. (WORD - 1)
    BY <1>1
  <2>2. (-1) % WORD = WORD - 1
    BY <1>1, <2>1, ModUnique, -1 \in Int
  <2>3. QED
    BY <2>2 DEF U
<1>4. U(WORD) = 0
  <2>1. WORD = WORD * 1 + 0 /\ 0 \in 0 .. (WORD - 1) /\ WORD \in Int
    BY <1>1
  <2>2. WORD % WORD = 0
    BY <1>1, <2>1, ModUnique, 1 \in Int
  <2>3. QED
    BY <2>2 DEF U
<1>5. QED
  BY <1>1, <1>2, <1>3, <1>4

(* The modes in which the tape is traversed from its end. *)
FromEnd == mode \in {"backward", "typegrind"}

(***************************************************************************)
(* iterate is called for the whole tape.  A tape of a single block is      *)
(* always traversed forward, an empty one has wrapped-around limits.       *)
(***************************************************************************)
LEMMA SubtapeFacts ==
  ASSUME Inputs
  PROVE  /\ number_of_blocks_in_subtape = number_of_blocks
         /\ forward \in BOOLEAN
         /\ forward <=> (~FromEnd \/ number_of_blocks = 1)
         /\ forward => begin = 0
         /\ ~forward /\ number_of_blocks # 0 => begin = number_of_blocks - 1 /\ begin # 0
         /\ begin \in Nat
<1> DEFINE N == number_of_blocks
<1>1. N \in Nat /\ N < HIGH /\ HIGH \in Nat \ {0} /\ WORD = 2 * HIGH
  BY InputFacts
<1>2. /\ WORD \in Nat \ {0} /\ \A n \in 0 .. WORD - 1 : U(n) = n
      /\ U(-1) = WORD - 1 /\ U(WORD) = 0
  BY <1>1, UFacts
<1> HIDE DEF N
<1>3. CASE N = 0
  <2>1. U(N - 1) = WORD - 1
    BY <1>2, <1>3, 0 - 1 = -1
  <2>2. /\ begin = IF FromEnd THEN WORD - 1 ELSE 0
        /\ end = IF FromEnd THEN 0 ELSE WORD - 1
    BY <2>1 DEF begin, end, FromEnd, N
  <2>3. forward <=> ~FromEnd
    BY <1>1, <2>2 DEF forward
  <2>4. number_of_blocks_in_subtape = U(WORD)
    <3>1. (WORD - 1) - 0 + 1 = WORD
      BY <1>1
    <3>2. QED
      BY <2>2, <2>3, <3>1 DEF number_of_blocks_in_subtape
  <2>5. QED
    BY <1>1, <1>2, <1>3, <2>2, <2>3, <2>4 DEF forward, N
<1>4. CASE N # 0
  <2>1. U(N - 1) = N - 1 /\ U(N) = N
    BY <1>1, <1>2, <1>4
  <2>2. /\ begin = IF FromEnd THEN N - 1 ELSE 0
        /\ end = IF FromEnd THEN 0 ELSE N - 1
    BY <2>1 DEF begin, end, FromEnd, N
  <2>3. forward <=> (~FromEnd \/ N = 1)
    BY <1>1, <1>4, <2>2 DEF forward
  <2>4. (IF forward THEN end - begin + 1 ELSE begin - end + 1) = N
    BY <1>1, <1>4, <2>2, <2>3
  <2>5. number_of_blocks_in_subtape = N
    BY <2>1, <2>4 DEF number_of_blocks_in_subtape
  <2>6. QED
    BY <1>1, <1>4, <2>2, <2>3, <2>5 DEF forward, N
<1>5. QED
  BY <1>3, <1>4

(***************************************************************************)
(* A chunk lies within the tape; only the last one may be partly filled,   *)
(* and together the chunks reach to the other end of the tape.             *)
(***************************************************************************)
LEMMA ChunkFacts ==
  ASSUME Inputs, chunk \in Nat
  PROVE  /\ number_of_chunks_in_subtape \in Nat \ {0}
         /\ chunk < number_of_chunks_in_subtape =>
              /\ chunk_count \in 0 .. bufsize
              /\ chunk * bufsize \in Nat
              /\ chunk * bufsize + chunk_count <= number_of_blocks
              /\ chunk_begin = IF forward THEN chunk * bufsize
                               ELSE number_of_blocks - chunk * bufsize - chunk_count
              /\ chunk + 1 < number_of_chunks_in_subtape =>
                   chunk_count = bufsize /\ (chunk + 1) * bufsize = chunk * bufsize + bufsize
              /\ chunk + 1 = number_of_chunks_in_subtape =>
                   chunk * bufsize + chunk_count = number_of_blocks
<1> DEFINE N == number_of_blocks
           q == N \div bufsize
           r == N % bufsize
           o == chunk * bufsize
<1>1. /\ N \in Nat /\ N < HIGH /\ HIGH \in Nat \ {0} /\ bufsize \in Nat \ {0}
      /\ WORD = 2 * HIGH
  BY InputFacts
<1>2. /\ number_of_blocks_in_subtape = N
      /\ forward \in BOOLEAN
      /\ forward => begin = 0
      /\ ~forward /\ N # 0 => begin = N - 1
      /\ forward <=> (~FromEnd \/ N = 1)
  BY SubtapeFacts
<1>3. \A n \in 0 .. WORD - 1 : U(n) = n
  BY <1>1, UFacts
<1>4. U(-1) = WORD - 1
  BY <1>1, UFacts
<1>5. q \in Nat /\ r \in 0 .. bufsize - 1 /\ N = bufsize * q + r
  BY <1>1, ModDiv
<1>6. number_of_chunks_in_subtape = q + 1
  BY <1>2 DEF number_of_chunks_in_subtape
<1>7. o \in Nat
  BY <1>1
<1> HIDE DEF N, q, r, o
<1>8. bufsize * q \in Nat /\ (q + 1 - 1) * bufsize = bufsize * q
  BY <1>1, <1>5
<1>9. chunk_count = IF chunk = q THEN r ELSE bufsize
  <2>1. q + 1 - 1 = q /\ N - bufsize * q = r
    BY <1>1, <1>5, <1>8
  <2>2. /\ number_of_blocks_in_subtape = N
        /\ number_of_chunks_in_subtape - 1 = q
    BY <1>2, <1>5, <1>6
  <2>3. q * bufsize = bufsize * q
    BY <1>1, <1>5
  <2>4. chunk_count = IF chunk = q THEN N - q * bufsize ELSE bufsize
    BY ONLY <2>2, Zenon DEF chunk_count
  <2>5. QED
    BY <2>1, <2>3, <2>4, Zenon
<1>10. ASSUME chunk < q + 1
       PROVE  /\ chunk_count \in 0 .. bufsize
              /\ o + chunk_count <= N
              /\ chunk = q => o + chunk_count = N
              /\ chunk # q => chunk_count = bufsize
  <2>1. CASE chunk = q
    <3>1. o = bufsize * q
      BY <2>1, <1>1, <1>5 DEF o
    <3>2. QED
      BY <2>1, <3>1, <1>1, <1>5, <1>8, <1>9
  <2>2. CASE chunk # q
    <3>1. chunk + 1 <= q
      BY <2>2, <1>10, <1>5
    <3>2. (chunk + 1) * bufsize <= q * bufsize
      BY <3>1, <1>1, <1>5
    <3>3. (chunk + 1) * bufsize = o + bufsize /\ q * bufsize = bufsize * q
      BY <1>1, <1>5 DEF o
    <3>4. QED
      BY <3>2, <3>3, <1>1, <1>5, <1>7, <1>8, <1>9, <2>2
  <2>3. QED
    BY <2>1, <2>2
<1>11. ASSUME chunk < q + 1
       PROVE  chunk_begin = IF forward THEN o ELSE N - o - chunk_count
  <2> DEFINE c == chunk_count
  <2>1. c \in 0 .. bufsize /\ o + c <= N
    BY <1>10, <1>11
  <2>2. chunk_begin = U(IF forward THEN begin + o ELSE begin - o - c + 1)
    BY DEF chunk_begin, o
  <2> HIDE DEF c
  <2>3. CASE forward
    <3>1. begin + o = o /\ o \in 0 .. WORD - 1
      BY <1>1, <1>2, <1>7, <2>1, <2>3
    <3>2. QED
      BY <2>2, <2>3, <3>1, <1>3
  <2>4. CASE ~forward /\ N # 0
    <3>1. begin - o - c + 1 = N - o - c /\ N - o - c \in 0 .. WORD - 1
      BY <1>1, <1>2, <1>7, <2>1, <2>4
    <3>2. QED
      BY <2>2, <2>4, <3>1, <1>3 DEF c
  <2>5. CASE ~forward /\ N = 0
    <3>1. o = 0 /\ c = 0
      BY <1>1, <1>7, <2>1, <2>5
    <3>2. begin = WORD - 1
      <4>1. N - 1 = -1
        BY <2>5
      <4>2. FromEnd
        BY <2>5, <1>2
      <4>3. QED
        BY <4>1, <4>2, <1>4 DEF begin, FromEnd, N
    <3>3. begin - o - c + 1 = WORD
      BY <1>1, <3>1, <3>2
    <3>4. U(WORD) = 0
      BY <1>1, UFacts
    <3>5. N - o - c = 0
      BY <3>1, <2>5
    <3>6. QED
      BY <2>2, <2>5, <3>3, <3>4, <3>5 DEF c
  <2>6. QED
    BY <2>3, <2>4, <2>5
<1>12. (chunk + 1) * bufsize = o + bufsize
  BY <1>1 DEF o
<1>13. chunk + 1 < q + 1 => chunk # q
  BY <1>5
<1>14. chunk + 1 = q + 1 => chunk = q
  BY <1>5
<1>15. q + 1 \in Nat \ {0}
  BY <1>5
<1>16. QED
  BY <1>6, <1>7, <1>10, <1>11, <1>12, <1>13, <1>14, <1>15 DEF N, o

-----------------------------------------------------------------------------
(* Seeding.                                                                *)

\* The values of the vector after every iteration of the loop that seeds it.
SeedLoop(a, I, vec, idx, g) ==
  /\ a \in [0 .. Len(idx) -> [I -> Int]]
  /\ a[0] = vec
  /\ \A k \in 1 .. Len(idx) : a[k] = [a[k - 1] EXCEPT ![idx[k]] = @ + g[k]]
  /\ Seeded(vec, idx, g) = a[Len(idx)]

(* There are such values. *)
LEMMA SeededFacts ==
  ASSUME NEW I, NEW vec \in [I -> Int],
         NEW idx \in Seq(I), NEW g \in Seq(Int), Len(idx) = Len(g)
  PROVE  \E a : SeedLoop(a, I, vec, idx, g)
<1> DEFINE n == Len(idx)
           V == [I -> Int]
           Rule(f, k) == IF k = 0 THEN vec
                         ELSE [f[k - 1] EXCEPT ![idx[k]] = @ + g[k]]
           R == [k \in 0 .. n |-> [f \in [0 .. n -> V] |-> Rule(f, k)]]
<1>1. n \in Nat /\ (\A k \in 1 .. n : idx[k] \in I /\ g[k] \in Int)
  BY ElementOfSeq, LenProperties
<1> HIDE DEF n
<1>2. ASSUME NEW k \in 1 .. n, NEW w \in V
      PROVE  [w EXCEPT ![idx[k]] = @ + g[k]] \in V
  BY <1>1
<1>3. ASSUME NEW k \in 0 .. n, NEW f, k # 0 => f[k - 1] \in V
      PROVE  Rule(f, k) \in V
  <2>1. CASE k = 0
    BY <2>1
  <2>2. CASE k # 0
    <3>1. k \in 1 .. n
      BY <2>2
    <3> HIDE DEF V
    <3>2. QED
      BY <1>2, <1>3, <2>2, <3>1
  <2>3. QED
    BY <2>1, <2>2
<1>4. R \in [0 .. n -> [[0 .. n -> V] -> V]]
  <2> SUFFICES ASSUME NEW k \in 0 .. n, NEW f \in [0 .. n -> V]
               PROVE  Rule(f, k) \in V
    BY Zenon
  <2>1. k # 0 => k - 1 \in 0 .. n
    BY <1>1
  <2> HIDE DEF V, Rule
  <2>2. QED
    BY <1>3, <2>1
<1>5. ASSUME NEW k \in 0 .. n, NEW f \in [0 .. n -> V], NEW h \in [0 .. n -> V],
             \A j \in 0 .. k - 1 : f[j] = h[j]
      PROVE  R[k][f] = R[k][h]
  <2>1. R[k][f] = Rule(f, k) /\ R[k][h] = Rule(h, k)
    BY Zenon
  <2>2. k # 0 => f[k - 1] = h[k - 1]
    BY <1>1, <1>5
  <2>3. Rule(f, k) = Rule(h, k)
    BY <2>2, Zenon
  <2>4. QED
    BY <2>1, <2>3
<1>6. PICK f \in [0 .. n -> V] : \A k \in 0 .. n : f[k] = R[k][f]
  <2> HIDE DEF R, V
  <2>1. vec \in V /\ n \in Int
    BY <1>1 DEF V
  <2>2. Causal(R, n, V)
    BY <1>4, <1>5 DEF Causal
  <2>3. Solutions(R, n, V) # {}
    BY <2>1, <2>2, RecursionExists, Zenon
  <2>4. QED
    BY <2>3 DEF Solutions
<1>7. f = [k \in 0 .. n |-> Rule(f, k)]
  BY <1>6
<1> DEFINE after[k \in 0 .. Len(idx)] ==
             IF k = 0 THEN vec
             ELSE [after[k - 1] EXCEPT ![idx[k]] = @ + g[k]]
<1>8. after = [k \in 0 .. n |-> Rule(after, k)]
  BY <1>7, Zenon DEF n
<1>9. Seeded(vec, idx, g) = after[n]
  BY DEF Seeded, n
<1> HIDE DEF after
<1> DEFINE S == {k \in 0 .. n : after[k] \in V}
<1>10. ASSUME NEW k \in 0 .. n, \A j \in 0 .. k - 1 : j \in S
       PROVE  k \in S
  <2>1. after[k] = Rule(after, k)
    BY <1>8
  <2>2. k # 0 => after[k - 1] \in V
    <3>1. k # 0 => k - 1 \in 0 .. k - 1
      OBVIOUS
    <3> HIDE DEF V
    <3>2. QED
      BY <1>10, <3>1
  <2> HIDE DEF V, Rule
  <2>3. QED
    BY <1>3, <2>1, <2>2
<1>11. \A k \in 0 .. n : k \in S
  <2> HIDE DEF S
  <2>1. Inductive(S, n) /\ n \in Int
    BY <1>1, <1>10 DEF Inductive
  <2>2. QED
    BY <2>1, UpTo, Zenon
<1>12. after \in [0 .. n -> V]
  BY <1>8, <1>11
<1>13. after[0] = vec
  BY <1>1, <1>8
<1>14. ASSUME NEW k \in 1 .. n
       PROVE  after[k] = [after[k - 1] EXCEPT ![idx[k]] = @ + g[k]]
  <2>1. k \in 0 .. n /\ k # 0
    BY <1>1
  <2>2. QED
    BY <1>8, <2>1, Zenon
<1>15. QED
  BY <1>9, <1>12, <1>13, <1>14 DEF n, SeedLoop

-----------------------------------------------------------------------------
(* Sums.                                                                   *)

\* The partial sums of s.
Partial(s, u, n) ==
  /\ u \in [0 .. n -> Int] /\ u[0] = 0
  /\ \A k \in 1 .. n : u[k] = u[k - 1] + s[k]
  /\ SumSeq(s) = u[n]

(* A sum is the last of the partial sums. *)
LEMMA SumFacts ==
  ASSUME NEW n \in Nat, NEW s \in [1 .. n -> Int]
  PROVE  \E u : Partial(s, u, n)
<1> DEFINE Rule(f, k) == IF k = 0 THEN 0 ELSE f[k - 1] + s[k]
           R == [k \in 0 .. n |-> [f \in [0 .. n -> Int] |-> Rule(f, k)]]
<1>1. Len(s) = n /\ \A k \in 1 .. n : s[k] \in Int
  OBVIOUS
<1>2. ASSUME NEW k \in 0 .. n, NEW f, k # 0 => f[k - 1] \in Int
      PROVE  Rule(f, k) \in Int
  BY <1>1, <1>2
<1>3. R \in [0 .. n -> [[0 .. n -> Int] -> Int]]
  <2> SUFFICES ASSUME NEW k \in 0 .. n, NEW f \in [0 .. n -> Int]
               PROVE  Rule(f, k) \in Int
    BY Zenon
  <2>1. QED
    BY <1>2
<1>4. ASSUME NEW k \in 0 .. n, NEW f \in [0 .. n -> Int], NEW h \in [0 .. n -> Int],
             \A j \in 0 .. k - 1 : f[j] = h[j]
      PROVE  R[k][f] = R[k][h]
  <2>1. R[k][f] = Rule(f, k) /\ R[k][h] = Rule(h, k)
    BY Zenon
  <2>2. k # 0 => f[k - 1] = h[k - 1]
    BY <1>4
  <2>3. QED
    BY <2>1, <2>2, Zenon
<1>5. PICK f \in [0 .. n -> Int] : \A k \in 0 .. n : f[k] = R[k][f]
  <2> HIDE DEF R
  <2>1. 0 \in Int /\ n \in Int
    OBVIOUS
  <2>2. Causal(R, n, Int)
    BY <1>3, <1>4 DEF Causal
  <2>3. Solutions(R, n, Int) # {}
    BY <2>1, <2>2, RecursionExists, Zenon
  <2>4. QED
    BY <2>3 DEF Solutions
<1>6. f = [k \in 0 .. Len(s) |-> Rule(f, k)]
  BY <1>1, <1>5
<1> DEFINE upTo[k \in 0 .. Len(s)] == IF k = 0 THEN 0 ELSE upTo[k - 1] + s[k]
<1>7. upTo = [k \in 0 .. Len(s) |-> Rule(upTo, k)]
  BY <1>6, Zenon
<1>8. SumSeq(s) = upTo[Len(s)]
  BY DEF SumSeq
<1> HIDE DEF upTo
<1>9. upTo = [k \in 0 .. n |-> Rule(upTo, k)] /\ SumSeq(s) = upTo[n]
  BY <1>1, <1>7, <1>8
<1> DEFINE S == {k \in 0 .. n : upTo[k] \in Int}
<1>10. Stepwise(S, n)
  <2>1. 0 \in S
    BY <1>9
  <2>2. ASSUME NEW k \in 1 .. n, k - 1 \in S
        PROVE  k \in S
    <3>1. k \in 0 .. n /\ k # 0 /\ upTo[k - 1] \in Int
      BY <2>2
    <3>2. upTo[k] = upTo[k - 1] + s[k]
      BY <1>9, <3>1
    <3>3. QED
      BY <1>1, <3>1, <3>2, SMTT(40)
  <2>3. QED
    BY <2>1, <2>2 DEF Stepwise
<1>11. \A k \in 0 .. n : k \in S
  <2> HIDE DEF S
  <2>1. QED
    BY <1>10, StepByStep, n \in Int, Zenon
<1>12. upTo \in [0 .. n -> Int] /\ upTo[0] = 0
  BY <1>9, <1>11
<1>13. \A k \in 1 .. n : upTo[k] = upTo[k - 1] + s[k]
  BY <1>9, SMTT(40)
<1>14. QED
  BY <1>9, <1>12, <1>13 DEF Partial

(* A sum of integers is an integer. *)
LEMMA SumType ==
  ASSUME NEW n \in Nat, NEW s \in [1 .. n -> Int]
  PROVE  SumSeq(s) \in Int
<1>1. PICK u : Partial(s, u, n)
  BY SumFacts
<1>2. QED
  BY <1>1 DEF Partial

\* x is s plus a multiple of t plus a multiple of w, entry by entry.
Combines(x, n, s, a, t, b, w) ==
  /\ x \in [1 .. n -> Int] /\ s \in [1 .. n -> Int]
  /\ t \in [1 .. n -> Int] /\ w \in [1 .. n -> Int]
  /\ \A k \in 1 .. n : x[k] = s[k] + a * t[k] + b * w[k]

(* The sum is linear. *)
LEMMA SumLinear ==
  ASSUME NEW n \in Nat, NEW x, NEW s, NEW t, NEW w, NEW a \in Int, NEW b \in Int,
         Combines(x, n, s, a, t, b, w)
  PROVE  SumSeq(x) = SumSeq(s) + a * SumSeq(t) + b * SumSeq(w)
<1>1. /\ x \in [1 .. n -> Int] /\ s \in [1 .. n -> Int]
      /\ t \in [1 .. n -> Int] /\ w \in [1 .. n -> Int]
  BY DEF Combines
<1>2. PICK ux : Partial(x, ux, n)
  BY <1>1, SumFacts
<1>3. PICK us : Partial(s, us, n)
  BY <1>1, SumFacts
<1>4. PICK ut : Partial(t, ut, n)
  BY <1>1, SumFacts
<1>5. PICK uw : Partial(w, uw, n)
  BY <1>1, SumFacts
<1> DEFINE S == {k \in 0 .. n : ux[k] = us[k] + a * ut[k] + b * uw[k]}
<1>6. Stepwise(S, n)
  <2>1. 0 \in S
    BY <1>2, <1>3, <1>4, <1>5 DEF Partial
  <2>2. ASSUME NEW k \in 1 .. n, k - 1 \in S
        PROVE  k \in S
    <3>1. /\ ux[k] = ux[k - 1] + x[k] /\ us[k] = us[k - 1] + s[k]
          /\ ut[k] = ut[k - 1] + t[k] /\ uw[k] = uw[k - 1] + w[k]
      BY <1>2, <1>3, <1>4, <1>5 DEF Partial
    <3>2. k - 1 \in 0 .. n
      OBVIOUS
    <3>3. /\ us[k - 1] \in Int /\ ut[k - 1] \in Int /\ uw[k - 1] \in Int
          /\ s[k] \in Int /\ t[k] \in Int /\ w[k] \in Int
      BY <1>1, <1>3, <1>4, <1>5, <3>2 DEF Partial
    <3>4. ux[k - 1] = us[k - 1] + a * ut[k - 1] + b * uw[k - 1]
      BY <2>2
    <3>5. x[k] = s[k] + a * t[k] + b * w[k]
      BY DEF Combines
    <3>6. /\ a * (ut[k - 1] + t[k]) = a * ut[k - 1] + a * t[k]
          /\ b * (uw[k - 1] + w[k]) = b * uw[k - 1] + b * w[k]
          /\ a * ut[k - 1] \in Int /\ a * t[k] \in Int
          /\ b * uw[k - 1] \in Int /\ b * w[k] \in Int
      BY <3>3
    <3>7. ux[k] = us[k] + a * ut[k] + b * uw[k]
      BY <3>1, <3>3, <3>4, <3>5, <3>6
    <3>8. QED
      BY <3>7
  <2>3. QED
    BY <2>1, <2>2 DEF Stepwise
<1>7. \A k \in 0 .. n : k \in S
  <2> HIDE DEF S
  <2>1. QED
    BY <1>6, StepByStep, n \in Int, Zenon
<1>8. n \in 0 .. n
  OBVIOUS
<1>9. ux[n] = us[n] + a * ut[n] + b * uw[n]
  BY <1>7, <1>8
<1>10. QED
  BY <1>2, <1>3, <1>4, <1>5, <1>9 DEF Partial

(* Changing one entry changes the sum by as much. *)
LEMMA SumPoint ==
  ASSUME NEW n \in Nat, NEW s \in [1 .. n -> Int], NEW t \in [1 .. n -> Int],
         NEW p \in 1 .. n, NEW e \in Int,
         \A k \in 1 .. n : t[k] = IF k = p THEN s[k] + e ELSE s[k]
  PROVE  SumSeq(t) = SumSeq(s) + e
<1>1. PICK us : Partial(s, us, n)
  BY SumFacts
<1>2. PICK ut : Partial(t, ut, n)
  BY SumFacts
<1> DEFINE S == {k \in 0 .. n : ut[k] = IF p <= k THEN us[k] + e ELSE us[k]}
<1>3. Stepwise(S, n)
  <2>1. 0 \in S
    BY <1>1, <1>2 DEF Partial
  <2>2. ASSUME NEW k \in 1 .. n, k - 1 \in S
        PROVE  k \in S
    <3>1. us[k] = us[k - 1] + s[k] /\ ut[k] = ut[k - 1] + t[k]
      BY <1>1, <1>2 DEF Partial
    <3>2. k - 1 \in 0 .. n
      OBVIOUS
    <3>3. us[k - 1] \in Int /\ s[k] \in Int
      BY <1>1, <3>2 DEF Partial
    <3>4. ut[k - 1] = IF p <= k - 1 THEN us[k - 1] + e ELSE us[k - 1]
      BY <2>2
    <3>5. t[k] = IF k = p THEN s[k] + e ELSE s[k]
      OBVIOUS
    <3>6. ut[k] = IF p <= k THEN us[k] + e ELSE us[k]
      BY <3>1, <3>3, <3>4, <3>5
    <3>7. QED
      BY <3>6
  <2>3. QED
    BY <2>1, <2>2 DEF Stepwise
<1>4. \A k \in 0 .. n : k \in S
  <2> HIDE DEF S
  <2>1. QED
    BY <1>3, StepByStep, n \in Int, Zenon
<1>5. n \in 0 .. n /\ p <= n
  OBVIOUS
<1>6. ut[n] = us[n] + e
  BY <1>4, <1>5
<1>7. QED
  BY <1>1, <1>2, <1>6 DEF Partial

(* The last entry of a sequence is added to the sum of the others. *)
LEMMA SumExtend ==
  ASSUME NEW n \in Nat, NEW s \in [1 .. n -> Int], NEW t \in [1 .. n + 1 -> Int],
         \A k \in 1 .. n : t[k] = s[k]
  PROVE  SumSeq(t) = SumSeq(s) + t[n + 1]
<1>1. PICK us : Partial(s, us, n)
  BY SumFacts
<1>2. PICK ut : Partial(t, ut, n + 1)
  BY SumFacts, n + 1 \in Nat
<1> DEFINE S == {k \in 0 .. n : ut[k] = us[k]}
<1>3. Stepwise(S, n)
  <2>1. 0 \in S
    BY <1>1, <1>2 DEF Partial
  <2>2. ASSUME NEW k \in 1 .. n, k - 1 \in S
        PROVE  k \in S
    <3>1. k \in 1 .. n + 1
      OBVIOUS
    <3>2. us[k] = us[k - 1] + s[k] /\ ut[k] = ut[k - 1] + t[k]
      BY <1>1, <1>2, <3>1 DEF Partial
    <3>3. QED
      BY <2>2, <3>2
  <2>3. QED
    BY <2>1, <2>2 DEF Stepwise
<1>4. \A k \in 0 .. n : k \in S
  <2> HIDE DEF S
  <2>1. QED
    BY <1>3, StepByStep, n \in Int, Zenon
<1>5. n \in 0 .. n /\ n + 1 \in 1 .. n + 1 /\ (n + 1) - 1 = n
  OBVIOUS
<1>6. ut[n] = us[n] /\ ut[n + 1] = ut[n] + t[n + 1]
  BY <1>2, <1>4, <1>5 DEF Partial
<1>7. QED
  BY <1>1, <1>2, <1>6 DEF Partial

(* A sum of zeros is zero. *)
LEMMA SumZero ==
  ASSUME NEW n \in Nat, NEW s \in [1 .. n -> Int], \A k \in 1 .. n : s[k] = 0
  PROVE  SumSeq(s) = 0
<1>1. PICK us : Partial(s, us, n)
  BY SumFacts
<1> DEFINE S == {k \in 0 .. n : us[k] = 0}
<1>2. Stepwise(S, n)
  <2>1. 0 \in S
    BY <1>1 DEF Partial
  <2>2. ASSUME NEW k \in 1 .. n, k - 1 \in S
        PROVE  k \in S
    <3>1. us[k] = us[k - 1] + s[k] /\ us[k - 1] = 0 /\ s[k] = 0
      BY <1>1, <2>2 DEF Partial
    <3>2. QED
      BY <3>1
  <2>3. QED
    BY <2>1, <2>2 DEF Stepwise
<1>3. \A k \in 0 .. n : k \in S
  <2> HIDE DEF S
  <2>1. QED
    BY <1>2, StepByStep, n \in Int, Zenon
<1>4. n \in 0 .. n
  OBVIOUS
<1>5. QED
  BY <1>1, <1>3, <1>4 DEF Partial

-----------------------------------------------------------------------------
(* The chain rule.                                                         *)

\* What an operand of index ix contributes to the derivative w.r.t. index i.
Through(f, ix, diff, i) == IF Ordinary(ix) THEN diff * f[ix][i] ELSE 0

\* The matrix of derivatives follows from the operands of the blocks.
Jacobian(E) ==
  /\ E \in [0 .. number_of_blocks - 1 -> [1 .. number_of_blocks - 1 -> Int]]
  /\ \A j \in 0 .. number_of_blocks - 1 :
       /\ Derivative(j) = E[j]
       /\ \A i \in 1 .. number_of_blocks - 1 :
            E[j][i] = IF j = i THEN 1 ELSE IF j < i THEN 0
                      ELSE Through(E, BlockOf(j).index1, BlockOf(j).diff1, i)
                         + Through(E, BlockOf(j).index2, BlockOf(j).diff2, i)

(* The derivatives form such a matrix. *)
LEMMA DerivativeRule ==
  ASSUME Inputs
  PROVE  \E E : Jacobian(E)
<1> DEFINE n == number_of_blocks - 1
           Idx == 1 .. number_of_blocks - 1
           V == [Idx -> Int]
           Rule(f, m) ==
             LET b == tape[m + 1] IN
             [i \in Idx |->
                IF m = i THEN 1 ELSE IF m < i THEN 0
                ELSE (IF Ordinary(b.index1) THEN b.diff1 * f[b.index1][i] ELSE 0)
                   + (IF Ordinary(b.index2) THEN b.diff2 * f[b.index2][i] ELSE 0)]
           R == [m \in 0 .. n |-> [f \in [0 .. n -> V] |-> Rule(f, m)]]
           Ops(m) == {x \in {tape[m + 1].index1, tape[m + 1].index2} : Ordinary(x)}
<1>1. n \in Int /\ number_of_blocks \in Nat
  BY InputFacts
<1>2. ASSUME NEW m \in 0 .. n
      PROVE  /\ Ops(m) \subseteq 0 .. m - 1
             /\ tape[m + 1].diff1 \in Int /\ tape[m + 1].diff2 \in Int
  <2>1. tape[m + 1] \in BlockAt(m, Special, DiffPairs) /\ m \in Nat
    BY InputFacts DEF BlockOf
  <2> DEFINE b == tape[m + 1]
  <2> HIDE DEF b
  <2>2. /\ b.diff1 \in Int /\ b.diff2 \in Int
        /\ Ordinary(b.index1) => b.index1 \in 1 .. m - 1
        /\ Ordinary(b.index2) => b.index2 \in 1 .. m - 1
    BY <2>1, BlockFacts DEF b
  <2>3. QED
    BY <2>2 DEF b
<1>3. ASSUME NEW m \in 0 .. n, NEW f, \A x \in Ops(m) : f[x] \in V
      PROVE  Rule(f, m) \in V
  <2> DEFINE b == tape[m + 1]
  <2>1. /\ b.diff1 \in Int /\ b.diff2 \in Int
        /\ Ordinary(b.index1) => f[b.index1] \in V
        /\ Ordinary(b.index2) => f[b.index2] \in V
    BY <1>2, <1>3
  <2> HIDE DEF b
  <2> SUFFICES ASSUME NEW i \in Idx
               PROVE  (IF m = i THEN 1 ELSE IF m < i THEN 0
                       ELSE (IF Ordinary(b.index1) THEN b.diff1 * f[b.index1][i] ELSE 0)
                          + (IF Ordinary(b.index2) THEN b.diff2 * f[b.index2][i] ELSE 0))
                      \in Int
    BY DEF b
  <2>2. ASSUME Ordinary(b.index1)
        PROVE  b.diff1 * f[b.index1][i] \in Int
    <3>1. f[b.index1][i] \in Int /\ b.diff1 \in Int
      BY <2>1, <2>2
    <3>2. QED
      BY ONLY <3>1
  <2>3. ASSUME Ordinary(b.index2)
        PROVE  b.diff2 * f[b.index2][i] \in Int
    <3>1. f[b.index2][i] \in Int /\ b.diff2 \in Int
      BY <2>1, <2>3
    <3>2. QED
      BY ONLY <3>1
  <2>4. (IF Ordinary(b.index1) THEN b.diff1 * f[b.index1][i] ELSE 0) \in Int
    BY <2>2
  <2>5. (IF Ordinary(b.index2) THEN b.diff2 * f[b.index2][i] ELSE 0) \in Int
    BY <2>3
  <2>6. QED
    BY <2>4, <2>5
<1> HIDE DEF n
<1>4. R \in [0 .. n -> [[0 .. n -> V] -> V]]
  <2> SUFFICES ASSUME NEW m \in 0 .. n, NEW f \in [0 .. n -> V]
               PROVE  Rule(f, m) \in V
    BY Zenon
  <2>1. \A x \in Ops(m) : x \in 0 .. n
    BY <1>1, <1>2
  <2> HIDE DEF V, Rule, Ops
  <2>2. QED
    BY <1>3, <2>1
<1>5. ASSUME NEW m \in 0 .. n, NEW f, NEW h, \A j \in 0 .. m - 1 : f[j] = h[j]
      PROVE  Rule(f, m) = Rule(h, m)
  <2>1. /\ Ordinary(tape[m + 1].index1) => f[tape[m + 1].index1] = h[tape[m + 1].index1]
        /\ Ordinary(tape[m + 1].index2) => f[tape[m + 1].index2] = h[tape[m + 1].index2]
    BY <1>2, <1>5
  <2>2. QED
    BY <2>1
<1>6. PICK f \in [0 .. n -> V] : \A m \in 0 .. n : f[m] = R[m][f]
  <2>1. Causal(R, n, V)
    <3>1. ASSUME NEW m \in 0 .. n, NEW g \in [0 .. n -> V], NEW h \in [0 .. n -> V],
                 \A j \in 0 .. m - 1 : g[j] = h[j]
          PROVE  R[m][g] = R[m][h]
      <4> HIDE DEF V, Rule
      <4>1. R[m][g] = Rule(g, m) /\ R[m][h] = Rule(h, m)
        BY Zenon
      <4>2. QED
        BY <1>5, <3>1, <4>1
    <3> HIDE DEF R, V
    <3>2. QED
      BY <1>4, <3>1 DEF Causal
  <2>2. [i \in Idx |-> 0] \in V
    OBVIOUS
  <2> HIDE DEF R, V
  <2>3. Solutions(R, n, V) # {}
    BY <1>1, <2>1, <2>2, RecursionExists, Zenon
  <2>4. QED
    BY <2>3 DEF Solutions
<1>7. f = [m \in 0 .. n |-> Rule(f, m)]
  <2> HIDE DEF V, Rule
  <2>1. \A m \in 0 .. n : f[m] = Rule(f, m)
    BY <1>6, Zenon
  <2>2. QED
    BY <2>1
<1> DEFINE D[m \in 0 .. number_of_blocks - 1] ==
             LET b == tape[m + 1] IN
             [i \in Idx |->
                IF m = i THEN 1 ELSE IF m < i THEN 0
                ELSE (IF Ordinary(b.index1) THEN b.diff1 * D[b.index1][i] ELSE 0)
                   + (IF Ordinary(b.index2) THEN b.diff2 * D[b.index2][i] ELSE 0)]
<1>8. D = [m \in 0 .. n |-> Rule(D, m)]
  BY <1>7, Zenon DEF n
<1>9. \A j : Derivative(j) = D[j]
  BY DEF Derivative
<1> HIDE DEF D
<1> DEFINE S == {m \in 0 .. n : D[m] \in V}
<1>10. ASSUME NEW m \in 0 .. n, \A j \in 0 .. m - 1 : j \in S
       PROVE  m \in S
  <2>1. \A x \in Ops(m) : D[x] \in V
    BY <1>2, <1>10
  <2> HIDE DEF V, Rule, Ops
  <2>2. Rule(D, m) \in V
    BY <1>3, <2>1
  <2>3. D[m] = Rule(D, m)
    BY <1>8
  <2>4. QED
    BY <2>2, <2>3
<1>11. \A m \in 0 .. n : m \in S
  <2> HIDE DEF S
  <2>1. Inductive(S, n)
    BY <1>10 DEF Inductive
  <2>2. QED
    BY <1>1, <2>1, UpTo, Zenon
<1>12. D \in [0 .. n -> V]
  <2> HIDE DEF V, Rule
  <2>1. QED
    BY <1>8, <1>11
<1>13. ASSUME NEW j \in 0 .. n, NEW i \in Idx
       PROVE  D[j][i] = IF j = i THEN 1 ELSE IF j < i THEN 0
                        ELSE Through(D, BlockOf(j).index1, BlockOf(j).diff1, i)
                           + Through(D, BlockOf(j).index2, BlockOf(j).diff2, i)
  <2>1. D[j] = Rule(D, j)
    BY <1>8
  <2>2. QED
    BY <2>1 DEF Through, BlockOf
<1>14. QED
  BY <1>9, <1>12, <1>13 DEF n, Jacobian

-----------------------------------------------------------------------------
(* The traversal.                                                          *)

(* The program does not change its inputs, nor what is computed from them. *)
LEMMA InputsStay ==
  ASSUME UNCHANGED inputs
  PROVE  /\ Inputs' <=> Inputs
         /\ number_of_blocks' = number_of_blocks
         /\ number_of_chunks_in_subtape' = number_of_chunks_in_subtape
         /\ begin' = begin
         /\ forward' = forward
         /\ mode' = mode /\ tape' = tape /\ readIndices' = readIndices
         /\ seedIndices' = seedIndices /\ seedGradients' = seedGradients
         /\ \A k : KthIndex(k)' = KthIndex(k)
         /\ chunk' = chunk => chunk_count' = chunk_count /\ chunk_begin' = chunk_begin
<1>1. /\ mode' = mode /\ tape' = tape /\ readIndices' = readIndices
      /\ seedIndices' = seedIndices /\ seedGradients' = seedGradients
  BY DEF inputs
<1>2. Inputs' <=> Inputs
  BY <1>1 DEF Inputs
<1>3. number_of_blocks' = number_of_blocks
  BY <1>1 DEF number_of_blocks
<1>4. begin' = begin /\ end' = end
  BY <1>1, <1>3 DEF begin, end
<1>5. forward' = forward
  BY <1>4 DEF forward
<1>6. number_of_blocks_in_subtape' = number_of_blocks_in_subtape
  BY <1>4, <1>5 DEF number_of_blocks_in_subtape
<1>7. number_of_chunks_in_subtape' = number_of_chunks_in_subtape
  BY <1>6 DEF number_of_chunks_in_subtape
<1>8. \A k : KthIndex(k)' = KthIndex(k)
  BY <1>3, <1>4 DEF KthIndex
<1>9. chunk' = chunk => chunk_count' = chunk_count
  BY <1>6, <1>7 DEF chunk_count
<1>10. chunk' = chunk => chunk_begin' = chunk_begin
  BY <1>4, <1>5, <1>9 DEF chunk_begin
<1>11. QED
  BY <1>1, <1>2, <1>3, <1>4, <1>5, <1>7, <1>8, <1>9, <1>10

(* The k-th visited index, by the direction of the traversal. *)
LEMMA KthFacts ==
  ASSUME Inputs, NEW k \in 1 .. number_of_blocks
  PROVE  /\ KthIndex(k) = IF forward THEN k - 1 ELSE number_of_blocks - k
         /\ KthIndex(k) \in 0 .. number_of_blocks - 1
<1>1. number_of_blocks \in Nat /\ number_of_blocks # 0
  BY InputFacts
<1>2. forward => begin = 0
  BY SubtapeFacts
<1>3. ~forward => begin # 0
  BY <1>1, SubtapeFacts
<1>4. QED
  BY <1>1, <1>2, <1>3 DEF KthIndex

(* The next call of fun gets the next block of the traversal and its index. *)
LEMMA VisitFacts ==
  ASSUME Inputs, chunk \in Nat, Progress, pc = "visit", InChunk
  PROVE  /\ Len(visited) \in 0 .. number_of_blocks - 1
         /\ block_in_chunk \in 0 .. chunk_count - 1
         /\ CurrentIndex = KthIndex(Len(visited) + 1)
         /\ CurrentIndex \in 0 .. number_of_blocks - 1
         /\ tape_buf[block_in_chunk] = BlockOf(CurrentIndex)
<1> DEFINE N == number_of_blocks
           v == Len(visited)
           o == chunk * bufsize
           c == chunk_count
           p == block_in_chunk
<1>1. N \in Nat /\ N < HIGH /\ HIGH \in Nat \ {0} /\ bufsize \in Nat \ {0} /\ WORD = 2 * HIGH
  BY InputFacts
<1>2. /\ v \in 0 .. N /\ chunk < number_of_chunks_in_subtape /\ ChunkLoaded
      /\ IF forward THEN p \in 0 .. c /\ v = o + p
         ELSE p \in -1 .. c - 1 /\ v = o + (c - 1 - p)
  BY DEF Progress
<1>3. /\ c \in 0 .. bufsize /\ o \in Nat /\ o + c <= N
      /\ chunk_begin = IF forward THEN o ELSE N - o - c
  BY <1>2, ChunkFacts
<1>4. IF forward THEN p < c ELSE p >= 0
  BY DEF InChunk
<1>5. forward \in BOOLEAN /\ (forward => begin = 0)
      /\ (~forward /\ N # 0 => begin = N - 1)
  BY SubtapeFacts
<1>6. \A n \in 0 .. WORD - 1 : U(n) = n
  BY <1>1, UFacts
<1>7. CurrentIndex = U(IF forward THEN begin + o + p ELSE begin - o - c + p + 1)
  BY DEF CurrentIndex
<1>8. ASSUME N # 0, v + 1 \in 1 .. N
      PROVE  KthIndex(v + 1) = IF forward THEN (v + 1) - 1 ELSE N - (v + 1)
  BY <1>8, KthFacts
<1>9. ChunkLoaded <=> \A s \in 0 .. c - 1 : tape_buf[s] = tape[chunk_begin + s + 1]
  BY DEF ChunkLoaded
<1> HIDE DEF N, v, o, c, p
<1>10. v + 1 \in 1 .. N /\ N # 0 /\ p \in 0 .. c - 1 /\ v \in 0 .. N - 1
  BY <1>1, <1>2, <1>3, <1>4, <1>5
<1>11. CASE forward
  <2>1. begin + o + p = v /\ v \in 0 .. WORD - 1
    BY <1>1, <1>2, <1>3, <1>5, <1>10, <1>11
  <2>2. CurrentIndex = v
    BY <1>6, <1>7, <1>11, <2>1
  <2>3. KthIndex(v + 1) = v
    BY <1>8, <1>10, <1>11
  <2>4. chunk_begin + p + 1 = v + 1
    BY <1>2, <1>3, <1>10, <1>11
  <2>5. tape_buf[p] = tape[v + 1]
    BY <1>2, <1>9, <1>10, <2>4
  <2>6. QED
    BY <1>10, <2>2, <2>3, <2>5 DEF BlockOf, N, v, c, p
<1>12. CASE ~forward
  <2> DEFINE w == N - (v + 1)
  <2>1. begin - o - c + p + 1 = w /\ w \in 0 .. WORD - 1 /\ w \in 0 .. N - 1
    BY <1>1, <1>2, <1>3, <1>5, <1>10, <1>12
  <2>2. CurrentIndex = w
    BY <1>6, <1>7, <1>12, <2>1
  <2>3. KthIndex(v + 1) = w
    BY <1>8, <1>10, <1>12
  <2>4. chunk_begin + p + 1 = w + 1
    BY <1>1, <1>2, <1>3, <1>10, <1>12
  <2>5. tape_buf[p] = tape[w + 1]
    <3> HIDE DEF w
    <3>1. QED
      BY <1>2, <1>9, <1>10, <2>4
  <2> HIDE DEF w
  <2>6. QED
    BY <1>10, <2>1, <2>2, <2>3, <2>5 DEF BlockOf, N, v, c, p
<1>13. QED
  BY <1>5, <1>11, <1>12

\* What fun is called with in its k-th call.
Call(k) == <<KthIndex(k), tape[KthIndex(k) + 1]>>

(* One more block is visited, and the list of calls grows by one. *)
LEMMA VisitedGrows ==
  ASSUME NEW v \in Nat, visited = [k \in 1 .. v |-> Call(k)]
  PROVE  /\ Append(visited, Call(v + 1)) = [k \in 1 .. v + 1 |-> Call(k)]
         /\ Len(Append(visited, Call(v + 1))) = v + 1
<1> DEFINE W == {Call(k) : k \in Nat}
           e == Call(v + 1)
<1>1. visited \in [1 .. v -> W] /\ e \in W /\ \A k \in 1 .. v : visited[k] = Call(k)
  OBVIOUS
<1>2. visited \in Seq(W) /\ Len(visited) = v
  <2> HIDE DEF W
  <2>1. QED
    BY <1>1
<1> HIDE DEF W, e
<1>3. /\ Append(visited, e) \in Seq(W)
      /\ Len(Append(visited, e)) = v + 1
      /\ \A k \in 1 .. v : Append(visited, e)[k] = visited[k]
      /\ Append(visited, e)[v + 1] = e
  BY <1>1, <1>2, AppendProperties
<1> DEFINE a == Append(visited, e)
           f == [k \in 1 .. v + 1 |-> Call(k)]
<1>4. a \in [1 .. v + 1 -> W]
  BY <1>3, LenProperties
<1>5. ASSUME NEW k \in 1 .. v + 1 PROVE a[k] = Call(k)
  <2>1. k \in 1 .. v \/ k = v + 1
    OBVIOUS
  <2>2. QED
    BY <1>1, <1>3, <2>1 DEF e
<1> HIDE DEF a
<1>6. a = f
  BY <1>4, <1>5
<1>7. QED
  BY <1>3, <1>6 DEF a, e

(* The program starts at the beginning of the traversal. *)
LEMMA EvaluationInit ==
  ASSUME Init
  PROVE  EvaluationInv
<1>1. Inputs /\ Start
  BY DEF Init
<1>2. number_of_blocks \in Nat /\ bufsize \in Nat \ {0}
      /\ mode \in {"backward", "forward", "stats", "typegrind"}
  BY <1>1, InputFacts
<1>3. chunk = 0 /\ visited = <<>> /\ pc \in {"seed", "load"}
  BY <1>1, <1>2 DEF Start
<1>4. number_of_chunks_in_subtape \in Nat \ {0}
  BY <1>1, <1>3, ChunkFacts
<1>5. TypeOK
  <2>1. derivativevec \in [0 .. number_of_blocks - 1 -> Int]
    BY <1>1 DEF Start
  <2>2. counts \in [{"nZero", "nOne", "nTwo"} -> 0 .. number_of_blocks]
    BY <1>1, <1>2 DEF Start
  <2>3. /\ DOMAIN tape_buf = 0 .. bufsize - 1 /\ block_in_chunk = 0
        /\ called = {} /\ gradients = <<>>
    BY <1>1 DEF Start
  <2>4. /\ block_in_chunk \in -1 .. bufsize
        /\ chunk \in 0 .. number_of_chunks_in_subtape
        /\ called \subseteq 0 .. number_of_blocks - 1
        /\ gradients \in Seq(Int)
    BY <1>2, <1>3, <1>4, <2>3
  <2>5. QED
    BY <1>3, <2>1, <2>2, <2>3, <2>4 DEF TypeOK
<1>6. Progress
  <2>1. Len(visited) = 0 /\ visited = [k \in 1 .. 0 |-> Call(k)]
    BY <1>3
  <2>2. chunk * bufsize = 0
    BY <1>2, <1>3
  <2>3. QED
    BY <1>2, <1>3, <1>4, <2>1, <2>2 DEF Progress, Call
<1>7. CountsBelow
  BY <1>1, <1>3 DEF CountsBelow, Start
<1>8. QED
  BY <1>1, <1>5, <1>6, <1>7 DEF EvaluationInv

\* The part of the invariant on the position: all but the results.
PositionInv ==
  /\ chunk \in 0 .. number_of_chunks_in_subtape
  /\ DOMAIN tape_buf = 0 .. bufsize - 1
  /\ block_in_chunk \in -1 .. bufsize
  /\ Progress

(* Loading the next chunk, or finding that there is none. *)
LEMMA LoadStep ==
  ASSUME Inputs, PositionInv, LoadChunk
  PROVE  PositionInv' /\ pc' \in {"visit", "read", "done"}
<1> DEFINE v == Len(visited)
<1>1. /\ pc = "load" /\ UNCHANGED inputs /\ chunk' = chunk /\ visited' = visited
  BY DEF LoadChunk
<1>2. chunk \in Nat /\ number_of_chunks_in_subtape \in Nat \ {0}
  BY ChunkFacts, InputFacts, SubtapeFacts DEF PositionInv
<1>3. /\ v \in 0 .. number_of_blocks
      /\ visited = [k \in 1 .. v |-> Call(k)]
      /\ v = IF chunk < number_of_chunks_in_subtape THEN chunk * bufsize ELSE number_of_blocks
  BY <1>1 DEF PositionInv, Progress, Call
<1>4. /\ number_of_blocks' = number_of_blocks
      /\ number_of_chunks_in_subtape' = number_of_chunks_in_subtape
      /\ forward' = forward /\ chunk_count' = chunk_count /\ chunk_begin' = chunk_begin
      /\ tape' = tape
  BY <1>1, InputsStay
<1>5. \A k : Call(k)' = Call(k)
  BY <1>1, InputsStay DEF Call
<1>6. visited' = [k \in 1 .. Len(visited') |-> Call(k)'] /\ Len(visited') \in 0 .. number_of_blocks'
  BY <1>1, <1>3, <1>4, <1>5
<1>7. bufsize \in Nat \ {0} /\ number_of_blocks \in Nat
  BY InputFacts
<1>8. CASE chunk < number_of_chunks_in_subtape
  <2>1. /\ tape_buf' = loadfun(chunk_begin, chunk_count)
        /\ block_in_chunk' = IF forward THEN 0 ELSE chunk_count - 1
        /\ pc' = "visit"
    BY <1>2, <1>8 DEF LoadChunk
  <2>2. /\ chunk_count \in 0 .. bufsize
        /\ chunk * bufsize \in Nat
        /\ chunk * bufsize + chunk_count <= number_of_blocks
        /\ chunk_begin = IF forward THEN chunk * bufsize
                         ELSE number_of_blocks - chunk * bufsize - chunk_count
    BY <1>2, <1>8, ChunkFacts
  <2>3. ASSUME NEW s \in 0 .. chunk_count - 1
        PROVE  tape_buf'[s] = tape[chunk_begin + s + 1]
    <3>1. s \in 0 .. bufsize - 1 /\ s < chunk_count /\ chunk_begin + s < number_of_blocks
      BY <1>7, <2>2
    <3>2. s \in DOMAIN tape_buf
      BY <3>1 DEF PositionInv
    <3>3. QED
      BY <2>1, <3>1, <3>2 DEF loadfun
  <2>4. DOMAIN tape_buf' = 0 .. bufsize - 1
    BY <2>1 DEF loadfun, PositionInv
  <2>5. block_in_chunk' \in -1 .. bufsize
    BY <1>7, <2>1, <2>2
  <2>6. ChunkLoaded'
    BY <1>4, <2>3 DEF ChunkLoaded
  <2>7. IF forward THEN block_in_chunk' \in 0 .. chunk_count
                        /\ v = chunk * bufsize + block_in_chunk'
        ELSE /\ block_in_chunk' \in -1 .. chunk_count - 1
             /\ v = chunk * bufsize + (chunk_count - 1 - block_in_chunk')
    BY <1>3, <1>8, <2>1, <2>2
  <2>8. Progress'
    BY <1>1, <1>4, <1>6, <1>8, <2>1, <2>6, <2>7 DEF Progress, Call
  <2>9. QED
    BY <1>1, <1>4, <2>1, <2>4, <2>5, <2>8 DEF PositionInv
<1>9. CASE ~(chunk < number_of_chunks_in_subtape)
  <2>1. /\ pc' = AfterIteration
        /\ tape_buf' = tape_buf /\ block_in_chunk' = block_in_chunk
    BY <1>9 DEF LoadChunk
  <2>2. pc' \in {"read", "done"}
    BY <2>1 DEF AfterIteration
  <2>3. v = number_of_blocks
    BY <1>3, <1>9
  <2>4. Progress'
    BY <1>1, <1>4, <1>6, <2>2, <2>3 DEF Progress, Call
  <2>5. QED
    BY <1>1, <1>4, <2>1, <2>2, <2>4 DEF PositionInv
<1>10. QED
  BY <1>8, <1>9

(* Visiting a block: the position moves by one block. *)
LEMMA VisitStep ==
  ASSUME Inputs, PositionInv, VisitBlock
  PROVE  /\ PositionInv' /\ pc' = "visit"
         /\ Len(visited') = Len(visited) + 1
         /\ Len(visited) \in 0 .. number_of_blocks - 1
         /\ CurrentIndex = KthIndex(Len(visited) + 1)
         /\ CurrentIndex \in 0 .. number_of_blocks - 1
         /\ fun(CurrentIndex, BlockOf(CurrentIndex))
<1> DEFINE v == Len(visited)
<1>1. /\ pc = "visit" /\ InChunk /\ pc' = "visit" /\ UNCHANGED inputs /\ chunk' = chunk
      /\ tape_buf' = tape_buf
      /\ block_in_chunk' = block_in_chunk + (IF forward THEN 1 ELSE -1)
      /\ visited' = Append(visited, <<CurrentIndex, tape_buf[block_in_chunk]>>)
      /\ fun(CurrentIndex, tape_buf[block_in_chunk])
  BY DEF VisitBlock
<1>2. chunk \in Nat /\ Progress
  BY DEF PositionInv
<1>3. /\ v \in 0 .. number_of_blocks - 1
      /\ block_in_chunk \in 0 .. chunk_count - 1
      /\ CurrentIndex = KthIndex(v + 1)
      /\ CurrentIndex \in 0 .. number_of_blocks - 1
      /\ tape_buf[block_in_chunk] = BlockOf(CurrentIndex)
  BY <1>1, <1>2, VisitFacts
<1>4. /\ visited = [k \in 1 .. v |-> Call(k)]
      /\ chunk < number_of_chunks_in_subtape /\ ChunkLoaded
      /\ IF forward
         THEN block_in_chunk \in 0 .. chunk_count /\ v = chunk * bufsize + block_in_chunk
         ELSE /\ block_in_chunk \in -1 .. chunk_count - 1
              /\ v = chunk * bufsize + (chunk_count - 1 - block_in_chunk)
  BY <1>1, <1>2 DEF Progress, Call
<1>5. bufsize \in Nat \ {0} /\ number_of_blocks \in Nat /\ forward \in BOOLEAN
  BY InputFacts, SubtapeFacts
<1>6. chunk_count \in 0 .. bufsize /\ chunk * bufsize \in Nat
  BY <1>2, <1>4, ChunkFacts
<1>7. <<CurrentIndex, tape_buf[block_in_chunk]>> = Call(v + 1)
  BY <1>3 DEF Call, BlockOf
<1>8. visited' = [k \in 1 .. v + 1 |-> Call(k)] /\ Len(visited') = v + 1
  <2>1. v \in Nat /\ visited' = Append(visited, Call(v + 1))
    BY <1>1, <1>3, <1>7
  <2> HIDE DEF v
  <2>2. QED
    BY <1>4, <2>1, VisitedGrows, Zenon
<1>9. /\ number_of_blocks' = number_of_blocks
      /\ number_of_chunks_in_subtape' = number_of_chunks_in_subtape
      /\ forward' = forward /\ chunk_count' = chunk_count /\ chunk_begin' = chunk_begin
      /\ tape' = tape
  BY <1>1, InputsStay
<1>10. \A k : Call(k)' = Call(k)
  BY <1>1, InputsStay DEF Call
<1>11. visited' = [k \in 1 .. Len(visited') |-> Call(k)'] /\ Len(visited') \in 0 .. number_of_blocks'
  BY <1>3, <1>5, <1>8, <1>9, <1>10
<1>12. ChunkLoaded'
  BY <1>1, <1>4, <1>9 DEF ChunkLoaded
<1>13. IF forward
       THEN block_in_chunk' \in 0 .. chunk_count /\ v + 1 = chunk * bufsize + block_in_chunk'
       ELSE /\ block_in_chunk' \in -1 .. chunk_count - 1
            /\ v + 1 = chunk * bufsize + (chunk_count - 1 - block_in_chunk')
  BY <1>1, <1>3, <1>4, <1>5, <1>6, SMTT(40)
<1>14. Progress'
  BY <1>1, <1>4, <1>8, <1>9, <1>11, <1>12, <1>13 DEF Progress, Call
<1>15. block_in_chunk' \in -1 .. bufsize
  BY <1>1, <1>3, <1>5, <1>6
<1>16. PositionInv'
  BY <1>1, <1>9, <1>14, <1>15 DEF PositionInv
<1>17. fun(CurrentIndex, BlockOf(CurrentIndex))
  BY <1>1, <1>3
<1>18. QED
  BY <1>1, <1>3, <1>8, <1>16, <1>17

(* Leaving a chunk. *)
LEMMA EndStep ==
  ASSUME Inputs, PositionInv, EndChunk
  PROVE  PositionInv' /\ pc' = "load"
<1> DEFINE v == Len(visited)
<1>1. /\ pc = "visit" /\ ~InChunk /\ pc' = "load" /\ UNCHANGED inputs
      /\ chunk' = chunk + 1 /\ tape_buf' = tape_buf
      /\ block_in_chunk' = block_in_chunk /\ visited' = visited
  BY DEF EndChunk
<1>2. chunk \in Nat /\ Progress
  BY DEF PositionInv
<1>3. /\ v \in 0 .. number_of_blocks
      /\ visited = [k \in 1 .. v |-> Call(k)]
      /\ chunk < number_of_chunks_in_subtape
      /\ IF forward
         THEN block_in_chunk \in 0 .. chunk_count /\ v = chunk * bufsize + block_in_chunk
         ELSE /\ block_in_chunk \in -1 .. chunk_count - 1
              /\ v = chunk * bufsize + (chunk_count - 1 - block_in_chunk)
  BY <1>1, <1>2 DEF Progress, Call
<1>4. bufsize \in Nat \ {0} /\ number_of_blocks \in Nat
  BY InputFacts
<1>5. /\ number_of_chunks_in_subtape \in Nat \ {0}
      /\ chunk_count \in 0 .. bufsize /\ chunk * bufsize \in Nat
      /\ chunk + 1 < number_of_chunks_in_subtape =>
           chunk_count = bufsize /\ (chunk + 1) * bufsize = chunk * bufsize + bufsize
      /\ chunk + 1 = number_of_chunks_in_subtape =>
           chunk * bufsize + chunk_count = number_of_blocks
  BY <1>2, <1>3, ChunkFacts
<1>6. v = chunk * bufsize + chunk_count
  BY <1>1, <1>3, <1>4, <1>5, SMTT(40) DEF InChunk
<1>7. v = IF chunk + 1 < number_of_chunks_in_subtape
          THEN (chunk + 1) * bufsize ELSE number_of_blocks
  <2>1. CASE chunk + 1 < number_of_chunks_in_subtape
    BY <1>5, <1>6, <2>1
  <2>2. CASE ~(chunk + 1 < number_of_chunks_in_subtape)
    <3>1. chunk + 1 = number_of_chunks_in_subtape
      BY <1>2, <1>3, <1>5, <2>2
    <3>2. QED
      BY <1>5, <1>6, <2>2, <3>1
  <2>3. QED
    BY <2>1, <2>2
<1>8. /\ number_of_blocks' = number_of_blocks
      /\ number_of_chunks_in_subtape' = number_of_chunks_in_subtape
      /\ tape' = tape
  BY <1>1, InputsStay
<1>9. \A k : Call(k)' = Call(k)
  BY <1>1, InputsStay DEF Call
<1>10. visited' = [k \in 1 .. Len(visited') |-> Call(k)'] /\ Len(visited') \in 0 .. number_of_blocks'
  BY <1>1, <1>3, <1>8, <1>9
<1>11. Progress'
  BY <1>1, <1>7, <1>8, <1>10 DEF Progress, Call
<1>12. chunk' \in 0 .. number_of_chunks_in_subtape
  BY <1>1, <1>2, <1>3, <1>5
<1>13. QED
  BY <1>1, <1>8, <1>11, <1>12 DEF PositionInv

(* Seeding, reading out and crashing leave the position alone. *)
LEMMA OtherStep ==
  ASSUME Inputs, PositionInv, UNCHANGED inputs, UNCHANGED position,
         \/ pc = "seed" /\ pc' \in {"load", "exit1", "pushing"}
         \/ pc = "read" /\ pc' = "done"
         \/ pc' = "crash"
         \/ pc' = pc
  PROVE  PositionInv'
<1>1. UNCHANGED inputs /\ UNCHANGED <<chunk, tape_buf, block_in_chunk, visited>>
  BY DEF position
<1>2. /\ number_of_blocks' = number_of_blocks
      /\ number_of_chunks_in_subtape' = number_of_chunks_in_subtape
      /\ forward' = forward /\ chunk_count' = chunk_count /\ chunk_begin' = chunk_begin
      /\ tape' = tape
  BY <1>1, InputsStay
<1>3. \A k : KthIndex(k)' = KthIndex(k)
  BY <1>1, InputsStay
<1>4. number_of_chunks_in_subtape \in Nat \ {0} /\ bufsize \in Nat \ {0} /\ 0 * bufsize = 0
  <2>1. chunk \in Nat
    BY DEF PositionInv
  <2>2. bufsize \in Nat \ {0}
    BY InputFacts
  <2>3. number_of_chunks_in_subtape \in Nat \ {0}
    BY <2>1, ChunkFacts
  <2>4. QED
    BY <2>2, <2>3
<1>5. ChunkLoaded' <=> ChunkLoaded
  BY <1>1, <1>2 DEF ChunkLoaded
<1>6. /\ Len(visited') \in 0 .. number_of_blocks'
      /\ visited' = [k \in 1 .. Len(visited') |-> <<KthIndex(k)', tape'[KthIndex(k)' + 1]>>]
  BY <1>1, <1>2, <1>3 DEF PositionInv, Progress
<1>7. pc \in {"seed", "exit1", "pushing"} => Len(visited) = 0 /\ chunk = 0
  BY DEF PositionInv, Progress
<1>8. pc \in {"read", "done"} => Len(visited) = number_of_blocks
  BY DEF PositionInv, Progress
<1>9. Progress'
  <2>1. CASE pc = "seed" /\ pc' \in {"load", "exit1", "pushing"}
    <3>1. chunk = 0 /\ Len(visited) = 0
      BY <1>7, <2>1
    <3>2. chunk * bufsize = 0
      BY <1>4, <3>1
    <3>3. chunk < number_of_chunks_in_subtape
      BY <1>4, <3>1
    <3>4. /\ pc' \notin {"visit", "read", "done"}
          /\ Len(visited') = 0 /\ chunk' = 0 /\ Len(visited') = chunk' * bufsize
          /\ chunk' < number_of_chunks_in_subtape'
      BY <1>1, <1>2, <2>1, <3>1, <3>2, <3>3
    <3>5. QED
      BY <1>6, <3>4 DEF Progress
  <2>2. CASE pc = "read" /\ pc' = "done"
    BY <1>1, <1>2, <1>6, <1>8, <2>2 DEF Progress
  <2>3. CASE pc' = pc
    BY <1>1, <1>2, <1>3, <1>5, <2>3 DEF PositionInv, Progress
  <2>4. CASE pc' = "crash"
    BY <1>6, <2>4 DEF Progress
  <2>5. QED
    BY <2>1, <2>2, <2>3, <2>4
<1>10. QED
  BY <1>1, <1>2, <1>9 DEF PositionInv

-----------------------------------------------------------------------------
(* What the visit of a block does to the vector.                           *)

\* The vector has one number per block.
Vector == [0 .. number_of_blocks - 1 -> Int]

\* The block b refers to blocks before index i.
RefersBack(i, b) ==
  /\ b.diff1 \in Int /\ b.diff2 \in Int
  /\ Ordinary(b.index1) => b.index1 \in 1 .. i - 1
  /\ Ordinary(b.index2) => b.index2 \in 1 .. i - 1

(* So do all blocks of the tape. *)
LEMMA TapeRefersBack ==
  ASSUME Inputs, NEW i \in 0 .. number_of_blocks - 1
  PROVE  RefersBack(i, BlockOf(i))
<1>1. BlockOf(i) \in BlockAt(i, Special, DiffPairs) /\ i \in Nat
  BY InputFacts
<1>2. QED
  BY <1>1, BlockFacts DEF RefersBack

(* The backward step adds to the bar values of the operands. *)
LEMMA BackwardStep ==
  ASSUME NEW i \in 0 .. number_of_blocks - 1, NEW b, RefersBack(i, b),
         derivativevec \in Vector, number_of_blocks \in Nat, evaluateBackward(i, b)
  PROVE  /\ derivativevec' \in Vector
         /\ \A j \in 0 .. number_of_blocks - 1 :
              derivativevec'[j] =
                derivativevec[j]
                + (IF Ordinary(b.index1) /\ j = b.index1 THEN derivativevec[i] * b.diff1 ELSE 0)
                + (IF Ordinary(b.index2) /\ j = b.index2 THEN derivativevec[i] * b.diff2 ELSE 0)
<1> DEFINE I == 0 .. number_of_blocks - 1
           p == b.index1
           q == b.index2
           x == derivativevec[i]
           e == x * b.diff1
           f == x * b.diff2
           v1 == IF Ordinary(p) THEN [derivativevec EXCEPT ![p] = @ + e] ELSE derivativevec
           v2 == IF Ordinary(q) THEN [v1 EXCEPT ![q] = @ + v1[i] * b.diff2] ELSE v1
<1>1. derivativevec' = IF x # 0 THEN v2 ELSE derivativevec
  BY DEF evaluateBackward
<1>2. b.diff1 \in Int /\ b.diff2 \in Int /\ x \in Int
  BY DEF RefersBack, Vector
<1>3. e \in Int /\ f \in Int /\ (x = 0 => e = 0 /\ f = 0)
  BY <1>2
<1>4. /\ Ordinary(p) => p \in I /\ p # i
      /\ Ordinary(q) => q \in I /\ q # i
  BY DEF RefersBack
<1>5. derivativevec \in [I -> Int]
  BY DEF Vector
<1> HIDE DEF e, p
<1>6. /\ v1 \in [I -> Int] /\ v1[i] = x
      /\ \A j \in I : v1[j] = derivativevec[j] + (IF Ordinary(p) /\ j = p THEN e ELSE 0)
  BY <1>3, <1>4, <1>5
<1>7. v2 = IF Ordinary(q) THEN [v1 EXCEPT ![q] = @ + f] ELSE v1
  BY <1>6
<1> HIDE DEF v1, f, q, v2
<1>8. /\ v2 \in [I -> Int]
      /\ \A j \in I : v2[j] = v1[j] + (IF Ordinary(q) /\ j = q THEN f ELSE 0)
  BY <1>3, <1>4, <1>6, <1>7
<1> HIDE DEF x, I
<1>9. CASE x # 0
  <2>1. derivativevec' = v2
    BY <1>1, <1>9
  <2>2. ASSUME NEW j \in I
        PROVE  derivativevec'[j] = derivativevec[j]
                 + (IF Ordinary(p) /\ j = p THEN e ELSE 0)
                 + (IF Ordinary(q) /\ j = q THEN f ELSE 0)
    BY <1>6, <1>8, <2>1
  <2>3. QED
    BY <1>8, <2>1, <2>2 DEF I, p, q, e, f, x, Vector
<1>10. CASE x = 0
  <2>1. derivativevec' = derivativevec /\ e = 0 /\ f = 0
    BY <1>1, <1>3, <1>10
  <2>2. ASSUME NEW j \in I
        PROVE  derivativevec'[j] = derivativevec[j]
                 + (IF Ordinary(p) /\ j = p THEN e ELSE 0)
                 + (IF Ordinary(q) /\ j = q THEN f ELSE 0)
    BY <1>5, <2>1
  <2>3. QED
    BY <1>5, <2>1, <2>2 DEF I, p, q, e, f, x, Vector
<1>11. QED
  BY <1>9, <1>10

(* The forward step adds to the dot value of the result. *)
LEMMA ForwardStep ==
  ASSUME NEW i \in 0 .. number_of_blocks - 1, NEW b, RefersBack(i, b),
         derivativevec \in Vector, number_of_blocks \in Nat, evaluateForward(i, b)
  PROVE  /\ derivativevec' \in Vector
         /\ \A j \in 0 .. number_of_blocks - 1 : j # i => derivativevec'[j] = derivativevec[j]
         /\ derivativevec'[i] =
              derivativevec[i]
              + (IF Ordinary(b.index1) THEN derivativevec[b.index1] * b.diff1 ELSE 0)
              + (IF Ordinary(b.index2) THEN derivativevec[b.index2] * b.diff2 ELSE 0)
<1> DEFINE I == 0 .. number_of_blocks - 1
           p == b.index1
           q == b.index2
           x == derivativevec[p]
           y == derivativevec[q]
           e == IF Ordinary(p) THEN x * b.diff1 ELSE 0
           f == IF Ordinary(q) THEN y * b.diff2 ELSE 0
           v1 == IF Ordinary(p) /\ x # 0
                 THEN [derivativevec EXCEPT ![i] = @ + x * b.diff1] ELSE derivativevec
           v2 == IF Ordinary(q) /\ v1[q] # 0
                 THEN [v1 EXCEPT ![i] = @ + v1[q] * b.diff2] ELSE v1
<1>1. derivativevec' = v2
  BY DEF evaluateForward
<1>2. derivativevec \in [I -> Int] /\ derivativevec[i] \in Int
  BY DEF Vector
<1>3. /\ b.diff1 \in Int /\ b.diff2 \in Int
      /\ Ordinary(p) => p \in I /\ p # i /\ x \in Int
      /\ Ordinary(q) => q \in I /\ q # i /\ y \in Int
  BY <1>2, SMTT(40) DEF RefersBack
<1>4. e \in Int /\ (Ordinary(p) /\ x # 0 => e = x * b.diff1)
      /\ (~(Ordinary(p) /\ x # 0) => e = 0)
  BY <1>3
<1>5. f \in Int /\ (Ordinary(q) /\ y # 0 => f = y * b.diff2)
      /\ (~(Ordinary(q) /\ y # 0) => f = 0)
  BY <1>3
<1> HIDE DEF I, e, f, p, q
<1>6. /\ v1 \in [I -> Int] /\ v1[i] = derivativevec[i] + e
      /\ \A j \in I : j # i => v1[j] = derivativevec[j]
  <2>1. CASE Ordinary(p) /\ x # 0
    <3>1. v1 = [derivativevec EXCEPT ![i] = @ + e]
      BY <1>4, <2>1
    <3>2. i \in I /\ derivativevec[i] + e \in Int
      BY <1>2, <1>4 DEF I
    <3> HIDE DEF v1
    <3>3. QED
      BY ONLY <1>2, <3>1, <3>2
  <2>2. CASE ~(Ordinary(p) /\ x # 0)
    <3>1. v1 = derivativevec /\ e = 0
      BY <1>4, <2>2
    <3> HIDE DEF v1
    <3>2. QED
      BY <1>2, <3>1
  <2>3. QED
    BY <2>1, <2>2
<1> HIDE DEF v1
<1>7. Ordinary(q) => v1[q] = y
  BY <1>3, <1>6
<1>8. /\ v2 \in [I -> Int] /\ v2[i] = v1[i] + f
      /\ \A j \in I : j # i => v2[j] = v1[j]
  <2>1. CASE Ordinary(q) /\ y # 0
    <3>1. v2 = [v1 EXCEPT ![i] = @ + f]
      BY <1>5, <1>7, <2>1
    <3>2. i \in I
      BY DEF I
    <3>3. v1[i] + f \in Int
      BY <1>5, <1>6, <3>2
    <3> HIDE DEF v2
    <3>4. QED
      BY ONLY <1>6, <3>1, <3>2, <3>3
  <2>2. CASE ~(Ordinary(q) /\ y # 0)
    <3>1. v2 = v1 /\ f = 0
      BY <1>5, <1>7, <2>2
    <3>2. v1[i] \in Int
      BY <1>6 DEF I
    <3> HIDE DEF v2
    <3>3. QED
      BY <1>6, <3>1, <3>2
  <2>3. QED
    BY <2>1, <2>2
<1> HIDE DEF v2
<1>9. v2[i] = derivativevec[i] + e + f
  BY <1>6, <1>8
<1>10. QED
  BY <1>1, <1>6, <1>8, <1>9 DEF I, e, f, p, q, Vector

-----------------------------------------------------------------------------
(* The invariant of the traversal.                                         *)

Kinds == {"nZero", "nOne", "nTwo"}

\* The types of the results.
ResultTypes ==
  /\ derivativevec \in Vector
  /\ counts \in [Kinds -> Nat] /\ CountsBelow
  /\ called \subseteq 0 .. number_of_blocks - 1
  /\ gradients \in Seq(Int)

PCs == {"seed", "load", "visit", "read", "done", "exit1", "pushing", "crash"}

(* The parts of the invariant. *)
LEMMA InvParts ==
  ASSUME Inputs
  PROVE  EvaluationInv <=> PositionInv /\ ResultTypes /\ pc \in PCs
<1> DEFINE N == number_of_blocks
<1>1. N \in Nat
  BY InputFacts
<1>2. ASSUME Progress, CountsBelow
      PROVE  counts \in [Kinds -> 0 .. N] <=> counts \in [Kinds -> Nat]
  <2>1. Len(visited) \in 0 .. N
    BY <1>2 DEF Progress
  <2>2. ASSUME counts \in [Kinds -> Nat]
        PROVE  counts \in [Kinds -> 0 .. N]
    <3>1. \A kind \in Kinds : counts[kind] \in Nat /\ counts[kind] <= Len(visited)
      BY <1>2, <2>2 DEF CountsBelow, Kinds
    <3>2. \A kind \in Kinds : counts[kind] \in 0 .. N
      BY <1>1, <2>1, <3>1
    <3>3. QED
      BY <2>2, <3>2
  <2>3. ASSUME counts \in [Kinds -> 0 .. N]
        PROVE  counts \in [Kinds -> Nat]
    BY <2>3
  <2>4. QED
    BY <2>2, <2>3
<1>3. TypeOK <=> /\ pc \in PCs
                 /\ derivativevec \in Vector
                 /\ chunk \in 0 .. number_of_chunks_in_subtape
                 /\ DOMAIN tape_buf = 0 .. bufsize - 1
                 /\ block_in_chunk \in -1 .. bufsize
                 /\ counts \in [Kinds -> 0 .. N]
                 /\ called \subseteq 0 .. N - 1
                 /\ gradients \in Seq(Int)
  BY DEF TypeOK, PCs, Vector, Kinds
<1>4. QED
  BY <1>2, <1>3, Zenon DEF EvaluationInv, PositionInv, ResultTypes

(* Seeding keeps the type of the vector. *)
LEMMA SeededType ==
  ASSUME Inputs, derivativevec \in Vector,
         Len(readFromTextFile(seedIndices)) = Len(readFromTextFile(seedGradients))
  PROVE  Seeded(derivativevec, readFromTextFile(seedIndices),
                readFromTextFile(seedGradients)) \in Vector
<1> DEFINE s == readFromTextFile(seedIndices)
           g == readFromTextFile(seedGradients)
           I == 0 .. number_of_blocks - 1
<1>1. s \in Seq(I) /\ g \in Seq(Int) /\ derivativevec \in [I -> Int]
  BY InputFacts DEF Vector
<1>2. Len(s) = Len(g)
  OBVIOUS
<1> HIDE DEF s, g, I
<1>3. PICK a : SeedLoop(a, I, derivativevec, s, g)
  BY <1>1, <1>2, SeededFacts, Zenon
<1>4. Len(s) \in 0 .. Len(s)
  BY <1>1, LenProperties
<1>5. Seeded(derivativevec, s, g) \in [I -> Int]
  BY <1>3, <1>4 DEF SeedLoop
<1>6. QED
  BY <1>5 DEF s, g, I, Vector

(* The visit of a block keeps the types of the results. *)
LEMMA VisitTypes ==
  ASSUME Inputs, ResultTypes, VisitBlock, PositionInv
  PROVE  ResultTypes'
<1> DEFINE i == CurrentIndex
           b == BlockOf(CurrentIndex)
<1>1. /\ Len(visited') = Len(visited) + 1
      /\ Len(visited) \in 0 .. number_of_blocks - 1
      /\ i \in 0 .. number_of_blocks - 1
      /\ fun(i, b)
  BY VisitStep
<1>2. RefersBack(i, b) /\ number_of_blocks \in Nat
  BY <1>1, TapeRefersBack, InputFacts
<1>3. UNCHANGED inputs /\ gradients' = gradients
  BY DEF VisitBlock
<1>4. number_of_blocks' = number_of_blocks /\ Vector' = Vector
  BY <1>3, InputsStay DEF Vector
<1>5. /\ derivativevec \in Vector
      /\ counts \in [Kinds -> Nat]
      /\ \A kind \in Kinds : counts[kind] <= Len(visited)
      /\ called \subseteq 0 .. number_of_blocks - 1
      /\ gradients \in Seq(Int)
  BY DEF ResultTypes, CountsBelow, Kinds
<1> HIDE DEF i, b
<1>6. SUFFICES /\ derivativevec' \in Vector
               /\ counts' \in [Kinds -> Nat]
               /\ \A kind \in Kinds : counts'[kind] <= Len(visited) + 1
               /\ called' \subseteq 0 .. number_of_blocks - 1
  BY <1>1, <1>3, <1>4, <1>5 DEF ResultTypes, CountsBelow, Kinds
<1>7. ASSUME counts' = counts
      PROVE  counts' \in [Kinds -> Nat] /\ \A kind \in Kinds : counts'[kind] <= Len(visited) + 1
  <2>1. \A kind \in Kinds : counts[kind] \in Nat /\ counts[kind] <= Len(visited) + 1
    BY <1>1, <1>5
  <2>2. QED
    BY <1>5, <1>7, <2>1
<1>8. CASE mode = "backward" /\ evaluateBackward(i, b)
  <2>1. derivativevec' \in Vector
    BY <1>1, <1>2, <1>5, <1>8, BackwardStep
  <2>2. counts' = counts /\ called' = called
    BY <1>8 DEF evaluateBackward
  <2>3. QED
    BY <1>5, <1>7, <2>1, <2>2
<1>9. CASE mode = "forward" /\ evaluateForward(i, b)
  <2>1. derivativevec' \in Vector
    BY <1>1, <1>2, <1>5, <1>9, ForwardStep
  <2>2. counts' = counts /\ called' = called
    BY <1>9 DEF evaluateForward
  <2>3. QED
    BY <1>5, <1>7, <2>1, <2>2
<1>10. CASE mode = "stats" /\ stats(i, b)
  <2>1. PICK kind \in Kinds : counts' = [counts EXCEPT ![kind] = @ + 1]
    BY <1>10 DEF stats, Kinds
  <2>2. derivativevec' = derivativevec /\ called' = called
    BY <1>10 DEF stats
  <2>3. \A k \in Kinds : counts[k] \in Nat /\ counts[k] <= Len(visited)
    BY <1>5
  <2>4. counts' \in [Kinds -> Nat]
    BY <1>5, <2>1, <2>3
  <2>5. \A k \in Kinds : counts'[k] <= Len(visited) + 1
    BY <1>1, <1>5, <2>1, <2>3
  <2>6. QED
    BY <1>5, <2>2, <2>4, <2>5
<1>11. CASE mode = "typegrind" /\ evaluate_for_typegrind(i, b)
  <2>1. /\ derivativevec' = derivativevec /\ counts' = counts
        /\ called' = called \/ called' = called \cup {i}
    BY <1>11 DEF evaluate_for_typegrind
  <2>2. QED
    BY <1>1, <1>5, <1>7, <2>1
<1>12. QED
  BY <1>1, <1>8, <1>9, <1>10, <1>11 DEF fun

(* Every step keeps the invariant. *)
LEMMA EvaluationStep ==
  ASSUME EvaluationInv, [Next]_vars
  PROVE  EvaluationInv'
<1>1. Inputs
  BY DEF EvaluationInv
<1>2. PositionInv /\ ResultTypes /\ pc \in PCs
  BY <1>1, InvParts
<1>3. (Inputs => (EvaluationInv <=> PositionInv /\ ResultTypes /\ pc \in PCs))'
  BY InvParts, PTL
<1>4. ASSUME UNCHANGED inputs, UNCHANGED visited, UNCHANGED counts, UNCHANGED called,
             derivativevec' \in Vector, gradients' \in Seq(Int)
      PROVE  ResultTypes'
  <2>1. number_of_blocks' = number_of_blocks
    BY <1>4, InputsStay
  <2>2. QED
    BY <1>2, <1>4, <2>1 DEF ResultTypes, Vector, CountsBelow
<1>5. /\ derivativevec \in Vector /\ gradients \in Seq(Int)
  BY <1>2 DEF ResultTypes
<1>6. UNCHANGED inputs /\ PositionInv' /\ ResultTypes' /\ pc' \in PCs
  <2>1. CASE seedGradientVectorFromTextFile
    <3>1. /\ UNCHANGED inputs /\ UNCHANGED position
          /\ UNCHANGED <<counts, called, gradients>>
          /\ pc = "seed" /\ pc' \in {"load", "exit1", "pushing"}
      BY <2>1 DEF seedGradientVectorFromTextFile
    <3>2. derivativevec' \in Vector
      BY <1>1, <1>5, <2>1, SeededType DEF seedGradientVectorFromTextFile
    <3>3. PositionInv'
      BY <1>1, <1>2, <3>1, OtherStep
    <3>4. ResultTypes'
      BY <1>4, <1>5, <3>1, <3>2 DEF position
    <3>5. QED
      BY <3>1, <3>3, <3>4 DEF PCs
  <2>2. CASE LoadChunk
    <3>1. PositionInv' /\ pc' \in PCs
      BY <1>1, <1>2, <2>2, LoadStep DEF PCs
    <3>2. UNCHANGED inputs /\ UNCHANGED <<results, gradients, visited>>
      BY <2>2 DEF LoadChunk
    <3>3. QED
      BY <1>4, <1>5, <3>1, <3>2 DEF results
  <2>3. CASE VisitBlock
    <3>1. PositionInv' /\ pc' \in PCs
      BY <1>1, <1>2, <2>3, VisitStep DEF PCs
    <3>2. UNCHANGED inputs
      BY <2>3 DEF VisitBlock
    <3>3. ResultTypes'
      BY <1>1, <1>2, <2>3, VisitTypes
    <3>4. QED
      BY <3>1, <3>2, <3>3
  <2>4. CASE EndChunk
    <3>1. PositionInv' /\ pc' \in PCs
      BY <1>1, <1>2, <2>4, EndStep DEF PCs
    <3>2. UNCHANGED inputs /\ UNCHANGED <<results, gradients, visited>>
      BY <2>4 DEF EndChunk
    <3>3. QED
      BY <1>4, <1>5, <3>1, <3>2 DEF results
  <2>5. CASE readGradientVectorToTextFile
    <3>1. /\ UNCHANGED inputs /\ UNCHANGED position /\ UNCHANGED results
          /\ pc = "read" /\ pc' = "done"
      BY <2>5 DEF readGradientVectorToTextFile
    <3> DEFINE ix == readFromTextFile(readIndices)
    <3>2. gradients' = [k \in 1 .. Len(ix) |-> derivativevec[ix[k]]]
      BY <2>5 DEF readGradientVectorToTextFile
    <3>3. ix \in Seq(0 .. number_of_blocks - 1)
      BY <1>1, InputFacts DEF readFromTextFile
    <3> HIDE DEF ix
    <3>4. Len(ix) \in Nat /\ \A k \in 1 .. Len(ix) : ix[k] \in 0 .. number_of_blocks - 1
      BY <3>3, LenProperties, ElementOfSeq
    <3>5. gradients' \in [1 .. Len(ix) -> Int]
      BY <1>5, <3>2, <3>4 DEF Vector
    <3>6. gradients' \in Seq(Int)
      BY <3>4, <3>5
    <3>7. PositionInv'
      BY <1>1, <1>2, <3>1, OtherStep
    <3>8. ResultTypes'
      BY <1>4, <1>5, <3>1, <3>6 DEF position, results
    <3>9. QED
      BY <3>1, <3>7, <3>8 DEF PCs
  <2>6. CASE UNCHANGED vars
    <3>1. /\ UNCHANGED inputs /\ UNCHANGED position
          /\ UNCHANGED <<results, gradients>> /\ pc' = pc
      BY <2>6 DEF vars
    <3>2. PositionInv'
      BY <1>1, <1>2, <3>1, OtherStep
    <3>3. ResultTypes'
      BY <1>4, <1>5, <3>1 DEF position, results
    <3>4. QED
      BY <1>2, <3>1, <3>2, <3>3
  <2>7. CASE WildWrite
    <3>1. /\ UNCHANGED inputs /\ UNCHANGED position
          /\ UNCHANGED <<results, gradients>> /\ pc' = "crash"
      BY <2>7 DEF WildWrite
    <3>2. PositionInv'
      BY <1>1, <1>2, <3>1, OtherStep
    <3>3. ResultTypes'
      BY <1>4, <1>5, <3>1 DEF position, results
    <3>4. QED
      BY <3>1, <3>2, <3>3 DEF PCs
  <2>8. QED
    BY <2>1, <2>2, <2>3, <2>4, <2>5, <2>6, <2>7 DEF Next
<1>7. Inputs'
  BY <1>1, <1>6, InputsStay
<1>8. QED
  BY <1>3, <1>6, <1>7

(* The invariant holds throughout. *)
LEMMA EvaluationInvariant == Spec => []EvaluationInv
<1>1. Init => EvaluationInv
  BY EvaluationInit
<1>2. EvaluationInv /\ [Next]_vars => EvaluationInv'
  BY EvaluationStep
<1>3. QED
  BY <1>1, <1>2, PTL DEF Spec

(***************************************************************************)
(* The variables of the evaluation have their types: the chunk counter and *)
(* the position in the chunk stay in range, and the vector has an integer  *)
(* entry for every block, whatever the length of the tape.                 *)
(***************************************************************************)
THEOREM EvaluationTypes == Spec => []TypeOK
<1>1. EvaluationInv => TypeOK
  BY DEF EvaluationInv
<1>2. QED
  BY <1>1, EvaluationInvariant, PTL

(***************************************************************************)
(* For every tape and every chunk size, iterate calls fun once for every   *)
(* block, with its own index, in ascending or descending order.            *)
(***************************************************************************)
THEOREM TraversalInOrder == Spec => []VisitsInOrder
<1>1. EvaluationInv => VisitsInOrder
  <2> SUFFICES ASSUME EvaluationInv PROVE VisitsInOrder
    OBVIOUS
  <2>1. Progress
    BY DEF EvaluationInv
  <2>2. QED
    BY <2>1 DEF Progress, VisitsInOrder
<1>2. QED
  BY <1>1, EvaluationInvariant, PTL

(***************************************************************************)
(* A chunk that is about to be loaded fits the buffer and lies within the  *)
(* file, whatever the length of the tape.                                  *)
(***************************************************************************)
THEOREM ChunksWithinFile == Spec => []LoadsWithinFile
<1>1. EvaluationInv => LoadsWithinFile
  <2> SUFFICES ASSUME EvaluationInv, chunk < number_of_chunks_in_subtape
               PROVE  /\ chunk_count \in 0 .. bufsize
                      /\ chunk_begin + chunk_count <= number_of_blocks
    BY DEF LoadsWithinFile
  <2>1. Inputs /\ chunk \in Nat
    BY DEF EvaluationInv, TypeOK
  <2>2. /\ chunk_count \in 0 .. bufsize /\ chunk * bufsize \in Nat
        /\ chunk * bufsize + chunk_count <= number_of_blocks
        /\ chunk_begin = IF forward THEN chunk * bufsize
                         ELSE number_of_blocks - chunk * bufsize - chunk_count
    BY <2>1, ChunkFacts
  <2>3. number_of_blocks \in Nat /\ bufsize \in Nat
    BY <2>1, InputFacts
  <2>4. QED
    BY <2>2, <2>3
<1>2. QED
  BY <1>1, EvaluationInvariant, PTL

-----------------------------------------------------------------------------
(* The results: what is computed from the inputs stays the same.           *)

LEMMA ReferenceStays ==
  ASSUME UNCHANGED inputs
  PROVE  /\ \A j : Derivative(j)' = Derivative(j)
         /\ \A r : ChainRule(r)' = ChainRule(r)
         /\ \A r : SeedOf(r)' = SeedOf(r)
         /\ \A m, v : NumberOf(m, v)' = NumberOf(m, v)
<1>1. /\ mode' = mode /\ tape' = tape
      /\ seedIndices' = seedIndices /\ seedGradients' = seedGradients
  BY DEF inputs
<1>2. number_of_blocks' = number_of_blocks
  BY <1>1 DEF number_of_blocks
<1>3. \A j : Derivative(j)' = Derivative(j)
  BY <1>1, <1>2 DEF Derivative
<1>4. \A r : ChainRule(r)' = ChainRule(r)
  BY <1>1, <1>3 DEF ChainRule
<1>5. \A r : SeedOf(r)' = SeedOf(r)
  BY <1>1 DEF SeedOf
<1>6. \A m, v : NumberOf(m, v)' = NumberOf(m, v)
  BY <1>1 DEF NumberOf
<1>7. QED
  BY <1>3, <1>4, <1>5, <1>6

-----------------------------------------------------------------------------
(* The chain rule for one block.                                           *)

\* The index whose derivatives an operand contributes; those of 0 are zero.
Op(ix) == IF Ordinary(ix) THEN ix ELSE 0

Indices == 0 .. number_of_blocks - 1

Variables == 1 .. number_of_blocks - 1

\* The derivative of index j with respect to index i.
D(j, i) == Derivative(j)[i]

(* Derivatives are integers, and only those of later variables are not zero. *)
LEMMA DerivativeFacts ==
  ASSUME Inputs, NEW j \in Indices, NEW i \in Variables
  PROVE  /\ D(j, i) \in Int
         /\ j < i => D(j, i) = 0
         /\ j = i => D(j, i) = 1
<1>1. PICK E : Jacobian(E)
  BY DerivativeRule
<1>2. D(j, i) = E[j][i] /\ j \in Int /\ i \in Int
  BY <1>1 DEF Jacobian, D, Indices, Variables
<1>3. E[j][i] \in Int
  BY <1>1 DEF Jacobian, Indices, Variables
<1>4. E[j][i] = IF j = i THEN 1 ELSE IF j < i THEN 0
                ELSE Through(E, BlockOf(j).index1, BlockOf(j).diff1, i)
                   + Through(E, BlockOf(j).index2, BlockOf(j).diff2, i)
  BY <1>1 DEF Jacobian, Indices, Variables
<1>5. QED
  BY <1>2, <1>3, <1>4

(* The operands of a block are indices of the tape, before its own. *)
LEMMA OpFacts ==
  ASSUME Inputs, NEW j \in Indices
  PROVE  /\ Op(BlockOf(j).index1) \in Indices /\ Op(BlockOf(j).index2) \in Indices
         /\ j # 0 => Op(BlockOf(j).index1) < j /\ Op(BlockOf(j).index2) < j
         /\ BlockOf(j).diff1 \in Int /\ BlockOf(j).diff2 \in Int
<1>1. RefersBack(j, BlockOf(j))
  BY TapeRefersBack DEF Indices
<1> DEFINE b == BlockOf(j)
<1>2. /\ b.diff1 \in Int /\ b.diff2 \in Int
      /\ Ordinary(b.index1) => b.index1 \in 1 .. j - 1
      /\ Ordinary(b.index2) => b.index2 \in 1 .. j - 1
  BY <1>1 DEF RefersBack
<1>3. number_of_blocks \in Nat /\ j \in 0 .. number_of_blocks - 1
  BY InputFacts DEF Indices
<1> HIDE DEF b
<1>4. ASSUME NEW ix, Ordinary(ix) => ix \in 1 .. j - 1
      PROVE  Op(ix) \in Indices /\ (j # 0 => Op(ix) < j)
  <2>1. CASE Ordinary(ix)
    BY <1>3, <1>4, <2>1 DEF Op, Indices
  <2>2. CASE ~Ordinary(ix)
    BY <1>3, <2>2 DEF Op, Indices
  <2>3. QED
    BY <2>1, <2>2
<1>5. QED
  BY <1>2, <1>4 DEF b

(* The derivatives of a block are the sum of those of its operands. *)
LEMMA BlockRule ==
  ASSUME Inputs, NEW j \in Variables, NEW i \in Variables
  PROVE  D(j, i) = (IF j = i THEN 1 ELSE 0)
                   + BlockOf(j).diff1 * D(Op(BlockOf(j).index1), i)
                   + BlockOf(j).diff2 * D(Op(BlockOf(j).index2), i)
<1> DEFINE b == BlockOf(j)
           p == Op(b.index1)
           q == Op(b.index2)
<1>1. PICK E : Jacobian(E)
  BY DerivativeRule
<1>2. j \in Indices /\ 0 \in Indices /\ j \in Nat /\ i \in Nat /\ 0 < i /\ j # 0
  BY InputFacts DEF Indices, Variables
<1>3. p \in Indices /\ q \in Indices /\ p < j /\ q < j /\ b.diff1 \in Int /\ b.diff2 \in Int
  BY <1>2, OpFacts
<1>4. D(0, i) = 0
  BY <1>2, DerivativeFacts
<1>5. \A m \in Indices : D(m, i) = E[m][i]
  BY <1>1 DEF Jacobian, D, Indices
<1>6. E[j][i] = IF j = i THEN 1 ELSE IF j < i THEN 0
                ELSE Through(E, b.index1, b.diff1, i) + Through(E, b.index2, b.diff2, i)
  BY <1>1 DEF Jacobian, Indices, Variables
<1>7. D(p, i) \in Int /\ D(q, i) \in Int /\ (p < i => D(p, i) = 0) /\ (q < i => D(q, i) = 0)
  BY <1>3, DerivativeFacts
<1>8. Through(E, b.index1, b.diff1, i) = b.diff1 * D(p, i)
  <2>1. CASE Ordinary(b.index1)
    BY <1>3, <1>5, <2>1 DEF Through, Op
  <2>2. CASE ~Ordinary(b.index1)
    <3>1. p = 0 /\ b.diff1 * 0 = 0
      BY <1>3, <2>2 DEF Op
    <3>2. QED
      BY <1>4, <2>2, <3>1 DEF Through
  <2>3. QED
    BY <2>1, <2>2
<1>9. Through(E, b.index2, b.diff2, i) = b.diff2 * D(q, i)
  <2>1. CASE Ordinary(b.index2)
    BY <1>3, <1>5, <2>1 DEF Through, Op
  <2>2. CASE ~Ordinary(b.index2)
    <3>1. q = 0 /\ b.diff2 * 0 = 0
      BY <1>3, <2>2 DEF Op
    <3>2. QED
      BY <1>4, <2>2, <3>1 DEF Through
  <2>3. QED
    BY <2>1, <2>2
<1>10. D(j, i) = IF j = i THEN 1 ELSE IF j < i THEN 0
                 ELSE b.diff1 * D(p, i) + b.diff2 * D(q, i)
  BY <1>2, <1>5, <1>6, <1>8, <1>9
<1>11. p \in Nat /\ q \in Nat
  BY <1>3 DEF Indices
<1>12. j <= i => p < i /\ q < i
  BY <1>2, <1>3, <1>11
<1> DEFINE d == b.diff1
           e == b.diff2
           x == D(p, i)
           y == D(q, i)
<1>13. /\ d \in Int /\ e \in Int /\ x \in Int /\ y \in Int
       /\ (j <= i => x = 0 /\ y = 0)
       /\ D(j, i) = IF j = i THEN 1 ELSE IF j < i THEN 0 ELSE d * x + e * y
  BY <1>3, <1>7, <1>10, <1>12
<1> HIDE DEF d, e, x, y
<1>14. D(j, i) = (IF j = i THEN 1 ELSE 0) + d * x + e * y
  <2>1. CASE j <= i
    <3>1. d * x = 0 /\ e * y = 0
      BY <1>13, <2>1
    <3>2. QED
      BY <1>2, <1>13, <2>1, <3>1
  <2>2. CASE ~(j <= i)
    <3>1. d * x \in Int /\ e * y \in Int
      BY <1>13
    <3>2. QED
      BY <1>2, <1>13, <2>2, <3>1
  <2>3. QED
    BY <2>1, <2>2
<1>15. QED
  BY <1>14 DEF d, e, x, y

-----------------------------------------------------------------------------
(* What the user seeded.                                                   *)

SeedIdx == readFromTextFile(seedIndices)

SeedGrad == readFromTextFile(seedGradients)

Zeros == [i \in 0 .. number_of_blocks - 1 |-> 0]

\* The two text files have as many lines.
SeedsMatch == Len(SeedIdx) = Len(SeedGrad)

(* The seeds, one by one. *)
LEMMA SeedFacts ==
  ASSUME Inputs, SeedsMatch
  PROVE  /\ Len(SeedIdx) \in Nat
         /\ \A m \in 1 .. Len(SeedIdx) : SeedIdx[m] \in Indices /\ SeedGrad[m] \in Int
<1>1. SeedIdx \in Seq(Indices) /\ SeedGrad \in Seq(Int)
  BY InputFacts DEF SeedIdx, SeedGrad, Indices
<1>2. Len(SeedIdx) \in Nat /\ \A m \in 1 .. Len(SeedIdx) : SeedIdx[m] \in Indices
  BY <1>1, LenProperties, ElementOfSeq
<1>3. \A m \in 1 .. Len(SeedGrad) : SeedGrad[m] \in Int
  BY <1>1, ElementOfSeq
<1>4. QED
  BY <1>2, <1>3 DEF SeedsMatch

(* The loop that seeds the zero vector. *)
LEMMA SeedLoopFacts ==
  ASSUME Inputs, SeedsMatch
  PROVE  \E a : /\ a \in [0 .. Len(SeedIdx) -> Vector]
                /\ a[0] = Zeros
                /\ \A k \in 1 .. Len(SeedIdx) :
                     a[k] = [a[k - 1] EXCEPT ![SeedIdx[k]] = @ + SeedGrad[k]]
                /\ Seeded(Zeros, SeedIdx, SeedGrad) = a[Len(SeedIdx)]
<1>1. SeedIdx \in Seq(Indices) /\ SeedGrad \in Seq(Int) /\ Len(SeedIdx) = Len(SeedGrad)
  BY InputFacts DEF SeedIdx, SeedGrad, Indices, SeedsMatch
<1>2. Zeros \in [Indices -> Int]
  BY DEF Zeros, Indices
<1>3. PICK a : SeedLoop(a, Indices, Zeros, SeedIdx, SeedGrad)
  BY <1>1, <1>2, SeededFacts, Zenon
<1>4. QED
  BY <1>3 DEF SeedLoop, Vector, Indices

\* The seeds of variable r.
SeedTerms(r) ==
  [m \in 1 .. Len(SeedIdx) |-> IF SeedIdx[m] = r THEN SeedGrad[m] ELSE 0]

(* After seeding, an entry of the vector is the sum of its seeds. *)
LEMMA SeededSum ==
  ASSUME Inputs, SeedsMatch, NEW r \in Indices
  PROVE  Seeded(Zeros, SeedIdx, SeedGrad)[r] = SeedOf(r)
<1> DEFINE M == Len(SeedIdx)
<1>1. PICK a : /\ a \in [0 .. M -> Vector]
               /\ a[0] = Zeros
               /\ \A k \in 1 .. M : a[k] = [a[k - 1] EXCEPT ![SeedIdx[k]] = @ + SeedGrad[k]]
               /\ Seeded(Zeros, SeedIdx, SeedGrad) = a[M]
  BY SeedLoopFacts
<1>2. M \in Nat /\ \A m \in 1 .. M : SeedIdx[m] \in Indices /\ SeedGrad[m] \in Int
  BY SeedFacts
<1> HIDE DEF M
<1>3. /\ SeedTerms(r) \in [1 .. M -> Int]
      /\ \A m \in 1 .. M : SeedTerms(r)[m] = IF SeedIdx[m] = r THEN SeedGrad[m] ELSE 0
  BY <1>2 DEF SeedTerms, M
<1>4. PICK u : Partial(SeedTerms(r), u, M)
  BY <1>2, <1>3, SumFacts
<1>5. SeedOf(r) = SumSeq(SeedTerms(r))
  BY DEF SeedOf, SeedTerms, SeedIdx, SeedGrad
<1> DEFINE S == {k \in 0 .. M : a[k][r] = u[k]}
<1>6. Stepwise(S, M)
  <2>1. a[0][r] = 0 /\ u[0] = 0
    BY <1>1, <1>4 DEF Partial, Zeros, Indices
  <2>2. 0 \in S
    BY <1>2, <2>1
  <2>3. ASSUME NEW k \in 1 .. M, k - 1 \in S
        PROVE  k \in S
    <3>1. a[k - 1] \in [Indices -> Int] /\ a[k - 1][r] \in Int
      <4>1. k - 1 \in 0 .. M
        BY <1>2
      <4>2. a[k - 1] \in Vector
        BY <1>1, <4>1
      <4>3. a[k - 1] \in [Indices -> Int]
        BY <4>2 DEF Vector, Indices
      <4>4. QED
        BY <4>3
    <3>2. a[k] = [a[k - 1] EXCEPT ![SeedIdx[k]] = @ + SeedGrad[k]]
      BY <1>1
    <3>3. a[k][r] = a[k - 1][r] + (IF SeedIdx[k] = r THEN SeedGrad[k] ELSE 0)
      <4> DEFINE w == a[k - 1]
                 x == a[k]
      <4>1. /\ w \in [Indices -> Int] /\ x = [w EXCEPT ![SeedIdx[k]] = @ + SeedGrad[k]]
            /\ w[r] \in Int
        BY <3>1, <3>2
      <4>2. SeedIdx[k] \in Indices /\ SeedGrad[k] \in Int
        BY <1>2
      <4> HIDE DEF w, x
      <4>3. x[r] = w[r] + (IF SeedIdx[k] = r THEN SeedGrad[k] ELSE 0)
        BY ONLY <4>1, <4>2, r \in Indices
      <4>4. QED
        BY <4>3 DEF w, x
    <3>4. u[k] = u[k - 1] + SeedTerms(r)[k]
      BY <1>4 DEF Partial
    <3>5. QED
      BY <1>2, <1>3, <2>3, <3>3, <3>4
  <2>4. QED
    BY <2>2, <2>3 DEF Stepwise
<1>7. \A k \in 0 .. M : k \in S
  <2> HIDE DEF S
  <2>1. M \in Int
    BY <1>2
  <2>2. QED
    BY <1>6, <2>1, StepByStep, Zenon
<1>8. a[M][r] = u[M]
  BY <1>2, <1>7
<1>9. QED
  BY <1>1, <1>4, <1>5, <1>8 DEF Partial

\* The terms of the chain rule, forward and backward.
ForwardTerms(r) ==
  [m \in 1 .. Len(SeedIdx) |->
     IF SeedIdx[m] = 0 THEN 0 ELSE SeedGrad[m] * D(r, SeedIdx[m])]

BackwardTerms(r) ==
  [m \in 1 .. Len(SeedIdx) |->
     IF SeedIdx[m] = 0 THEN 0 ELSE SeedGrad[m] * D(SeedIdx[m], r)]

(* They are integers. *)
LEMMA TermFacts ==
  ASSUME Inputs, SeedsMatch
  PROVE  /\ \A r \in Indices : ForwardTerms(r) \in [1 .. Len(SeedIdx) -> Int]
         /\ \A r \in Variables : BackwardTerms(r) \in [1 .. Len(SeedIdx) -> Int]
<1>1. /\ Len(SeedIdx) \in Nat
      /\ \A m \in 1 .. Len(SeedIdx) : SeedIdx[m] \in Indices /\ SeedGrad[m] \in Int
  BY SeedFacts
<1>2. \A i \in Indices : i # 0 => i \in Variables
  BY InputFacts DEF Indices, Variables
<1>3. ASSUME NEW r \in Indices, NEW m \in 1 .. Len(SeedIdx)
      PROVE  (IF SeedIdx[m] = 0 THEN 0 ELSE SeedGrad[m] * D(r, SeedIdx[m])) \in Int
  <2>1. CASE SeedIdx[m] # 0
    <3>1. D(r, SeedIdx[m]) \in Int /\ SeedGrad[m] \in Int
      BY <1>1, <1>2, <2>1, DerivativeFacts
    <3>2. QED
      BY <2>1, <3>1
  <2>2. QED
    BY <2>1
<1>4. ASSUME NEW r \in Variables, NEW m \in 1 .. Len(SeedIdx)
      PROVE  (IF SeedIdx[m] = 0 THEN 0 ELSE SeedGrad[m] * D(SeedIdx[m], r)) \in Int
  <2>1. D(SeedIdx[m], r) \in Int /\ SeedGrad[m] \in Int
    BY <1>1, DerivativeFacts
  <2>2. QED
    BY <2>1
<1>5. QED
  BY <1>3, <1>4 DEF ForwardTerms, BackwardTerms

(* The reference definition, by mode. *)
LEMMA ChainRuleTerms ==
  /\ mode = "forward" => \A r : ChainRule(r) = SumSeq(ForwardTerms(r))
  /\ mode = "backward" => \A r : ChainRule(r) = SumSeq(BackwardTerms(r))
<1>1. ASSUME mode = "forward"
      PROVE  \A r : ChainRule(r) = SumSeq(ForwardTerms(r))
  BY <1>1 DEF ChainRule, ForwardTerms, SeedIdx, SeedGrad, D
<1>2. ASSUME mode = "backward"
      PROVE  \A r : ChainRule(r) = SumSeq(BackwardTerms(r))
  BY <1>2 DEF ChainRule, BackwardTerms, SeedIdx, SeedGrad, D
<1>3. QED
  BY <1>1, <1>2

-----------------------------------------------------------------------------
(* Forward mode.                                                           *)

(* The dot value of a variable, from its seeds and those of its operands. *)
LEMMA ForwardRule ==
  ASSUME Inputs, SeedsMatch, mode = "forward", NEW j \in Variables
  PROVE  /\ ChainRule(j) = SeedOf(j)
                           + BlockOf(j).diff1 * ChainRule(Op(BlockOf(j).index1))
                           + BlockOf(j).diff2 * ChainRule(Op(BlockOf(j).index2))
         /\ ChainRule(0) = 0
         /\ \A i \in Indices : ChainRule(i) \in Int
         /\ SeedOf(j) \in Int
<1> DEFINE M == Len(SeedIdx)
           d == BlockOf(j).diff1
           e == BlockOf(j).diff2
           p == Op(BlockOf(j).index1)
           q == Op(BlockOf(j).index2)
<1>1. M \in Nat /\ \A m \in 1 .. M : SeedIdx[m] \in Indices /\ SeedGrad[m] \in Int
  BY SeedFacts
<1>2. \A r \in Indices : ForwardTerms(r) \in [1 .. M -> Int]
  BY TermFacts
<1>3. \A r : ChainRule(r) = SumSeq(ForwardTerms(r))
  BY ChainRuleTerms
<1>4. /\ j \in Indices /\ 0 \in Indices /\ j # 0
      /\ \A i \in Indices : i # 0 => i \in Variables /\ 0 < i
  BY InputFacts DEF Indices, Variables
<1>5. p \in Indices /\ q \in Indices /\ d \in Int /\ e \in Int
  BY <1>4, OpFacts
<1>6. \A m \in 1 .. M : \A r : ForwardTerms(r)[m] =
        IF SeedIdx[m] = 0 THEN 0 ELSE SeedGrad[m] * D(r, SeedIdx[m])
  BY DEF ForwardTerms
<1>7. /\ SeedTerms(j) \in [1 .. M -> Int]
      /\ \A m \in 1 .. M : SeedTerms(j)[m] = IF SeedIdx[m] = j THEN SeedGrad[m] ELSE 0
  BY <1>1 DEF SeedTerms
<1>8. ASSUME NEW i \in Variables
      PROVE  D(j, i) = (IF j = i THEN 1 ELSE 0) + d * D(p, i) + e * D(q, i)
  BY BlockRule
<1> HIDE DEF M, d, e, p, q
<1>9. ASSUME NEW m \in 1 .. M
      PROVE  ForwardTerms(j)[m] =
               SeedTerms(j)[m] + d * ForwardTerms(p)[m] + e * ForwardTerms(q)[m]
  <2>1. CASE SeedIdx[m] = 0
    <3>1. /\ ForwardTerms(j)[m] = 0 /\ ForwardTerms(p)[m] = 0 /\ ForwardTerms(q)[m] = 0
          /\ SeedTerms(j)[m] = 0
      BY <1>4, <1>6, <1>7, <2>1
    <3>2. QED
      BY <1>5, <3>1
  <2>2. CASE SeedIdx[m] # 0
    <3> DEFINE g == SeedGrad[m]
               i == SeedIdx[m]
               x == D(p, i)
               y == D(q, i)
               o == IF j = i THEN 1 ELSE 0
    <3>1. i \in Variables /\ g \in Int
      BY <1>1, <1>4, <2>2
    <3>2. x \in Int /\ y \in Int /\ o \in Int
      BY <1>5, <3>1, DerivativeFacts
    <3>3. D(j, i) = o + d * x + e * y
      BY <1>8, <3>1
    <3>4. /\ ForwardTerms(j)[m] = g * D(j, i)
          /\ ForwardTerms(p)[m] = g * x
          /\ ForwardTerms(q)[m] = g * y
          /\ SeedTerms(j)[m] = IF i = j THEN g ELSE 0
      BY <1>6, <1>7, <2>2
    <3>5. SeedTerms(j)[m] = g * o
      BY <3>1, <3>4
    <3> HIDE DEF g, i, x, y, o
    <3>6. g * (o + d * x + e * y) = g * o + d * (g * x) + e * (g * y)
      BY ONLY <3>1, <3>2, <1>5
    <3>7. QED
      BY <3>3, <3>4, <3>5, <3>6
  <2>3. QED
    BY <2>1, <2>2
<1>10. Combines(ForwardTerms(j), M, SeedTerms(j), d, ForwardTerms(p), e, ForwardTerms(q))
  BY <1>2, <1>4, <1>5, <1>7, <1>9 DEF Combines
<1>11. SumSeq(ForwardTerms(j)) =
         SumSeq(SeedTerms(j)) + d * SumSeq(ForwardTerms(p)) + e * SumSeq(ForwardTerms(q))
  <2>1. M \in Nat /\ d \in Int /\ e \in Int
    BY <1>1, <1>5
  <2>2. QED
    BY ONLY <2>1, <1>10, SumLinear
<1>12. SeedOf(j) = SumSeq(SeedTerms(j))
  BY DEF SeedOf, SeedTerms, SeedIdx, SeedGrad
<1>13. ChainRule(0) = 0
  <2>1. ASSUME NEW m \in 1 .. M PROVE ForwardTerms(0)[m] = 0
    <3>1. CASE SeedIdx[m] = 0
      BY <1>6, <3>1
    <3>2. CASE SeedIdx[m] # 0
      <4>1. D(0, SeedIdx[m]) = 0 /\ SeedGrad[m] \in Int
        BY <1>1, <1>4, <3>2, DerivativeFacts
      <4>2. SeedGrad[m] * 0 = 0
        BY <4>1
      <4>3. QED
        BY <1>6, <3>2, <4>1, <4>2
    <3>3. QED
      BY <3>1, <3>2
  <2>2. SumSeq(ForwardTerms(0)) = 0
    BY <1>1, <1>2, <1>4, <2>1, SumZero
  <2>3. QED
    BY <1>3, <2>2
<1>14. \A i \in Indices : ChainRule(i) \in Int
  BY <1>1, <1>2, <1>3, SumType
<1>15. SeedOf(j) \in Int
  BY <1>1, <1>7, <1>12, SumType
<1>16. QED
  BY <1>3, <1>11, <1>12, <1>13, <1>14, <1>15 DEF d, e, p, q

-----------------------------------------------------------------------------
(* Backward mode.                                                          *)

\* What the entries 1 to n of w give for the derivative w.r.t. variable r.
WeightedTerms(w, n, r) == [j \in 1 .. n |-> w[j] * D(j, r)]

Weighted(w, n, r) == SumSeq(WeightedTerms(w, n, r))

(* The terms are integers. *)
LEMMA WeightedFacts ==
  ASSUME Inputs, NEW w \in Vector, NEW r \in Variables,
         NEW n \in 0 .. number_of_blocks - 1
  PROVE  /\ WeightedTerms(w, n, r) \in [1 .. n -> Int]
         /\ n \in Nat
         /\ \A j \in 1 .. n : /\ WeightedTerms(w, n, r)[j] = w[j] * D(j, r)
                              /\ j \in Variables /\ w[j] \in Int /\ D(j, r) \in Int
         /\ Weighted(w, n, r) \in Int
<1>1. number_of_blocks \in Nat /\ n \in Nat
  BY InputFacts
<1>2. \A j \in 1 .. n : j \in Variables /\ j \in Indices /\ w[j] \in Int
  BY <1>1 DEF Variables, Indices, Vector
<1>3. \A j \in 1 .. n : D(j, r) \in Int
  BY <1>2, DerivativeFacts
<1>4. \A j \in 1 .. n : w[j] * D(j, r) \in Int
  BY <1>2, <1>3
<1>5. WeightedTerms(w, n, r) \in [1 .. n -> Int]
  BY <1>4 DEF WeightedTerms
<1>6. Weighted(w, n, r) \in Int
  BY <1>1, <1>5, SumType DEF Weighted
<1>7. QED
  BY <1>1, <1>2, <1>3, <1>5, <1>6 DEF WeightedTerms

(* The last entry taken apart. *)
LEMMA WeightedLast ==
  ASSUME Inputs, NEW w \in Vector, NEW r \in Variables, NEW n \in Variables
  PROVE  Weighted(w, n, r) = Weighted(w, n - 1, r) + w[n] * D(n, r)
<1>1. /\ n \in 0 .. number_of_blocks - 1 /\ n - 1 \in 0 .. number_of_blocks - 1
      /\ n \in 1 .. n /\ (n - 1) + 1 = n /\ n - 1 \in Nat
  BY InputFacts DEF Variables
<1> DEFINE s == WeightedTerms(w, n - 1, r)
           t == WeightedTerms(w, n, r)
           k == n - 1
<1>2. /\ s \in [1 .. k -> Int] /\ \A j \in 1 .. k : s[j] = w[j] * D(j, r)
  BY <1>1, WeightedFacts
<1>3. /\ t \in [1 .. n -> Int] /\ \A j \in 1 .. n : t[j] = w[j] * D(j, r)
  BY <1>1, WeightedFacts
<1>4. k \in Nat /\ k + 1 = n
  BY <1>1
<1> HIDE DEF s, t, k
<1>5. \A j \in 1 .. k : t[j] = s[j]
  BY <1>2, <1>3, <1>4
<1>6. SumSeq(t) = SumSeq(s) + t[k + 1]
  BY <1>2, <1>3, <1>4, <1>5, SumExtend
<1>7. t[n] = w[n] * D(n, r)
  BY <1>1, <1>3
<1>8. QED
  BY <1>4, <1>6, <1>7 DEF Weighted, s, t, k

(* Adding e to the entry of an operand adds e times its derivative. *)
LEMMA WeightedPoint ==
  ASSUME Inputs, NEW v \in Vector, NEW w \in Vector, NEW r \in Variables,
         NEW n \in 0 .. number_of_blocks - 1, NEW e \in Int, NEW ix \in 0 .. n,
         \A j \in 1 .. n : w[j] = v[j] + (IF j = ix THEN e ELSE 0)
  PROVE  Weighted(w, n, r) = Weighted(v, n, r) + e * D(ix, r)
<1> DEFINE s == WeightedTerms(v, n, r)
           t == WeightedTerms(w, n, r)
<1>1. /\ n \in Nat /\ s \in [1 .. n -> Int] /\ t \in [1 .. n -> Int]
      /\ \A j \in 1 .. n : s[j] = v[j] * D(j, r) /\ t[j] = w[j] * D(j, r)
      /\ \A j \in 1 .. n : v[j] \in Int /\ D(j, r) \in Int
      /\ Weighted(v, n, r) \in Int
  BY WeightedFacts
<1>2. Weighted(v, n, r) = SumSeq(s) /\ Weighted(w, n, r) = SumSeq(t)
  BY DEF Weighted
<1> HIDE DEF s, t
<1>3. CASE ix = 0
  <2>1. \A j \in 1 .. n : w[j] = v[j]
    BY <1>1, <1>3, SMTT(40)
  <2>2. \A j \in 1 .. n : s[j] = t[j]
    BY <1>1, <2>1
  <2>3. s = t
    BY <1>1, <2>2
  <2>4. 0 \in Indices /\ 0 < r
    BY InputFacts DEF Indices, Variables
  <2>5. e * D(ix, r) = 0
    BY <1>3, <2>4, DerivativeFacts
  <2>6. QED
    BY <1>1, <1>2, <2>3, <2>5
<1>4. CASE ix # 0
  <2>1. ix \in 1 .. n
    BY <1>1, <1>4
  <2> DEFINE f == e * D(ix, r)
  <2>2. f \in Int
    BY <1>1, <2>1
  <2>3. ASSUME NEW j \in 1 .. n
        PROVE  t[j] = IF j = ix THEN s[j] + f ELSE s[j]
    <3>1. CASE j = ix
      <4>1. t[j] = (v[j] + e) * D(j, r) /\ v[j] \in Int /\ D(j, r) \in Int
        BY <1>1, <3>1
      <4>2. (v[j] + e) * D(j, r) = v[j] * D(j, r) + e * D(j, r)
        BY <4>1
      <4>3. QED
        BY <1>1, <3>1, <4>1, <4>2
    <3>2. CASE j # ix
      <4>1. w[j] = v[j]
        BY <1>1, <3>2, SMTT(40)
      <4>2. QED
        BY <1>1, <3>2, <4>1
    <3>3. QED
      BY <3>1, <3>2
  <2> HIDE DEF f
  <2>4. SumSeq(t) = SumSeq(s) + f
    BY <1>1, <2>1, <2>2, <2>3, SumPoint
  <2>5. QED
    BY <1>2, <2>4 DEF f
<1>5. QED
  BY <1>3, <1>4

(* Right after seeding, the seeded entries give the derivatives. *)
LEMMA BackwardSeeded ==
  ASSUME Inputs, SeedsMatch, mode = "backward", NEW r \in Variables
  PROVE  /\ Weighted(Seeded(Zeros, SeedIdx, SeedGrad), number_of_blocks - 1, r) = ChainRule(r)
         /\ Seeded(Zeros, SeedIdx, SeedGrad) \in Vector
<1> DEFINE M == Len(SeedIdx)
           n == number_of_blocks - 1
<1>1. PICK a : /\ a \in [0 .. M -> Vector]
               /\ a[0] = Zeros
               /\ \A k \in 1 .. M : a[k] = [a[k - 1] EXCEPT ![SeedIdx[k]] = @ + SeedGrad[k]]
               /\ Seeded(Zeros, SeedIdx, SeedGrad) = a[M]
  BY SeedLoopFacts
<1>2. M \in Nat /\ \A m \in 1 .. M : SeedIdx[m] \in Indices /\ SeedGrad[m] \in Int
  BY SeedFacts
<1>3. n \in 0 .. number_of_blocks - 1 /\ n \in Nat /\ Indices = 0 .. n
  BY InputFacts DEF Variables, Indices
<1>4. BackwardTerms(r) \in [1 .. M -> Int]
  BY TermFacts
<1>5. \A m \in 1 .. M : BackwardTerms(r)[m] =
        IF SeedIdx[m] = 0 THEN 0 ELSE SeedGrad[m] * D(SeedIdx[m], r)
  BY DEF BackwardTerms
<1> HIDE DEF M, n
<1>6. PICK u : Partial(BackwardTerms(r), u, M)
  BY <1>2, <1>4, SumFacts
<1>7. ChainRule(r) = SumSeq(BackwardTerms(r))
  BY ChainRuleTerms
<1> DEFINE S == {k \in 0 .. M : Weighted(a[k], n, r) = u[k]}
<1>8. Stepwise(S, M)
  <2>1. 0 \in S
    <3>1. Zeros \in Vector /\ \A j \in 1 .. n : Zeros[j] = 0
      BY DEF Zeros, Vector, n
    <3>2. /\ WeightedTerms(Zeros, n, r) \in [1 .. n -> Int]
          /\ \A j \in 1 .. n : /\ WeightedTerms(Zeros, n, r)[j] = Zeros[j] * D(j, r)
                               /\ D(j, r) \in Int
      BY <1>3, <3>1, WeightedFacts
    <3>3. \A j \in 1 .. n : WeightedTerms(Zeros, n, r)[j] = 0
      BY <3>1, <3>2
    <3>4. SumSeq(WeightedTerms(Zeros, n, r)) = 0
      BY <1>3, <3>2, <3>3, SumZero
    <3>5. u[0] = 0
      BY <1>6 DEF Partial
    <3>6. Weighted(a[0], n, r) = u[0]
      BY <1>1, <3>4, <3>5 DEF Weighted
    <3>7. QED
      BY <1>2, <3>6
  <2>2. ASSUME NEW k \in 1 .. M, k - 1 \in S
        PROVE  k \in S
    <3> DEFINE v == a[k - 1]
               w == a[k]
               x == SeedIdx[k]
               g == SeedGrad[k]
    <3>1. k - 1 \in 0 .. M /\ k \in 0 .. M
      BY <1>2
    <3>2. v \in Vector /\ w \in Vector /\ w = [v EXCEPT ![x] = @ + g]
      BY <1>1, <3>1
    <3>3. x \in 0 .. n /\ g \in Int
      BY <1>2, <1>3
    <3>4. Weighted(v, n, r) = u[k - 1]
      BY <2>2
    <3>5. u[k] = u[k - 1] + BackwardTerms(r)[k]
      BY <1>6 DEF Partial
    <3>6. BackwardTerms(r)[k] = IF x = 0 THEN 0 ELSE g * D(x, r)
      BY <1>5
    <3>7. D(x, r) \in Int /\ (x = 0 => D(x, r) = 0)
      <4>1. x \in Indices /\ 0 < r
        BY <1>3, <3>3 DEF Variables
      <4>2. QED
        BY <4>1, DerivativeFacts
    <3> HIDE DEF v, w, x, g
    <3>8. v \in [0 .. n -> Int]
      BY <1>3, <3>2 DEF Vector, Indices
    <3>9. \A j \in 1 .. n : w[j] = v[j] + (IF j = x THEN g ELSE 0)
      BY <3>2, <3>3, <3>8
    <3>10. Weighted(w, n, r) = Weighted(v, n, r) + g * D(x, r)
      <4>1. v \in Vector /\ w \in Vector /\ n \in 0 .. number_of_blocks - 1
        BY <1>3, <3>2
      <4>2. QED
        BY ONLY <4>1, <3>3, <3>9, WeightedPoint, Inputs, r \in Variables
    <3>11. BackwardTerms(r)[k] = g * D(x, r)
      BY <3>3, <3>6, <3>7
    <3>12. Weighted(w, n, r) = u[k]
      BY <3>4, <3>5, <3>10, <3>11
    <3>13. Weighted(a[k], n, r) = u[k]
      BY <3>12 DEF w
    <3>14. QED
      BY <3>1, <3>13
  <2>3. QED
    BY <2>1, <2>2 DEF Stepwise
<1>9. \A k \in 0 .. M : k \in S
  <2> HIDE DEF S
  <2>1. M \in Int
    BY <1>2
  <2>2. QED
    BY <1>8, <2>1, StepByStep, Zenon
<1>10. M \in 0 .. M
  BY <1>2
<1>11. Weighted(a[M], n, r) = u[M] /\ a[M] \in Vector
  BY <1>1, <1>9, <1>10
<1>12. QED
  BY <1>1, <1>6, <1>7, <1>11 DEF Partial, n

(* The visit of block i moves its bar value to the operands. *)
LEMMA BackwardVisit ==
  ASSUME Inputs, NEW v \in Vector, NEW w \in Vector, NEW i \in Variables,
         \A j \in Indices :
           w[j] = v[j]
             + (IF Ordinary(BlockOf(i).index1) /\ j = BlockOf(i).index1
                THEN v[i] * BlockOf(i).diff1 ELSE 0)
             + (IF Ordinary(BlockOf(i).index2) /\ j = BlockOf(i).index2
                THEN v[i] * BlockOf(i).diff2 ELSE 0)
  PROVE  /\ \A r \in Variables : r < i => Weighted(w, i - 1, r) = Weighted(v, i, r)
         /\ Weighted(v, i, i) = v[i]
         /\ \A j \in Indices : j >= i => w[j] = v[j]
<1> DEFINE b == BlockOf(i)
           x == v[i]
           p == Op(b.index1)
           q == Op(b.index2)
           e == x * b.diff1
           f == x * b.diff2
           n == i - 1
<1>1. /\ i \in Indices /\ i # 0 /\ number_of_blocks \in Nat /\ n \in 0 .. number_of_blocks - 1
      /\ Indices = 0 .. number_of_blocks - 1 /\ i \in Nat
  BY InputFacts DEF Indices, Variables
<1>2. p \in Indices /\ q \in Indices /\ p < i /\ q < i /\ b.diff1 \in Int /\ b.diff2 \in Int
  BY <1>1, OpFacts
<1>3. x \in Int /\ (\A j \in Indices : v[j] \in Int)
  BY <1>1 DEF Vector
<1>4. e \in Int /\ f \in Int
  BY <1>2, <1>3
<1>5. \A j \in Indices :
        w[j] = v[j] + (IF Ordinary(b.index1) /\ j = b.index1 THEN e ELSE 0)
                    + (IF Ordinary(b.index2) /\ j = b.index2 THEN f ELSE 0)
  OBVIOUS
<1>6. RefersBack(i, b)
  BY <1>1, TapeRefersBack
<1>7. ASSUME NEW r \in Variables
      PROVE  D(i, r) = (IF i = r THEN 1 ELSE 0) + b.diff1 * D(p, r) + b.diff2 * D(q, r)
  BY BlockRule
<1>8. p \in 0 .. n /\ q \in 0 .. n
  BY <1>1, <1>2
<1> HIDE DEF b, x, e, f, n
<1>9. \A j \in Indices : j >= i => w[j] = v[j]
  <2> SUFFICES ASSUME NEW j \in Indices, j >= i PROVE w[j] = v[j]
    OBVIOUS
  <2>1. ~(Ordinary(b.index1) /\ j = b.index1) /\ ~(Ordinary(b.index2) /\ j = b.index2)
    BY <1>1, <1>6 DEF RefersBack
  <2>2. QED
    BY <1>3, <1>5, <2>1
<1>10. \A j \in Indices : j # 0 =>
         w[j] = v[j] + (IF j = p THEN e ELSE 0) + (IF j = q THEN f ELSE 0)
  BY <1>5 DEF Op
<1> HIDE DEF p, q
<1>11. ASSUME NEW r \in Variables, r < i
       PROVE  Weighted(w, n, r) = Weighted(v, i, r)
  <2> DEFINE m == [j \in 0 .. number_of_blocks - 1 |-> v[j] + (IF j = p THEN e ELSE 0)]
  <2>1. m \in Vector /\ (\A j \in Indices : m[j] = v[j] + (IF j = p THEN e ELSE 0))
    BY <1>1, <1>3, <1>4 DEF Vector
  <2>2. \A j \in 1 .. n : j \in Indices /\ j # 0
    BY <1>1 DEF n
  <2>3. \A j \in 1 .. n : m[j] = v[j] + (IF j = p THEN e ELSE 0)
    BY <2>1, <2>2
  <2> HIDE DEF m
  <2>4. \A j \in 1 .. n : w[j] = m[j] + (IF j = q THEN f ELSE 0)
    BY <1>10, <2>2, <2>3
  <2>5. Weighted(m, n, r) = Weighted(v, n, r) + e * D(p, r)
    BY <1>1, <1>4, <1>8, <2>1, <2>3, WeightedPoint, ZenonT(60)
  <2>6. Weighted(w, n, r) = Weighted(m, n, r) + f * D(q, r)
    BY <1>1, <1>4, <1>8, <2>1, <2>4, WeightedPoint, ZenonT(60)
  <2>7. Weighted(v, i, r) = Weighted(v, n, r) + x * D(i, r)
    BY WeightedLast DEF n, x
  <2>8. /\ D(p, r) \in Int /\ D(q, r) \in Int /\ D(i, r) \in Int
    BY <1>1, <1>2, DerivativeFacts
  <2>9. Weighted(v, n, r) \in Int
    BY <1>1, WeightedFacts
  <2>10. D(i, r) = b.diff1 * D(p, r) + b.diff2 * D(q, r)
    <3>1. i # r
      BY <1>1, <1>11 DEF Variables
    <3>2. b.diff1 * D(p, r) \in Int /\ b.diff2 * D(q, r) \in Int
      BY <1>2, <2>8
    <3>3. QED
      BY <1>7, <3>1, <3>2
  <2> DEFINE y == D(p, r)
             z == D(q, r)
             d1 == b.diff1
             d2 == b.diff2
  <2>11. x * (d1 * y + d2 * z) = (x * d1) * y + (x * d2) * z
    <3>1. x \in Int /\ d1 \in Int /\ d2 \in Int /\ y \in Int /\ z \in Int
      BY <1>2, <1>3, <2>8
    <3> HIDE DEF y, z, d1, d2
    <3>2. QED
      BY ONLY <3>1
  <2>12. x * D(i, r) = e * D(p, r) + f * D(q, r)
    BY <2>10, <2>11 DEF e, f
  <2>13. e * D(p, r) \in Int /\ f * D(q, r) \in Int
    BY <1>4, <2>8
  <2>14. QED
    BY ONLY <2>5, <2>6, <2>7, <2>9, <2>12, <2>13
<1>12. Weighted(v, i, i) = x
  <2>1. Weighted(v, i, i) = Weighted(v, n, i) + x * D(i, i)
    BY WeightedLast DEF n, x
  <2>2. D(i, i) = 1
    BY <1>1, DerivativeFacts
  <2>3. /\ WeightedTerms(v, n, i) \in [1 .. n -> Int] /\ n \in Nat
        /\ \A j \in 1 .. n : WeightedTerms(v, n, i)[j] = v[j] * D(j, i)
    BY <1>1, WeightedFacts
  <2>4. ASSUME NEW j \in 1 .. n PROVE WeightedTerms(v, n, i)[j] = 0
    <3>1. j \in Indices /\ j < i
      BY <1>1 DEF n
    <3>2. D(j, i) = 0 /\ v[j] \in Int
      BY <1>3, <3>1, DerivativeFacts
    <3>3. v[j] * 0 = 0
      BY <3>2
    <3>4. QED
      BY <2>3, <3>2, <3>3
  <2>5. Weighted(v, n, i) = 0
    BY <2>3, <2>4, SumZero DEF Weighted
  <2>6. x * 1 = x /\ 0 + x = x
    BY <1>3
  <2>7. QED
    BY <2>1, <2>2, <2>5, <2>6
<1>13. QED
  BY <1>9, <1>11, <1>12 DEF n, x

-----------------------------------------------------------------------------
(* The derivatives, step by step.                                          *)

\* A step that neither seeds nor visits a block.
Quiet ==
  /\ UNCHANGED results /\ UNCHANGED visited
  /\ pc' = "seed" <=> pc = "seed"
  /\ pc' = "exit1" <=> pc = "exit1"
  /\ pc' = "pushing" <=> pc = "pushing"

(* The kinds of steps. *)
LEMMA StepKinds ==
  ASSUME EvaluationInv, [Next]_vars
  PROVE  /\ UNCHANGED inputs
         /\ Quiet \/ seedGradientVectorFromTextFile \/ VisitBlock
<1>1. CASE seedGradientVectorFromTextFile
  BY <1>1 DEF seedGradientVectorFromTextFile
<1>2. CASE LoadChunk
  <2>1. UNCHANGED inputs /\ UNCHANGED results /\ UNCHANGED visited /\ pc = "load"
    BY <1>2 DEF LoadChunk
  <2>2. pc' \in {"visit", "read", "done"}
    BY <1>2 DEF LoadChunk, AfterIteration
  <2>3. QED
    BY <2>1, <2>2 DEF Quiet
<1>3. CASE VisitBlock
  BY <1>3 DEF VisitBlock
<1>4. CASE EndChunk
  BY <1>4 DEF EndChunk, Quiet
<1>5. CASE readGradientVectorToTextFile
  BY <1>5 DEF readGradientVectorToTextFile, position, Quiet
<1>6. CASE UNCHANGED vars
  BY <1>6 DEF vars, position, Quiet
<1>7. CASE WildWrite
  BY <1>7 DEF WildWrite, position, Quiet
<1>8. QED
  BY <1>1, <1>2, <1>3, <1>4, <1>5, <1>6, <1>7 DEF Next

\* What is known before and after a step.
Known == EvaluationInv /\ ResultInv /\ [Next]_vars

(* The seeds match once the vector has been seeded; before, it is zero. *)
LEMMA SeedingKept ==
  ASSUME Known
  PROVE  SeedsGiven' /\ ZeroAtFirst'
<1>1. EvaluationInv /\ [Next]_vars /\ SeedsGiven /\ ZeroAtFirst
  BY DEF Known, ResultInv
<1>2. UNCHANGED inputs /\ (Quiet \/ seedGradientVectorFromTextFile \/ VisitBlock)
  BY <1>1, StepKinds
<1>3. /\ mode' = mode /\ number_of_blocks' = number_of_blocks
      /\ seedIndices' = seedIndices /\ seedGradients' = seedGradients
  BY <1>2, InputsStay
<1>4. CASE Quiet
  BY <1>1, <1>3, <1>4 DEF Quiet, SeedsGiven, ZeroAtFirst, results
<1>5. CASE seedGradientVectorFromTextFile
  BY <1>3, <1>5 DEF seedGradientVectorFromTextFile, SeedsGiven, ZeroAtFirst
<1>6. CASE VisitBlock
  BY <1>1, <1>3, <1>6 DEF VisitBlock, SeedsGiven, ZeroAtFirst
<1>7. QED
  BY <1>2, <1>4, <1>5, <1>6

(* What the seeding loop leaves in the vector. *)
LEMMA SeedingStep ==
  ASSUME Known, seedGradientVectorFromTextFile, pc' \notin {"exit1", "pushing"}
  PROVE  /\ SeedsMatch /\ Len(visited) = 0 /\ visited' = visited
         /\ derivativevec' = Seeded(Zeros, SeedIdx, SeedGrad)
<1>1. pc = "seed" /\ ZeroAtFirst /\ Progress
  BY DEF Known, ResultInv, EvaluationInv, seedGradientVectorFromTextFile
<1>2. derivativevec = Zeros
  BY <1>1 DEF ZeroAtFirst, Zeros
<1>3. SeedsMatch /\ derivativevec' = Seeded(derivativevec, SeedIdx, SeedGrad)
  BY DEF seedGradientVectorFromTextFile, SeedsMatch, SeedIdx, SeedGrad
<1>4. visited' = visited
  BY DEF seedGradientVectorFromTextFile, position
<1>5. Len(visited) = 0
  BY <1>1 DEF Progress
<1>6. QED
  BY <1>2, <1>3, <1>4, <1>5

(* In forward mode, the visited variables have their derivatives. *)
LEMMA ForwardKept ==
  ASSUME Known
  PROVE  ForwardSoFar'
<1>1. EvaluationInv /\ [Next]_vars /\ ForwardSoFar /\ SeedsGiven /\ Inputs
  BY DEF Known, ResultInv, EvaluationInv
<1>2. UNCHANGED inputs /\ (Quiet \/ seedGradientVectorFromTextFile \/ VisitBlock)
  BY <1>1, StepKinds
<1>3. mode' = mode /\ number_of_blocks' = number_of_blocks
  BY <1>2, InputsStay
<1>4. (\A r : ChainRule(r)' = ChainRule(r)) /\ (\A r : SeedOf(r)' = SeedOf(r))
  BY <1>2, ReferenceStays
<1>5. SUFFICES ASSUME mode = "forward", pc' \notin {"seed", "exit1", "pushing"}, NEW j \in Variables
               PROVE  derivativevec'[j] =
                        IF j < Len(visited') THEN ChainRule(j) ELSE SeedOf(j)
  BY <1>3, <1>4 DEF ForwardSoFar, Variables
<1>6. CASE Quiet
  BY <1>1, <1>5, <1>6 DEF Quiet, ForwardSoFar, Variables, results
<1>7. CASE seedGradientVectorFromTextFile
  <2>1. /\ SeedsMatch /\ Len(visited') = 0
        /\ derivativevec' = Seeded(Zeros, SeedIdx, SeedGrad)
    BY <1>5, <1>7, SeedingStep
  <2>2. j \in Indices /\ ~(j < 0)
    BY <1>1, InputFacts DEF Indices, Variables
  <2>3. QED
    BY <1>1, <2>1, <2>2, SeededSum
<1>8. CASE VisitBlock
  <2>1. pc = "visit"
    BY <1>8 DEF VisitBlock
  <2>2. SeedsMatch
    BY <1>1, <1>5, <2>1 DEF SeedsGiven, SeedsMatch, SeedIdx, SeedGrad
  <2>3. \A r \in Variables :
          derivativevec[r] = IF r < Len(visited) THEN ChainRule(r) ELSE SeedOf(r)
    BY <1>1, <1>5, <2>1 DEF ForwardSoFar, Variables
  <2>4. PositionInv /\ ResultTypes
    BY <1>1, InvParts
  <2> DEFINE i == CurrentIndex
             b == BlockOf(CurrentIndex)
             v == Len(visited)
  <2>5. /\ Len(visited') = v + 1 /\ v \in 0 .. number_of_blocks - 1
        /\ i = KthIndex(v + 1) /\ i \in 0 .. number_of_blocks - 1
        /\ fun(i, b)
    BY <1>1, <1>8, <2>4, VisitStep
  <2>6. evaluateForward(i, b)
    BY <1>5, <2>5 DEF fun
  <2>7. RefersBack(i, b) /\ number_of_blocks \in Nat /\ derivativevec \in Vector
    BY <1>1, <2>4, <2>5, TapeRefersBack, InputFacts DEF ResultTypes
  <2>8. i = v
    <3>1. v + 1 \in 1 .. number_of_blocks
      BY <2>5, <2>7
    <3>2. forward
      BY <1>1, <1>5, SubtapeFacts DEF FromEnd
    <3>3. QED
      BY <1>1, <2>5, <3>1, <3>2, KthFacts
  <2>9. /\ \A r \in 0 .. number_of_blocks - 1 : r # i => derivativevec'[r] = derivativevec[r]
        /\ derivativevec'[i] =
              derivativevec[i]
              + (IF Ordinary(b.index1) THEN derivativevec[b.index1] * b.diff1 ELSE 0)
              + (IF Ordinary(b.index2) THEN derivativevec[b.index2] * b.diff2 ELSE 0)
    BY <2>5, <2>6, <2>7, ForwardStep
  <2>10. j \in 0 .. number_of_blocks - 1 /\ j \in Nat /\ v \in Nat /\ j # 0
    BY <2>5, <2>7 DEF Variables
  <2>11. CASE j # i
    <3>1. derivativevec'[j] = derivativevec[j]
      BY <2>9, <2>10, <2>11
    <3>2. j < v + 1 <=> j < v
      BY <2>8, <2>10, <2>11
    <3>3. QED
      BY <2>3, <2>5, <3>1, <3>2
  <2>12. CASE j = i
    <3> DEFINE p == Op(b.index1)
               q == Op(b.index2)
    <3>1. /\ ChainRule(j) = SeedOf(j) + b.diff1 * ChainRule(p) + b.diff2 * ChainRule(q)
          /\ ChainRule(0) = 0
          /\ \A r \in Indices : ChainRule(r) \in Int
          /\ SeedOf(j) \in Int
      BY <1>1, <1>5, <2>2, <2>12, ForwardRule
    <3>2. derivativevec[i] = SeedOf(j)
      BY <2>3, <2>8, <2>10, <2>12
    <3>3. ASSUME NEW ix, NEW d \in Int, Ordinary(ix) => ix \in 1 .. i - 1
          PROVE  (IF Ordinary(ix) THEN derivativevec[ix] * d ELSE 0) = d * ChainRule(Op(ix))
      <4>1. CASE Ordinary(ix)
        <5>1. ix \in Variables /\ ix < v /\ ix \in Indices
          BY <2>5, <2>7, <2>8, <3>3, <4>1 DEF Variables, Indices
        <5>2. derivativevec[ix] = ChainRule(ix) /\ ChainRule(ix) \in Int
          BY <2>3, <3>1, <5>1
        <5>3. QED
          BY <4>1, <5>2 DEF Op
      <4>2. CASE ~Ordinary(ix)
        <5>1. Op(ix) = 0 /\ d * 0 = 0
          BY <4>2 DEF Op
        <5>2. QED
          BY <3>1, <4>2, <5>1
      <4>3. QED
        BY <4>1, <4>2
    <3>4. /\ b.diff1 \in Int /\ b.diff2 \in Int
          /\ Ordinary(b.index1) => b.index1 \in 1 .. i - 1
          /\ Ordinary(b.index2) => b.index2 \in 1 .. i - 1
      BY <2>7 DEF RefersBack
    <3>5. /\ (IF Ordinary(b.index1) THEN derivativevec[b.index1] * b.diff1 ELSE 0)
               = b.diff1 * ChainRule(p)
          /\ (IF Ordinary(b.index2) THEN derivativevec[b.index2] * b.diff2 ELSE 0)
               = b.diff2 * ChainRule(q)
      BY <3>3, <3>4
    <3>6. derivativevec'[j] = ChainRule(j)
      BY <2>9, <2>12, <3>1, <3>2, <3>5
    <3>7. j < v + 1
      BY <2>8, <2>10, <2>12
    <3>8. QED
      BY <2>5, <3>6, <3>7
  <2>13. QED
    BY <2>11, <2>12
<1>9. QED
  BY <1>2, <1>6, <1>7, <1>8

(* The pending sum of the invariant is a weighted sum. *)
LEMMA PendingWeighted ==
  \A r, c : Pending(r, c) = Weighted(derivativevec, c - 1, r)
  BY DEF Pending, Weighted, WeightedTerms, D

(* In backward mode, the derivatives are complete or pending. *)
LEMMA BackwardKept ==
  ASSUME Known
  PROVE  BackwardSoFar'
<1>1. EvaluationInv /\ [Next]_vars /\ BackwardSoFar /\ SeedsGiven /\ Inputs
  BY DEF Known, ResultInv, EvaluationInv
<1>2. UNCHANGED inputs /\ (Quiet \/ seedGradientVectorFromTextFile \/ VisitBlock)
  BY <1>1, StepKinds
<1>3. mode' = mode /\ number_of_blocks' = number_of_blocks
  BY <1>2, InputsStay
<1>4. (\A r : ChainRule(r)' = ChainRule(r)) /\ (\A j : Derivative(j)' = Derivative(j))
  BY <1>2, ReferenceStays
<1> DEFINE N == number_of_blocks
<1>5. \A r, c : Pending(r, c)' = Weighted(derivativevec', c - 1, r)
  BY <1>4 DEF Pending, Weighted, WeightedTerms, D
<1>6. SUFFICES ASSUME mode = "backward", pc' \notin {"seed", "exit1", "pushing"}, NEW r \in Variables
               PROVE  ChainRule(r) =
                        IF r < N - Len(visited')
                        THEN Weighted(derivativevec', (N - Len(visited')) - 1, r)
                        ELSE derivativevec'[r]
  BY <1>3, <1>4, <1>5 DEF BackwardSoFar, Variables
<1>7. ASSUME pc \notin {"seed", "exit1", "pushing"}, NEW k \in Variables
      PROVE  ChainRule(k) =
               IF k < N - Len(visited)
               THEN Weighted(derivativevec, (N - Len(visited)) - 1, k)
               ELSE derivativevec[k]
  BY <1>1, <1>6, <1>7, PendingWeighted DEF BackwardSoFar, Variables
<1>8. N \in Nat
  BY <1>1, InputFacts
<1>9. CASE Quiet
  <2>1. pc \notin {"seed", "exit1", "pushing"} /\ visited' = visited /\ derivativevec' = derivativevec
    BY <1>6, <1>9 DEF Quiet, results
  <2>2. QED
    BY <1>7, <2>1
<1>10. CASE seedGradientVectorFromTextFile
  <2>1. /\ SeedsMatch /\ Len(visited') = 0
        /\ derivativevec' = Seeded(Zeros, SeedIdx, SeedGrad)
    BY <1>6, <1>10, SeedingStep
  <2>2. N - 0 = N /\ r < N
    BY <1>8 DEF Variables
  <2>3. Weighted(derivativevec', N - 1, r) = ChainRule(r)
    BY <1>1, <1>6, <2>1, BackwardSeeded
  <2>4. QED
    BY <2>1, <2>2, <2>3
<1>11. CASE VisitBlock
  <2>1. pc = "visit"
    BY <1>11 DEF VisitBlock
  <2>2. PositionInv /\ ResultTypes
    BY <1>1, InvParts
  <2> DEFINE i == CurrentIndex
             b == BlockOf(CurrentIndex)
             v == Len(visited)
  <2>3. /\ Len(visited') = v + 1 /\ v \in 0 .. N - 1
        /\ i = KthIndex(v + 1) /\ i \in 0 .. N - 1
        /\ fun(i, b)
    BY <1>1, <1>11, <2>2, VisitStep
  <2>4. evaluateBackward(i, b)
    BY <1>6, <2>3 DEF fun
  <2>5. RefersBack(i, b) /\ derivativevec \in Vector
    BY <1>1, <2>2, <2>3, TapeRefersBack DEF ResultTypes
  <2>6. i = N - (v + 1)
    <3>1. v + 1 \in 1 .. N /\ N # 1
      BY <1>8, <2>3 DEF Variables
    <3>2. ~forward
      BY <1>1, <1>6, <3>1, SubtapeFacts DEF FromEnd
    <3>3. QED
      BY <1>1, <2>3, <3>1, <3>2, KthFacts
  <2>7. /\ derivativevec' \in Vector
        /\ \A j \in 0 .. N - 1 :
              derivativevec'[j] =
                derivativevec[j]
                + (IF Ordinary(b.index1) /\ j = b.index1 THEN derivativevec[i] * b.diff1 ELSE 0)
                + (IF Ordinary(b.index2) /\ j = b.index2 THEN derivativevec[i] * b.diff2 ELSE 0)
    BY <1>8, <2>3, <2>4, <2>5, BackwardStep
  <2>8. ChainRule(r) = IF r < N - v THEN Weighted(derivativevec, (N - v) - 1, r)
                       ELSE derivativevec[r]
    BY <1>7, <2>1
  <2>9. N - (v + 1) = i /\ (N - v) - 1 = i /\ (r < N - v <=> r <= i)
    BY <1>8, <2>3, <2>6 DEF Variables
  <2>10. /\ N - Len(visited') = i
         /\ ChainRule(r) = IF r <= i THEN Weighted(derivativevec, i, r) ELSE derivativevec[r]
    BY <2>3, <2>8, <2>9
  <2>11. r \in Indices /\ r \in Nat /\ i \in Nat /\ r # 0
    BY <1>8, <2>3 DEF Indices, Variables
  <2>12. CASE i = 0
    <3>1. derivativevec'[r] = derivativevec[r]
      <4>1. ~Ordinary(b.index1) /\ ~Ordinary(b.index2)
        BY <2>5, <2>12 DEF RefersBack
      <4>2. derivativevec[r] \in Int
        BY <2>5, <2>11 DEF Vector, Indices
      <4>3. QED
        BY <2>7, <2>11, <4>1, <4>2 DEF Indices
    <3>2. QED
      BY <2>10, <2>11, <2>12, <3>1
  <2>13. CASE i # 0
    <3>1. i \in Variables
      BY <1>8, <2>3, <2>13 DEF Variables
    <3> DEFINE w == derivativevec'
    <3>2. \A j \in Indices :
            w[j] = derivativevec[j]
              + (IF Ordinary(BlockOf(i).index1) /\ j = BlockOf(i).index1
                 THEN derivativevec[i] * BlockOf(i).diff1 ELSE 0)
              + (IF Ordinary(BlockOf(i).index2) /\ j = BlockOf(i).index2
                 THEN derivativevec[i] * BlockOf(i).diff2 ELSE 0)
      BY <2>7 DEF Indices
    <3>3. w \in Vector
      BY <2>7
    <3> HIDE DEF w, i
    <3>4. /\ \A k \in Variables : k < i => Weighted(w, i - 1, k) = Weighted(derivativevec, i, k)
          /\ Weighted(derivativevec, i, i) = derivativevec[i]
          /\ \A j \in Indices : j >= i => w[j] = derivativevec[j]
      BY <1>1, <2>5, <3>1, <3>2, <3>3, BackwardVisit
    <3>5. ChainRule(r) = IF r < i THEN Weighted(w, i - 1, r) ELSE w[r]
      <4>1. CASE r < i
        BY <2>10, <2>11, <3>4, <4>1
      <4>2. CASE r = i
        BY <2>10, <2>11, <3>4, <4>2
      <4>3. CASE r > i
        BY <2>10, <2>11, <3>4, <4>3
      <4>4. QED
        BY <2>11, <4>1, <4>2, <4>3
    <3>6. QED
      BY <2>10, <3>5 DEF w
  <2>14. QED
    BY <2>12, <2>13
<1>12. QED
  BY <1>2, <1>9, <1>10, <1>11

(* The output file is written from the vector. *)
LEMMA ReadOutKept ==
  ASSUME Known
  PROVE  ReadOut'
<1>1. EvaluationInv /\ [Next]_vars /\ ReadOut /\ Inputs
  BY DEF Known, ResultInv, EvaluationInv
<1>2. UNCHANGED inputs
  BY <1>1, StepKinds
<1>3. mode' = mode /\ readIndices' = readIndices
  BY <1>2, InputsStay
<1>4. SUFFICES ASSUME mode \in {"backward", "forward"}, pc' = "done"
               PROVE  gradients' = [k \in 1 .. Len(readIndices.data) |->
                                      derivativevec'[readIndices.data[k]]]
  BY <1>3 DEF ReadOut
<1>5. CASE UNCHANGED vars
  BY <1>1, <1>4, <1>5 DEF vars, results, ReadOut
<1>6. CASE Next
  <2>1. readGradientVectorToTextFile
    BY <1>4, <1>6 DEF Next, seedGradientVectorFromTextFile, LoadChunk, AfterIteration,
                      VisitBlock, WildWrite, EndChunk
  <2>2. readFromTextFile(readIndices) = readIndices.data
    BY <1>1, InputFacts DEF readFromTextFile
  <2>3. QED
    BY <2>1, <2>2 DEF readGradientVectorToTextFile, results
<1>7. QED
  BY <1>1, <1>5, <1>6

-----------------------------------------------------------------------------
(* The statistics.                                                         *)

\* The blocks among the first v with m operands.
WithOperands(m, v) == {i \in 1 .. v : Operands(tape[i]) = m}

(* One block more is one more in the class of its number of operands. *)
LEMMA OneMore ==
  ASSUME NEW v \in Nat, NEW m
  PROVE  /\ NumberOf(m, v) \in Nat
         /\ NumberOf(m, 0) = 0
         /\ NumberOf(m, v + 1) = NumberOf(m, v) + (IF Operands(tape[v + 1]) = m THEN 1 ELSE 0)
<1> DEFINE S == WithOperands(m, v)
<1>1. IsFiniteSet(S) /\ Cardinality(S) \in Nat /\ v + 1 \notin S
  <2>1. IsFiniteSet(1 .. v)
    BY FS_Interval
  <2>2. S \in SUBSET (1 .. v)
    BY DEF WithOperands
  <2> HIDE DEF S
  <2>3. IsFiniteSet(S)
    BY <2>1, <2>2, FS_Subset
  <2>4. QED
    BY <2>2, <2>3, FS_CardinalityType
<1>2. NumberOf(m, v) = Cardinality(S)
  BY DEF NumberOf, WithOperands
<1>3. NumberOf(m, 0) = 0
  <2>1. WithOperands(m, 0) = {}
    BY DEF WithOperands
  <2>2. QED
    BY <2>1, FS_EmptySet DEF NumberOf, WithOperands
<1>4. NumberOf(m, v + 1) = Cardinality(WithOperands(m, v + 1))
  BY DEF NumberOf, WithOperands
<1>5. CASE Operands(tape[v + 1]) = m
  <2>1. WithOperands(m, v + 1) = S \cup {v + 1}
    BY <1>5 DEF WithOperands
  <2> HIDE DEF S
  <2>2. Cardinality(S \cup {v + 1}) = Cardinality(S) + 1
    BY <1>1, FS_AddElement
  <2>3. QED
    BY <1>1, <1>2, <1>3, <1>4, <1>5, <2>1, <2>2
<1>6. CASE Operands(tape[v + 1]) # m
  <2>1. WithOperands(m, v + 1) = S
    BY <1>6 DEF WithOperands
  <2> HIDE DEF S
  <2>2. QED
    BY <1>1, <1>2, <1>3, <1>4, <1>6, <2>1
<1>7. QED
  BY <1>5, <1>6

(* The number of operands, from the two indices. *)
LEMMA OperandsFacts ==
  ASSUME NEW b
  PROVE  Operands(b) = IF b.index1 = 0 /\ b.index2 = 0 THEN 0
                       ELSE IF b.index1 # 0 /\ b.index2 # 0 THEN 2 ELSE 1
<1> DEFINE S == {x \in {1, 2} : (IF x = 1 THEN b.index1 ELSE b.index2) # 0}
<1>1. Operands(b) = Cardinality(S)
  BY DEF Operands
<1>2. CASE b.index1 = 0 /\ b.index2 = 0
  <2>1. S = {}
    BY <1>2
  <2>2. QED
    BY <1>1, <1>2, <2>1, FS_EmptySet
<1>3. CASE b.index1 # 0 /\ b.index2 # 0
  <2>1. S = {1} \cup {2}
    BY <1>3
  <2>2. IsFiniteSet({1}) /\ Cardinality({1}) = 1
    BY FS_Singleton
  <2>3. Cardinality({1} \cup {2}) = 1 + 1
    BY <2>2, FS_AddElement
  <2>4. QED
    BY <1>1, <1>3, <2>1, <2>3
<1>4. CASE b.index1 # 0 /\ b.index2 = 0
  <2>1. S = {1}
    BY <1>4
  <2>2. QED
    BY <1>1, <1>4, <2>1, FS_Singleton
<1>5. CASE b.index1 = 0 /\ b.index2 # 0
  <2>1. S = {2}
    BY <1>5
  <2>2. QED
    BY <1>1, <1>5, <2>1, FS_Singleton
<1>6. QED
  BY <1>2, <1>3, <1>4, <1>5

(* Every visited block has been counted in its class. *)
LEMMA StatsKept ==
  ASSUME Known
  PROVE  StatsSoFar'
<1>1. EvaluationInv /\ [Next]_vars /\ StatsSoFar /\ Inputs
  BY DEF Known, ResultInv, EvaluationInv
<1>2. UNCHANGED inputs /\ (Quiet \/ seedGradientVectorFromTextFile \/ VisitBlock)
  BY <1>1, StepKinds
<1>3. mode' = mode
  BY <1>2, InputsStay
<1>4. \A m, v : NumberOf(m, v)' = NumberOf(m, v)
  BY <1>2, ReferenceStays
<1>5. SUFFICES ASSUME mode = "stats"
               PROVE  counts' = [nZero |-> NumberOf(0, Len(visited')),
                                 nOne  |-> NumberOf(1, Len(visited')),
                                 nTwo  |-> NumberOf(2, Len(visited'))]
  BY <1>3, <1>4 DEF StatsSoFar
<1>6. counts = [nZero |-> NumberOf(0, Len(visited)),
                nOne  |-> NumberOf(1, Len(visited)),
                nTwo  |-> NumberOf(2, Len(visited))]
  BY <1>1, <1>5 DEF StatsSoFar
<1>7. CASE Quiet
  BY <1>6, <1>7 DEF Quiet, results
<1>8. CASE seedGradientVectorFromTextFile
  BY <1>6, <1>8 DEF seedGradientVectorFromTextFile, position
<1>9. CASE VisitBlock
  <2> DEFINE i == CurrentIndex
             b == BlockOf(CurrentIndex)
             v == Len(visited)
  <2>1. PositionInv
    BY <1>1, InvParts
  <2>2. /\ Len(visited') = v + 1 /\ v \in 0 .. number_of_blocks - 1
        /\ i = KthIndex(v + 1) /\ fun(i, b)
    BY <1>1, <1>9, <2>1, VisitStep
  <2>3. stats(i, b)
    BY <1>5, <2>2 DEF fun
  <2>4. number_of_blocks \in Nat /\ v \in Nat
    BY <1>1, <2>2, InputFacts
  <2>5. i = v
    <3>1. v + 1 \in 1 .. number_of_blocks
      BY <2>2, <2>4
    <3>2. forward
      BY <1>1, <1>5, SubtapeFacts DEF FromEnd
    <3>3. QED
      BY <1>1, <2>2, <2>4, <3>1, <3>2, KthFacts
  <2>6. b = tape[v + 1]
    BY <2>5 DEF BlockOf
  <2> HIDE DEF i, b, v
  <2>7. \A m : NumberOf(m, v) \in Nat
    BY <2>4, OneMore
  <2>8. \A m : NumberOf(m, v + 1) = NumberOf(m, v) + (IF Operands(b) = m THEN 1 ELSE 0)
    BY <2>4, <2>6, OneMore
  <2>9. Operands(b) = IF b.index1 = 0 /\ b.index2 = 0 THEN 0
                      ELSE IF b.index1 # 0 /\ b.index2 # 0 THEN 2 ELSE 1
    BY OperandsFacts
  <2> DEFINE z == NumberOf(0, v)
             o == NumberOf(1, v)
             w == NumberOf(2, v)
  <2>10. z \in Nat /\ o \in Nat /\ w \in Nat
    BY <2>7
  <2>11. /\ NumberOf(0, v + 1) = z + (IF Operands(b) = 0 THEN 1 ELSE 0)
         /\ NumberOf(1, v + 1) = o + (IF Operands(b) = 1 THEN 1 ELSE 0)
         /\ NumberOf(2, v + 1) = w + (IF Operands(b) = 2 THEN 1 ELSE 0)
    BY <2>8
  <2>12. counts = [nZero |-> z, nOne |-> o, nTwo |-> w]
    BY <1>6 DEF v
  <2> HIDE DEF z, o, w
  <2>13. counts' = [nZero |-> NumberOf(0, v + 1), nOne |-> NumberOf(1, v + 1),
                    nTwo |-> NumberOf(2, v + 1)]
    <3>1. CASE b.index1 = 0 /\ b.index2 = 0
      <4>1. counts' = [counts EXCEPT !["nZero"] = @ + 1] /\ Operands(b) = 0
        BY <2>3, <2>9, <3>1 DEF stats
      <4>2. counts' = [nZero |-> z + 1, nOne |-> o, nTwo |-> w]
        BY <2>12, <4>1
      <4>3. /\ NumberOf(0, v + 1) = z + 1 /\ NumberOf(1, v + 1) = o
            /\ NumberOf(2, v + 1) = w
        BY <2>10, <2>11, <4>1
      <4>4. QED
        BY <4>2, <4>3
    <3>2. CASE b.index1 # 0 /\ b.index2 # 0
      <4>1. counts' = [counts EXCEPT !["nTwo"] = @ + 1] /\ Operands(b) = 2
        BY <2>3, <2>9, <3>2 DEF stats
      <4>2. counts' = [nZero |-> z, nOne |-> o, nTwo |-> w + 1]
        BY <2>12, <4>1
      <4>3. /\ NumberOf(0, v + 1) = z /\ NumberOf(1, v + 1) = o
            /\ NumberOf(2, v + 1) = w + 1
        BY <2>10, <2>11, <4>1
      <4>4. QED
        BY <4>2, <4>3
    <3>3. CASE ~(b.index1 = 0 /\ b.index2 = 0) /\ ~(b.index1 # 0 /\ b.index2 # 0)
      <4>1. counts' = [counts EXCEPT !["nOne"] = @ + 1] /\ Operands(b) = 1
        BY <2>3, <2>9, <3>3 DEF stats
      <4>2. counts' = [nZero |-> z, nOne |-> o + 1, nTwo |-> w]
        BY <2>12, <4>1
      <4>3. /\ NumberOf(0, v + 1) = z /\ NumberOf(1, v + 1) = o + 1
            /\ NumberOf(2, v + 1) = w
        BY <2>10, <2>11, <4>1
      <4>4. QED
        BY <4>2, <4>3
    <3>4. QED
      BY <3>1, <3>2, <3>3
  <2>14. QED
    BY <2>2, <2>13 DEF v
<1>10. QED
  BY <1>2, <1>7, <1>8, <1>9

-----------------------------------------------------------------------------
(* What the evaluation computes.                                           *)

(* Nothing has been visited, counted or reported at first. *)
LEMMA ResultInit ==
  ASSUME Init
  PROVE  ResultInv
<1>1. Inputs /\ Start
  BY DEF Init
<1>2. mode \in {"backward", "forward", "stats", "typegrind"} /\ number_of_blocks \in Nat
  BY <1>1, InputFacts
<1>3. pc = IF mode \in {"backward", "forward"} THEN "seed" ELSE "load"
  BY <1>1 DEF Start
<1>4. SeedsGiven /\ ForwardSoFar /\ BackwardSoFar /\ ReadOut
  BY <1>3 DEF SeedsGiven, ForwardSoFar, BackwardSoFar, ReadOut
<1>5. ZeroAtFirst
  BY <1>1, <1>3 DEF Start, ZeroAtFirst
<1>6. StatsSoFar
  <2>1. Len(visited) = 0 /\ counts = [nZero |-> 0, nOne |-> 0, nTwo |-> 0]
    BY <1>1 DEF Start
  <2>2. NumberOf(0, 0) = 0 /\ NumberOf(1, 0) = 0 /\ NumberOf(2, 0) = 0
    BY OneMore
  <2>3. QED
    BY <2>1, <2>2 DEF StatsSoFar
<1>7. QED
  BY <1>4, <1>5, <1>6 DEF ResultInv

LEMMA ResultInvariant == Spec => []ResultInv
<1>1. Init => ResultInv
  BY ResultInit
<1>2. EvaluationInv /\ ResultInv /\ [Next]_vars => ResultInv'
  <2> SUFFICES ASSUME EvaluationInv, ResultInv, [Next]_vars PROVE ResultInv'
    OBVIOUS
  <2>1. Known
    BY DEF Known
  <2>2. SeedsGiven' /\ ZeroAtFirst' /\ ForwardSoFar' /\ BackwardSoFar'
    BY <2>1, SeedingKept, ForwardKept, BackwardKept
  <2>3. ReadOut' /\ StatsSoFar'
    BY <2>1, ReadOutKept, StatsKept
  <2>4. QED
    BY <2>2, <2>3 DEF ResultInv
<1>3. QED
  BY <1>1, <1>2, EvaluationInvariant, PTL DEF Spec

(***************************************************************************)
(* When the program is done, in forward or in backward mode, every         *)
(* derivative in its output file is the one the chain rule gives for the   *)
(* recorded tape and the seeds: evaluateForward and evaluateBackward,      *)
(* called block by block and chunk by chunk, differentiate correctly       *)
(* whatever the length of the tape, the size of a chunk, the partial       *)
(* derivatives, the operands, variables that are seeded repeatedly and     *)
(* blocks that are skipped because their derivative is zero.               *)
(***************************************************************************)
THEOREM GradientsCorrect == Spec => []GradientIsChainRule
<1>1. EvaluationInv /\ ResultInv => GradientIsChainRule
  <2> DEFINE N == number_of_blocks
             read == readIndices.data
  <2>1. SUFFICES ASSUME EvaluationInv, ResultInv, pc = "done",
                        mode \in {"backward", "forward"},
                        NEW k \in 1 .. Len(gradients), read[k] # 0
                 PROVE  gradients[k] = ChainRule(read[k])
    BY DEF GradientIsChainRule
  <2>2. gradients = [m \in 1 .. Len(read) |-> derivativevec[read[m]]]
    BY <2>1 DEF ResultInv, ReadOut
  <2>3. N \in Nat /\ read \in Seq(0 .. N - 1)
    BY <2>1, InputFacts DEF EvaluationInv
  <2>4. Len(visited) = N
    BY <2>1 DEF EvaluationInv, Progress
  <2> HIDE DEF read, N
  <2>5. Len(gradients) = Len(read)
    BY <2>2, <2>3
  <2>6. gradients[k] = derivativevec[read[k]]
    BY <2>1, <2>2, <2>5
  <2>7. read[k] \in 1 .. N - 1
    BY <2>1, <2>3, <2>5
  <2>8. CASE mode = "forward"
    <3>1. \A j \in 1 .. N - 1 :
            derivativevec[j] = IF j < Len(visited) THEN ChainRule(j) ELSE SeedOf(j)
      BY <2>1, <2>8 DEF ResultInv, ForwardSoFar, N
    <3>2. read[k] < Len(visited)
      BY <2>3, <2>4, <2>7
    <3>3. QED
      BY <2>6, <2>7, <3>1, <3>2
  <2>9. CASE mode = "backward"
    <3>1. \A r \in 1 .. N - 1 :
            ChainRule(r) = IF r < N - Len(visited)
                           THEN Pending(r, N - Len(visited)) ELSE derivativevec[r]
      BY <2>1, <2>9 DEF ResultInv, BackwardSoFar, N
    <3>2. ~(read[k] < N - Len(visited))
      BY <2>3, <2>4, <2>7
    <3>3. QED
      BY <2>6, <2>7, <3>1, <3>2
  <2>10. QED
    BY <2>1, <2>8, <2>9
<1>2. QED
  BY <1>1, EvaluationInvariant, ResultInvariant, PTL

(***************************************************************************)
(* When tape-evaluation --stats is done, its three counters are the        *)
(* numbers of blocks with no, one and two operands, over the whole tape.   *)
(***************************************************************************)
THEOREM StatisticsCorrect == Spec => []StatsCount
<1>1. EvaluationInv /\ ResultInv => StatsCount
  <2> SUFFICES ASSUME EvaluationInv, ResultInv, pc = "done", mode = "stats"
               PROVE  counts = [nZero |-> NumberOf(0, number_of_blocks),
                                nOne  |-> NumberOf(1, number_of_blocks),
                                nTwo  |-> NumberOf(2, number_of_blocks)]
    BY DEF StatsCount
  <2>1. Len(visited) = number_of_blocks
    BY DEF EvaluationInv, Progress
  <2>2. QED
    BY <2>1 DEF ResultInv, StatsSoFar
<1>2. QED
  BY <1>1, EvaluationInvariant, ResultInvariant, PTL
=============================================================================
