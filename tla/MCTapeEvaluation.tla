-------------------------- MODULE MCTapeEvaluation --------------------------
(* TapeEvaluation on small instances: two blocks per chunk, so that tapes of  *)
(* up to four blocks need one to three chunks and may or may not fill the     *)
(* last one.                                                                  *)
EXTENDS TapeEvaluation

Pairs == {<<1, 2>>, <<3, 1>>}

OnePair == {<<1, 2>>}

Given(data) == [data |-> data, ending |-> "newline"]

(***************************************************************************)
(* The initial states of Init, in three families: all small tapes with     *)
(* seeds 1, 2 for their variables; short tapes with all kinds of text      *)
(* files; and all tapes with special indices in all modes, without seeds.  *)
(***************************************************************************)
AnyTape(n) ==
  /\ tape \in Tapes(n, {}, DiffPairs)
  /\ mode \in {"backward", "forward"}
  /\ \E s \in 1 .. MaxSeeds :
       /\ seedIndices \in {Given(i) : i \in [1 .. s -> 0 .. n - 1]}
       /\ seedGradients = Given([k \in 1 .. s |-> k])
  /\ readIndices \in {Given(<<i>>) : i \in 0 .. n - 1}

AnyFiles(n) ==
  /\ n <= 3
  /\ tape \in Tapes(n, {}, OnePair)
  /\ mode \in {"backward", "forward"}
  /\ seedIndices \in TextFile(0 .. n - 1, MaxSeeds)
  /\ seedGradients \in TextFile(Gradients, MaxSeeds)
  /\ readIndices \in {Given(i) : i \in BoundedSeqs(0 .. n - 1, MaxReads)}

AnyMode(n) ==
  /\ tape \in Tapes(n, Special, OnePair)
  /\ mode \in Modes
  /\ seedIndices = Given(<<>>) /\ seedGradients = Given(<<>>)
  /\ readIndices \in {Given(i) : i \in BoundedSeqs(0 .. n - 1, MaxReads)}

MCInit == /\ \E n \in 0 .. MaxBlocks : AnyTape(n) \/ AnyFiles(n) \/ AnyMode(n)
          /\ Start

MCSpec == MCInit /\ [][Next]_vars /\ WF_vars(Next)
=============================================================================
