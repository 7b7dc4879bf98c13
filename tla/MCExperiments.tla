--------------------------- MODULE MCExperiments ---------------------------
(***************************************************************************)
(* Instance of Experiments for TLC.                                        *)
(***************************************************************************)
EXTENDS Experiments, TLC

CONSTANT d1

OneDocument == [b \in Block |-> d1]

\* Blocks of one document, versions, experiments and requests are interchangeable
\* model values; only runs without a liveness property use this.
Symmetry ==
  Permutations(Block) \cup Permutations(Version) \cup Permutations(Experiment)
    \cup Permutations(Request)
=============================================================================
