------------------------- MODULE MCAnalysisPipeline -------------------------
(***************************************************************************)
(* Instances of AnalysisPipeline for TLC.                                  *)
(***************************************************************************)
EXTENDS AnalysisPipeline, TLC

CONSTANTS c1, c2

OneFile == {[path |-> 1, call |-> c1, suffix |-> "mp3", mtime |-> 1]}
TwoFiles == OneFile \cup
    {[path |-> 2, call |-> c2, suffix |-> "wav", mtime |-> 2]}

\* Every report slot serves every analyser.
ServesAll == [r \in RRuns |-> Analysers]

OneStamp == {1}
=============================================================================
