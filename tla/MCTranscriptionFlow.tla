------------------------ MODULE MCTranscriptionFlow ------------------------
(***************************************************************************)
(* Instances of TranscriptionFlow for TLC.                                 *)
(***************************************************************************)
EXTENDS TranscriptionFlow, TLC

CONSTANTS r1, r2, c1, c2, c3

\* Three recordings in the order they were made; the last two are a tie in
\* started_at, which SQL leaves in any order.
ThreeCalls ==
    {[row |-> 1, call |-> c1, started |-> 1, audio |-> TRUE],
     [row |-> 2, call |-> c2, started |-> 2, audio |-> TRUE],
     [row |-> 3, call |-> c3, started |-> 2, audio |-> TRUE]}
OneCall == {[row |-> 1, call |-> c1, started |-> 1, audio |-> TRUE]}

OneStamp == {1}

RunSymmetry == Permutations(Runs)
=============================================================================
