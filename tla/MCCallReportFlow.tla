-------------------------- MODULE MCCallReportFlow --------------------------
(***************************************************************************)
(* Instances of CallReportFlow for TLC.                                    *)
(***************************************************************************)
EXTENDS CallReportFlow, TLC

CONSTANTS r1, r2, c1, c2

\* One slot per deployment: runs of one analyser never overlap one another.
OneEach == (r1 :> {"v2"}) @@ (r2 :> {"v3"})
\* Both slots serve both deployments.
Both == [r \in Runs |-> Analysers]

\* Two calls with a current transcript each; the second was transcribed twice
\* and only its second version counts.
TwoTranscripts ==
    {[id |-> 1, call |-> c1, version |-> 1, current |-> TRUE],
     [id |-> 2, call |-> c2, version |-> 1, current |-> FALSE],
     [id |-> 3, call |-> c2, version |-> 2, current |-> TRUE]}

\* The first call has two current transcripts, as overlapping transcription runs
\* that die before they demote leave it: a chunk can hold both of them.
TwiceCurrent ==
    {[id |-> 1, call |-> c1, version |-> 1, current |-> TRUE],
     [id |-> 2, call |-> c1, version |-> 2, current |-> TRUE],
     [id |-> 3, call |-> c2, version |-> 1, current |-> FALSE],
     [id |-> 4, call |-> c2, version |-> 2, current |-> TRUE]}

OneStamp == {1}

RunSymmetry == Permutations(Runs)
=============================================================================
