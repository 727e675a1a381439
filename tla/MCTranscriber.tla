---------------------------- MODULE MCTranscriber ----------------------------
(* Instance of Transcriber: one task, with a short call that fits one upload *)
(* or a long one in three slices that overlap.                              *)
EXTENDS Transcriber, TLC

CONSTANT a
MCTasks == {a}
MCRequests == MCTasks \X (1 .. MaxPosts)
Short == [length |-> 2, fits |-> TRUE, channels |-> 1]
Long == [length |-> 8, fits |-> FALSE, channels |-> 2]
MCRecordings == {a :> Short, a :> Long}

\* Whatever may be said.
MCAnySpeech(length) == [0 .. length - 1 -> {"silence", "word", "stop"}]
\* Nothing, or words of which at most two end a sentence or are missing.
MCSpeech(length) ==
  {[slot \in 0 .. length - 1 |-> "silence"]}
  \union {speech \in MCAnySpeech(length) :
            Cardinality({slot \in DOMAIN speech : speech[slot] # "word"}) <= 2}
=============================================================================
