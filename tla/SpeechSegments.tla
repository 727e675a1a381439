--------------------------- MODULE SpeechSegments ---------------------------
(***************************************************************************)
(* From speech to lines of a transcript, as pure operators: a recording    *)
(* too large for one upload is sliced (transcriber.py), the speech         *)
(* recognition of each slice is glued into segments (gigaam                *)
(* segmentation.py), and the segments of the slices are stitched.          *)
(*                                                                         *)
(* Time goes in slots of one word.  What is said is a function from slots  *)
(* to "silence", "word" and "stop", a word that ends a sentence.  A        *)
(* segment is the set of slots of its words: it starts with the first and  *)
(* ends behind the last, and those of a slice are listed as they start.  A *)
(* timeline is a set of lines [slice, words]: the segments of one slice    *)
(* are listed after those of the slice before.                             *)
(***************************************************************************)
EXTENDS Integers, Sequences, FiniteSetsExt

CONSTANTS
  ChunkLength, \* _WHISPER_CHUNK_SEC
  Overlap,     \* _WHISPER_CHUNK_OVERLAP_SEC
  GlueMax      \* glue_max_seconds

\* "chunk_sec must exceed overlap_sec" (transcriber.py 172-173); half an overlap is
\* a whole number of slots.
ASSUME ChunksAssumption ==
  /\ ChunkLength \in Nat /\ Overlap \in Nat /\ GlueMax \in Nat \ {0}
  /\ Overlap < ChunkLength /\ Overlap % 2 = 0

Half == Overlap \div 2
Start(segment) == Min(segment)
End(segment) == Max(segment) + 1
Sayable(length) == [0 .. length - 1 -> {"silence", "word", "stop"}]
Spoken(said) == {slot \in DOMAIN said : said[slot] # "silence"}

\* Slices [from, to) of a recording: the last is the first to reach the end.
Split(length) ==
  LET stride == ChunkLength - Overlap
      last == Min({k \in 0 .. length : k * stride + ChunkLength >= length})
  IN  [i \in 1 .. last + 1 |->
         [from |-> (i - 1) * stride, to |-> Min({(i - 1) * stride + ChunkLength, length})]]

\* A segment is closed by the end of a sentence or by its length, and silence does
\* not close it; one that never ends a sentence is closed by the end of the slice.
Closes(speech, start, slot) == speech[slot] = "stop" \/ slot + 1 - start >= GlueMax
\* For each word, where the segment it is glued to starts.
Begun(speech) ==
  LET begun[slot \in Spoken(speech)] ==
        LET before == {word \in Spoken(speech) : word < slot}
        IN  IF before = {} \/ Closes(speech, begun[Max(before)], Max(before)) THEN slot
            ELSE begun[Max(before)]
  IN  begun
Glue(speech) ==
  {{word \in Spoken(speech) : Begun(speech)[word] = start} :
     start \in {Begun(speech)[word] : word \in Spoken(speech)}}

\* What is heard in a slice, in the slice's own time, and its place in the recording.
Heard(said, slice) == Glue([slot \in 0 .. slice.to - slice.from - 1 |-> said[slice.from + slot]])
Shifted(segments, offset) == {{slot + offset : slot \in segment} : segment \in segments}

\* Segments that start before the threshold are dropped as repeats of the slice
\* before.  The threshold follows the last slice in which anything was heard, and
\* a slice of which all was dropped counts too.
HeardTo(results, k) ==
  LET heard == {i \in 1 .. k - 1 : results[i] # {}}
  IN  IF heard = {} THEN 0 ELSE End(UNION results[Max(heard)])
Kept(results, k, margin) ==
  {segment \in results[k] : ~ Start(segment) < HeardTo(results, k) - margin}
StitchedBehind(results, margin) ==
  UNION {{[slice |-> k, words |-> segment] : segment \in Kept(results, k, margin)} :
           k \in DOMAIN results}
\* Mutant: cut at the end of the slice before itself.
StitchedKeepingTheOverlap(results) == StitchedBehind(results, Overlap)
Stitched(results) == StitchedBehind(results, Half)

\* A recording that fits one upload is one slice, and nothing is heard before it.
Transcript(said, slices) ==
  Stitched([i \in DOMAIN slices |-> Shifted(Heard(said, slices[i]), slices[i].from)])

-----------------------------------------------------------------------------
Written(lines) == UNION {line.words : line \in lines}
Copies(lines, slot) == Cardinality({line \in lines : slot \in line.words})

\* What one boundary can cost.  A dropped segment starts before the threshold, so
\* GlueMax later at most it takes its last word, and all up to the end of the slice
\* before has been heard there.
LossPerBoundary == Max({0, GlueMax - Half - 1})
\* No slice meets the second after it, so no word is in more than two of them.
ShortOverlaps == 2 * Overlap <= ChunkLength
StitchedWithin(said, lines, boundaries) ==
  /\ Written(lines) \subseteq Spoken(said)
  /\ Cardinality(Spoken(said) \ Written(lines)) <= boundaries * LossPerBoundary
  /\ ShortOverlaps => \A slot \in DOMAIN said : Copies(lines, slot) <= 2
  /\ Cardinality({slot \in DOMAIN said : Copies(lines, slot) > 1}) <= boundaries * Half
  /\ \A earlier, later \in lines :
       earlier.slice < later.slice => Start(later.words) >= Start(earlier.words) - Half
=============================================================================
