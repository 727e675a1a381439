---------------------------- MODULE CallEvidence ----------------------------
(***************************************************************************)
(* What a report's quotes are compared with: the transcript as segments    *)
(* with speaker labels, src/ai/reports/shared/transcript.py, the detector  *)
(* of swapped labels of call_v3/manager.py and the repair of timecodes of  *)
(* call_v3/timecodes.py.                                                   *)
(*                                                                         *)
(* A segment is [start, finish, speaker, markers]: markers counts the      *)
(* seller's phrases it contains.  Text is not kept.  A quote is what can be *)
(* said of it: the segments it was copied from (home, none if invented),   *)
(* how faithfully (fidelity, percent), how long it is (size, and words),   *)
(* whether it covers its segments whole, the segments its long words occur *)
(* in (marks), its form ("words", "na" for the marker of an absent quote,  *)
(* "pointer" for a bare timecode) and the timecode glued to its front      *)
(* (locator).                                                              *)
(***************************************************************************)
EXTENDS Integers, Sequences, SequencesExt, FiniteSetsExt

Manager == "MANAGER"
Client == "CLIENT"
NoLabel == "none"

\* What stands at some positions of a sequence, in its order.
Picked(seq, positions) ==
  LET upto[n \in 0..Len(seq)] ==
        IF n = 0 THEN <<>>
        ELSE IF n \in positions THEN Append(upto[n - 1], seq[n]) ELSE upto[n - 1]
  IN  upto[Len(seq)]

Swap(label) == CASE label = Manager -> Client [] label = Client -> Manager [] OTHER -> NoLabel
Relabelled(segments) == [i \in DOMAIN segments |-> [segments[i] EXCEPT !.speaker = Swap(@)]]
Labelled(segments) == \E i \in DOMAIN segments : segments[i].speaker # NoLabel

-----------------------------------------------------------------------------
(* detect_labels_swapped: which label says the seller's phrases.  The first *)
(* segment is the robot's greeting and does not count.                     *)
SwapMargin == 2
Hits(segments, label) ==
  MapThenSumSet(LAMBDA i : IF segments[i].speaker = label THEN segments[i].markers ELSE 0,
                DOMAIN segments \ {1})
HitSegments(segments, label) ==
  {i \in DOMAIN segments \ {1} : segments[i].speaker = label /\ segments[i].markers > 0}

\* "swapped", "ok", or "unknown" when the evidence does not suffice.
DetectSwapped(segments) ==
  LET m == Hits(segments, Manager)
      c == Hits(segments, Client)
      leader == IF m > c THEN Manager ELSE Client
  IN  IF \/ Cardinality(HitSegments(segments, leader)) < 2
         \/ m - c \in (1 - SwapMargin)..(SwapMargin - 1)
      THEN "unknown"
      ELSE IF c > m THEN "swapped" ELSE "ok"

-----------------------------------------------------------------------------
(* How much of a quote a stretch of segments contains, in percent:         *)
(* partial_ratio finds the quote inside it, SequenceMatcher.ratio compares *)
(* it with one segment as a whole.                                         *)
Noise == 30
PartialRatio(quote, stretch) ==
  IF quote.home = {} \/ quote.home \intersect stretch = {} THEN Noise
  ELSE IF quote.home \subseteq stretch THEN quote.fidelity
  ELSE quote.fidelity \div Cardinality(quote.home)
WholeRatio(quote, i) ==
  IF quote.whole THEN PartialRatio(quote, {i}) ELSE Min({PartialRatio(quote, {i}), 50})

\* _merge_adjacent: runs of one labelled speaker; unlabelled segments stay alone.
SameSpeaker(segments, i, j) ==
  /\ segments[i].speaker # NoLabel
  /\ segments[i].speaker = segments[j].speaker
Merged(segments) ==
  LET starts == Picked([i \in DOMAIN segments |-> i],
                       {i \in DOMAIN segments : i = 1 \/ ~SameSpeaker(segments, i - 1, i)})
      run(i) == {j \in i..Len(segments) : \A k \in i..(j - 1) : SameSpeaker(segments, k, k + 1)}
  IN  [r \in DOMAIN starts |-> run(starts[r])]

\* prepare_candidates: every segment, then every run.
Candidates(segments) == [i \in DOMAIN segments |-> {i}] \o Merged(segments)

\* The first of the best candidates of a pool, 0 for none above zero.
Best(quote, candidates, pool) ==
  IF pool = {} THEN 0
  ELSE CHOOSE i \in pool : \A j \in pool :
         \/ PartialRatio(quote, candidates[j]) < PartialRatio(quote, candidates[i])
         \/ /\ PartialRatio(quote, candidates[j]) = PartialRatio(quote, candidates[i])
            /\ i <= j

MatchThreshold == 75
Bar(quote) == IF quote.size = "short" THEN 95 ELSE MatchThreshold
Reaches(quote, candidates, i) == i # 0 /\ PartialRatio(quote, candidates[i]) >= Bar(quote)

\* Mutant: the full scan only when the cheap one found nothing at all.
ScanUnlessFound(quote, candidates) ==
  LET cheap == {i \in DOMAIN candidates :
                  quote.marks = {} \/ candidates[i] \intersect quote.marks # {}}
      first == Best(quote, candidates, cheap)
  IN  IF first # 0 THEN first ELSE Best(quote, candidates, DOMAIN candidates)

\* The cheap scan over candidates with a mark, and the full one when it stays below the bar.
Scan(quote, candidates) ==
  LET cheap == {i \in DOMAIN candidates :
                  quote.marks = {} \/ candidates[i] \intersect quote.marks # {}}
      first == Best(quote, candidates, cheap)
  IN  IF Reaches(quote, candidates, first) \/ quote.marks = {} THEN first
      ELSE Best(quote, candidates, DOMAIN candidates)

\* find_quote_segment: the stretch a quote was copied from, {} when it was not.
FindQuote(quote, segments) ==
  LET candidates == Candidates(segments)
      found == Scan(quote, candidates)
  IN  IF quote.size = "tiny" \/ ~Reaches(quote, candidates, found) THEN {}
      ELSE candidates[found]

-----------------------------------------------------------------------------
(* repair_timecodes.  An item of the payload is [quote, timecode, claimed]; *)
(* a timecode is the start of a segment or any other second, NoTimecode     *)
(* when the model gave none; claimed is NoClaim until a repair replaces the *)
(* timecode.                                                               *)
NoTimecode == -1
NoClaim == -2
Window == 30
RepairThreshold == 60

Closest(quote, pool) ==
  LET good == {i \in pool : WholeRatio(quote, i) >= RepairThreshold}
  IN  IF good = {} THEN 0
      ELSE CHOOSE i \in good : \A j \in good :
             \/ WholeRatio(quote, j) < WholeRatio(quote, i)
             \/ WholeRatio(quote, j) = WholeRatio(quote, i) /\ i <= j

\* find_real_timecode: the segment near the claim, else anywhere; 0 for none.
RealSegment(quote, claim, segments) ==
  LET near == {i \in DOMAIN segments :
                 claim # NoTimecode /\ claim - segments[i].start \in -Window..Window}
  IN  IF Closest(quote, near) # 0 THEN Closest(quote, near)
      ELSE Closest(quote, DOMAIN segments)

\* Mutant: the model's own claim is overwritten, as in v2.
RepairedForgetting(item, segments) ==
  LET real == RealSegment(item.quote, item.timecode, segments)
  IN  IF real = 0 THEN item ELSE [item EXCEPT !.timecode = segments[real].start]

\* v3: the model's claim is kept beside the repaired timecode.
Repaired(item, segments) ==
  LET real == RealSegment(item.quote, item.timecode, segments)
  IN  IF real = 0 \/ segments[real].start = item.timecode THEN item
      ELSE [item EXCEPT !.timecode = segments[real].start, !.claimed = item.timecode]

\* v2: _fix_timecodes overwrites it.
Fixed(item, segments) ==
  LET real == RealSegment(item.quote, item.timecode, segments)
  IN  IF real = 0 THEN item ELSE [item EXCEPT !.timecode = segments[real].start]
=============================================================================
