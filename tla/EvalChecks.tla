----------------------------- MODULE EvalChecks -----------------------------
(***************************************************************************)
(* The automatic checks of a report, src/ai/evals/checks: does every quote *)
(* occur in the transcript and at the claimed place (grounding), are the   *)
(* manager's phrases the manager's (speaker), is a quote long enough       *)
(* (substance), are enumerated fields within their schema (enums).         *)
(*                                                                         *)
(* A report is [client, good, bad, qc, labels, version, enums]: client,    *)
(* good and bad are sequences of items [quote, timecode, claimed] of the   *)
(* module CallEvidence, qc is a function from criteria to bodies, labels is *)
(* [swapped, source], enums a sequence of [path, tokens].  The transcript  *)
(* is the one the dataset holds, before any relabelling.                   *)
(***************************************************************************)
EXTENDS CallEvidence

Words(item) == item.quote.form # "na"

(* QuoteItem.build: what the model stated, also when the pipeline has       *)
(* replaced it; a timecode peeled off the quote locates it but is no claim. *)
Stated(item) ==
  IF "claimed" \in DOMAIN item /\ item.claimed # NoClaim THEN item.claimed ELSE item.timecode
Built(item) ==
  [quote |-> item.quote, is_claim |-> Stated(item) # NoTimecode,
   timecode |-> IF Stated(item) # NoTimecode THEN Stated(item) ELSE item.quote.locator]

\* A criterion's evidence repeats the first of its quotes and is not counted again.
QcItems(body) ==
  IF "quotes" \in DOMAIN body /\ body.quotes # <<>> THEN body.quotes
  ELSE IF "single" \in DOMAIN body THEN <<body.single>> ELSE <<>>

AllBuilt(items) == [i \in DOMAIN items |-> Built(items[i])]
QuotesOfQc(qc) == FoldSet(LAMBDA k, items : items \o QcItems(qc[k]), <<>>, DOMAIN qc)
\* iter_quote_items and _iter_speech_phrases.
QuoteItems(report) ==
  SelectSeq(AllBuilt(report.client) \o AllBuilt(report.good) \o AllBuilt(report.bad)
              \o AllBuilt(QuotesOfQc(report.qc)), Words)
SpeechPhrases(report) == SelectSeq(AllBuilt(report.bad) \o AllBuilt(report.good), Words)

Pointer(item) == item.quote.form = "pointer"

-----------------------------------------------------------------------------
(* Where an item points to: the segments that meet its timecode, within the *)
(* tolerance.  A timecode that is the start of a segment is its locator and *)
(* names its end as well.                                                  *)
TimecodeTolerance == 2
UpperOf(segments, timecode) ==
  Max({timecode} \union {segments[i].finish : i \in {j \in DOMAIN segments :
                                                      segments[j].start = timecode}})
At(segments, timecode) ==
  {i \in DOMAIN segments : /\ timecode # NoTimecode
                           /\ segments[i].finish >= timecode - TimecodeTolerance
                           /\ segments[i].start <= UpperOf(segments, timecode) + TimecodeTolerance}

\* check_grounding.
Verbatim == 85
FabricationBar == 40
NotAnchored == -1

Anchored(item, segments) ==
  LET window == At(segments, item.timecode)
  IN  CASE ~item.is_claim -> NotAnchored
        [] item.is_claim /\ window = {} -> 0
        [] item.is_claim /\ window # {} -> PartialRatio(item.quote, window)
FullRatio(item, segments) ==
  Max({PartialRatio(item.quote, {i}) : i \in DOMAIN segments}
      \union {PartialRatio(item.quote, DOMAIN segments)})

\* _classify.
Status(anchored, full) ==
  CASE anchored >= Verbatim -> "grounded"
    [] anchored < Verbatim /\ full >= Verbatim ->
         IF anchored = NotAnchored THEN "grounded" ELSE "misplaced"
    [] OTHER ->
         IF (IF anchored = NotAnchored THEN full ELSE anchored) < FabricationBar
         THEN "fabricated" ELSE "weak"
Statuses == {"grounded", "misplaced", "fabricated", "weak", "timecode only"}

GroundingOf(item, segments) ==
  LET anchored == Anchored(item, segments)
  IN  IF Pointer(item) THEN [status |-> "timecode only", placed |-> FALSE]
      ELSE [status |-> Status(anchored, FullRatio(item, segments)),
            placed |-> anchored # NotAnchored]
Grounding(report, segments) ==
  LET items == QuoteItems(report)
  IN  [i \in DOMAIN items |-> GroundingOf(items[i], segments)]

-----------------------------------------------------------------------------
(* check_speaker_attribution.  Only the verdict of the detector turns the   *)
(* roles round, never the model's own.                                     *)
LocateThreshold == 50
Located(item, segments) ==
  LET window == At(segments, item.timecode)
      pool == IF window = {} THEN DOMAIN segments ELSE window
      best == CHOOSE i \in pool : \A j \in pool :
                \/ PartialRatio(item.quote, {j}) < PartialRatio(item.quote, {i})
                \/ PartialRatio(item.quote, {j}) = PartialRatio(item.quote, {i}) /\ i <= j
  IN  IF PartialRatio(item.quote, {best}) < LocateThreshold THEN 0 ELSE best

\* Mutant: any report of swapped labels is believed.
TrustedSwapAny(report) == report.labels.swapped
TrustedSwap(report) == report.labels.swapped /\ report.labels.source = "detector"
RoleSeen(report, segments, i) ==
  IF TrustedSwap(report) THEN Swap(segments[i].speaker) ELSE segments[i].speaker

Attribution(report, item, segments) ==
  LET i == Located(item, segments)
  IN  CASE i = 0 -> "not found"
        [] i # 0 -> IF Labelled(segments) THEN RoleSeen(report, segments, i) ELSE NoLabel
Attributions(report, segments) ==
  LET phrases == SpeechPhrases(report)
  IN  [p \in DOMAIN phrases |-> Attribution(report, phrases[p], segments)]

-----------------------------------------------------------------------------
(* check_substance and check_enum_conformance.  A schema is a function from *)
(* paths to the tokens its leaf lists; a leaf that lists one is no enum.    *)
MinWords == 3
Substance(report) ==
  LET quotes == SelectSeq(QuoteItems(report), LAMBDA item : ~Pointer(item))
  IN  [i \in DOMAIN quotes |-> quotes[i].quote.words >= MinWords]

Sentinels == {"unknown", "not_specified"}
Allowed(schemas, version) ==
  LET schema == IF version \in DOMAIN schemas THEN schemas[version] ELSE schemas["v2"]
  IN  [p \in {q \in DOMAIN schema : Cardinality(schema[q]) > 1} |-> schema[p]]

EnumKind(tokens, allowed) ==
  LET bad == ToSet(tokens) \ allowed
  IN  CASE bad = {} -> IF Len(tokens) = 1 THEN "conformant"
                       ELSE IF ToSet(tokens) = allowed THEN "echo" ELSE "multiselect"
        [] bad # {} -> IF bad \subseteq Sentinels THEN "sentinel" ELSE "novel"
Enums(report, schemas) ==
  LET allowed == Allowed(schemas, report.version)
      fields == SelectSeq(report.enums, LAMBDA field : field.path \in DOMAIN allowed)
  IN  [i \in DOMAIN fields |-> EnumKind(fields[i].tokens, allowed[fields[i].path])]

-----------------------------------------------------------------------------
(* score_payload and _scores_dict: a rate is its numerator and denominator. *)
CountIn(seq, Test(_)) == Len(SelectSeq(seq, Test))
Scores(report, segments, schemas) ==
  LET g == Grounding(report, segments)
      sp == Attributions(report, segments)
      su == Substance(report)
      en == Enums(report, schemas)
  IN  [quotes |-> Len(g),
       statuses |-> [s \in Statuses |-> CountIn(g, LAMBDA r : r.status = s)],
       grounded_placed |-> CountIn(g, LAMBDA r : r.status = "grounded" /\ r.placed),
       timecode_accuracy |->
         [of |-> CountIn(g, LAMBDA r : r.placed /\ r.status \in {"grounded", "misplaced"}),
          right |-> CountIn(g, LAMBDA r : r.placed /\ r.status = "grounded")],
       manager |-> CountIn(sp, LAMBDA a : a = Manager),
       client |-> CountIn(sp, LAMBDA a : a = Client),
       substantive |-> [of |-> Len(su), right |-> CountIn(su, LAMBDA long : long)],
       enums |-> [of |-> Len(en), right |-> CountIn(en, LAMBDA k : k = "conformant")]]
=============================================================================
