-------------------------- MODULE ManagerCriteria --------------------------
(***************************************************************************)
(* The part of the v3 report that is code and not model: the check of the  *)
(* quotes of the qc stage (src/ai/reports/call_v3/qc.py), the criteria that *)
(* do not apply, and the verdicts of which strengths and weaknesses are    *)
(* made (src/ai/reports/call_v3/manager.py).                               *)
(***************************************************************************)
EXTENDS ManagerScoring, CallEvidence

NotCitable ==
  {"general_polite_tone", "general_professional_speech", "general_initiative_control",
   "general_active_listening"}
ConnectionLostNA ==
  {"closing_meeting_datetime_fixed", "closing_next_actions_agreed",
   "closing_contacts_collected", "closing_questions_clarified", "closing_farewell_standard"}

Na == [score |-> Null]
ApplyNa(qc, keys) == [k \in DOMAIN qc |-> IF k \in keys THEN Na ELSE qc[k]]

(* apply_service_na, apply_repeat_na, apply_connection_lost_na in the order *)
(* of both pipelines.                                                      *)
Applicable(qc, callType, isPrimary, lost) ==
  ApplyNa(qc, (IF callType = "service" THEN DOMAIN qc ELSE {})
              \union (IF callType = "sales" /\ ~isPrimary THEN RepeatSkip ELSE {})
              \union (IF lost THEN ConnectionLostNA ELSE {}))

-----------------------------------------------------------------------------
(* criterion_passed: "passed", "failed", or "na" when it does not apply.   *)
AdvantagesBar == 5
Verdict(holds) == IF holds THEN "passed" ELSE "failed"

\* A missing total is not a total of zero here (_no_objections).
NoObjections(qc) ==
  /\ AllHandled \in DOMAIN qc
  /\ IsDict(qc[AllHandled])
  /\ Field(qc[AllHandled], "total", Null) = 0

\* A body that is a number alone is the count, in half points as every such number.
AdvantagesVerdict(body) ==
  LET ones == IF IsDict(body) THEN 1 ELSE 2
      count == OrZero(IF IsDict(body) THEN Field(body, "count", Null) ELSE body.scalar)
  IN  IF count = Text THEN "na" ELSE Verdict(count >= ones * AdvantagesBar)

\* Mutant: all objections handled is not enough.
HandledVerdictStrict(body) ==
  LET total == OrZero(Field(body, "total", Null))
      handled == OrZero(Field(body, "handled", Null))
  IN  IF ~IsDict(body) \/ Text \in {total, handled} \/ total = 0 THEN "na"
      ELSE Verdict(handled > total)
HandledVerdict(body) ==
  LET total == OrZero(Field(body, "total", Null))
      handled == OrZero(Field(body, "handled", Null))
  IN  IF ~IsDict(body) \/ Text \in {total, handled} \/ total = 0 THEN "na"
      ELSE Verdict(handled >= total)

CriterionPassed(key, body, qc) ==
  LET score == IF IsDict(body) THEN Field(body, "score", Null) ELSE body.scalar
  IN  IF IsDict(body) /\ Field(body, "score", 0) = Null THEN "na"
      ELSE CASE key = Advantages -> AdvantagesVerdict(body)
             [] key = AllHandled -> HandledVerdict(body)
             [] key = Techniques /\ NoObjections(qc) -> "na"
             [] OTHER -> IF score < 0 THEN "na" ELSE Verdict(score > 0)

\* split_qc_criteria.
Listed(qc, verdict) == {k \in DOMAIN qc : CriterionPassed(k, qc[k], qc) = verdict}

-----------------------------------------------------------------------------
(* project_qc_scores.  A body of the raw answer may have quotes, a sequence *)
(* of [quote, timecode], or the old single quote; a quote of the form "na"  *)
(* is the marker of an absent one.                                         *)
ScoreKeys == {"score", "count", "total", "handled"}
QuoteKeys == {"quotes", "quotes_claimed", "quote_state"}
States == {"verified", "partly_verified", "nothing_to_quote", "unverified", "not_citable"}

Claims(body) ==
  LET given(entries) ==
        Picked(entries, {i \in DOMAIN entries : entries[i].quote.form # "na"})
      several == given(Field(body, "quotes", <<>>))
  IN  IF several = <<>> /\ "single" \in DOMAIN body THEN given(<<body.single>>) ELSE several

\* The claimed quotes that are in the transcript, each with the stretch it was found in.
Verified(claims, segments) ==
  Picked(claims, {i \in DOMAIN claims : FindQuote(claims[i].quote, segments) # {}})

QuoteState(key, verified, claims) ==
  CASE key \in NotCitable -> "not_citable"
    [] key \notin NotCitable /\ verified # <<>> ->
         IF Len(verified) = Len(claims) THEN "verified" ELSE "partly_verified"
    [] key \notin NotCitable /\ verified = <<>> ->
         IF claims # <<>> THEN "unverified" ELSE "nothing_to_quote"

Projected(raw, segments) ==
  [k \in DOMAIN raw |->
     IF ~IsDict(raw[k]) THEN raw[k]
     ELSE LET claims == Claims(raw[k])
              verified == Verified(claims, segments)
          IN  [f \in (DOMAIN raw[k] \intersect ScoreKeys) \union QuoteKeys |->
                 CASE f \in ScoreKeys -> raw[k][f]
                   [] f = "quotes" -> verified
                   [] f = "quotes_claimed" -> Len(claims)
                   [] f = "quote_state" -> QuoteState(k, verified, claims)]]

-----------------------------------------------------------------------------
(* summarise: how many criteria are in each state, and the contradictions, *)
(* criteria that passed with too little to cite.                           *)
Required(key, body) ==
  CASE key = "contact_name_used_3plus" -> 3
    [] key = Advantages -> Field(body, "count", Null)
    [] key = AllHandled -> Field(body, "total", Null)
    [] OTHER -> Null

StateOf(body) == IF IsDict(body) THEN Field(body, "quote_state", "unmeasured") ELSE "unmeasured"
Contradicts(key, body, qc) ==
  /\ CriterionPassed(key, body, qc) = "passed"
  /\ StateOf(body) # "unmeasured"
  /\ \/ StateOf(body) \in {"nothing_to_quote", "unverified"}
     \/ Len(body.quotes) < Required(key, body)

Summary(qc) ==
  [states |-> [s \in States \union {"unmeasured"} |->
                 Cardinality({k \in DOMAIN qc : StateOf(qc[k]) = s})],
   contradictions |-> {k \in DOMAIN qc : Contradicts(k, qc[k], qc)}]

(* count_filler_words: unknown without labels or without a reply of the    *)
(* manager; flagged as unverified when the detector did not decide.        *)
FillerWords(segments, rolesVerified) ==
  IF \E i \in DOMAIN segments : segments[i].speaker = Manager
  THEN IF rolesVerified THEN "counted" ELSE "counted, roles unverified"
  ELSE "unknown"
=============================================================================
