--------------------------- MODULE ManagerScoring ---------------------------
(***************************************************************************)
(* The arithmetic of the manager's score, src/ai/reports/call_v2/scoring.py, *)
(* used by both analysers, for one call and for a chain of calls.          *)
(*                                                                         *)
(* qc_scores is what a model answered, read from raw JSON: a function from *)
(* criteria to bodies.  A body is an object, that is a record with any of  *)
(* the fields the code looks for, or a bare number, [scalar |-> n].  Scores *)
(* are counted in half points (0.5 is 1), everything else in ones.  Null   *)
(* is JSON's null, Text one that is no number and holds none.              *)
(***************************************************************************)
EXTENDS Integers, FiniteSetsExt, Functions

Null == -1
Text == -2

Scalar(n) == [scalar |-> n]
NoFields == [k \in {} |-> 0]
IsDict(body) == "scalar" \notin DOMAIN body
Field(body, key, default) == IF key \in DOMAIN body THEN body[key] ELSE default
OrZero(value) == IF value = Null THEN 0 ELSE value

Advantages == "presentation_project_advantages_5plus"
AllHandled == "objections_all_handled"
Techniques == "objections_techniques_used"

LightCriteria ==
  {"contact_greeting_standard", "contact_name_and_object", "contact_name_used_3plus",
   "closing_questions_clarified", "closing_farewell_standard", "general_active_listening",
   "general_polite_tone", "general_initiative_control", "general_professional_speech"}
HeavyCriteria ==
  {"needs_purchase_goal", "needs_key_aspects", "needs_budget_and_payment", Advantages,
   "presentation_developer_advantages", "presentation_link_benefits_to_needs",
   "presentation_promotions", "presentation_related_objects", "presentation_meeting_offer",
   AllHandled, Techniques, "closing_meeting_datetime_fixed", "closing_next_actions_agreed",
   "closing_contacts_collected"}
QC_WEIGHTS ==
  [c \in LightCriteria \union HeavyCriteria |-> IF c \in LightCriteria THEN 1 ELSE 2]

RepeatSkip ==
  {"contact_greeting_standard", "contact_name_and_object", "needs_purchase_goal",
   "needs_key_aspects", "needs_budget_and_payment", Advantages}
HalfPointAllowed ==
  {"presentation_meeting_offer", "needs_key_aspects", "general_active_listening",
   "contact_greeting_standard", "presentation_link_benefits_to_needs",
   "contact_name_and_object"}

-----------------------------------------------------------------------------
(* The points of one criterion, of Full; NotScored when it leaves both the  *)
(* sum and the weight; Raises when the arithmetic meets a value that is not *)
(* a number.  The code's points are fractions, by tenths and by the number  *)
(* of objections: in units of so many, a Full of ten each, they are whole.  *)
NotScored == -1
Raises == -2

Item(qc, key) ==
  IF key \in DOMAIN qc /\ DOMAIN qc[key] # {} /\ Field(qc[key], "scalar", 0) # Null
  THEN qc[key] ELSE Scalar(0)

Unit(qc) ==
  LET total == Field(Item(qc, AllHandled), "total", 0) IN IF total > 0 THEN total ELSE 1
Full(qc) == 10 * Unit(qc)

AdvantagePoints(item, unit) ==
  LET count == IF IsDict(item) THEN Field(item, "count", 0) ELSE 0
  IN  IF count < 0 THEN Raises ELSE Min({2 * unit * count, 10 * unit})

HandledPoints(item, unit) ==
  LET total == OrZero(Field(item, "total", 0))
      handled == OrZero(Field(item, "handled", 0))
  IN  CASE ~IsDict(item) -> IF item.scalar \in {0, 2} THEN 5 * unit * item.scalar ELSE 0
        [] IsDict(item) /\ total = 0 -> 10 * unit
        [] IsDict(item) /\ total # 0 ->
             IF Text \in {total, handled} THEN Raises ELSE 10 * handled

ScorePoints(key, value, unit) ==
  LET allowed == IF key \in HalfPointAllowed THEN {0, 1, 2} ELSE {0, 2}
  IN  IF value \in allowed THEN 5 * unit * value ELSE 0

(* No total, or none above zero: scoring then leaves the techniques out.   *)
NothingToHandle(qc) ==
  LET objections == IF AllHandled \in DOMAIN qc THEN qc[AllHandled] ELSE NoFields
  IN  IsDict(objections) /\ OrZero(Field(objections, "total", 0)) = 0

Points(qc, key) ==
  LET item == Item(qc, key)
      unit == Unit(qc)
  IN  CASE key = Advantages -> AdvantagePoints(item, unit)
        [] key = AllHandled -> HandledPoints(item, unit)
        [] key = Techniques /\ NothingToHandle(qc) -> NotScored
        [] OTHER -> IF ~IsDict(item) THEN ScorePoints(key, item.scalar, unit)
                    ELSE IF Field(item, "score", Null) = Null THEN NotScored
                    ELSE ScorePoints(key, item.score, unit)

-----------------------------------------------------------------------------
RoundHalfEven(num, den) ==
  LET q == num \div den
      r == num % den
  IN  IF 2 * r > den \/ (2 * r = den /\ q % 2 = 1) THEN q + 1 ELSE q

Clamp(n) == Max({1, Min({10, n})})

\* The criteria that are in the sum and in the weight it is divided by.
Counted(qc, isPrimary) ==
  {k \in DOMAIN QC_WEIGHTS \ (IF isPrimary THEN {} ELSE RepeatSkip) : Points(qc, k) # NotScored}

\* calc_manager_score_1to10: 1 to 10, 0 when no criterion applies.
ManagerScore(qc, isPrimary) ==
  LET keys == Counted(qc, isPrimary)
      earned == SumFunctionOnSet([k \in keys |-> Points(qc, k) * QC_WEIGHTS[k]], keys)
      most == Full(qc) * SumFunctionOnSet(QC_WEIGHTS, keys)
  IN  CASE \E k \in keys : Points(qc, k) = Raises -> Raises
        [] keys = {} -> 0
        [] OTHER -> Clamp(RoundHalfEven(10 * earned, most))

-----------------------------------------------------------------------------
(* A chain of calls.                                                       *)

Positive(qc, key) ==
  LET body == IF key \in DOMAIN qc THEN qc[key] ELSE Scalar(0)
  IN  IF IsDict(body) THEN Field(body, "score", 0) > 0 ELSE body.scalar \notin {0, Null}

CountOf(qc, field) ==
  LET body == IF AllHandled \in DOMAIN qc THEN qc[AllHandled] ELSE NoFields
  IN  IF IsDict(body) THEN OrZero(Field(body, field, 0)) ELSE 0

ChainCredited ==
  {"contact_greeting_standard", "needs_purchase_goal", "closing_next_actions_agreed"}

\* aggregate_chain_metrics over the qc of the previous sales calls and of this one.
ChainMetrics(qcs) ==
  LET sum(field) ==
        IF \E i \in DOMAIN qcs : CountOf(qcs[i], field) = Text THEN Text
        ELSE SumFunction([i \in DOMAIN qcs |-> CountOf(qcs[i], field)])
  IN  [total |-> sum("total"), handled |-> sum("handled"),
       credited |-> {k \in ChainCredited : \E i \in DOMAIN qcs : Positive(qcs[i], k)}]

\* calc_manager_score_chain: the chain's objections and credits over this call's qc.
ChainScore(qc, metrics) ==
  LET body(k) == IF k \in DOMAIN qc /\ IsDict(qc[k]) THEN qc[k] ELSE NoFields
      credited(k) == [f \in DOMAIN body(k) \union {"score"} |->
                        IF f = "score" THEN 2 ELSE body(k)[f]]
      merged == [k \in DOMAIN qc \union {AllHandled} \union metrics.credited |->
                   CASE k = AllHandled -> [total |-> metrics.total, handled |-> metrics.handled]
                     [] k \in metrics.credited -> credited(k)
                     [] OTHER -> qc[k]]
  IN  IF Text \in {metrics.total, metrics.handled} THEN Raises ELSE ManagerScore(merged, TRUE)
=============================================================================
