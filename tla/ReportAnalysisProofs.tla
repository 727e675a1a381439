------------------------ MODULE ReportAnalysisProofs ------------------------
(***************************************************************************)
(* Theorems about the analysis of one call, for every set of calls and of  *)
(* answers that fulfils the assumptions of ReportAnalysis.                 *)
(*                                                                         *)
(* The argument: Standing says of every state that its report is made of   *)
(* the answers that work holds, by the one analysis or by the other and    *)
(* perhaps within a chain.  What a report says follows from that and from  *)
(* lemmas about the code that makes it.  What it says of the requests      *)
(* needs an invariant over them beside it: StampBook, Judged, ForCause.    *)
(***************************************************************************)
EXTENDS ReportAnalysis, FiniteSetTheorems, WellFoundedInduction, TLAPS

-----------------------------------------------------------------------------
(***************************************************************************)
(* Sums.  A property of every sum over a finite set is shown by way of a   *)
(* smallest set whose sum does not have it.                                *)
(***************************************************************************)
\* Every non-empty set of naturals has a smallest element: induction over naturals
\* in the form the provers can use.
LEMMA Smallest ==
    ASSUME NEW T \in SUBSET Nat, T # {}
    PROVE  \E x \in T : \A y \in T : x <= y
<1>1. PICK x \in T : \A y \in T : ~ (<<y, x>> \in OpToRel(<, Nat))
  BY NatLessThanWellFounded, WFMin, Zenon
<1>2. \A y \in T : x <= y
  <2>. TAKE y \in T
  <2>1. ~ (<<y, x>> \in OpToRel(<, Nat))
    BY <1>1
  <2>2. x \in Nat /\ y \in Nat
    OBVIOUS
  <2>3. ~ (y < x)
    BY <2>1, <2>2 DEF OpToRel
  <2>. QED
    BY <2>2, <2>3
<1>. QED
  BY <1>2

\* A sum is built up from the sums of smaller sets.
SumsUp(sum, f, S) ==
    /\ SumFunctionOnSet(f, S) = sum[S]
    /\ sum[{}] = 0
    /\ \A s \in (SUBSET S) \ {{}} : \E x \in s : sum[s] = f[x] + sum[s \ {x}]

LEMMA SumIterates ==
    ASSUME NEW f, NEW S, IsFiniteSet(S) PROVE \E sum : SumsUp(sum, f, S)
<1>. DEFINE Pick(s) == CHOOSE x \in s : TRUE
            Rest(s, g) == IF s = {} THEN 0 ELSE f[Pick(s)] + g[s \ {Pick(s)}]
            Upto(n) == {s \in SUBSET S : Cardinality(s) <= n}
            Solved(n) == \E g : g = [s \in Upto(n) |-> Rest(s, g)]
            Unsolved == {n \in Nat : ~ Solved(n)}
<1>1. \A s \in SUBSET S : /\ IsFiniteSet(s) /\ Cardinality(s) \in Nat
                          /\ Cardinality(s) = 0 <=> s = {}
                          /\ s # {} => /\ Pick(s) \in s
                                       /\ s \ {Pick(s)} \in SUBSET S
                                       /\ Cardinality(s \ {Pick(s)}) = Cardinality(s) - 1
  <2>. TAKE s \in SUBSET S
  <2>1. IsFiniteSet(s) /\ Cardinality(s) \in Nat /\ (Cardinality(s) = 0 <=> s = {})
    BY FS_Subset, FS_CardinalityType, FS_EmptySet
  <2>2. s # {} => Pick(s) \in s
    OBVIOUS
  <2>. HIDE DEF Pick
  <2>. QED
    BY <2>1, <2>2, FS_RemoveElement
<1>. HIDE DEF Pick
<1>2. Solved(0)
  <2>1. Upto(0) = {{}}
    <3>1. ASSUME NEW s \in SUBSET S, Cardinality(s) <= 0 PROVE s = {}
      <4>1. Cardinality(s) \in Nat /\ (Cardinality(s) = 0 <=> s = {})
        BY <1>1
      <4>. QED
        BY <3>1, <4>1
    <3>2. {} \in SUBSET S /\ Cardinality({}) <= 0
      BY FS_EmptySet
    <3>. QED
      BY <3>1, <3>2
  <2>. DEFINE g == [s \in Upto(0) |-> 0]
  <2>2. g = [s \in Upto(0) |-> Rest(s, g)]
    BY <2>1
  <2>. QED
    BY <2>2
<1>3. ASSUME NEW n \in Nat, Solved(n) PROVE Solved(n + 1)
  <2>1. PICK g : g = [s \in Upto(n) |-> Rest(s, g)]
    BY <1>3
  <2>. DEFINE h == [s \in Upto(n + 1) |-> IF s \in Upto(n) THEN g[s] ELSE Rest(s, g)]
  <2>2. ASSUME NEW s \in Upto(n + 1), s # {}
        PROVE  h[s \ {Pick(s)}] = g[s \ {Pick(s)}]
    <3>1. s \ {Pick(s)} \in Upto(n) /\ s \ {Pick(s)} \in Upto(n + 1)
      BY <1>1, <2>2
    <3>. HIDE DEF Rest
    <3>. QED
      BY <3>1
  <2>3. \A s \in Upto(n + 1) : h[s] = Rest(s, g)
    BY <2>1
  <2>4. h = [s \in Upto(n + 1) |-> h[s]]
    OBVIOUS
  <2>5. \A s \in Upto(n + 1) : h[s] = Rest(s, h)
    <3>. HIDE DEF h, Upto
    <3>. QED
      BY <2>2, <2>3
  <2>. HIDE DEF h, Rest
  <2>6. h = [s \in Upto(n + 1) |-> Rest(s, h)]
    BY <2>4, <2>5
  <2>. QED
    BY <2>6
<1>. HIDE DEF Solved
<1>4. Unsolved = {}
  <2>. SUFFICES ASSUME Unsolved # {} PROVE FALSE
    OBVIOUS
  <2>1. PICK n \in Unsolved : \A m \in Unsolved : n <= m
    BY Smallest
  <2>2. n # 0 /\ n - 1 \in Nat /\ n - 1 \notin Unsolved
    BY <1>2, <2>1
  <2>. QED
    BY <1>3, <2>1, <2>2
<1>. DEFINE iter == CHOOSE it : it = [s \in SUBSET S |-> Rest(s, it)]
<1>5. iter = [s \in SUBSET S |-> Rest(s, iter)]
  <2>1. S \in SUBSET S /\ Cardinality(S) \in Nat /\ Solved(Cardinality(S))
    BY <1>1, <1>4
  <2>2. Upto(Cardinality(S)) = SUBSET S
    BY FS_Subset
  <2>3. \E it : it = [s \in SUBSET S |-> Rest(s, it)]
    BY <2>1, <2>2 DEF Solved
  <2>. QED
    BY <2>3
<1>6. SumFunctionOnSet(f, S) = iter[S]
  BY DEF SumFunctionOnSet, FoldFunctionOnSet, MapThenFoldSet, Pick
<1>. HIDE DEF iter
<1>7. iter[{}] = 0
  BY <1>5
<1>8. \A s \in (SUBSET S) \ {{}} : Pick(s) \in s /\ iter[s] = f[Pick(s)] + iter[s \ {Pick(s)}]
  BY <1>1, <1>5
<1>9. SumsUp(iter, f, S)
  BY <1>6, <1>7, <1>8 DEF SumsUp
<1>. QED
  BY <1>9

\* So what holds of the sum of nothing and survives another summand holds of every sum.
LEMMA SumsBuiltUp ==
    ASSUME NEW f, NEW S, IsFiniteSet(S), NEW sum, SumsUp(sum, f, S),
           NEW Good, 0 \in Good,
           \A x \in S, n \in Good : f[x] + n \in Good
    PROVE  \A s \in SUBSET S : sum[s] \in Good
<1>1. /\ sum[{}] = 0
      /\ \A s \in (SUBSET S) \ {{}} : \E x \in s : sum[s] = f[x] + sum[s \ {x}]
  BY DEF SumsUp
<1>. DEFINE Bad(n) == \E s \in SUBSET S : Cardinality(s) = n /\ sum[s] \notin Good
            Sizes == {n \in Nat : Bad(n)}
<1>2. Sizes = {}
  <2>. SUFFICES ASSUME Sizes # {} PROVE FALSE
    OBVIOUS
  <2>1. PICK n \in Sizes : \A m \in Sizes : n <= m
    <3>1. Sizes \in SUBSET Nat
      OBVIOUS
    <3>. HIDE DEF Sizes
    <3>. QED
      BY <3>1, Smallest
  <2>2. PICK s \in SUBSET S : Cardinality(s) = n /\ sum[s] \notin Good
    BY <2>1
  <2>3. s # {}
    BY <1>1, <2>2
  <2>4. PICK x \in s : sum[s] = f[x] + sum[s \ {x}]
    BY <1>1, <2>3
  <2>5. IsFiniteSet(s) /\ Cardinality(s \ {x}) = n - 1 /\ Cardinality(s \ {x}) \in Nat
    BY <2>2, FS_Subset, FS_RemoveElement, FS_CardinalityType
  <2>6. sum[s \ {x}] \in Good
    BY <2>1, <2>5
  <2>. QED
    BY <2>2, <2>4, <2>6
<1>3. \A s \in SUBSET S : Cardinality(s) \in Nat
  BY FS_Subset, FS_CardinalityType
<1>4. \A s \in SUBSET S : ~ Bad(Cardinality(s))
  BY <1>2, <1>3
<1>. QED
  BY <1>4

LEMMA SumInduction ==
    ASSUME NEW f, NEW S, IsFiniteSet(S),
           NEW Good, 0 \in Good,
           \A x \in S, n \in Good : f[x] + n \in Good
    PROVE  SumFunctionOnSet(f, S) \in Good
<1>1. PICK sum : SumsUp(sum, f, S)
  BY SumIterates
<1>2. SumFunctionOnSet(f, S) = sum[S] /\ S \in SUBSET S
  BY <1>1 DEF SumsUp
<1>. QED
  BY <1>1, <1>2, SumsBuiltUp

LEMMA SumPositive ==
    ASSUME NEW f, NEW S, IsFiniteSet(S), S # {}, \A x \in S : f[x] \in Nat \ {0}
    PROVE  SumFunctionOnSet(f, S) \in Nat \ {0}
<1>1. PICK sum : SumsUp(sum, f, S)
  BY SumIterates
<1>2. PICK x \in S : SumFunctionOnSet(f, S) = f[x] + sum[S \ {x}]
  BY <1>1 DEF SumsUp
<1>3. \A s \in SUBSET S : sum[s] \in Nat
  <2>1. 0 \in Nat /\ \A y \in S, n \in Nat : f[y] + n \in Nat
    OBVIOUS
  <2>. QED
    BY <1>1, <2>1, SumsBuiltUp
<1>. QED
  BY <1>2, <1>3

-----------------------------------------------------------------------------
(***************************************************************************)
(* The arithmetic of the score.                                            *)
(***************************************************************************)
LEMMA MinOfTwo ==
    ASSUME NEW a \in Int, NEW b \in Int
    PROVE  Min({a, b}) = IF a <= b THEN a ELSE b
<1>. DEFINE m == IF a <= b THEN a ELSE b
<1>1. m \in {a, b} /\ \A y \in {a, b} : m <= y
  OBVIOUS
<1>2. \A x \in {a, b} : (\A y \in {a, b} : x <= y) => x = m
  OBVIOUS
<1>. QED
  BY <1>1, <1>2 DEF Min

LEMMA MaxOfTwo ==
    ASSUME NEW a \in Int, NEW b \in Int
    PROVE  Max({a, b}) = IF a >= b THEN a ELSE b
<1>. DEFINE m == IF a >= b THEN a ELSE b
<1>1. m \in {a, b} /\ \A y \in {a, b} : m >= y
  OBVIOUS
<1>2. \A x \in {a, b} : (\A y \in {a, b} : x >= y) => x = m
  OBVIOUS
<1>. QED
  BY <1>1, <1>2 DEF Max

\* A score of one call is between one and ten.
LEMMA ClampRange ==
    ASSUME NEW n \in Int PROVE Clamp(n) \in 1 .. 10
<1>. DEFINE m == Min({10, n})
<1>1. m \in Int /\ m <= 10
  BY MinOfTwo
<1>. HIDE DEF m
<1>2. Max({1, m}) \in 1 .. 10
  BY <1>1, MaxOfTwo
<1>. QED
  BY <1>2 DEF Clamp, m

\* There are finitely many criteria, of one weight or of two.
LEMMA WeightsFinite ==
    /\ IsFiniteSet(DOMAIN QC_WEIGHTS)
    /\ \A k \in DOMAIN QC_WEIGHTS : QC_WEIGHTS[k] \in {1, 2}
<1>1. IsFiniteSet(LightCriteria)
  <2>. DEFINE listed ==
         <<"contact_greeting_standard", "contact_name_and_object",
           "contact_name_used_3plus", "closing_questions_clarified",
           "closing_farewell_standard", "general_active_listening",
           "general_polite_tone", "general_initiative_control",
           "general_professional_speech">>
  <2>1. /\ listed \in Seq(LightCriteria)
        /\ \A c \in LightCriteria : \E n \in 1 .. Len(listed) : listed[n] = c
    BY DEF LightCriteria
  <2>. QED
    BY <2>1 DEF IsFiniteSet
<1>2. IsFiniteSet(HeavyCriteria)
  <2>. DEFINE listed ==
         <<"needs_purchase_goal", "needs_key_aspects", "needs_budget_and_payment",
           Advantages, "presentation_developer_advantages",
           "presentation_link_benefits_to_needs", "presentation_promotions",
           "presentation_related_objects", "presentation_meeting_offer", AllHandled,
           Techniques, "closing_meeting_datetime_fixed", "closing_next_actions_agreed",
           "closing_contacts_collected">>
  <2>1. /\ listed \in Seq(HeavyCriteria)
        /\ \A c \in HeavyCriteria : \E n \in 1 .. Len(listed) : listed[n] = c
    BY DEF HeavyCriteria
  <2>. QED
    BY <2>1 DEF IsFiniteSet
<1>. QED
  BY <1>1, <1>2, FS_Union DEF QC_WEIGHTS

LEMMA FieldNumber ==
    ASSUME NEW qc, Readable(qc), NEW k \in DOMAIN qc,
           NEW f \in ScoreKeys \union {"scalar"}, f \in DOMAIN qc[k]
    PROVE  qc[k][f] \in Nat \/ qc[k][f] = Null \/ qc[k][f] = Text
BY DEF Readable

\* The unit of the points is a number of objections, or one.
LEMMA UnitNumber ==
    ASSUME NEW qc, Readable(qc)
    PROVE  /\ Unit(qc) \in Nat \ {0}
           /\ Full(qc) \in Nat \ {0}
<1>. DEFINE item == Item(qc, AllHandled)
            total == Field(item, "total", 0)
<1>1. total \in Nat \union {Null, Text}
  <2>1. CASE "total" \notin DOMAIN item
    BY <2>1 DEF Field
  <2>2. CASE "total" \in DOMAIN item
    <3>1. "total" \notin DOMAIN Scalar(0)
      BY DEF Scalar
    <3>2. AllHandled \in DOMAIN qc /\ item = qc[AllHandled]
      BY <2>2, <3>1 DEF Item
    <3>3. item["total"] \in Nat \union {Null, Text}
      BY <2>2, <3>2, FieldNumber DEF ScoreKeys
    <3>. QED
      BY <2>2, <3>3 DEF Field
  <2>. QED
    BY <2>1, <2>2
<1>2. Unit(qc) = IF total > 0 THEN total ELSE 1
  BY DEF Unit
<1>. HIDE DEF total
<1>3. Unit(qc) \in Nat \ {0}
  BY <1>1, <1>2 DEF Null, Text
<1>. QED
  BY <1>3 DEF Full

\* The points of a criterion are a number, and it is Raises only for want of one.
LEMMA AdvantageNumbers ==
    ASSUME NEW qc, Readable(qc)
    PROVE  LET p == AdvantagePoints(Item(qc, Advantages), Unit(qc))
           IN  p \in Int /\ (p \notin Nat => p = Raises /\ NoNumber(qc))
<1>. DEFINE item == Item(qc, Advantages)
            count == IF IsDict(item) THEN Field(item, "count", 0) ELSE 0
<1>1. count \in Int /\ (count < 0 => NoNumber(qc))
  <2>1. CASE item = Scalar(0)
    BY <2>1 DEF Scalar, IsDict
  <2>2. CASE Advantages \in DOMAIN qc /\ item = qc[Advantages]
    <3>. HIDE DEF item
    <3>1. CASE IsDict(item) /\ "count" \in DOMAIN item
      <4>1. item["count"] \in Nat \/ item["count"] = Null \/ item["count"] = Text
        BY <2>2, <3>1, FieldNumber DEF ScoreKeys
      <4>2. count = item["count"]
        BY <3>1 DEF Field
      <4>3. Field(qc[Advantages], "count", 0) = item["count"] /\ IsDict(qc[Advantages])
        BY <2>2, <3>1 DEF Field
      <4>. QED
        BY <2>2, <4>1, <4>2, <4>3 DEF NoNumber, Null, Text
    <3>2. CASE ~ (IsDict(item) /\ "count" \in DOMAIN item)
      BY <3>2 DEF Field
    <3>. QED
      BY <3>1, <3>2
  <2>. QED
    BY <2>1, <2>2 DEF Item
<1>. DEFINE unit == Unit(qc)
<1>2. AdvantagePoints(item, unit) =
        IF count < 0 THEN Raises ELSE Min({2 * unit * count, 10 * unit})
  BY DEF AdvantagePoints
<1>. HIDE DEF count, unit
<1>3. count >= 0 => Min({2 * unit * count, 10 * unit}) \in Nat
  <2>1. unit \in Nat
    BY UnitNumber DEF unit
  <2>2. count >= 0 => 2 * unit * count \in Nat /\ 10 * unit \in Nat
    BY <1>1, <2>1
  <2>. QED
    BY <2>2, MinOfTwo
<1>. QED
  BY <1>1, <1>2, <1>3 DEF Raises, unit

-----------------------------------------------------------------------------
(***************************************************************************)
(* Where an analysis stands.                                               *)
(***************************************************************************)
Asking == [v2 |-> {"pass0", "qc", "main"},
           v3 |-> {"pass0", "qc", "analysis", "format_client", "format_manager"}]

\* What the stages were answered, or what stands in its place.
Answered ==
    /\ DOMAIN work = DOMAIN NoWork
    /\ work.pass0.type # "junk"
    /\ work.qc \in QcAnswers \union {NoAnswerToQc}
    /\ work.qc_ok \in BOOLEAN
    /\ work.client \in ClientAnswers \union {NoWork.client}
    /\ work.manager \in ManagerAnswers \union {NoManagerPart}

\* A report is that of a junk call, or made of the answers, or that one within its chain.
Junk ==
    /\ {"call_type", "is_scoreable", "score"} \subseteq DOMAIN report
    /\ report.call_type = "junk" /\ ~ report.is_scoreable /\ report.score = Null
Own(payload) ==
    /\ payload.call_type # "junk"
    /\ payload.score # Raises
    /\ \/ report = payload
       \/ /\ input.caller = "chain" /\ step = "done"
          /\ report = Chained(payload) /\ report.score # Raises
MadeByV2 == Junk \/ \E answer \in ReportAnswers : Own(V2!Payload(work, answer)) /\ work.qc.object
MadeByV3 == Junk \/ Own(V3!Payload(work))

Standing ==
    /\ input \in Inputs
    /\ step \in {"start", "made", "lost", "done"} \union Asking[input.analyser]
    /\ retry \in BOOLEAN
    /\ Answered
    /\ Reported \/ report = NoReport
    /\ Reported => IF input.analyser = "v2" THEN MadeByV2 ELSE MadeByV3
    /\ step = "made" => report # NoReport

\* What is made of the answers depends on them and on the call alone.
LEMMA SameReports ==
    ASSUME input' = input
    PROVE  /\ V3!Payload(work)' = V3!Payload(work')
           /\ \A answer : V2!Payload(work, answer)' = V2!Payload(work', answer)
           /\ \A payload : Chained(payload)' = Chained(payload)
<1>1. /\ V3!Detected' = V3!Detected /\ V3!Segments' = V3!Segments
      /\ V3!IsPrimary' = V3!IsPrimary
      /\ V2!Segments' = V2!Segments /\ V2!IsPrimary' = V2!IsPrimary
  BY DEF V3!Detected, V3!Segments, V3!IsPrimary, V2!Segments, V2!IsPrimary
<1>2. V3!Payload(work)' = V3!Payload(work')
  BY <1>1 DEF V3!Payload, V3!AllRepaired, V3!SpeakerLabels, V3!Scoreable
<1>3. \A answer : V2!Payload(work, answer)' = V2!Payload(work', answer)
  BY <1>1 DEF V2!Payload, V2!AllFixed
<1>4. \A payload : Chained(payload)' = Chained(payload)
  BY DEF Chained, ChainQcs
<1>. QED
  BY <1>2, <1>3, <1>4

\* NoReport is no report.
LEMMA ReportsAreReports ==
    /\ \A pass0 : /\ JunkReport(pass0) # NoReport
                  /\ [JunkReport(pass0) EXCEPT !.version = "v3"] # NoReport
    /\ \A left : V3!Payload(left) # NoReport
    /\ \A left, answer : V2!Payload(left, answer) # NoReport
    /\ \A payload : Chained(payload) # NoReport
<1>1. DOMAIN NoReport = {"version"}
  BY DEF NoReport
<1>2. \A pass0 : /\ "score" \in DOMAIN JunkReport(pass0)
                 /\ "score" \in DOMAIN [JunkReport(pass0) EXCEPT !.version = "v3"]
  BY DEF JunkReport
<1>3. \A left : "score" \in DOMAIN V3!Payload(left)
  BY DEF V3!Payload
<1>4. \A left, answer : "score" \in DOMAIN V2!Payload(left, answer)
  BY DEF V2!Payload
<1>5. \A payload : "score_own" \in DOMAIN Chained(payload)
  BY DEF Chained
<1>. QED
  BY <1>1, <1>2, <1>3, <1>4, <1>5

\* A chain turns the score and the version of a report, and nothing else of it.
LEMMA ChainedKeeps ==
    ASSUME NEW payload, NEW f \in DOMAIN payload \ {"version", "score", "score_own"}
    PROVE  Chained(payload)[f] = payload[f]
BY DEF Chained

LEMMA StandingInit == Init => Standing
<1>. SUFFICES ASSUME Init PROVE Standing
  OBVIOUS
<1>1. Answered
  BY DEF Init, Answered, NoWork, Unreadable
<1>. QED
  BY <1>1 DEF Init, Standing, Reported
\* While requests are made there is no report.
LEMMA NotMade ==
    ASSUME Standing, step \in {"start", "lost"} \union Asking[input.analyser]
    PROVE  report = NoReport /\ step \notin {"made", "done"}
<1>1. input.analyser \in {"v2", "v3"}
  BY InputsAssumption DEF Standing
<1>2. step \notin {"made", "done"}
  BY <1>1 DEF Asking
<1>. QED
  BY <1>2 DEF Standing, Reported

\* A stage that goes on, asks again or loses the report leaves a standing analysis.
LEMMA StandingOn ==
    ASSUME Standing, step \in Asking[input.analyser], input' = input,
           step' \in {"lost"} \union Asking[input.analyser],
           retry' \in BOOLEAN, report' = report, Answered'
    PROVE  Standing'
<1>1. report = NoReport
  BY NotMade
<1>2. input.analyser \in {"v2", "v3"}
  BY InputsAssumption DEF Standing
<1>3. step' \notin {"made", "done"}
  BY <1>2 DEF Asking
<1>. QED
  BY <1>1, <1>3 DEF Standing, Reported

LEMMA StandingV3 ==
    ASSUME Standing, input.analyser = "v3", V3!Next PROVE Standing' /\ input' = input
<1>0. PICK s, reply : V3!AskFor(s, reply)
  BY DEF V3!Next, V3!Unreachable, V3!AskAgain, V3!Pass0,
         V3!Pass0Raises, V3!Pass0Unreadable, V3!Qc, V3!QcGivesUp, V3!Analysis,
         V3!FormatClient, V3!FormatClientGivesUp, V3!FormatManager, V3!FormatManagerGivesUp
<1>1. input' = input
  BY <1>0 DEF V3!AskFor, V3!Ask
<1>2. /\ Asking[input.analyser] = {"pass0", "qc", "analysis", "format_client", "format_manager"}
      /\ retry \in BOOLEAN /\ Answered
  BY DEF Standing, Asking
<1>3. \A reply1 : LET w == V3!Noting(reply1)
                  IN  /\ DOMAIN w = DOMAIN work
                      /\ \A f \in DOMAIN work \ {"truncated"} : w[f] = work[f]
  BY DEF V3!Noting
<1>4. DOMAIN NoWork = {"pass0", "qc", "qc_ok", "flag", "client", "manager", "truncated"}
  BY DEF NoWork
<1>5. ASSUME NEW reply1, work' = V3!Noting(reply1) PROVE Answered'
  BY <1>2, <1>3, <1>4, <1>5 DEF Answered
<1>6. ASSUME work' = work PROVE Answered'
  BY <1>2, <1>6 DEF Answered
<1>. DEFINE Goes == /\ step \in Asking[input.analyser]
                    /\ step' \in {"lost"} \union Asking[input.analyser]
                    /\ retry' \in BOOLEAN /\ report' = report /\ Answered'
<1>7. ASSUME Goes PROVE Standing'
  BY <1>1, <1>7, StandingOn
<1>. SUFFICES Standing'
  BY <1>1
<1>8. CASE \E s1 \in {"pass0", "qc", "analysis", "format_client", "format_manager"} :
             V3!Unreachable(s1)
  <2>1. Goes
    BY <1>2, <1>6, <1>8 DEF V3!Unreachable, V3!Lose, V3!AskFor
  <2>. QED
    BY <2>1, <1>7
<1>9. CASE \E s1 \in {"qc", "format_client", "format_manager"} : V3!AskAgain(s1)
  <2>1. PICK reply1 : work' = V3!Noting(reply1)
    BY <1>9 DEF V3!AskAgain
  <2>2. Goes
    BY <1>2, <1>5, <1>9, <2>1 DEF V3!AskAgain, V3!AskFor
  <2>. QED
    BY <2>2, <1>7
<1>10. CASE V3!Pass0
  <2>1. PICK answer \in Classifications :
          LET pass0 == V3!Classified(answer)
          IN  /\ V3!AskFor("pass0", "object")
              /\ IF pass0.type = "junk"
                 THEN V3!Made(work, [V3!JunkReport(pass0) EXCEPT !.version = "v3"])
                 ELSE V3!GoOn("qc", [work EXCEPT !.pass0 = pass0])
    BY <1>10, Zenon DEF V3!Pass0
  <2>. DEFINE pass0 == V3!Classified(answer)
  <2>. HIDE DEF pass0
  <2>2. CASE pass0.type = "junk"
    <3>1. /\ step' = "made" /\ retry' = FALSE /\ work' = work
          /\ report' = [V3!JunkReport(pass0) EXCEPT !.version = "v3"]
      BY <2>1, <2>2 DEF pass0, V3!Made
    <3>2. report' # NoReport
      BY <3>1, ReportsAreReports DEF V3!JunkReport, JunkReport, V3!NoFields, NoFields, V3!Null, Null
    <3>3. Junk'
      BY <3>1 DEF Junk, V3!JunkReport, V3!Null, Null
    <3>. QED
      BY <1>1, <1>6, <3>1, <3>2, <3>3 DEF Standing, Reported, MadeByV3
  <2>3. CASE pass0.type # "junk"
    <3>1. step = "pass0" /\ V3!GoOn("qc", [work EXCEPT !.pass0 = pass0])
      BY <2>1, <2>3 DEF pass0, V3!AskFor
    <3>2. Answered'
      BY <1>2, <1>4, <2>3, <3>1 DEF Answered, V3!GoOn
    <3>. QED
      BY <1>2, <1>7, <3>1, <3>2 DEF V3!GoOn
  <2>. QED
    BY <2>2, <2>3
<1>11. CASE V3!Pass0Unreadable
  <2>1. PICK reply1 : /\ step = "pass0"
                      /\ V3!GoOn("qc", [V3!Noting(reply1) EXCEPT !.pass0 = V3!Unreadable])
    BY <1>11 DEF V3!Pass0Unreadable, V3!AskFor
  <2>2. Answered'
    BY <1>2, <1>3, <1>4, <2>1 DEF Answered, V3!GoOn, V3!Unreadable
  <2>. QED
    BY <1>2, <1>7, <2>1, <2>2 DEF V3!GoOn
<1>12. CASE V3!Qc
  <2>1. PICK answer \in QcAnswers :
          step = "qc" /\ V3!GoOn("analysis", [work EXCEPT !.qc = answer, !.qc_ok = TRUE])
    BY <1>12 DEF V3!Qc, V3!AskFor
  <2>2. Answered'
    BY <1>2, <1>4, <2>1 DEF Answered, V3!GoOn
  <2>. QED
    BY <1>2, <1>7, <2>1, <2>2 DEF V3!GoOn
<1>13. CASE V3!QcGivesUp
  <2>1. PICK reply1 :
          /\ step = "qc"
          /\ V3!GoOn("analysis",
                     [V3!Noting(reply1) EXCEPT !.qc = V3!NoAnswerToQc, !.qc_ok = FALSE])
    BY <1>13 DEF V3!QcGivesUp, V3!AskFor
  <2>2. Answered'
    BY <1>2, <1>3, <1>4, <2>1 DEF Answered, V3!GoOn, V3!NoAnswerToQc, NoAnswerToQc
  <2>. QED
    BY <1>2, <1>7, <2>1, <2>2 DEF V3!GoOn
<1>14. CASE V3!Analysis
  <2>1. PICK flag, reply1 :
          /\ step = "analysis"
          /\ V3!GoOn("format_client", [V3!Noting(reply1) EXCEPT !.flag = flag])
    BY <1>14 DEF V3!Analysis, V3!AskFor
  <2>2. Answered'
    BY <1>2, <1>3, <1>4, <2>1 DEF Answered, V3!GoOn
  <2>. QED
    BY <1>2, <1>7, <2>1, <2>2 DEF V3!GoOn
<1>15. CASE V3!FormatClient
  <2>1. PICK answer \in ClientAnswers :
          /\ step = "format_client"
          /\ V3!GoOn("format_manager", [work EXCEPT !.client = answer])
    BY <1>15 DEF V3!FormatClient, V3!AskFor
  <2>2. Answered'
    BY <1>2, <1>4, <2>1 DEF Answered, V3!GoOn
  <2>. QED
    BY <1>2, <1>7, <2>1, <2>2 DEF V3!GoOn
<1>16. CASE V3!FormatClientGivesUp
  <2>1. Goes
    BY <1>2, <1>6, <1>16 DEF V3!FormatClientGivesUp, V3!Lose, V3!AskFor
  <2>. QED
    BY <1>7, <2>1
<1>17. ASSUME NEW left, V3!Make(left), step = "format_manager",
              work' = left => Answered'
       PROVE  Standing'
  <2>1. CASE V3!Payload(left).score = V3!Raises
    BY <1>2, <1>7, <1>17, <2>1 DEF V3!Make, V3!Lose
  <2>2. CASE V3!Payload(left).score # V3!Raises
    <3>1. /\ step' = "made" /\ retry' = FALSE /\ work' = left /\ report' = V3!Payload(work')
      BY <1>17, <2>2 DEF V3!Make, V3!Made
    <3>2. report' = V3!Payload(work)' /\ report' # NoReport /\ Answered'
      BY <1>1, <1>17, <3>1, SameReports, ReportsAreReports
    <3>3. report'.call_type # "junk" /\ report'.score # Raises
      BY <2>2, <3>1, <3>2 DEF V3!Payload, Answered, V3!Raises, Raises
    <3>4. MadeByV3'
      BY <3>2, <3>3 DEF MadeByV3, Own
    <3>. QED
      BY <1>1, <3>1, <3>2, <3>4 DEF Standing, Reported
  <2>. QED
    BY <2>1, <2>2
<1>18. CASE V3!FormatManager
  <2>1. PICK answer \in ManagerAnswers :
          step = "format_manager" /\ V3!Make([work EXCEPT !.manager = answer])
    BY <1>18 DEF V3!FormatManager, V3!AskFor
  <2>2. work' = [work EXCEPT !.manager = answer] => Answered'
    BY <1>2, <1>4 DEF Answered
  <2>. QED
    BY <1>17, <2>1, <2>2
<1>19. CASE V3!FormatManagerGivesUp
  <2>1. PICK reply1 :
          /\ step = "format_manager"
          /\ V3!Make([V3!Noting(reply1) EXCEPT !.manager = V3!NoManagerPart])
    BY <1>19 DEF V3!FormatManagerGivesUp, V3!AskFor
  <2>2. work' = [V3!Noting(reply1) EXCEPT !.manager = V3!NoManagerPart] => Answered'
    BY <1>2, <1>3, <1>4 DEF Answered, V3!NoManagerPart, NoManagerPart
  <2>. QED
    BY <1>17, <2>1, <2>2
<1>20. CASE V3!Pass0Raises
  <2>1. PICK answer \in Classifications :
          /\ answer.type = V3!Unhashable /\ step = "pass0"
          /\ V3!Lose([work EXCEPT !.pass0 = answer])
    BY <1>20 DEF V3!Pass0Raises, V3!AskFor
  <2>2. Answered'
    BY <1>2, <1>4, <2>1 DEF Answered, V3!Lose, V3!Unhashable
  <2>. QED
    BY <1>2, <1>7, <2>1, <2>2 DEF V3!Lose
<1>. QED
  BY <1>8, <1>9, <1>10, <1>11, <1>12, <1>13, <1>14, <1>15, <1>16, <1>18, <1>19, <1>20
     DEF V3!Next
LEMMA StandingV2 ==
    ASSUME Standing, input.analyser = "v2", V2!Next PROVE Standing' /\ input' = input
<1>0. PICK s, reply : V2!AskFor(s, reply)
  BY DEF V2!Next, V2!Pass0, V2!Pass0Raises, V2!Pass0Unreadable, V2!Pass0NoObject,
         V2!AgentRaises, V2!AgentAsksAgain, V2!AgentGivesUp, V2!Qc, V2!Main
<1>1. input' = input
  BY <1>0 DEF V2!AskFor, V2!Ask
<1>2. /\ Asking[input.analyser] = {"pass0", "qc", "main"}
      /\ retry \in BOOLEAN /\ Answered
  BY DEF Standing, Asking
<1>3. DOMAIN NoWork = {"pass0", "qc", "qc_ok", "flag", "client", "manager", "truncated"}
  BY DEF NoWork
<1>4. ASSUME work' = work PROVE Answered'
  BY <1>2, <1>4 DEF Answered
<1>. DEFINE Goes == /\ step \in Asking[input.analyser]
                    /\ step' \in {"lost"} \union Asking[input.analyser]
                    /\ retry' \in BOOLEAN /\ report' = report /\ Answered'
<1>5. ASSUME Goes PROVE Standing'
  BY <1>1, <1>5, StandingOn
<1>. SUFFICES Standing'
  BY <1>1
<1>6. CASE \/ V2!Pass0NoObject
           \/ \E s1 \in {"qc", "main"} :
                V2!AgentRaises(s1) \/ V2!AgentAsksAgain(s1) \/ V2!AgentGivesUp(s1)
  <2>1. Goes
    BY <1>2, <1>4, <1>6 DEF V2!Pass0NoObject, V2!AgentRaises, V2!AgentAsksAgain,
                            V2!AgentGivesUp, V2!Lose, V2!AskFor
  <2>. QED
    BY <2>1, <1>5
<1>7. CASE V2!Pass0
  <2>1. PICK answer \in Classifications :
          LET pass0 == V2!Classified(answer)
          IN  /\ V2!AskFor("pass0", "object")
              /\ IF pass0.type = "junk"
                 THEN V2!Made(work, V2!JunkReport(pass0))
                 ELSE V2!GoOn("qc", [work EXCEPT !.pass0 = pass0])
    BY <1>7, Zenon DEF V2!Pass0
  <2>. DEFINE pass0 == V2!Classified(answer)
  <2>. HIDE DEF pass0
  <2>2. CASE pass0.type = "junk"
    <3>1. /\ step' = "made" /\ retry' = FALSE /\ work' = work
          /\ report' = V2!JunkReport(pass0)
      BY <2>1, <2>2 DEF pass0, V2!Made
    <3>2. report' # NoReport
      BY <3>1, ReportsAreReports DEF V2!JunkReport, JunkReport, V2!NoFields, NoFields, V2!Null, Null
    <3>3. Junk'
      BY <3>1 DEF Junk, V2!JunkReport, V2!Null, Null
    <3>. QED
      BY <1>1, <1>4, <3>1, <3>2, <3>3 DEF Standing, Reported, MadeByV2
  <2>3. CASE pass0.type # "junk"
    <3>1. step = "pass0" /\ V2!GoOn("qc", [work EXCEPT !.pass0 = pass0])
      BY <2>1, <2>3 DEF pass0, V2!AskFor
    <3>2. Answered'
      BY <1>2, <1>3, <2>3, <3>1 DEF Answered, V2!GoOn
    <3>. QED
      BY <1>2, <1>5, <3>1, <3>2 DEF V2!GoOn
  <2>. QED
    BY <2>2, <2>3
<1>8. CASE V2!Pass0Unreadable
  <2>1. step = "pass0" /\ V2!GoOn("qc", [work EXCEPT !.pass0 = V2!Unreadable])
    BY <1>8 DEF V2!Pass0Unreadable, V2!AskFor
  <2>2. Answered'
    BY <1>2, <1>3, <2>1 DEF Answered, V2!GoOn, V2!Unreadable
  <2>. QED
    BY <1>2, <1>5, <2>1, <2>2 DEF V2!GoOn
<1>9. CASE V2!Qc
  <2>1. PICK answer \in QcAnswers : step = "qc" /\ V2!GoOn("main", [work EXCEPT !.qc = answer])
    BY <1>9 DEF V2!Qc, V2!AskFor
  <2>2. Answered'
    BY <1>2, <1>3, <2>1 DEF Answered, V2!GoOn
  <2>. QED
    BY <1>2, <1>5, <2>1, <2>2 DEF V2!GoOn
<1>10. CASE V2!Main
  <2>1. PICK answer \in ReportAnswers :
          LET payload == V2!Payload(work, answer)
          IN  /\ V2!AskFor("main", "object")
              /\ IF ~work.qc.object \/ payload.score = V2!Raises THEN V2!Lose(work)
                 ELSE V2!Made(work, payload)
    BY <1>10, Zenon DEF V2!Main
  <2>2. step = "main"
    BY <2>1 DEF V2!AskFor
  <2>. DEFINE payload == V2!Payload(work, answer)
  <2>. HIDE DEF payload
  <2>3. CASE V2!Lose(work)
    BY <1>2, <1>4, <1>5, <2>2, <2>3 DEF V2!Lose
  <2>4. CASE ~ V2!Lose(work)
    <3>1. work.qc.object /\ payload.score # V2!Raises /\ V2!Made(work, payload)
      BY <2>1, <2>4 DEF payload
    <3>2. step' = "made" /\ retry' = FALSE /\ work' = work /\ report' = payload /\ Answered'
      BY <1>4, <3>1 DEF V2!Made
    <3>3. report' = V2!Payload(work, answer)'
      BY <1>1, <3>2, SameReports DEF payload
    <3>4. report' # NoReport
      BY <3>2, ReportsAreReports DEF payload
    <3>5. payload.call_type # "junk" /\ payload.score # Raises
      BY <1>2, <3>1 DEF payload, V2!Payload, Answered, V2!Raises, Raises
    <3>6. MadeByV2'
      BY <3>1, <3>2, <3>3, <3>5 DEF MadeByV2, Own
    <3>. QED
      BY <1>1, <3>2, <3>4, <3>6 DEF Standing, Reported
  <2>. QED
    BY <2>3, <2>4
<1>11. CASE V2!Pass0Raises
  <2>1. PICK answer \in Classifications :
          /\ answer.type = V2!Unhashable /\ step = "pass0"
          /\ V2!Lose([work EXCEPT !.pass0 = answer])
    BY <1>11 DEF V2!Pass0Raises, V2!AskFor
  <2>2. Answered'
    BY <1>2, <1>3, <2>1 DEF Answered, V2!Lose, V2!Unhashable
  <2>. QED
    BY <1>2, <1>5, <2>1, <2>2 DEF V2!Lose
<1>. QED
  BY <1>6, <1>7, <1>8, <1>9, <1>10, <1>11 DEF V2!Next
LEMMA StandingChain == ASSUME Standing, Chain PROVE Standing'
<1>. DEFINE chained == Chained(report)
<1>1. /\ input.caller = "chain" /\ step = "made" /\ input' = input /\ retry' = retry
      /\ work' = work
      /\ step' = IF chained.score = Raises THEN "lost" ELSE "done"
      /\ report' = IF chained.score = Raises THEN NoReport ELSE chained
  BY DEF Chain
<1>2. Reported /\ Answered' /\ input.analyser \in {"v2", "v3"}
  BY <1>1, InputsAssumption DEF Standing, Reported, Answered
<1>3. CASE chained.score = Raises
  BY <1>1, <1>2, <1>3 DEF Standing, Reported
<1>4. CASE chained.score # Raises
  <2>1. step' = "done" /\ report' = chained /\ chained # NoReport
    BY <1>1, <1>4, ReportsAreReports
  <2>2. CASE Junk
    <3>1. \A f \in {"call_type", "is_scoreable"} : f \in DOMAIN chained /\ chained[f] = report[f]
      BY <2>2 DEF Junk, Chained
    <3>2. "score" \in DOMAIN chained /\ chained.score = report.score
      BY <2>2 DEF Junk, Chained
    <3>. HIDE DEF chained
    <3>3. Junk'
      BY <2>1, <2>2, <3>1, <3>2 DEF Junk
    <3>. QED
      BY <1>1, <1>2, <2>1, <3>3 DEF Standing, Reported, MadeByV2, MadeByV3
  <2>3. ASSUME NEW payload, Own(payload)
        PROVE  /\ payload.call_type # "junk" /\ payload.score # Raises
               /\ report' = Chained(payload) /\ report'.score # Raises
    BY <1>1, <1>4, <2>1, <2>3 DEF Own
  <2>4. CASE ~ Junk /\ input.analyser = "v2"
    <3>1. PICK answer \in ReportAnswers : Own(V2!Payload(work, answer)) /\ work.qc.object
      BY <1>2, <2>4 DEF Standing, MadeByV2
    <3>2. (\A payload : Chained(payload)' = Chained(payload))
          /\ V2!Payload(work, answer)' = V2!Payload(work, answer)
      BY <1>1, SameReports
    <3>3. Own(V2!Payload(work, answer))'
      BY <1>1, <2>1, <2>3, <3>1, <3>2 DEF Own
    <3>. QED
      BY <1>1, <1>2, <2>1, <2>4, <3>1, <3>3 DEF Standing, Reported, MadeByV2
  <2>5. CASE ~ Junk /\ input.analyser = "v3"
    <3>1. Own(V3!Payload(work))
      BY <1>2, <2>5 DEF Standing, MadeByV3
    <3>2. (\A payload : Chained(payload)' = Chained(payload))
          /\ V3!Payload(work)' = V3!Payload(work)
      BY <1>1, SameReports
    <3>3. Own(V3!Payload(work))'
      BY <1>1, <2>1, <2>3, <3>1, <3>2 DEF Own
    <3>. QED
      BY <1>1, <1>2, <2>1, <2>5, <3>3 DEF Standing, Reported, MadeByV3
  <2>. QED
    BY <1>2, <2>2, <2>4, <2>5
<1>. QED
  BY <1>3, <1>4

\* The end of the task and of the evaluation leave the report as it was made.
LEMMA StandingKept ==
    ASSUME Standing, input' = input, work' = work, report' = report, retry' = retry,
           \/ step' = step
           \/ step \in {"made", "lost"} /\ step' = "done" /\ input.caller # "chain"
    PROVE  Standing'
<1>1. Answered' /\ (Reported <=> Reported' /\ step # "lost")
  BY DEF Standing, Answered, Reported
<1>2. Junk' <=> Junk
  BY DEF Junk
<1>3. ASSUME NEW payload, Own(payload)
      PROVE  /\ payload.call_type # "junk" /\ payload.score # Raises
             /\ \/ report' = payload
                \/ /\ input'.caller = "chain" /\ step' = "done"
                   /\ report' = Chained(payload) /\ report'.score # Raises
  BY <1>3 DEF Own
<1>4. /\ \A payload : Chained(payload)' = Chained(payload)
      /\ V3!Payload(work)' = V3!Payload(work)
      /\ \A answer : V2!Payload(work, answer)' = V2!Payload(work, answer)
  BY SameReports
<1>5. MadeByV2 => MadeByV2'
  BY <1>2, <1>3, <1>4 DEF MadeByV2, Own
<1>6. MadeByV3 => MadeByV3'
  BY <1>2, <1>3, <1>4 DEF MadeByV3, Own
<1>. QED
  BY <1>1, <1>5, <1>6 DEF Standing, Reported

LEMMA StandingNext == Standing /\ [Next]_vars => Standing'
<1>. SUFFICES ASSUME Standing, [Next]_vars PROVE Standing'
  OBVIOUS
<1>1. CASE Start
  <2>1. /\ step' = "pass0" /\ input' = input /\ report' = NoReport /\ Answered'
        /\ retry' = retry
    BY <1>1, NotMade DEF Start, Standing, Answered
  <2>2. input.analyser \in {"v2", "v3"} /\ "pass0" \in Asking[input.analyser]
    BY InputsAssumption DEF Standing, Asking
  <2>. QED
    BY <2>1, <2>2 DEF Standing, Reported
<1>2. CASE Analyse
  BY <1>2, StandingV2, StandingV3 DEF Analyse
<1>3. CASE Chain
  BY <1>3, StandingChain
<1>4. CASE Settle
  BY <1>4, StandingKept DEF Settle
<1>5. CASE Score
  BY <1>5, StandingKept DEF Score
<1>6. CASE UNCHANGED vars
  BY <1>6, StandingKept DEF vars, analysis
<1>. QED
  BY <1>1, <1>2, <1>3, <1>4, <1>5, <1>6 DEF Next

\* At every moment the analysis stands somewhere, and its report is made of its answers.
THEOREM AlwaysStanding == Spec => []Standing
BY StandingInit, StandingNext, PTL DEF Spec
-----------------------------------------------------------------------------
(***************************************************************************)
(* What a report that was written says.                                    *)
(***************************************************************************)
\* A chain leaves of a v3 report everything but its score and its version.
LEMMA WrittenReport ==
    ASSUME Standing, Written
    PROVE  LET payload == V3!Payload(work)
           IN  \A f \in DOMAIN payload \ {"version", "score", "score_own"} :
                 report[f] = payload[f]
<1>1. Own(V3!Payload(work))
  BY DEF Written, Standing, MadeByV3, Junk
<1>2. report = V3!Payload(work) \/ report = Chained(V3!Payload(work))
  BY <1>1 DEF Own
<1>. QED
  BY <1>2, ChainedKeeps

\* The checks see the roles the analysis worked with.
LEMMA RolesFromLabels == Standing => EvalSeesTheSameRoles
<1>. SUFFICES ASSUME Standing, Written, NEW i \in DOMAIN input.transcript
              PROVE  RoleSeen(report, input.transcript, i) = V3!Segments[i].speaker
  BY DEF EvalSeesTheSameRoles
<1>1. report.labels = V3!SpeakerLabels(work.flag)
  BY WrittenReport DEF V3!Payload
<1>2. TrustedSwap(report) <=> V3!Detected = "swapped"
  <2>1. report.labels.source = IF V3!Detected = "unknown" THEN "model" ELSE "detector"
    BY <1>1 DEF V3!SpeakerLabels
  <2>2. V3!Detected # "unknown" => (report.labels.swapped <=> V3!Detected = "swapped")
    <3>. DEFINE turned == V3!Detected = "swapped"
    <3>1. V3!Detected # "unknown" => V3!SpeakerLabels(work.flag).swapped = turned
      BY DEF V3!SpeakerLabels
    <3>. HIDE DEF turned
    <3>2. V3!Detected # "unknown" => (report.labels.swapped <=> turned)
      BY <1>1, <3>1
    <3>. QED
      BY <3>2 DEF turned
  <2>3. TrustedSwap(report) <=> report.labels.swapped /\ report.labels.source = "detector"
    BY DEF TrustedSwap
  <2>. QED
    BY <2>1, <2>2, <2>3
<1>3. input.transcript \in Seq(Turns)
  BY InputsAssumption DEF Standing
<1>. DEFINE turn == input.transcript[i]
<1>4. turn \in Turns
  BY <1>3
<1>5. Relabelled(input.transcript)[i].speaker = Swap(turn.speaker)
  BY <1>4 DEF Relabelled, Turns
<1>6. V3!Relabelled(input.transcript)[i].speaker = Relabelled(input.transcript)[i].speaker
  BY DEF V3!Relabelled, Relabelled, V3!Swap, Swap, V3!Manager, Manager, V3!Client, Client,
         V3!NoLabel, NoLabel
<1>. QED
  BY <1>2, <1>5, <1>6 DEF RoleSeen, V3!Segments

\* Who said what: the evaluation and the v3 analysis agree on it, in every report.
THEOREM RolesAgree == Spec => []EvalSeesTheSameRoles
BY AlwaysStanding, RolesFromLabels, PTL
-----------------------------------------------------------------------------
(***************************************************************************)
(* The checks and the repair.                                              *)
(***************************************************************************)
LEMMA DoneStays ==
    ASSUME step = "done", [Next]_vars PROVE UNCHANGED vars
<1>1. ~ Start /\ ~ Chain /\ ~ Settle /\ ~ Score
  BY DEF Start, Chain, Settle, Score
<1>2. ~ V2!Next
  BY DEF V2!Next, V2!Pass0, V2!Pass0Raises, V2!Pass0Unreadable, V2!Pass0NoObject,
         V2!AgentRaises, V2!AgentAsksAgain, V2!AgentGivesUp, V2!Qc, V2!Main, V2!AskFor
<1>3. ~ V3!Next
  BY DEF V3!Next, V3!Unreachable, V3!AskAgain, V3!Pass0,
         V3!Pass0Raises, V3!Pass0Unreadable, V3!Qc, V3!QcGivesUp, V3!Analysis,
         V3!FormatClient, V3!FormatClientGivesUp, V3!FormatManager, V3!FormatManagerGivesUp, V3!AskFor
<1>. QED
  BY <1>1, <1>2, <1>3 DEF Next, Analyse

\* The scores there are, are those of the report there is.
ScoredReport ==
    scores # NoScores =>
      /\ step = "done" /\ input.caller = "eval"
      /\ scores = Scores(Checked(report), input.transcript, Schemas)

LEMMA ScoredReportAlways == Spec => []ScoredReport
<1>1. Init => ScoredReport
  BY DEF Init, ScoredReport
<1>2. ScoredReport /\ [Next]_vars => ScoredReport'
  <2>. SUFFICES ASSUME ScoredReport, [Next]_vars PROVE ScoredReport'
    OBVIOUS
  <2>1. CASE scores # NoScores
    <3>1. step = "done"
      BY <2>1 DEF ScoredReport
    <3>2. input' = input /\ step' = step /\ report' = report /\ scores' = scores
      BY <3>1, DoneStays DEF vars, analysis
    <3>. QED
      BY <2>1, <3>2 DEF ScoredReport
  <2>2. CASE scores = NoScores /\ Score
    BY <2>2 DEF Score, ScoredReport
  <2>3. CASE scores = NoScores /\ ~ Score
    <3>1. scores' = NoScores
      BY <2>3 DEF Next, vars, analysis, Start, Analyse, Chain, Settle
    <3>. QED
      BY <3>1 DEF ScoredReport
  <2>. QED
    BY <2>1, <2>2, <2>3
<1>. QED
  BY <1>1, <1>2, PTL DEF Spec

\* A check is told the model's own claim, whatever the repair made of the timecode.
LEMMA BuiltAsStated ==
    ASSUME NEW items, Phrases(items), NEW segments
    PROVE  AllBuilt([i \in DOMAIN items |-> V3!Repaired(items[i], segments)]) = AllBuilt(items)
<1>1. ASSUME NEW i \in DOMAIN items
      PROVE  Built(V3!Repaired(items[i], segments)) = Built(items[i])
  <2>. DEFINE item == items[i]
              real == V3!RealSegment(item.quote, item.timecode, segments)
  <2>1. /\ DOMAIN item = {"quote", "timecode", "claimed"}
        /\ item.timecode \in Nat \union {NoTimecode} /\ item.claimed = NoClaim
    BY DEF Phrases
  <2>2. CASE real = 0 \/ segments[real].start = item.timecode
    BY <2>2 DEF V3!Repaired
  <2>3. CASE ~ (real = 0 \/ segments[real].start = item.timecode)
    <3>. DEFINE repaired == [item EXCEPT !.timecode = segments[real].start,
                                         !.claimed = item.timecode]
    <3>1. V3!Repaired(item, segments) = repaired
      BY <2>3 DEF V3!Repaired
    <3>. HIDE DEF item, real
    <3>2. /\ repaired.quote = item.quote /\ repaired.claimed = item.timecode
          /\ "claimed" \in DOMAIN repaired
      BY <2>1
    <3>. HIDE DEF repaired
    <3>3. Stated(repaired) = item.timecode /\ Stated(item) = item.timecode
      BY <2>1, <3>2 DEF Stated, NoClaim, NoTimecode
    <3>. QED
      BY <3>1, <3>2, <3>3 DEF Built, item
  <2>. QED
    BY <2>2, <2>3
<1>. QED
  BY <1>1 DEF AllBuilt
\* Reports that say the same, in other words of the model's or the code's, score the same.
LEMMA SameScores ==
    ASSUME NEW r, NEW s, NEW segments, NEW schemas,
           AllBuilt(r.client) = AllBuilt(s.client), AllBuilt(r.good) = AllBuilt(s.good),
           AllBuilt(r.bad) = AllBuilt(s.bad), r.qc = s.qc, r.labels = s.labels,
           r.version = s.version, r.enums = s.enums
    PROVE  Scores(r, segments, schemas) = Scores(s, segments, schemas)
<1>1. QuoteItems(r) = QuoteItems(s) /\ SpeechPhrases(r) = SpeechPhrases(s)
  BY DEF QuoteItems, SpeechPhrases
<1>2. Grounding(r, segments) = Grounding(s, segments)
  BY <1>1 DEF Grounding
<1>3. Substance(r) = Substance(s)
  BY <1>1 DEF Substance
<1>4. \A item : Attribution(r, item, segments) = Attribution(s, item, segments)
  BY DEF Attribution, RoleSeen, TrustedSwap
<1>5. Attributions(r, segments) = Attributions(s, segments)
  BY <1>1, <1>4 DEF Attributions
<1>6. Enums(r, schemas) = Enums(s, schemas)
  BY DEF Enums
<1>. QED
  BY <1>2, <1>3, <1>5, <1>6 DEF Scores

LEMMA RepairsAreSeenThrough == Standing /\ ScoredReport => RepairHidesNoGuess
<1>. SUFFICES ASSUME Standing, ScoredReport, scores # NoScores, Written
              PROVE  scores = Scores([report EXCEPT !.client = work.client.items,
                                                    !.good = work.manager.good,
                                                    !.bad = work.manager.bad],
                                     input.transcript, Schemas)
  BY DEF RepairHidesNoGuess
<1>. DEFINE payload == V3!Payload(work)
            answers == [report EXCEPT !.client = work.client.items, !.good = work.manager.good,
                                      !.bad = work.manager.bad]
<1>1. report = payload /\ report.call_type # "junk"
  BY DEF Standing, ScoredReport, Written, MadeByV3, Junk, Own
<1>2. scores = Scores(report, input.transcript, Schemas)
  BY <1>1 DEF ScoredReport, Checked
<1>3. /\ Phrases(work.client.items) /\ Phrases(work.manager.good) /\ Phrases(work.manager.bad)
  BY AnswersAssumption DEF Standing, Answered, NoWork, NoManagerPart, Phrases
<1>4. /\ {"client", "good", "bad", "qc", "labels", "version", "enums"} \subseteq DOMAIN report
      /\ report.client = V3!AllRepaired(work.client.items)
      /\ report.good = V3!AllRepaired(work.manager.good)
      /\ report.bad = V3!AllRepaired(work.manager.bad)
  BY <1>1 DEF V3!Payload
<1>5. /\ AllBuilt(report.client) = AllBuilt(work.client.items)
      /\ AllBuilt(report.good) = AllBuilt(work.manager.good)
      /\ AllBuilt(report.bad) = AllBuilt(work.manager.bad)
  BY <1>3, <1>4, BuiltAsStated DEF V3!AllRepaired
<1>. HIDE DEF payload
<1>6. /\ answers.client = work.client.items
      /\ answers.good = work.manager.good /\ answers.bad = work.manager.bad
      /\ answers.qc = report.qc /\ answers.labels = report.labels
      /\ answers.version = report.version /\ answers.enums = report.enums
  BY <1>4
<1>. HIDE DEF answers
<1>7. Scores(report, input.transcript, Schemas) = Scores(answers, input.transcript, Schemas)
  BY <1>5, <1>6, SameScores
<1>. QED
  BY <1>2, <1>7 DEF answers

\* The scores of an evaluation are those of the model's answers, not of what repairing
\* their timecodes made of them (timecodes.py, grounding.py).
THEOREM RepairsHideNothing == Spec => []RepairHidesNoGuess
BY AlwaysStanding, ScoredReportAlways, RepairsAreSeenThrough, PTL
-----------------------------------------------------------------------------
(***************************************************************************)
(* Criteria.                                                               *)
(***************************************************************************)
\* Every number a body may hold is one, Null, or Text.
LEMMA FieldValue ==
    ASSUME NEW qc, Readable(qc), NEW k \in DOMAIN qc,
           NEW f \in ScoreKeys \union {"scalar"}, NEW default \in {0, Null}
    PROVE  /\ Field(qc[k], f, default) \in Nat \union {Null, Text}
           /\ f \notin DOMAIN qc[k] => Field(qc[k], f, default) = default
           /\ f \in DOMAIN qc[k] => Field(qc[k], f, default) = qc[k][f]
BY FieldNumber DEF Field

\* A criterion that is listed as failed earned less than its full points, unless the
\* points are no number, or it is the techniques and no number of objections is told.
LEMMA FailedCosts ==
    ASSUME NEW qc, Readable(qc), NEW k \in DOMAIN qc,
           CriterionPassed(k, qc[k], qc) = "failed"
    PROVE  \/ Points(qc, k) \in {Raises} \union 0 .. Full(qc) - 1
           \/ k = Techniques /\ NothingToHandle(qc) /\ ~ NoObjections(qc)
<1>. DEFINE body == qc[k]
            unit == Unit(qc)
<1>1. /\ Advantages # AllHandled /\ Advantages # Techniques /\ AllHandled # Techniques
      /\ 0 \in {0, Null} /\ Null \in {0, Null}
      /\ {"score", "count", "total", "handled", "scalar"} \subseteq ScoreKeys \union {"scalar"}
  BY DEF Advantages, AllHandled, Techniques, ScoreKeys
<1>2. unit \in Nat \ {0} /\ Full(qc) = 10 * unit /\ 0 \in 0 .. Full(qc) - 1
  BY UnitNumber DEF Full
<1>. HIDE DEF unit
<1>3. ScorePoints(k, 0, unit) = 0
  BY <1>2 DEF ScorePoints
<1>4. CASE k = Techniques /\ NothingToHandle(qc)
  <2>1. ~ NoObjections(qc)
    BY <1>1, <1>4 DEF CriterionPassed
  <2>. QED
    BY <1>4, <2>1
<1>5. CASE Item(qc, k) = Scalar(0) /\ ~ (k = Techniques /\ NothingToHandle(qc))
  <2>1. ~ IsDict(Scalar(0)) /\ Scalar(0).scalar = 0
    BY DEF IsDict, Scalar
  <2>2. AdvantagePoints(Scalar(0), unit) = 0
    <3>1. Min({2 * unit * 0, 10 * unit}) = 0
      BY <1>2, MinOfTwo
    <3>. QED
      BY <2>1, <3>1 DEF AdvantagePoints
  <2>3. HandledPoints(Scalar(0), unit) = 0
    BY <1>2, <2>1 DEF HandledPoints
  <2>4. Points(qc, k) = 0
    BY <1>1, <1>5, <1>3, <2>1, <2>2, <2>3 DEF Points, unit
  <2>. QED
    BY <1>2, <2>4
<1>6. CASE Item(qc, k) = body /\ ~ (k = Techniques /\ NothingToHandle(qc))
  <2>. HIDE DEF body
  <2>0. IsDict(body) => Field(body, "score", 0) # Null
    BY DEF CriterionPassed, body
  <2>1. CASE k = Advantages
    <3>1. AdvantagesVerdict(body) = "failed"
      BY <1>1, <2>0, <2>1 DEF CriterionPassed, body
    <3>. SUFFICES AdvantagePoints(body, unit) \in {Raises} \union 0 .. Full(qc) - 1
      BY <1>1, <1>6, <2>1 DEF Points, unit
    <3>2. CASE IsDict(body)
      <4>1. /\ Field(body, "count", 0) \in Nat \union {Null, Text}
            /\ OrZero(Field(body, "count", Null)) = OrZero(Field(body, "count", 0))
        BY <1>1, FieldValue DEF body, OrZero
      <4>2. Field(body, "count", 0) # Text /\ ~ OrZero(Field(body, "count", 0)) >= 5
        BY <3>1, <3>2, <4>1 DEF AdvantagesVerdict, Verdict, AdvantagesBar, OrZero, Null, Text
      <4>. DEFINE count == Field(body, "count", 0)
      <4>3. AdvantagePoints(body, unit) = IF count < 0 THEN Raises
                                          ELSE Min({2 * unit * count, 10 * unit})
        BY <3>2 DEF AdvantagePoints
      <4>4. count \in Nat \union {Null} /\ (count \in Nat => count < 5)
        BY <4>1, <4>2 DEF OrZero, Null, Text
      <4>. HIDE DEF count
      <4>5. CASE count \in Nat
        <5>1. count \in {0, 1, 2, 3, 4}
          BY <4>4, <4>5
        <5>2. 2 * unit * count \in Nat /\ 2 * unit * count < 10 * unit
          BY <1>2, <5>1
        <5>3. Min({2 * unit * count, 10 * unit}) = 2 * unit * count
          BY <1>2, <5>2, MinOfTwo
        <5>. QED
          BY <1>2, <4>3, <4>5, <5>2, <5>3
      <4>6. CASE count = Null
        BY <4>3, <4>6 DEF Null
      <4>. QED
        BY <4>4, <4>5, <4>6
    <3>3. CASE ~ IsDict(body)
      <4>1. AdvantagePoints(body, unit) = Min({2 * unit * 0, 10 * unit})
        BY <3>3 DEF AdvantagePoints
      <4>2. Min({2 * unit * 0, 10 * unit}) = 0
        BY <1>2, MinOfTwo
      <4>. QED
        BY <1>2, <4>1, <4>2
    <3>. QED
      BY <3>2, <3>3
  <2>2. CASE k = AllHandled
    <3>1. HandledVerdict(body) = "failed"
      BY <1>1, <2>0, <2>2 DEF CriterionPassed, body
    <3>. DEFINE total == OrZero(Field(body, "total", 0))
                handled == OrZero(Field(body, "handled", 0))
    <3>2. /\ total = OrZero(Field(body, "total", Null))
          /\ handled = OrZero(Field(body, "handled", Null))
          /\ total \in Nat \union {Text} /\ handled \in Nat \union {Text}
          /\ total > 0 => Field(body, "total", 0) = total
      BY <1>1, FieldValue DEF body, OrZero
    <3>. HIDE DEF total, handled
    <3>3. IsDict(body) /\ Text \notin {total, handled} /\ total # 0 /\ ~ handled >= total
      BY <3>1, <3>2 DEF HandledVerdict, Verdict
    <3>4. HandledPoints(body, unit) = 10 * handled
      BY <3>3 DEF HandledPoints, total, handled
    <3>5. total \in Nat /\ handled \in Nat /\ 0 < total /\ handled < total
      BY <3>2, <3>3
    <3>6. unit = total
      BY <1>6, <2>2, <3>2, <3>5 DEF Unit, unit
    <3>7. 10 * handled \in 0 .. Full(qc) - 1
      BY <1>2, <3>5, <3>6
    <3>. QED
      BY <1>1, <1>6, <2>2, <3>4, <3>7 DEF Points, unit
  <2>3. CASE k \notin {Advantages, AllHandled}
    <3>. DEFINE score == IF IsDict(body) THEN Field(body, "score", Null) ELSE body.scalar
    <3>1. score \in Nat \union {Null, Text}
      BY <1>1, FieldValue DEF body, IsDict
    <3>. HIDE DEF score
    <3>2. score >= 0 /\ ~ score > 0
      <4>1. CriterionPassed(k, body, qc) =
              IF k = Techniques /\ NoObjections(qc) THEN "na"
              ELSE IF score < 0 THEN "na" ELSE Verdict(score > 0)
        BY <2>0, <2>3 DEF CriterionPassed, score
      <4>. QED
        BY <3>1, <4>1 DEF Verdict, Null, Text, body
    <3>3. score = 0
      BY <3>1, <3>2 DEF Null, Text
    <3>4. IsDict(body) => Field(body, "score", Null) # Null /\ body.score = 0
      BY <3>3 DEF score, Field, Null
    <3>5. ~ IsDict(body) => body.scalar = 0
      BY <3>3 DEF score
    <3>6. Points(qc, k) = ScorePoints(k, 0, unit)
      BY <1>6, <2>3, <3>4, <3>5 DEF Points, unit
    <3>. QED
      BY <1>2, <1>3, <3>6
  <2>. QED
    BY <2>1, <2>2, <2>3
<1>. QED
  BY <1>4, <1>5, <1>6 DEF Item
\* What the code makes of an answer is readable if the answer is, and wants the same numbers.
LEMMA ApplicableQc ==
    ASSUME NEW answer, answer.object => Readable(answer.scores),
           NEW segments, NEW type, NEW primary, NEW lost
    PROVE  LET raw == V3!ScoresOf(answer)
               qc == V3!Applicable(V3!Projected(raw, segments), type, primary, lost)
           IN  Readable(raw) /\ Readable(qc) /\ (NoNumber(qc) => NoNumber(raw))
<1>. DEFINE raw == V3!ScoresOf(answer)
            kept == V3!Projected(raw, segments)
            naKeys == (IF type = "service" THEN DOMAIN kept ELSE {})
                        \union (IF type = "sales" /\ ~primary THEN V3!RepeatSkip ELSE {})
                        \union (IF lost THEN V3!ConnectionLostNA ELSE {})
            qc == V3!ApplyNa(kept, naKeys)
<1>1. Readable(raw)
  BY DEF V3!ScoresOf, V3!NoFields, Readable
<1>. HIDE DEF raw
<1>2. DOMAIN kept = DOMAIN raw
  BY DEF V3!Projected
<1>3. ASSUME NEW k \in DOMAIN raw
      PROVE  /\ IsDict(kept[k]) <=> IsDict(raw[k])
             /\ \A f \in ScoreKeys \union {"scalar"} :
                  /\ f \in DOMAIN kept[k] <=> f \in DOMAIN raw[k]
                  /\ f \in DOMAIN kept[k] => kept[k][f] = raw[k][f]
  <2>1. CASE ~ IsDict(raw[k])
    <3>1. kept[k] = raw[k]
      BY <2>1 DEF V3!Projected, V3!IsDict, IsDict
    <3>. QED
      BY <3>1
  <2>2. CASE IsDict(raw[k])
    <3>1. V3!IsDict(raw[k])
      BY <2>2 DEF V3!IsDict, IsDict
    <3>2. /\ DOMAIN kept[k] = (DOMAIN raw[k] \intersect ScoreKeys) \union QuoteKeys
          /\ \A f \in DOMAIN raw[k] \intersect ScoreKeys : kept[k][f] = raw[k][f]
      BY <3>1 DEF V3!Projected, V3!ScoreKeys, ScoreKeys, V3!QuoteKeys, QuoteKeys
    <3>3. \A f \in ScoreKeys \union {"scalar"} : f \notin QuoteKeys
      BY DEF ScoreKeys, QuoteKeys
    <3>4. "scalar" \notin ScoreKeys
      BY DEF ScoreKeys
    <3>. HIDE DEF kept
    <3>. QED
      BY <2>2, <3>2, <3>3, <3>4 DEF IsDict
  <2>. QED
    BY <2>1, <2>2
<1>. HIDE DEF kept
<1>4. Readable(kept)
  BY <1>1, <1>2, <1>3 DEF Readable
<1>5. NoNumber(kept) => NoNumber(raw)
  <2>1. {"count", "total", "handled"} \subseteq ScoreKeys
    BY DEF ScoreKeys
  <2>2. \A k \in DOMAIN raw : \A f \in {"count", "total", "handled"} :
          Field(kept[k], f, 0) = Field(raw[k], f, 0)
    BY <1>3, <2>1 DEF Field
  <2>. QED
    BY <1>2, <1>3, <2>2 DEF NoNumber
<1>. HIDE DEF naKeys
<1>6. /\ DOMAIN qc = DOMAIN kept
      /\ \A k \in DOMAIN kept : qc[k] = IF k \in naKeys THEN Na ELSE kept[k]
  BY DEF V3!ApplyNa, V3!Na, Na, V3!Null, Null
<1>. HIDE DEF qc
<1>7. /\ DOMAIN Na = {"score"} /\ Na.score = Null
      /\ \A f \in {"count", "total", "handled"} : Field(Na, f, 0) = 0
  BY DEF Na, Field
<1>8. Readable(qc)
  BY <1>4, <1>6, <1>7 DEF Readable
<1>9. NoNumber(qc) => NoNumber(kept)
  BY <1>6, <1>7 DEF NoNumber, Null, Text
<1>. QED
  BY <1>1, <1>5, <1>8, <1>9 DEF V3!Applicable, kept, naKeys, qc, raw
\* CallReportV3 has its own copy of the operators it extends; they say the same.
LEMMA SameVerdicts ==
    \A key, body, qc : V3!CriterionPassed(key, body, qc) = CriterionPassed(key, body, qc)
<1>1. /\ \A body : V3!IsDict(body) = IsDict(body)
      /\ \A body, key, default : V3!Field(body, key, default) = Field(body, key, default)
      /\ V3!Null = Null /\ V3!Text = Text /\ V3!AdvantagesBar = AdvantagesBar
      /\ V3!Advantages = Advantages /\ V3!AllHandled = AllHandled /\ V3!Techniques = Techniques
      /\ \A holds : V3!Verdict(holds) = Verdict(holds)
  BY DEF V3!IsDict, IsDict, V3!Field, Field, V3!Null, Null, V3!Text, Text, V3!Advantages,
         Advantages, V3!AllHandled, AllHandled, V3!Techniques, Techniques, V3!Verdict, Verdict,
         V3!AdvantagesBar, AdvantagesBar
<1>2. \A value : V3!OrZero(value) = OrZero(value)
  BY <1>1 DEF V3!OrZero, OrZero
<1>3. \A body : V3!AdvantagesVerdict(body) = AdvantagesVerdict(body)
  BY <1>1, <1>2 DEF V3!AdvantagesVerdict, AdvantagesVerdict
<1>4. \A body : V3!HandledVerdict(body) = HandledVerdict(body)
  BY <1>1, <1>2 DEF V3!HandledVerdict, HandledVerdict
<1>5. \A qc : V3!NoObjections(qc) <=> NoObjections(qc)
  BY <1>1 DEF V3!NoObjections, NoObjections
<1>. QED
  BY <1>1, <1>3, <1>4, <1>5 DEF V3!CriterionPassed, CriterionPassed

\* The qc of a v3 report: readable, and its lists are those of the criteria.
LEMMA WrittenQc ==
    ASSUME Standing, Written
    PROVE  /\ Readable(report.qc)
           /\ report.passed = Listed(report.qc, "passed")
           /\ report.failed = Listed(report.qc, "failed")
<1>. DEFINE payload == V3!Payload(work)
<1>1. payload.qc = V3!Applicable(V3!Projected(V3!ScoresOf(work.qc), V3!Segments),
                                 work.pass0.type, V3!IsPrimary, work.pass0.lost)
  BY DEF V3!Payload
<1>2. work.qc.object => Readable(work.qc.scores)
  BY AnswersAssumption DEF Standing, Answered, NoAnswerToQc
<1>3. Readable(payload.qc)
  BY <1>1, <1>2, ApplicableQc
<1>4. /\ payload.passed = V3!Listed(payload.qc, "passed")
      /\ payload.failed = V3!Listed(payload.qc, "failed")
  BY DEF V3!Payload
<1>5. \A qc, verdict : V3!Listed(qc, verdict) = Listed(qc, verdict)
  BY SameVerdicts DEF V3!Listed, Listed
<1>6. /\ {"qc", "passed", "failed"} \subseteq DOMAIN payload
      /\ report.qc = payload.qc /\ report.passed = payload.passed
      /\ report.failed = payload.failed
  BY WrittenReport DEF V3!Payload
<1>. QED
  BY <1>3, <1>4, <1>5, <1>6
-----------------------------------------------------------------------------
(***************************************************************************)
(* Requests and their stamps.                                              *)
(***************************************************************************)
Appended(s, t, e) ==
    /\ DOMAIN s = 1 .. Len(s) /\ Len(s) \in Nat
    /\ DOMAIN t = 1 .. Len(s) + 1 /\ Len(t) = Len(s) + 1
    /\ \A i \in 1 .. Len(s) : t[i] = s[i]
    /\ t[Len(s) + 1] = e

\* What Append does to a sequence of anything.
LEMMA Appending ==
    ASSUME NEW R, NEW s \in Seq(R), NEW e
    PROVE  Appended(s, Append(s, e), e) /\ \E Q : Append(s, e) \in Seq(Q)
<1>. DEFINE Q == R \union {e}
<1>1. s \in Seq(Q) /\ e \in Q
  OBVIOUS
<1>2. Append(s, e) \in Seq(Q)
  BY <1>1
<1>. HIDE DEF Q
<1>3. Appended(s, Append(s, e), e)
  BY <1>1 DEF Appended
<1>. QED
  BY <1>2, <1>3

\* What every request does: it is sent, and stamped if it was answered.
Asked(stage, label, reply) ==
    /\ input' = input /\ context' = context
    /\ \E endpoint, extras :
         sent' = Append(sent, [label |-> label, reply |-> reply,
                               endpoint |-> endpoint, extras |-> extras])
    /\ reply = "transport" => buffer' = buffer
    /\ reply # "transport" /\ buffer.open =>
         \E stamp : /\ buffer' = [buffer EXCEPT !.stamps = Append(@, stamp)]
                    /\ stamp.request_id = Len(sent) + 1 /\ stamp.worker_label = label
                    /\ stamp.stage = stage /\ stamp.entity_id = context.entity_id

\* Both analyses ask in this way.
LEMMA AskedV3 ==
    ASSUME NEW stage, stage # None, NEW label, NEW reply, Len(sent) \in Nat,
           V3!Ask(stage, label, reply)
    PROVE  Asked(stage, label, reply)
<1>. DEFINE bound == V3!Bound(context, [stage |-> stage], V3!Runtime)
            id == IF reply = "transport" THEN V3!NoAnswer ELSE Len(sent) + 1
            headers == IF V3!Endpoint = V3!Direct THEN <<>> ELSE [session_id |-> id]
            response == [id |-> id, headers |-> headers]
            stamp == V3!Stamp(bound, response, label)
            request == [label |-> label, reply |-> reply, endpoint |-> V3!Endpoint,
                        extras |-> V3!Extras(bound, label, "chat", input.proxy.enabled)]
<1>1. /\ buffer' = V3!Traced(buffer, bound, response, label)
      /\ sent' = Append(sent, request) /\ input' = input /\ context' = context
  BY DEF V3!Ask
<1>2. bound.stage = stage /\ bound.entity_id = context.entity_id
  BY DEF V3!Bound, V3!Fields, V3!RuntimeFields, V3!None, None
<1>. HIDE DEF bound
<1>3. response.id = id
  OBVIOUS
<1>. HIDE DEF headers
<1>4. /\ stamp.request_id = id /\ stamp.worker_label = label
      /\ stamp.stage = stage /\ stamp.entity_id = context.entity_id
  BY <1>2, <1>3 DEF V3!Stamp, V3!Fields, V3!RuntimeFields, V3!Headers, V3!OfTheAnswer
<1>. HIDE DEF stamp, response
<1>5. reply = "transport" => buffer' = buffer
  BY <1>1, <1>3 DEF V3!Traced
<1>6. reply # "transport" /\ buffer.open => buffer' = [buffer EXCEPT !.stamps = Append(@, stamp)]
  <2>1. reply # "transport" => id # V3!NoAnswer
    BY DEF V3!NoAnswer
  <2>. QED
    BY <1>1, <1>3, <2>1 DEF V3!Traced, V3!Pushed, stamp
<1>7. \E endpoint, extras :
        sent' = Append(sent, [label |-> label, reply |-> reply,
                              endpoint |-> endpoint, extras |-> extras])
  BY <1>1
<1>. HIDE DEF request
<1>. QED
  BY <1>1, <1>4, <1>5, <1>6, <1>7 DEF Asked

LEMMA AskedV2 ==
    ASSUME NEW stage, stage # None, NEW label, NEW reply, Len(sent) \in Nat,
           V2!Ask(stage, label, reply)
    PROVE  Asked(stage, label, reply)
<1>. DEFINE bound == V2!Bound(context, [stage |-> stage], V2!Runtime)
            id == IF reply = "transport" THEN V2!NoAnswer ELSE Len(sent) + 1
            headers == IF V2!Endpoint = V2!Direct THEN <<>> ELSE [session_id |-> id]
            response == [id |-> id, headers |-> headers]
            stamp == V2!Stamp(bound, response, label)
            request == [label |-> label, reply |-> reply, endpoint |-> V2!Endpoint,
                        extras |-> V2!Extras(bound, label, "chat", input.proxy.enabled)]
<1>1. /\ buffer' = V2!Traced(buffer, bound, response, label)
      /\ sent' = Append(sent, request) /\ input' = input /\ context' = context
  BY DEF V2!Ask
<1>2. bound.stage = stage /\ bound.entity_id = context.entity_id
  BY DEF V2!Bound, V2!Fields, V2!RuntimeFields, V2!None, None
<1>. HIDE DEF bound
<1>3. response.id = id
  OBVIOUS
<1>. HIDE DEF headers
<1>4. /\ stamp.request_id = id /\ stamp.worker_label = label
      /\ stamp.stage = stage /\ stamp.entity_id = context.entity_id
  BY <1>2, <1>3 DEF V2!Stamp, V2!Fields, V2!RuntimeFields, V2!Headers, V2!OfTheAnswer
<1>. HIDE DEF stamp, response
<1>5. reply = "transport" => buffer' = buffer
  BY <1>1, <1>3 DEF V2!Traced
<1>6. reply # "transport" /\ buffer.open => buffer' = [buffer EXCEPT !.stamps = Append(@, stamp)]
  <2>1. reply # "transport" => id # V2!NoAnswer
    BY DEF V2!NoAnswer
  <2>. QED
    BY <1>1, <1>3, <2>1 DEF V2!Traced, V2!Pushed, stamp
<1>7. \E endpoint, extras :
        sent' = Append(sent, [label |-> label, reply |-> reply,
                              endpoint |-> endpoint, extras |-> extras])
  BY <1>1
<1>. HIDE DEF request
<1>. QED
  BY <1>1, <1>4, <1>5, <1>6, <1>7 DEF Asked

\* A request of an analysis is made for the stage that its label names.
LabelOf(s) == IF input.analyser = "v2" THEN V2!Label(s) ELSE V3!Label(s)
LEMMA AnalysesAsk ==
    ASSUME Standing, Analyse, Len(sent) \in Nat
    PROVE  /\ step \in Asking[input.analyser]
           /\ step' \in {"made", "lost"} \union Asking[input.analyser]
           /\ \E stage, label, reply :
                /\ Asked(stage, label, reply)
                /\ label[1] = LabelOf(step) /\ stage = StageOf[label[1]]
<1>1. CASE input.analyser = "v2" /\ V2!Next
  <2>1. Asking[input.analyser] = {"pass0", "qc", "main"}
    BY <1>1 DEF Asking
  <2>2. PICK s \in {"pass0", "qc", "main"} : \E reply : V2!AskFor(s, reply)
    BY <1>1 DEF V2!Next, V2!Pass0, V2!Pass0Raises, V2!Pass0Unreadable, V2!Pass0NoObject,
                V2!AgentRaises, V2!AgentAsksAgain, V2!AgentGivesUp, V2!Qc, V2!Main
  <2>3. PICK reply : V2!AskFor(s, reply)
    BY <2>2
  <2>. DEFINE label == <<V2!Label(s)>>
  <2>4. step = s /\ V2!Ask(s, label, reply) /\ label[1] = LabelOf(s)
    BY <1>1, <2>3 DEF V2!AskFor, LabelOf
  <2>5. s # None /\ s = StageOf[LabelOf(s)]
    BY <1>1 DEF None, StageOf, LabelOf, V2!Label
  <2>6. Asked(s, label, reply)
    BY <2>4, <2>5, AskedV2
  <2>7. step' \in {"made", "lost", "qc", "main"}
    BY <1>1 DEF V2!Next, V2!Pass0, V2!Pass0Raises, V2!Pass0Unreadable, V2!Pass0NoObject,
                V2!AgentRaises, V2!AgentAsksAgain, V2!AgentGivesUp, V2!Qc, V2!Main,
                V2!Made, V2!Lose, V2!GoOn, V2!AskFor
  <2>. QED
    BY <2>1, <2>4, <2>5, <2>6, <2>7
<1>2. CASE input.analyser = "v3" /\ V3!Next
  <2>1. Asking[input.analyser] = {"pass0", "qc", "analysis", "format_client", "format_manager"}
    BY <1>2 DEF Asking
  <2>2. PICK s \in Asking[input.analyser] : \E reply : V3!AskFor(s, reply)
    BY <1>2, <2>1 DEF V3!Next, V3!Unreachable, V3!AskAgain, V3!Pass0,
         V3!Pass0Raises, V3!Pass0Unreadable, V3!Qc, V3!QcGivesUp, V3!Analysis,
         V3!FormatClient, V3!FormatClientGivesUp, V3!FormatManager, V3!FormatManagerGivesUp
  <2>3. PICK reply : V3!AskFor(s, reply)
    BY <2>2
  <2>. DEFINE label == IF retry THEN <<V3!Label(s), "retry">> ELSE <<V3!Label(s)>>
  <2>4. step = s /\ V3!Ask(V3!StageTag(s), label, reply) /\ label[1] = LabelOf(s)
    BY <1>2, <2>3 DEF V3!AskFor, LabelOf
  <2>5. V3!StageTag(s) # None /\ V3!StageTag(s) = StageOf[LabelOf(s)]
    BY <1>2, <2>1 DEF None, StageOf, LabelOf, V3!Label, V3!StageTag
  <2>. HIDE DEF label
  <2>6. Asked(V3!StageTag(s), label, reply)
    BY <2>4, <2>5, AskedV3
  <2>7. step' \in {"made", "lost"} \union Asking[input.analyser]
    BY <1>2, <2>1, <2>3 DEF V3!Next, V3!Unreachable, V3!AskAgain, V3!Pass0,
         V3!Pass0Raises, V3!Pass0Unreadable, V3!Qc, V3!QcGivesUp, V3!Analysis,
         V3!FormatClient, V3!FormatClientGivesUp, V3!FormatManager, V3!FormatManagerGivesUp,
         V3!Make, V3!Made, V3!Lose, V3!GoOn, V3!AskFor
  <2>. QED
    BY <2>4, <2>5, <2>6, <2>7
<1>. QED
  BY <1>1, <1>2 DEF Analyse
\* The stamps collected are the answered requests so far, each under its call and stage.
Told(stamps) ==
    /\ \A i \in DOMAIN sent :
         sent[i].reply # "transport" <=> \E n \in DOMAIN stamps : stamps[n].request_id = i
    /\ \A n \in DOMAIN stamps :
         LET i == stamps[n].request_id
         IN  /\ i \in DOMAIN sent
             /\ stamps[n].worker_label = sent[i].label
             /\ stamps[n].stage = StageOf[sent[i].label[1]]
             /\ stamps[n].entity_id = input.call
    /\ \A m, n \in DOMAIN stamps : m < n => stamps[m].request_id < stamps[n].request_id

StampBook ==
    /\ \E R : sent \in Seq(R)
    /\ step = "start" => sent = <<>> /\ context = EmptyContext
    /\ input.caller = "flow" /\ step \notin {"start", "done"} =>
         /\ DOMAIN buffer = {"open", "stamps"} /\ buffer.open
         /\ \E R : buffer.stamps \in Seq(R)
         /\ context.entity_id = input.call
         /\ Told(buffer.stamps)
    /\ result.ok => step = "done" /\ Told(result.stamps)

LEMMA StampBookInit == Init => StampBook
<1>. SUFFICES ASSUME Init PROVE StampBook
  OBVIOUS
<1>1. sent = <<>> /\ sent \in Seq({}) /\ context = EmptyContext /\ step = "start"
  BY DEF Init
<1>2. result.ok = FALSE
  BY DEF Init, NoResult
<1>. QED
  BY <1>1, <1>2 DEF StampBook

\* A request keeps the book: its stamp is the last, and names it.
LEMMA StampBookAsks ==
    ASSUME Standing, StampBook, Analyse, result' = result PROVE StampBook'
<1>0. /\ Len(sent) \in Nat /\ \E R : sent \in Seq(R)
      /\ input.analyser \in {"v2", "v3"}
  BY InputsAssumption DEF StampBook, Standing
<1>1. /\ step \in Asking[input.analyser]
      /\ step' \in {"made", "lost"} \union Asking[input.analyser]
  BY <1>0, AnalysesAsk
<1>2. PICK stage, label, reply :
        /\ Asked(stage, label, reply)
        /\ label[1] = LabelOf(step) /\ stage = StageOf[label[1]]
  BY <1>0, AnalysesAsk
<1>3. PICK endpoint, extras :
        sent' = Append(sent, [label |-> label, reply |-> reply,
                              endpoint |-> endpoint, extras |-> extras])
  BY <1>2 DEF Asked
<1>. DEFINE request == [label |-> label, reply |-> reply,
                        endpoint |-> endpoint, extras |-> extras]
            last == Len(sent) + 1
<1>4. request.label = label /\ request.reply = reply
  OBVIOUS
<1>. HIDE DEF request
<1>5. Appended(sent, sent', request) /\ \E R : sent' \in Seq(R)
  BY <1>0, <1>3, Appending DEF request
<1>6. step \notin {"start", "done"} /\ step' \notin {"start", "done"}
  BY <1>0, <1>1 DEF Asking
<1>7. ~ result.ok
  BY <1>6 DEF StampBook
<1>8. input' = input /\ context' = context
  BY <1>2 DEF Asked
<1>9. ASSUME input.caller = "flow"
      PROVE  /\ DOMAIN buffer' = {"open", "stamps"} /\ buffer'.open
             /\ \E R : buffer'.stamps \in Seq(R)
             /\ Told(buffer.stamps)'
  <2>1. /\ DOMAIN buffer = {"open", "stamps"} /\ buffer.open
        /\ \E R : buffer.stamps \in Seq(R)
        /\ context.entity_id = input.call
        /\ Told(buffer.stamps)
    BY <1>6, <1>9 DEF StampBook
  <2>2. /\ DOMAIN sent = 1 .. Len(sent) /\ DOMAIN sent' = 1 .. last
        /\ \A i \in DOMAIN sent : sent'[i] = sent[i]
        /\ sent'[last].label = label /\ sent'[last].reply = reply
        /\ last \notin DOMAIN sent /\ last \in Nat
        /\ \A i \in DOMAIN sent : i < last
    BY <1>0, <1>4, <1>5 DEF Appended
  <2>. DEFINE stamps == buffer.stamps
  <2>3. /\ \A i \in DOMAIN sent :
             sent[i].reply # "transport" <=> \E n \in DOMAIN stamps : stamps[n].request_id = i
        /\ \A n \in DOMAIN stamps :
             /\ stamps[n].request_id \in DOMAIN sent
             /\ stamps[n].worker_label = sent[stamps[n].request_id].label
             /\ stamps[n].stage = StageOf[sent[stamps[n].request_id].label[1]]
             /\ stamps[n].entity_id = input.call
        /\ \A m, n \in DOMAIN stamps : m < n => stamps[m].request_id < stamps[n].request_id
    BY <2>1 DEF Told
  <2>4. CASE reply = "transport"
    <3>1. buffer' = buffer
      BY <1>2, <2>4 DEF Asked
    <3>2. Told(buffer.stamps)'
      <4>1. \A i \in DOMAIN sent' : sent'[i].reply # "transport" <=>
                                      \E n \in DOMAIN stamps : stamps[n].request_id = i
        BY <2>2, <2>3, <2>4
      <4>2. \A n \in DOMAIN stamps :
              /\ stamps[n].request_id \in DOMAIN sent'
              /\ sent'[stamps[n].request_id] = sent[stamps[n].request_id]
        BY <2>2, <2>3
      <4>. QED
        BY <1>8, <2>3, <3>1, <4>1, <4>2 DEF Told
    <3>. QED
      BY <2>1, <3>1, <3>2
  <2>5. CASE reply # "transport"
    <3>1. PICK stamp : /\ buffer' = [buffer EXCEPT !.stamps = Append(@, stamp)]
                       /\ stamp.request_id = last /\ stamp.worker_label = label
                       /\ stamp.stage = stage /\ stamp.entity_id = context.entity_id
      BY <1>2, <2>1, <2>5 DEF Asked
    <3>. DEFINE more == buffer'.stamps
    <3>2. DOMAIN buffer' = {"open", "stamps"} /\ buffer'.open /\ more = Append(stamps, stamp)
      BY <2>1, <3>1
    <3>3. Appended(stamps, more, stamp) /\ \E R : more \in Seq(R)
      <4>1. PICK R : stamps \in Seq(R)
        BY <2>1
      <4>. HIDE DEF more, stamps
      <4>2. Appended(stamps, Append(stamps, stamp), stamp) /\ \E Q : Append(stamps, stamp) \in Seq(Q)
        BY <4>1, Appending
      <4>. QED
        BY <3>2, <4>2
    <3>. HIDE DEF more, stamps
    <3>4. /\ DOMAIN more = DOMAIN stamps \union {Len(stamps) + 1}
          /\ \A n \in DOMAIN stamps : more[n] = stamps[n] /\ n \in Nat /\ n < Len(stamps) + 1
          /\ more[Len(stamps) + 1] = stamp /\ Len(stamps) + 1 \in Nat
          /\ Len(stamps) + 1 \notin DOMAIN stamps
      BY <3>3 DEF Appended
    <3>5. \A i \in DOMAIN sent' : sent'[i].reply # "transport" <=>
                                    \E n \in DOMAIN more : more[n].request_id = i
      <4>1. ASSUME NEW i \in DOMAIN sent
            PROVE  (\E n \in DOMAIN more : more[n].request_id = i) <=>
                     \E n \in DOMAIN stamps : stamps[n].request_id = i
        BY <2>2, <3>1, <3>4
      <4>2. \E n \in DOMAIN more : more[n].request_id = last
        BY <3>1, <3>4
      <4>3. \A i \in DOMAIN sent' : i \in DOMAIN sent \/ i = last
        BY <2>2
      <4>. QED
        BY <2>2, <2>3, <2>5, <4>1, <4>2, <4>3
    <3>6. \A n \in DOMAIN more :
            /\ more[n].request_id \in DOMAIN sent'
            /\ more[n].worker_label = sent'[more[n].request_id].label
            /\ more[n].stage = StageOf[sent'[more[n].request_id].label[1]]
            /\ more[n].entity_id = input.call
      <4>1. last \in DOMAIN sent' /\ DOMAIN sent \subseteq DOMAIN sent'
        BY <2>2
      <4>. QED
        BY <1>2, <2>1, <2>2, <2>3, <3>1, <3>4, <4>1
    <3>7. \A m, n \in DOMAIN more : m < n => more[m].request_id < more[n].request_id
      <4>1. ASSUME NEW m \in DOMAIN more, NEW n \in DOMAIN more, m < n
            PROVE  more[m].request_id < more[n].request_id
        <5>1. m \in DOMAIN stamps
          BY <3>4, <4>1
        <5>2. CASE n \in DOMAIN stamps
          BY <2>3, <3>4, <4>1, <5>1, <5>2
        <5>3. CASE n = Len(stamps) + 1
          BY <2>2, <2>3, <3>1, <3>4, <5>1, <5>3
        <5>. QED
          BY <3>4, <5>2, <5>3
      <4>. QED
        BY <4>1
    <3>8. Told(buffer.stamps)'
      BY <1>8, <3>5, <3>6, <3>7 DEF Told, more
    <3>. QED
      BY <3>2, <3>3, <3>8 DEF more
  <2>. QED
    BY <2>4, <2>5
<1>10. input.caller = "flow" => context'.entity_id = input'.call
  BY <1>6, <1>8 DEF StampBook
<1>. QED
  BY <1>5, <1>6, <1>7, <1>8, <1>9, <1>10 DEF StampBook
LEMMA StampBookNext == Standing /\ StampBook /\ [Next]_vars => StampBook'
<1>. SUFFICES ASSUME Standing, StampBook, [Next]_vars PROVE StampBook'
  OBVIOUS
<1>1. CASE Start
  <2>1. /\ step' = "pass0" /\ input' = input /\ sent' = sent /\ result' = result
        /\ sent = <<>> /\ context = EmptyContext /\ ~ result.ok
        /\ \E R : sent \in Seq(R)
    BY <1>1 DEF Start, StampBook
  <2>2. ASSUME input.caller = "flow"
        PROVE  /\ DOMAIN buffer' = {"open", "stamps"} /\ buffer'.open
               /\ buffer'.stamps = <<>> /\ context'.entity_id = input.call
    <3>1. /\ buffer' = Collecting
          /\ context' = Bound(context, [entity_type |-> "call", entity_id |-> input.call],
                              Runtime)
      BY <1>1, <2>2 DEF Start
    <3>2. context'.entity_id = input.call
      BY <2>1, <3>1 DEF Bound, EmptyContext, Fields, RuntimeFields
    <3>. QED
      BY <3>1, <3>2 DEF Collecting
  <2>3. input.caller = "flow" => Told(buffer.stamps)'
    BY <2>1, <2>2 DEF Told
  <2>4. buffer'.stamps = <<>> => buffer'.stamps \in Seq({})
    OBVIOUS
  <2>. QED
    BY <2>1, <2>2, <2>3, <2>4 DEF StampBook
<1>2. CASE Analyse
  BY <1>2, StampBookAsks DEF Analyse
<1>3. CASE Chain
  BY <1>3 DEF Chain, StampBook
<1>4. CASE Settle
  <2>1. /\ input.caller = "flow" /\ step \in {"made", "lost"} /\ step' = "done"
        /\ sent' = sent /\ input' = input
        /\ result' = IF step = "lost" THEN NoResult
                     ELSE [ok |-> TRUE, stamps |-> buffer.stamps,
                           payload |-> [report EXCEPT !.version = input.analyser]]
    BY <1>4 DEF Settle
  <2>2. Told(buffer.stamps)
    BY <2>1 DEF StampBook
  <2>3. result'.ok => result'.stamps = buffer.stamps
    BY <2>1 DEF NoResult
  <2>4. result'.ok => Told(result.stamps)'
    BY <2>1, <2>2, <2>3 DEF Told
  <2>. QED
    BY <2>1, <2>4 DEF StampBook
<1>5. CASE Score
  BY <1>5 DEF Score, StampBook
<1>6. CASE UNCHANGED vars
  BY <1>6 DEF vars, analysis, StampBook, Told
<1>. QED
  BY <1>1, <1>2, <1>3, <1>4, <1>5, <1>6 DEF Next

\* The stamps of a task that succeeded are its answered requests, in order, each under
\* its call and its stage: the journal says of a call what the proxy saw.
THEOREM StampsTrue == Spec => []StampsTellStages
<1>1. Spec => [](Standing /\ StampBook)
  BY StandingInit, StandingNext, StampBookInit, StampBookNext, PTL DEF Spec
<1>2. StampBook => StampsTellStages
  BY DEF StampBook, Told, StampsTellStages
<1>. QED
  BY <1>1, <1>2, PTL
-----------------------------------------------------------------------------
(***************************************************************************)
(* The score.                                                              *)
(***************************************************************************)
LEMMA HandledNumbers ==
    ASSUME NEW qc, Readable(qc)
    PROVE  LET p == HandledPoints(Item(qc, AllHandled), Unit(qc))
           IN  p \in Int /\ (p \notin Nat => p = Raises /\ NoNumber(qc))
<1>. DEFINE item == Item(qc, AllHandled)
            unit == Unit(qc)
<1>0. unit \in Nat
  BY UnitNumber
<1>. SUFFICES LET p == HandledPoints(item, unit)
              IN  p \in Int /\ (p \notin Nat => p = Raises /\ NoNumber(qc))
  OBVIOUS
<1>. HIDE DEF unit
<1>1. CASE item = Scalar(0)
  <2>1. ~ IsDict(Scalar(0)) /\ Scalar(0).scalar = 0
    BY DEF IsDict, Scalar
  <2>. QED
    BY <1>0, <1>1, <2>1 DEF HandledPoints
<1>2. CASE AllHandled \in DOMAIN qc /\ item = qc[AllHandled]
  <2>. DEFINE body == qc[AllHandled]
              total == OrZero(Field(body, "total", 0))
              handled == OrZero(Field(body, "handled", 0))
  <2>1. /\ Field(body, "total", 0) \in Nat \union {Null, Text}
        /\ Field(body, "handled", 0) \in Nat \union {Null, Text}
    BY <1>2, FieldValue DEF ScoreKeys
  <2>2. /\ total \in Nat \union {Text} /\ handled \in Nat \union {Text}
        /\ total = Text => Field(body, "total", 0) = Text
        /\ handled = Text => Field(body, "handled", 0) = Text
    BY <2>1 DEF OrZero, Text
  <2>3. IsDict(body) /\ Text \in {total, handled} => NoNumber(qc)
    BY <1>2, <2>2 DEF NoNumber
  <2>4. /\ ~ IsDict(body) => HandledPoints(body, unit) =
                               IF body.scalar \in {0, 2} THEN 5 * unit * body.scalar ELSE 0
        /\ IsDict(body) /\ total = 0 => HandledPoints(body, unit) = 10 * unit
        /\ IsDict(body) /\ total # 0 =>
             HandledPoints(body, unit) = IF Text \in {total, handled} THEN Raises
                                         ELSE 10 * handled
    BY DEF HandledPoints
  <2>. HIDE DEF body, total, handled
  <2>5. CASE ~ IsDict(body)
    <3>1. body.scalar \in {0, 2} => 5 * unit * body.scalar \in Nat
      BY <1>0
    <3>. QED
      BY <1>2, <2>4, <2>5, <3>1 DEF body
  <2>6. CASE IsDict(body) /\ total = 0
    BY <1>0, <1>2, <2>4, <2>6 DEF body
  <2>7. CASE IsDict(body) /\ total # 0 /\ Text \notin {total, handled}
    <3>1. handled \in Nat
      BY <2>2, <2>7
    <3>. QED
      BY <1>2, <2>4, <2>7, <3>1 DEF body
  <2>8. CASE IsDict(body) /\ total # 0 /\ Text \in {total, handled}
    BY <1>2, <2>3, <2>4, <2>8 DEF body, Raises
  <2>. QED
    BY <2>5, <2>6, <2>7, <2>8
<1>. QED
  BY <1>1, <1>2 DEF Item, unit

LEMMA PointsNumbers ==
    ASSUME NEW qc, Readable(qc), NEW k
    PROVE  /\ Points(qc, k) \in Nat \union {NotScored, Raises}
           /\ Points(qc, k) = Raises => NoNumber(qc)
<1>0. Advantages # AllHandled /\ Advantages # Techniques /\ AllHandled # Techniques
  BY DEF Advantages, AllHandled, Techniques
<1>1. \A v : ScorePoints(k, v, Unit(qc)) \in Nat
  <2>1. Unit(qc) \in Nat
    BY UnitNumber
  <2>2. \A v \in {0, 1, 2} : 5 * Unit(qc) * v \in Nat
    BY <2>1
  <2>. QED
    BY <2>2 DEF ScorePoints
<1>2. CASE k = Advantages
  BY <1>0, <1>2, AdvantageNumbers DEF Points, Raises
<1>3. CASE k = AllHandled
  BY <1>0, <1>3, HandledNumbers DEF Points, Raises
<1>4. CASE k \notin {Advantages, AllHandled}
  <2>1. Points(qc, k) = NotScored \/ \E v : Points(qc, k) = ScorePoints(k, v, Unit(qc))
    BY <1>4 DEF Points
  <2>. QED
    BY <1>1, <2>1 DEF NotScored, Raises
<1>. QED
  BY <1>2, <1>3, <1>4

\* One call: a score from nought to ten, and none only for want of a number.
LEMMA ManagerScoreRange ==
    ASSUME NEW qc, Readable(qc), NEW primary
    PROVE  LET s == ManagerScore(qc, primary)
           IN  s \in 0 .. 10 \/ (s = Raises /\ NoNumber(qc))
<1>. DEFINE keys == Counted(qc, primary)
            charged == [k \in keys |-> Points(qc, k) * QC_WEIGHTS[k]]
            earned == SumFunctionOnSet(charged, keys)
            most == Full(qc) * SumFunctionOnSet(QC_WEIGHTS, keys)
<1>1. ManagerScore(qc, primary) =
        CASE \E k \in keys : Points(qc, k) = Raises -> Raises
          [] keys = {} -> 0
          [] OTHER -> Clamp(RoundHalfEven(10 * earned, most))
  BY DEF ManagerScore
<1>2. keys \subseteq DOMAIN QC_WEIGHTS /\ \A k \in keys : Points(qc, k) # NotScored
  BY DEF Counted
<1>3. \A k \in keys : charged[k] = Points(qc, k) * QC_WEIGHTS[k]
  OBVIOUS
<1>. HIDE DEF keys, charged
<1>4. IsFiniteSet(keys) /\ \A k \in keys : QC_WEIGHTS[k] \in {1, 2}
  BY <1>2, WeightsFinite, FS_Subset
<1>5. CASE \E k \in keys : Points(qc, k) = Raises
  BY <1>1, <1>5, PointsNumbers
<1>6. CASE keys = {}
  BY <1>1, <1>6
<1>7. CASE keys # {} /\ \A k \in keys : Points(qc, k) # Raises
  <2>1. \A k \in keys : Points(qc, k) \in Nat
    BY <1>2, <1>7, PointsNumbers
  <2>2. earned \in Nat
    <3>1. 0 \in Nat /\ \A k \in keys, n \in Nat : charged[k] + n \in Nat
      BY <1>3, <1>4, <2>1
    <3>. QED
      BY <1>4, <3>1, SumInduction
  <2>3. SumFunctionOnSet(QC_WEIGHTS, keys) \in Nat \ {0}
    <3>1. \A k \in keys : QC_WEIGHTS[k] \in Nat \ {0}
      BY <1>4
    <3>. QED
      BY <1>4, <1>7, <3>1, SumPositive
  <2>. HIDE DEF earned
  <2>4. most \in Nat \ {0}
    BY <2>3, UnitNumber
  <2>. HIDE DEF most
  <2>5. RoundHalfEven(10 * earned, most) \in Int
    <3>1. (10 * earned) \div most \in Int
      BY <2>2, <2>4
    <3>. QED
      BY <3>1 DEF RoundHalfEven
  <2>6. Clamp(RoundHalfEven(10 * earned, most)) \in 1 .. 10
    BY <2>5, ClampRange
  <2>. QED
    BY <1>1, <1>7, <2>6
<1>. QED
  BY <1>5, <1>6, <1>7
\* The calls of a chain: what is counted over them is a number if it is one in each of them.
LEMMA ChainNumbers ==
    ASSUME NEW qcs, IsFiniteSet(DOMAIN qcs), \A i \in DOMAIN qcs : Readable(qcs[i])
    PROVE  LET metrics == ChainMetrics(qcs)
           IN  /\ metrics.total \in Nat \union {Text} /\ metrics.handled \in Nat \union {Text}
               /\ Text \in {metrics.total, metrics.handled} =>
                    \E i \in DOMAIN qcs : NoNumber(qcs[i])
               /\ metrics.credited \subseteq ChainCredited
<1>. DEFINE sum(field) ==
              IF \E i \in DOMAIN qcs : CountOf(qcs[i], field) = Text THEN Text
              ELSE SumFunction([i \in DOMAIN qcs |-> CountOf(qcs[i], field)])
<1>1. ASSUME NEW field \in {"total", "handled"}, NEW i \in DOMAIN qcs
      PROVE  /\ CountOf(qcs[i], field) \in Nat \union {Text}
             /\ CountOf(qcs[i], field) = Text => NoNumber(qcs[i])
  <2>. DEFINE qc == qcs[i]
  <2>1. CASE AllHandled \in DOMAIN qc /\ IsDict(qc[AllHandled])
    <3>1. Field(qc[AllHandled], field, 0) \in Nat \union {Null, Text}
      BY <2>1, FieldValue DEF ScoreKeys
    <3>2. CountOf(qc, field) = OrZero(Field(qc[AllHandled], field, 0))
      BY <2>1 DEF CountOf
    <3>. QED
      BY <2>1, <3>1, <3>2 DEF OrZero, NoNumber, Text
  <2>2. CASE ~ (AllHandled \in DOMAIN qc /\ IsDict(qc[AllHandled]))
    <3>1. IsDict(NoFields) /\ OrZero(Field(NoFields, field, 0)) = 0
      BY DEF NoFields, IsDict, Field, OrZero, Null
    <3>2. CountOf(qc, field) = 0
      BY <2>2, <3>1 DEF CountOf
    <3>. QED
      BY <3>2 DEF Text
  <2>. QED
    BY <2>1, <2>2
<1>2. ASSUME NEW field \in {"total", "handled"}
      PROVE  /\ sum(field) \in Nat \union {Text}
             /\ sum(field) = Text => \E i \in DOMAIN qcs : NoNumber(qcs[i])
  <2>1. CASE \E i \in DOMAIN qcs : CountOf(qcs[i], field) = Text
    BY <1>1, <2>1
  <2>2. CASE \A i \in DOMAIN qcs : CountOf(qcs[i], field) # Text
    <3>. DEFINE counts == [i \in DOMAIN qcs |-> CountOf(qcs[i], field)]
    <3>1. DOMAIN counts = DOMAIN qcs /\ \A i \in DOMAIN qcs : counts[i] \in Nat
      BY <1>1, <2>2
    <3>. HIDE DEF counts
    <3>2. 0 \in Nat /\ \A i \in DOMAIN counts, n \in Nat : counts[i] + n \in Nat
      BY <3>1
    <3>3. SumFunctionOnSet(counts, DOMAIN counts) \in Nat
      BY <3>1, <3>2, SumInduction
    <3>4. sum(field) \in Nat
      BY <2>2, <3>3 DEF SumFunction, counts
    <3>. QED
      BY <3>4 DEF Text
  <2>. QED
    BY <2>1, <2>2
<1>3. /\ ChainMetrics(qcs).total = sum("total") /\ ChainMetrics(qcs).handled = sum("handled")
      /\ ChainMetrics(qcs).credited =
           {k \in ChainCredited : \E i \in DOMAIN qcs : Positive(qcs[i], k)}
  BY DEF ChainMetrics
<1>. HIDE DEF sum
<1>4. ChainMetrics(qcs).credited \subseteq ChainCredited
  BY <1>3
<1>. QED
  BY <1>2, <1>3, <1>4

LEMMA ChainScoreRange ==
    ASSUME NEW qc, Readable(qc), NEW metrics,
           metrics.total \in Nat \union {Text}, metrics.handled \in Nat \union {Text},
           metrics.credited \subseteq ChainCredited
    PROVE  LET s == ChainScore(qc, metrics)
           IN  \/ s \in 0 .. 10
               \/ s = Raises /\ (NoNumber(qc) \/ Text \in {metrics.total, metrics.handled})
<1>. DEFINE body(k) == IF k \in DOMAIN qc /\ IsDict(qc[k]) THEN qc[k] ELSE NoFields
            credited(k) == [f \in DOMAIN body(k) \union {"score"} |->
                              IF f = "score" THEN 2 ELSE body(k)[f]]
            merged == [k \in DOMAIN qc \union {AllHandled} \union metrics.credited |->
                         CASE k = AllHandled ->
                                [total |-> metrics.total, handled |-> metrics.handled]
                           [] k \in metrics.credited -> credited(k)
                           [] OTHER -> qc[k]]
<1>1. CASE Text \in {metrics.total, metrics.handled}
  BY <1>1 DEF ChainScore
<1>2. CASE Text \notin {metrics.total, metrics.handled}
  <2>1. ChainScore(qc, metrics) = ManagerScore(merged, TRUE)
    BY <1>2 DEF ChainScore
  <2>2. AllHandled \notin metrics.credited /\ Advantages \notin metrics.credited
    BY DEF ChainCredited, AllHandled, Advantages
  <2>3. /\ DOMAIN merged = DOMAIN qc \union {AllHandled} \union metrics.credited
        /\ merged[AllHandled] = [total |-> metrics.total, handled |-> metrics.handled]
        /\ \A k \in metrics.credited : merged[k] = credited(k)
        /\ \A k \in DOMAIN qc \ ({AllHandled} \union metrics.credited) : merged[k] = qc[k]
    BY <2>2
  <2>4. ASSUME NEW k, NEW f \in DOMAIN credited(k) \intersect (ScoreKeys \union {"scalar"})
        PROVE  credited(k)[f] \in Nat \union {Null, Text}
    <3>1. CASE f = "score"
      BY <3>1
    <3>2. CASE f # "score"
      <4>1. f \in DOMAIN body(k) /\ credited(k)[f] = body(k)[f]
        BY <3>2
      <4>2. k \in DOMAIN qc /\ body(k) = qc[k]
        BY <4>1 DEF NoFields
      <4>. QED
        BY <2>4, <4>1, <4>2 DEF Readable
    <3>. QED
      BY <3>1, <3>2
  <2>. HIDE DEF credited, merged
  <2>5. metrics.total \in Nat /\ metrics.handled \in Nat
    BY <1>2
  <2>6. Readable(merged)
    <3>1. ASSUME NEW k \in DOMAIN merged,
                 NEW f \in DOMAIN merged[k] \intersect (ScoreKeys \union {"scalar"})
          PROVE  merged[k][f] \in Nat \union {Null, Text}
      <4>1. CASE k = AllHandled
        BY <2>3, <2>5, <3>1, <4>1
      <4>2. CASE k \in metrics.credited
        BY <2>3, <2>4, <3>1, <4>2
      <4>3. CASE k \notin {AllHandled} \union metrics.credited
        BY <2>3, <3>1, <4>3 DEF Readable
      <4>. QED
        BY <4>1, <4>2, <4>3
    <3>. QED
      BY <3>1 DEF Readable
  <2>7. NoNumber(merged) => NoNumber(qc)
    <3>1. Advantages # AllHandled
      BY DEF Advantages, AllHandled
    <3>2. Advantages \in DOMAIN merged => Advantages \in DOMAIN qc /\ merged[Advantages] = qc[Advantages]
      BY <2>2, <2>3, <3>1
    <3>3. \A f \in {"total", "handled"} : Field(merged[AllHandled], f, 0) # Text
      BY <2>3, <2>5 DEF Field, Text
    <3>. QED
      BY <3>2, <3>3 DEF NoNumber
  <2>. QED
    BY <2>1, <2>6, <2>7, ManagerScoreRange
<1>. QED
  BY <1>1, <1>2
\* The scoring of CallReportV3 and of CallReportV2 is that of ManagerScoring.
LEMMA SameScoringV3 == \A qc, primary : V3!ManagerScore(qc, primary) = ManagerScore(qc, primary)
<1>1. /\ V3!Null = Null /\ V3!Text = Text /\ V3!NotScored = NotScored
      /\ V3!Raises = Raises /\ V3!Advantages = Advantages /\ V3!AllHandled = AllHandled
      /\ V3!Techniques = Techniques /\ V3!LightCriteria = LightCriteria
      /\ V3!NoFields = NoFields
  BY DEF V3!Null, Null, V3!Text, Text, V3!NotScored, NotScored, V3!Raises, Raises,
         V3!Advantages, Advantages, V3!AllHandled, AllHandled, V3!Techniques, Techniques,
         V3!LightCriteria, LightCriteria, V3!NoFields, NoFields
<1>2. V3!HeavyCriteria = HeavyCriteria /\ V3!RepeatSkip = RepeatSkip
  BY <1>1 DEF V3!HeavyCriteria, HeavyCriteria, V3!RepeatSkip, RepeatSkip
<1>3. V3!QC_WEIGHTS = QC_WEIGHTS /\ V3!HalfPointAllowed = HalfPointAllowed
  BY <1>1, <1>2 DEF V3!QC_WEIGHTS, QC_WEIGHTS, V3!HalfPointAllowed, HalfPointAllowed
<1>4. /\ \A body : V3!IsDict(body) <=> IsDict(body)
      /\ \A body, key, default : V3!Field(body, key, default) = Field(body, key, default)
      /\ \A n : V3!Scalar(n) = Scalar(n)
      /\ \A S : V3!Min(S) = Min(S) /\ V3!Max(S) = Max(S)
  BY DEF V3!IsDict, IsDict, V3!Field, Field, V3!Scalar, Scalar, V3!Min, Min, V3!Max, Max
<1>5. \A value : V3!OrZero(value) = OrZero(value)
  BY <1>1 DEF V3!OrZero, OrZero
<1>6. \A qc, key : V3!Item(qc, key) = Item(qc, key)
  BY <1>1, <1>4 DEF V3!Item, Item
<1>7. \A item, unit : V3!AdvantagePoints(item, unit) = AdvantagePoints(item, unit)
  BY <1>1, <1>4 DEF V3!AdvantagePoints, AdvantagePoints
<1>8. \A item, unit : V3!HandledPoints(item, unit) = HandledPoints(item, unit)
  BY <1>1, <1>4, <1>5 DEF V3!HandledPoints, HandledPoints
<1>9. \A key, value, unit : V3!ScorePoints(key, value, unit) = ScorePoints(key, value, unit)
  BY <1>3 DEF V3!ScorePoints, ScorePoints
<1>10. \A qc : V3!NothingToHandle(qc) <=> NothingToHandle(qc)
  BY <1>1, <1>4, <1>5 DEF V3!NothingToHandle, NothingToHandle
<1>11. /\ \A qc : V3!Unit(qc) = Unit(qc)
       /\ \A qc : V3!Full(qc) = Full(qc)
  BY <1>1, <1>4, <1>6 DEF V3!Unit, Unit, V3!Full, Full
<1>12. \A qc, key : V3!Points(qc, key) = Points(qc, key)
  BY <1>1, <1>4, <1>6, <1>7, <1>8, <1>9, <1>10, <1>11 DEF V3!Points, Points
<1>13. \A n : V3!Clamp(n) = Clamp(n)
  BY <1>4 DEF V3!Clamp, Clamp
<1>14. \A num, den : V3!RoundHalfEven(num, den) = RoundHalfEven(num, den)
  BY DEF V3!RoundHalfEven, RoundHalfEven
<1>15. \A f, S : V3!SumFunctionOnSet(f, S) = SumFunctionOnSet(f, S)
  BY DEF V3!SumFunctionOnSet, SumFunctionOnSet, V3!FoldFunctionOnSet, FoldFunctionOnSet,
         V3!MapThenFoldSet, MapThenFoldSet
<1>. TAKE qc, primary
<1>. DEFINE keys == Counted(qc, primary)
            keysV3 == V3!Counted(qc, primary)
            earned == SumFunctionOnSet([k \in keys |-> Points(qc, k) * QC_WEIGHTS[k]], keys)
            earnedV3 == V3!SumFunctionOnSet(
                          [k \in keysV3 |-> V3!Points(qc, k) * V3!QC_WEIGHTS[k]], keysV3)
            most == Full(qc) * SumFunctionOnSet(QC_WEIGHTS, keys)
            mostV3 == V3!Full(qc) * V3!SumFunctionOnSet(V3!QC_WEIGHTS, keysV3)
<1>16. keysV3 = keys
  BY <1>1, <1>2, <1>3, <1>12 DEF Counted, V3!Counted
<1>17. ManagerScore(qc, primary) =
        CASE \E k \in keys : Points(qc, k) = Raises -> Raises
          [] keys = {} -> 0
          [] OTHER -> Clamp(RoundHalfEven(10 * earned, most))
  BY DEF ManagerScore
<1>18. V3!ManagerScore(qc, primary) =
        CASE \E k \in keysV3 : V3!Points(qc, k) = V3!Raises -> V3!Raises
          [] keysV3 = {} -> 0
          [] OTHER -> V3!Clamp(V3!RoundHalfEven(10 * earnedV3, mostV3))
  BY DEF V3!ManagerScore
<1>. HIDE DEF keys, keysV3
<1>19. earnedV3 = earned /\ mostV3 = most
  <2>1. [k \in keysV3 |-> V3!Points(qc, k) * V3!QC_WEIGHTS[k]] =
          [k \in keys |-> Points(qc, k) * QC_WEIGHTS[k]]
    BY <1>3, <1>12, <1>16
  <2>. QED
    BY <1>1, <1>3, <1>15, <1>16, <1>11, <2>1
<1>. HIDE DEF earned, earnedV3, most, mostV3
<1>20. \/ /\ \E k \in keys : Points(qc, k) = Raises
          /\ ManagerScore(qc, primary) = Raises
       \/ /\ keys = {} /\ ManagerScore(qc, primary) = 0
       \/ /\ keys # {} /\ ~ \E k \in keys : Points(qc, k) = Raises
          /\ ManagerScore(qc, primary) = Clamp(RoundHalfEven(10 * earned, most))
  BY <1>17
<1>. QED
  BY <1>1, <1>12, <1>13, <1>14, <1>16, <1>18, <1>19, <1>20

LEMMA SameScoringV2 == \A qc, primary : V2!ManagerScore(qc, primary) = ManagerScore(qc, primary)
<1>1. /\ V2!Null = Null /\ V2!Text = Text /\ V2!NotScored = NotScored
      /\ V2!Raises = Raises /\ V2!Advantages = Advantages /\ V2!AllHandled = AllHandled
      /\ V2!Techniques = Techniques /\ V2!LightCriteria = LightCriteria
      /\ V2!NoFields = NoFields
  BY DEF V2!Null, Null, V2!Text, Text, V2!NotScored, NotScored, V2!Raises, Raises,
         V2!Advantages, Advantages, V2!AllHandled, AllHandled, V2!Techniques, Techniques,
         V2!LightCriteria, LightCriteria, V2!NoFields, NoFields
<1>2. V2!HeavyCriteria = HeavyCriteria /\ V2!RepeatSkip = RepeatSkip
  BY <1>1 DEF V2!HeavyCriteria, HeavyCriteria, V2!RepeatSkip, RepeatSkip
<1>3. V2!QC_WEIGHTS = QC_WEIGHTS /\ V2!HalfPointAllowed = HalfPointAllowed
  BY <1>1, <1>2 DEF V2!QC_WEIGHTS, QC_WEIGHTS, V2!HalfPointAllowed, HalfPointAllowed
<1>4. /\ \A body : V2!IsDict(body) <=> IsDict(body)
      /\ \A body, key, default : V2!Field(body, key, default) = Field(body, key, default)
      /\ \A n : V2!Scalar(n) = Scalar(n)
      /\ \A S : V2!Min(S) = Min(S) /\ V2!Max(S) = Max(S)
  BY DEF V2!IsDict, IsDict, V2!Field, Field, V2!Scalar, Scalar, V2!Min, Min, V2!Max, Max
<1>5. \A value : V2!OrZero(value) = OrZero(value)
  BY <1>1 DEF V2!OrZero, OrZero
<1>6. \A qc, key : V2!Item(qc, key) = Item(qc, key)
  BY <1>1, <1>4 DEF V2!Item, Item
<1>7. \A item, unit : V2!AdvantagePoints(item, unit) = AdvantagePoints(item, unit)
  BY <1>1, <1>4 DEF V2!AdvantagePoints, AdvantagePoints
<1>8. \A item, unit : V2!HandledPoints(item, unit) = HandledPoints(item, unit)
  BY <1>1, <1>4, <1>5 DEF V2!HandledPoints, HandledPoints
<1>9. \A key, value, unit : V2!ScorePoints(key, value, unit) = ScorePoints(key, value, unit)
  BY <1>3 DEF V2!ScorePoints, ScorePoints
<1>10. \A qc : V2!NothingToHandle(qc) <=> NothingToHandle(qc)
  BY <1>1, <1>4, <1>5 DEF V2!NothingToHandle, NothingToHandle
<1>11. /\ \A qc : V2!Unit(qc) = Unit(qc)
       /\ \A qc : V2!Full(qc) = Full(qc)
  BY <1>1, <1>4, <1>6 DEF V2!Unit, Unit, V2!Full, Full
<1>12. \A qc, key : V2!Points(qc, key) = Points(qc, key)
  BY <1>1, <1>4, <1>6, <1>7, <1>8, <1>9, <1>10, <1>11 DEF V2!Points, Points
<1>13. \A n : V2!Clamp(n) = Clamp(n)
  BY <1>4 DEF V2!Clamp, Clamp
<1>14. \A num, den : V2!RoundHalfEven(num, den) = RoundHalfEven(num, den)
  BY DEF V2!RoundHalfEven, RoundHalfEven
<1>15. \A f, S : V2!SumFunctionOnSet(f, S) = SumFunctionOnSet(f, S)
  BY DEF V2!SumFunctionOnSet, SumFunctionOnSet, V2!FoldFunctionOnSet, FoldFunctionOnSet,
         V2!MapThenFoldSet, MapThenFoldSet
<1>. TAKE qc, primary
<1>. DEFINE keys == Counted(qc, primary)
            keysV2 == V2!Counted(qc, primary)
            earned == SumFunctionOnSet([k \in keys |-> Points(qc, k) * QC_WEIGHTS[k]], keys)
            earnedV2 == V2!SumFunctionOnSet(
                          [k \in keysV2 |-> V2!Points(qc, k) * V2!QC_WEIGHTS[k]], keysV2)
            most == Full(qc) * SumFunctionOnSet(QC_WEIGHTS, keys)
            mostV2 == V2!Full(qc) * V2!SumFunctionOnSet(V2!QC_WEIGHTS, keysV2)
<1>16. keysV2 = keys
  BY <1>1, <1>2, <1>3, <1>12 DEF Counted, V2!Counted
<1>17. ManagerScore(qc, primary) =
        CASE \E k \in keys : Points(qc, k) = Raises -> Raises
          [] keys = {} -> 0
          [] OTHER -> Clamp(RoundHalfEven(10 * earned, most))
  BY DEF ManagerScore
<1>18. V2!ManagerScore(qc, primary) =
        CASE \E k \in keysV2 : V2!Points(qc, k) = V2!Raises -> V2!Raises
          [] keysV2 = {} -> 0
          [] OTHER -> V2!Clamp(V2!RoundHalfEven(10 * earnedV2, mostV2))
  BY DEF V2!ManagerScore
<1>. HIDE DEF keys, keysV2
<1>19. earnedV2 = earned /\ mostV2 = most
  <2>1. [k \in keysV2 |-> V2!Points(qc, k) * V2!QC_WEIGHTS[k]] =
          [k \in keys |-> Points(qc, k) * QC_WEIGHTS[k]]
    BY <1>3, <1>12, <1>16
  <2>. QED
    BY <1>1, <1>3, <1>15, <1>16, <1>11, <2>1
<1>. HIDE DEF earned, earnedV2, most, mostV2
<1>20. \/ /\ \E k \in keys : Points(qc, k) = Raises
          /\ ManagerScore(qc, primary) = Raises
       \/ /\ keys = {} /\ ManagerScore(qc, primary) = 0
       \/ /\ keys # {} /\ ~ \E k \in keys : Points(qc, k) = Raises
          /\ ManagerScore(qc, primary) = Clamp(RoundHalfEven(10 * earned, most))
  BY <1>17
<1>. QED
  BY <1>1, <1>12, <1>13, <1>14, <1>16, <1>18, <1>19, <1>20
-----------------------------------------------------------------------------
(***************************************************************************)
(* The weaknesses and the score.                                           *)
(***************************************************************************)
\* The qc of a report with a score of its own: its arithmetic met only numbers, and what is
\* not asked of a repeated call does not apply.
LEMMA ScoredQc ==
    ASSUME Standing, Written, ScoreOfCall # Null
    PROVE  /\ ManagerScore(report.qc, IsPrimary) # Raises
           /\ ~ IsPrimary => \A k \in DOMAIN report.qc \intersect RepeatSkip : report.qc[k] = Na
<1>. DEFINE payload == V3!Payload(work)
            projected == V3!Projected(V3!ScoresOf(work.qc), V3!Segments)
<1>1. /\ payload.qc = V3!Applicable(projected, work.pass0.type, V3!IsPrimary, work.pass0.lost)
      /\ payload.score = IF V3!Scoreable(work.pass0, work.qc_ok)
                         THEN V3!ManagerScore(payload.qc, V3!IsPrimary) ELSE V3!Null
      /\ "score_own" \notin DOMAIN payload
      /\ {"qc", "score"} \subseteq DOMAIN payload
  BY DEF V3!Payload
<1>. HIDE DEF payload
<1>2. Own(payload)
  BY DEF Standing, MadeByV3, Written, Reported, Junk, payload
<1>3. report.qc = payload.qc
  BY <1>1, WrittenReport DEF payload
<1>4. ScoreOfCall = payload.score
  <2>1. CASE report = payload
    BY <1>1, <2>1 DEF ScoreOfCall
  <2>2. CASE report = Chained(payload)
    <3>1. "score_own" \in DOMAIN report /\ report.score_own = payload.score
      BY <2>2 DEF Chained
    <3>. QED
      BY <3>1 DEF ScoreOfCall
  <2>. QED
    BY <1>2, <2>1, <2>2 DEF Own
<1>5. V3!IsPrimary = IsPrimary /\ V3!Null = Null /\ V3!RepeatSkip = RepeatSkip /\ V3!Na = Na
  BY DEF V3!IsPrimary, IsPrimary, V3!Null, Null, V3!RepeatSkip, RepeatSkip, V3!Na, Na,
         V3!Advantages, Advantages
<1>6. /\ V3!Scoreable(work.pass0, work.qc_ok)
      /\ payload.score = ManagerScore(report.qc, IsPrimary)
  BY <1>1, <1>3, <1>4, <1>5, SameScoringV3
<1>7. ManagerScore(report.qc, IsPrimary) # Raises
  BY <1>2, <1>6 DEF Own
<1>8. ~ IsPrimary => \A k \in DOMAIN report.qc \intersect RepeatSkip : report.qc[k] = Na
  <2>1. work.pass0.type = "sales"
    BY <1>6 DEF V3!Scoreable
  <2>. HIDE DEF projected
  <2>. QED
    BY <1>1, <1>3, <1>5, <2>1 DEF V3!Applicable, V3!ApplyNa
<1>. QED
  BY <1>7, <1>8

LEMMA WeaknessesFromQc == Standing => WeaknessesCostPoints
<1>. DEFINE qc == report.qc
<1>1. SUFFICES ASSUME Standing, Written
               PROVE  /\ ScoreOfCall # Null =>
                           \A k \in report.failed \intersect DOMAIN QC_WEIGHTS :
                             Charged(qc, k) <=> ~ (k = Techniques /\ UncountedObjections(qc))
                      /\ \A k \in report.passed \union report.failed : qc[k] # Na
  BY DEF WeaknessesCostPoints
<1>2. \A k \in report.failed : k \in DOMAIN qc /\ CriterionPassed(k, qc[k], qc) = "failed"
  BY <1>1, WrittenQc DEF Listed
<1>3. \A k \in report.passed : k \in DOMAIN qc /\ CriterionPassed(k, qc[k], qc) = "passed"
  BY <1>1, WrittenQc DEF Listed
<1>4. \A k : CriterionPassed(k, Na, qc) = "na"
  BY DEF CriterionPassed, Na, IsDict, Field
<1>5. Readable(qc)
  BY <1>1, WrittenQc
<1>. HIDE DEF qc
<1>6. ASSUME ScoreOfCall # Null, NEW k \in report.failed \intersect DOMAIN QC_WEIGHTS
      PROVE  Charged(qc, k) <=> ~ (k = Techniques /\ UncountedObjections(qc))
  <2>1. k \in DOMAIN qc /\ CriterionPassed(k, qc[k], qc) = "failed"
    BY <1>2, <1>6
  <2>2. k \notin (IF IsPrimary THEN {} ELSE RepeatSkip)
    BY <1>1, <1>4, <1>6, <2>1, ScoredQc DEF qc
  <2>3. k \in Counted(qc, IsPrimary) <=> Points(qc, k) # NotScored
    BY <1>6, <2>2 DEF Counted
  <2>4. k \in Counted(qc, IsPrimary) => Points(qc, k) # Raises
    <3>1. ManagerScore(qc, IsPrimary) # Raises
      BY <1>1, <1>6, ScoredQc DEF qc
    <3>. QED
      BY <3>1 DEF ManagerScore
  <2>5. CASE k = Techniques /\ UncountedObjections(qc)
    <3>1. NothingToHandle(qc)
      BY <2>5 DEF UncountedObjections, NothingToHandle, NoFields, IsDict, Field, OrZero, Null
    <3>2. Points(qc, k) = NotScored
      BY <2>5, <3>1 DEF Points, Techniques, Advantages, AllHandled
    <3>. QED
      BY <2>3, <2>5, <3>2 DEF Charged
  <2>6. CASE ~ (k = Techniques /\ UncountedObjections(qc))
    <3>1. ~ (k = Techniques /\ NothingToHandle(qc) /\ ~ NoObjections(qc))
      <4>. SUFFICES ASSUME k = Techniques, NothingToHandle(qc) PROVE NoObjections(qc)
        OBVIOUS
      <4>1. AllHandled \in DOMAIN qc
        BY <2>6 DEF UncountedObjections
      <4>. DEFINE body == qc[AllHandled]
      <4>2. IsDict(body) /\ OrZero(Field(body, "total", 0)) = 0
        BY <4>1 DEF NothingToHandle
      <4>3. Field(body, "total", Null) # Null
        BY <2>6, <4>1, <4>2 DEF UncountedObjections
      <4>4. Field(body, "total", Null) = 0
        BY <4>2, <4>3 DEF Field, OrZero
      <4>. QED
        BY <4>1, <4>2, <4>4 DEF NoObjections
    <3>2. Points(qc, k) \in {Raises} \union 0 .. Full(qc) - 1
      BY <1>5, <2>1, <3>1, FailedCosts
    <3>3. Full(qc) \in Nat
      BY <1>5, UnitNumber
    <3>4. Points(qc, k) # NotScored
      BY <3>2, <3>3 DEF NotScored, Raises
    <3>. QED
      BY <2>3, <2>4, <2>6, <3>2, <3>4 DEF Charged
  <2>. QED
    BY <2>5, <2>6
<1>. QED
  BY <1>2, <1>3, <1>4, <1>6 DEF qc

\* Every weakness of a v3 report was charged for by its score, but for the techniques of a
\* call whose number of objections is not told (manager.py, scoring.py).
THEOREM ReproachesAreCharged == Spec => []WeaknessesCostPoints
BY AlwaysStanding, WeaknessesFromQc, PTL
\* The score of what is made of the answers, for one call.
Scored(payload, answer) ==
    /\ {"qc", "score", "is_scoreable", "call_type", "connection_lost"} \subseteq DOMAIN payload
    /\ Readable(payload.qc) /\ (NoNumber(payload.qc) => NoNumber(ScoresOf(answer)))
    /\ IF payload.is_scoreable
       THEN /\ payload.call_type = "sales" /\ ~ payload.connection_lost
            /\ \/ payload.score \in 0 .. 10
               \/ payload.score = Raises /\ NoNumber(ScoresOf(answer))
       ELSE payload.score = Null

LEMMA ReadableAnswer ==
    ASSUME NEW answer \in QcAnswers \union {NoAnswerToQc}
    PROVE  answer.object => Readable(answer.scores)
BY AnswersAssumption DEF NoAnswerToQc

LEMMA ScoredV3 ==
    ASSUME NEW left, left.qc \in QcAnswers \union {NoAnswerToQc}
    PROVE  /\ Scored(V3!Payload(left), left.qc)
           /\ V3!Payload(left).is_scoreable => left.qc_ok
<1>. DEFINE payload == V3!Payload(left)
            qc == V3!Applicable(V3!Projected(V3!ScoresOf(left.qc), V3!Segments),
                                left.pass0.type, V3!IsPrimary, left.pass0.lost)
            scoreable == left.pass0.type = "sales" /\ ~left.pass0.lost /\ left.qc_ok
<1>1. /\ {"qc", "score", "is_scoreable", "call_type", "connection_lost"} \subseteq DOMAIN payload
      /\ payload.qc = qc /\ payload.call_type = left.pass0.type
      /\ payload.connection_lost = left.pass0.lost
      /\ payload.is_scoreable = V3!Scoreable(left.pass0, left.qc_ok)
      /\ payload.score = IF V3!Scoreable(left.pass0, left.qc_ok)
                         THEN V3!ManagerScore(qc, V3!IsPrimary) ELSE V3!Null
  BY DEF V3!Payload
<1>2. V3!Scoreable(left.pass0, left.qc_ok) <=> scoreable
  BY DEF V3!Scoreable
<1>3. Readable(qc) /\ (NoNumber(qc) => NoNumber(ScoresOf(left.qc)))
  <2>1. V3!ScoresOf(left.qc) = ScoresOf(left.qc)
    BY DEF V3!ScoresOf, ScoresOf, V3!NoFields, NoFields
  <2>. QED
    BY <2>1, ReadableAnswer, ApplicableQc
<1>. HIDE DEF payload, qc
<1>4. \/ V3!ManagerScore(qc, V3!IsPrimary) \in 0 .. 10
      \/ V3!ManagerScore(qc, V3!IsPrimary) = Raises /\ NoNumber(qc)
  BY <1>3, SameScoringV3, ManagerScoreRange
<1>5. V3!Null = Null
  BY DEF V3!Null, Null
<1>. QED
  BY <1>1, <1>2, <1>3, <1>4, <1>5 DEF Scored, payload

LEMMA ApplicableV2 ==
    ASSUME NEW raw, Readable(raw), NEW type, NEW primary, NEW lost
    PROVE  LET qc == V2!Applicable(raw, type, primary, lost)
           IN  Readable(qc) /\ (NoNumber(qc) => NoNumber(raw))
<1>. DEFINE naKeys == (IF type = "service" THEN DOMAIN raw ELSE {})
                        \union (IF type = "sales" /\ ~primary THEN V2!RepeatSkip ELSE {})
                        \union (IF lost THEN V2!ConnectionLostNA ELSE {})
            qc == V2!ApplyNa(raw, naKeys)
<1>. HIDE DEF naKeys
<1>1. /\ DOMAIN qc = DOMAIN raw
      /\ \A k \in DOMAIN raw : qc[k] = IF k \in naKeys THEN Na ELSE raw[k]
  BY DEF V2!ApplyNa, V2!Na, Na, V2!Null, Null
<1>. HIDE DEF qc
<1>2. /\ DOMAIN Na = {"score"} /\ Na.score = Null
      /\ \A f \in {"count", "total", "handled"} : Field(Na, f, 0) = 0
  BY DEF Na, Field
<1>3. Readable(qc)
  BY <1>1, <1>2 DEF Readable
<1>4. NoNumber(qc) => NoNumber(raw)
  BY <1>1, <1>2 DEF NoNumber, Null, Text
<1>. QED
  BY <1>3, <1>4 DEF V2!Applicable, naKeys, qc

LEMMA ScoredV2 ==
    ASSUME NEW left, NEW answer, left.qc \in QcAnswers \union {NoAnswerToQc}
    PROVE  Scored(V2!Payload(left, answer), left.qc)
<1>. DEFINE payload == V2!Payload(left, answer)
            qc == V2!Applicable(V2!ScoresOf(left.qc), left.pass0.type, V2!IsPrimary,
                                left.pass0.lost)
            scoreable == left.pass0.type = "sales" /\ ~left.pass0.lost
<1>1. /\ {"qc", "score", "is_scoreable", "call_type", "connection_lost"} \subseteq DOMAIN payload
      /\ payload.qc = qc /\ payload.call_type = left.pass0.type
      /\ payload.connection_lost = left.pass0.lost
      /\ payload.is_scoreable = scoreable
      /\ payload.score = IF scoreable THEN V2!ManagerScore(qc, V2!IsPrimary) ELSE V2!Null
  BY DEF V2!Payload
<1>2. Readable(qc) /\ (NoNumber(qc) => NoNumber(ScoresOf(left.qc)))
  <2>1. V2!ScoresOf(left.qc) = ScoresOf(left.qc)
    BY DEF V2!ScoresOf, ScoresOf, V2!NoFields, NoFields
  <2>2. Readable(ScoresOf(left.qc))
    BY ReadableAnswer DEF ScoresOf, Readable, NoFields
  <2>. QED
    BY <2>1, <2>2, ApplicableV2
<1>. HIDE DEF payload, qc
<1>3. \/ V2!ManagerScore(qc, V2!IsPrimary) \in 0 .. 10
      \/ V2!ManagerScore(qc, V2!IsPrimary) = Raises /\ NoNumber(qc)
  BY <1>2, SameScoringV2, ManagerScoreRange
<1>4. V2!Null = Null
  BY DEF V2!Null, Null
<1>. QED
  BY <1>1, <1>2, <1>3, <1>4 DEF Scored, payload

\* And for a call within its chain.
LEMMA ScoredInChain ==
    ASSUME input \in Inputs, NEW payload, NEW answer, Scored(payload, answer)
    PROVE  LET s == Chained(payload).score
           IN  IF payload.is_scoreable
               THEN \/ s \in 0 .. 10
                    \/ s = Raises /\ \/ NoNumber(ScoresOf(answer))
                                     \/ \E i \in DOMAIN input.previous :
                                          NoNumber(input.previous[i].qc)
               ELSE s = Null
<1>. DEFINE qcs == ChainQcs(payload)
            metrics == ChainMetrics(qcs)
<1>1. /\ {"qc", "score", "is_scoreable", "call_type"} \subseteq DOMAIN payload
      /\ Readable(payload.qc) /\ (NoNumber(payload.qc) => NoNumber(ScoresOf(answer)))
      /\ payload.is_scoreable => payload.call_type = "sales"
      /\ ~ payload.is_scoreable => payload.score = Null
  BY DEF Scored
<1>2. Chained(payload).score = IF payload.is_scoreable /\ payload.call_type = "sales"
                               THEN ChainScore(payload.qc, metrics) ELSE payload.score
  BY <1>1 DEF Chained
<1>3. \E E \in SUBSET DOMAIN input.previous :
        /\ DOMAIN qcs = E \union {0}
        /\ qcs[0] = payload.qc
        /\ \A i \in E \ {0} : qcs[i] = input.previous[i].qc
  <2>. DEFINE E == {i \in DOMAIN input.previous : /\ InContext(input.previous[i])
                                                  /\ input.previous[i].call_type = "sales"}
  <2>1. qcs = [i \in E \union {0} |-> IF i = 0 THEN payload.qc ELSE input.previous[i].qc]
    BY DEF ChainQcs
  <2>2. E \in SUBSET DOMAIN input.previous
    OBVIOUS
  <2>. HIDE DEF E, qcs
  <2>. QED
    BY <2>1, <2>2
<1>. HIDE DEF qcs
<1>4. PICK E \in SUBSET DOMAIN input.previous :
        /\ DOMAIN qcs = E \union {0}
        /\ qcs[0] = payload.qc
        /\ \A i \in E \ {0} : qcs[i] = input.previous[i].qc
  BY <1>3
<1>5. IsFiniteSet(DOMAIN qcs)
  <2>1. IsFiniteSet(E) /\ IsFiniteSet({0})
    BY InputsAssumption, FS_Subset, FS_Singleton
  <2>2. IsFiniteSet(E \union {0})
    BY <2>1, FS_Union
  <2>. QED
    BY <1>4, <2>2
<1>6. \A i \in DOMAIN qcs : \/ qcs[i] = payload.qc
                            \/ i \in DOMAIN input.previous /\ qcs[i] = input.previous[i].qc
  BY <1>4
<1>7. \A i \in DOMAIN qcs : Readable(qcs[i])
  BY <1>1, <1>6, InputsAssumption
<1>8. /\ metrics.total \in Nat \union {Text} /\ metrics.handled \in Nat \union {Text}
      /\ Text \in {metrics.total, metrics.handled} => \E i \in DOMAIN qcs : NoNumber(qcs[i])
      /\ metrics.credited \subseteq ChainCredited
  BY <1>5, <1>7, ChainNumbers
<1>. HIDE DEF metrics
<1>9. \/ ChainScore(payload.qc, metrics) \in 0 .. 10
      \/ /\ ChainScore(payload.qc, metrics) = Raises
         /\ NoNumber(payload.qc) \/ Text \in {metrics.total, metrics.handled}
  BY <1>1, <1>8, ChainScoreRange
<1>. QED
  BY <1>1, <1>2, <1>6, <1>8, <1>9
-----------------------------------------------------------------------------
(***************************************************************************)
(* A score needs a judgement.                                              *)
(***************************************************************************)
Judged ==
    /\ \E R : sent \in Seq(R)
    /\ input.analyser = "v3" /\ work.qc_ok =>
         step \notin {"start", "pass0", "qc"} /\ AnsweredLast(Judge)
    /\ input.analyser = "v2" /\ (step = "main" \/ (Reported /\ report.call_type # "junk")) =>
         AnsweredLast(Judge)

LEMMA JudgedInit == Init => Judged
<1>. SUFFICES ASSUME Init PROVE Judged
  OBVIOUS
<1>1. sent = <<>> /\ sent \in Seq({}) /\ step = "start" /\ ~ work.qc_ok /\ report = NoReport
  BY DEF Init, NoWork
<1>. QED
  BY <1>1 DEF Judged, Reported

\* A judgement stays the last of its kind as long as the stage is not asked again.
LEMMA JudgementStays ==
    ASSUME Judged, input' = input, NEW request, sent' = Append(sent, request)
    PROVE  /\ \E R : sent' \in Seq(R)
           /\ AnsweredLast(Judge) /\ request.label[1] # Judge => AnsweredLast(Judge)'
           /\ request.label[1] = Judge /\ request.reply = "object" => AnsweredLast(Judge)'
<1>1. Appended(sent, sent', request) /\ \E R : sent' \in Seq(R)
  BY Appending DEF Judged
<1>2. Judge' = Judge
  BY DEF Judge
<1>3. /\ DOMAIN sent = 1 .. Len(sent) /\ DOMAIN sent' = 1 .. Len(sent) + 1 /\ Len(sent) \in Nat
      /\ \A i \in DOMAIN sent : sent'[i] = sent[i]
      /\ sent'[Len(sent) + 1] = request
  BY <1>1 DEF Appended
<1>4. ASSUME AnsweredLast(Judge), request.label[1] # Judge
      PROVE  AnsweredLast(Judge)'
  <2>1. PICK i \in DOMAIN sent :
          /\ sent[i].label[1] = Judge /\ sent[i].reply = "object"
          /\ \A j \in DOMAIN sent : j > i => sent[j].label[1] # Judge
    BY <1>4 DEF AnsweredLast
  <2>2. i \in DOMAIN sent' /\ sent'[i] = sent[i]
    BY <1>3
  <2>3. \A j \in DOMAIN sent' : j \in DOMAIN sent \/ sent'[j] = request
    BY <1>3
  <2>4. \A j \in DOMAIN sent' : j > i => sent'[j].label[1] # Judge
    BY <1>3, <1>4, <2>1, <2>3
  <2>. QED
    BY <1>2, <2>1, <2>2, <2>4 DEF AnsweredLast
<1>5. ASSUME request.label[1] = Judge, request.reply = "object"
      PROVE  AnsweredLast(Judge)'
  <2>. DEFINE last == Len(sent) + 1
  <2>1. /\ last \in DOMAIN sent' /\ sent'[last] = request
        /\ \A j \in DOMAIN sent' : ~ (j > last)
    BY <1>3
  <2>. QED
    BY <1>2, <1>5, <2>1 DEF AnsweredLast
<1>. QED
  BY <1>1, <1>4, <1>5

LEMMA JudgedV3 ==
    ASSUME Standing, Judged, input.analyser = "v3", V3!Next PROVE Judged'
<1>0. PICK s \in {"pass0", "qc", "analysis", "format_client", "format_manager"} :
        \E reply : V3!AskFor(s, reply)
  BY DEF V3!Next, V3!Unreachable, V3!AskAgain, V3!Pass0,
         V3!Pass0Raises, V3!Pass0Unreadable, V3!Qc, V3!QcGivesUp, V3!Analysis,
         V3!FormatClient, V3!FormatClientGivesUp, V3!FormatManager, V3!FormatManagerGivesUp
<1>1. PICK reply : V3!AskFor(s, reply)
  BY <1>0
<1>. DEFINE label == IF retry THEN <<V3!Label(s), "retry">> ELSE <<V3!Label(s)>>
<1>2. step = s /\ V3!Ask(V3!StageTag(s), label, reply) /\ label[1] = V3!Label(s)
  BY <1>1 DEF V3!AskFor
<1>3. input' = input
  BY <1>2 DEF V3!Ask
<1>4. \E request : /\ sent' = Append(sent, request)
                   /\ request.label[1] = V3!Label(s) /\ request.reply = reply
  BY <1>2 DEF V3!Ask
<1>5. PICK request : /\ sent' = Append(sent, request)
                     /\ request.label[1] = V3!Label(s) /\ request.reply = reply
  BY <1>4
<1>6. Judge = "worker_analysis_qc_v3"
  BY DEF Judge
<1>7. s # "qc" => V3!Label(s) # Judge
  BY <1>6 DEF V3!Label
<1>8. \E R : sent' \in Seq(R)
  BY <1>3, <1>5, JudgementStays
<1>9. CASE V3!Qc
  <2>1. V3!AskFor("qc", "object") /\ step' = "analysis"
    BY <1>9 DEF V3!Qc, V3!GoOn
  <2>2. \E r : sent' = Append(sent, r) /\ r.label[1] = Judge /\ r.reply = "object"
    BY <1>6, <2>1 DEF V3!AskFor, V3!Ask, V3!Label
  <2>3. AnsweredLast(Judge)'
    BY <1>3, <2>2, JudgementStays
  <2>. QED
    BY <1>3, <1>8, <2>1, <2>3 DEF Judged
<1>10. CASE ~ V3!Qc
  <2>1. work'.qc_ok => work.qc_ok
    <3>1. DOMAIN work = {"pass0", "qc", "qc_ok", "flag", "client", "manager", "truncated"}
      BY DEF Standing, Answered, NoWork
    <3>2. \A reply1 : V3!Noting(reply1).qc_ok = work.qc_ok
      BY <3>1 DEF V3!Noting
    <3>3. \A reply1 : DOMAIN V3!Noting(reply1) = DOMAIN work
      BY DEF V3!Noting
    <3>4. ASSUME NEW left, V3!Make(left) PROVE work' = left
      BY <3>4 DEF V3!Make, V3!Made, V3!Lose
    <3>5. CASE V3!FormatManager
      <4>1. PICK answer : V3!Make([work EXCEPT !.manager = answer])
        BY <3>5 DEF V3!FormatManager
      <4>. QED
        BY <3>1, <3>4, <4>1
    <3>6. CASE V3!FormatManagerGivesUp
      <4>1. PICK reply1 : V3!Make([V3!Noting(reply1) EXCEPT !.manager = V3!NoManagerPart])
        BY <3>6 DEF V3!FormatManagerGivesUp
      <4>. QED
        BY <3>1, <3>2, <3>3, <3>4, <4>1
    <3>7. CASE V3!Pass0 \/ V3!Pass0Raises
      BY <3>1, <3>7 DEF V3!Pass0, V3!Pass0Raises, V3!Made, V3!GoOn, V3!Lose
    <3>8. CASE V3!Pass0Unreadable \/ V3!QcGivesUp \/ V3!Analysis
      BY <3>1, <3>2, <3>3, <3>8 DEF V3!Pass0Unreadable, V3!QcGivesUp, V3!Analysis, V3!GoOn
    <3>9. CASE V3!FormatClient \/ V3!FormatClientGivesUp
      BY <3>1, <3>9 DEF V3!FormatClient, V3!FormatClientGivesUp, V3!GoOn, V3!Lose
    <3>10. CASE \/ \E s1 \in {"pass0", "qc", "analysis", "format_client", "format_manager"} :
                     V3!Unreachable(s1)
                \/ \E s1 \in {"qc", "format_client", "format_manager"} : V3!AskAgain(s1)
      BY <3>2, <3>10 DEF V3!Unreachable, V3!AskAgain, V3!Lose
    <3>. QED
      BY <1>10, <3>5, <3>6, <3>7, <3>8, <3>9, <3>10 DEF V3!Next
  <2>2. CASE work.qc_ok
    <3>1. s \notin {"pass0", "qc"} /\ AnsweredLast(Judge)
      BY <1>2, <2>2 DEF Judged
    <3>2. AnsweredLast(Judge)'
      BY <1>3, <1>5, <1>7, <3>1, JudgementStays
    <3>3. step' \notin {"start", "pass0", "qc"}
      BY <1>1, <1>2, <3>1 DEF V3!Next, V3!Unreachable, V3!AskAgain, V3!Pass0,
         V3!Pass0Raises, V3!Pass0Unreadable, V3!Qc, V3!QcGivesUp, V3!Analysis,
         V3!FormatClient, V3!FormatClientGivesUp, V3!FormatManager, V3!FormatManagerGivesUp,
         V3!Make, V3!Made, V3!Lose, V3!GoOn, V3!AskFor
    <3>. QED
      BY <1>3, <1>8, <3>2, <3>3 DEF Judged
  <2>3. CASE ~ work.qc_ok
    BY <1>3, <1>8, <2>1, <2>3 DEF Judged
  <2>. QED
    BY <2>2, <2>3
<1>. QED
  BY <1>9, <1>10
LEMMA JudgedV2 ==
    ASSUME Standing, Judged, input.analyser = "v2", V2!Next PROVE Judged'
<1>0. PICK s \in {"pass0", "qc", "main"} : \E reply : V2!AskFor(s, reply)
  BY DEF V2!Next, V2!Pass0, V2!Pass0Raises, V2!Pass0Unreadable, V2!Pass0NoObject,
         V2!AgentRaises, V2!AgentAsksAgain, V2!AgentGivesUp, V2!Qc, V2!Main
<1>1. PICK reply : V2!AskFor(s, reply)
  BY <1>0
<1>2. /\ step = s /\ V2!Ask(s, <<V2!Label(s)>>, reply)
  BY <1>1 DEF V2!AskFor
<1>3. input' = input
  BY <1>2 DEF V2!Ask
<1>4. \E request : /\ sent' = Append(sent, request)
                   /\ request.label[1] = V2!Label(s) /\ request.reply = reply
  BY <1>2 DEF V2!Ask
<1>5. PICK request : /\ sent' = Append(sent, request)
                     /\ request.label[1] = V2!Label(s) /\ request.reply = reply
  BY <1>4
<1>6. Judge = "worker_analysis_qc_v2"
  BY DEF Judge
<1>7. s # "qc" => V2!Label(s) # Judge
  BY <1>6 DEF V2!Label
<1>8. \E R : sent' \in Seq(R)
  BY <1>3, <1>5, JudgementStays
<1>9. CASE V2!Qc
  <2>1. V2!AskFor("qc", "object")
    BY <1>9 DEF V2!Qc
  <2>2. \E r : sent' = Append(sent, r) /\ r.label[1] = Judge /\ r.reply = "object"
    BY <1>6, <2>1 DEF V2!AskFor, V2!Ask, V2!Label
  <2>3. AnsweredLast(Judge)'
    BY <1>3, <2>2, JudgementStays
  <2>. QED
    BY <1>3, <1>8, <2>3 DEF Judged
<1>10. CASE V2!Main
  <2>1. step = "main" /\ s = "main"
    BY <1>2, <1>10 DEF V2!Main, V2!AskFor
  <2>2. AnsweredLast(Judge)'
    BY <1>3, <1>5, <1>7, <2>1, JudgementStays DEF Judged
  <2>. QED
    BY <1>3, <1>8, <2>2 DEF Judged
<1>11. CASE \E s1 \in {"qc", "main"} : V2!AgentAsksAgain(s1)
  <2>1. step' = step /\ report' = report /\ work' = work /\ step = s
    BY <1>2, <1>11 DEF V2!AgentAsksAgain
  <2>2. step' \in {"pass0", "qc", "main"}
    BY <2>1
  <2>3. CASE step = "main"
    <3>1. AnsweredLast(Judge)'
      BY <1>3, <1>5, <1>7, <2>1, <2>3, JudgementStays DEF Judged
    <3>. QED
      BY <1>3, <1>8, <2>1, <2>3, <3>1 DEF Judged, Reported
  <2>4. CASE step # "main"
    BY <1>3, <1>8, <2>1, <2>2, <2>4 DEF Judged, Reported
  <2>. QED
    BY <2>3, <2>4
<1>12. CASE ~ V2!Qc /\ ~ V2!Main /\ ~ \E s1 \in {"qc", "main"} : V2!AgentAsksAgain(s1)
  <2>1. step' # "main"
    BY <1>12 DEF V2!Next, V2!Pass0, V2!Pass0Raises, V2!Pass0Unreadable, V2!Pass0NoObject,
                 V2!AgentRaises, V2!AgentGivesUp, V2!Made, V2!Lose, V2!GoOn
  <2>2. step' = "made" => report'.call_type = "junk"
    BY <1>12 DEF V2!Next, V2!Pass0, V2!Pass0Raises, V2!Pass0Unreadable, V2!Pass0NoObject,
                 V2!AgentRaises, V2!AgentGivesUp, V2!Made, V2!Lose, V2!GoOn, V2!JunkReport
  <2>3. step' # "done"
    BY <1>12 DEF V2!Next, V2!Pass0, V2!Pass0Raises, V2!Pass0Unreadable, V2!Pass0NoObject,
                 V2!AgentRaises, V2!AgentGivesUp, V2!Made, V2!Lose, V2!GoOn
  <2>. QED
    BY <1>3, <1>8, <2>1, <2>2, <2>3 DEF Judged, Reported
<1>. QED
  BY <1>9, <1>10, <1>11, <1>12

\* Junk stays junk in a chain.
LEMMA ChainedType ==
    ASSUME Standing, Reported, step = "made"
    PROVE  Chained(report).call_type = report.call_type
<1>1. input.analyser \in {"v2", "v3"}
  BY InputsAssumption DEF Standing
<1>2. "call_type" \in DOMAIN report
  <2>1. CASE input.analyser = "v2"
    BY <2>1 DEF Standing, MadeByV2, Junk, Own, V2!Payload
  <2>2. CASE input.analyser = "v3"
    BY <2>2 DEF Standing, MadeByV3, Junk, Own, V3!Payload
  <2>. QED
    BY <1>1, <2>1, <2>2
<1>. QED
  BY <1>2, ChainedKeeps

LEMMA JudgedNext == Standing /\ Judged /\ [Next]_vars => Judged'
<1>. SUFFICES ASSUME Standing, Judged, [Next]_vars PROVE Judged'
  OBVIOUS
<1>0. input.analyser \in {"v2", "v3"}
  BY InputsAssumption DEF Standing
<1>1. ASSUME sent' = sent, input' = input
      PROVE  /\ \E R : sent' \in Seq(R)
             /\ AnsweredLast(Judge) => AnsweredLast(Judge)'
  BY <1>1 DEF Judged, AnsweredLast, Judge
<1>2. CASE Start
  <2>1. step = "start" /\ step' = "pass0" /\ input' = input /\ work' = work /\ sent' = sent
    BY <1>2 DEF Start
  <2>. QED
    BY <1>1, <2>1 DEF Judged, Reported
<1>3. CASE Analyse
  BY <1>3, JudgedV2, JudgedV3 DEF Analyse
<1>4. CASE Chain
  <2>1. /\ step = "made" /\ step' \in {"lost", "done"}
        /\ input' = input /\ work' = work /\ sent' = sent
        /\ report' = NoReport \/ report' = Chained(report)
        /\ step' = "lost" => report' = NoReport
    BY <1>4 DEF Chain
  <2>2. Reported
    BY <2>1 DEF Standing, Reported
  <2>3. Reported' /\ report'.call_type # "junk" => report.call_type # "junk"
    BY <2>1, <2>2, ChainedType DEF Reported
  <2>. QED
    BY <1>1, <2>1, <2>2, <2>3 DEF Judged
<1>5. CASE Settle \/ Score
  <2>1. /\ step \in {"made", "lost"} /\ step' = "done" /\ report' = report
        /\ input' = input /\ work' = work /\ sent' = sent
    BY <1>5 DEF Settle, Score
  <2>2. Reported' => Reported
    BY <2>1 DEF Standing, Reported
  <2>. QED
    BY <1>1, <2>1, <2>2 DEF Judged
<1>6. CASE UNCHANGED vars
  BY <1>1, <1>6 DEF Judged, Reported, vars, analysis
<1>. QED
  BY <1>2, <1>3, <1>4, <1>5, <1>6 DEF Next

\* What a score says of the report that has it.
LEMMA OwnScore ==
    ASSUME Standing, Reported, report.score # Null,
           NEW payload, NEW answer, Scored(payload, answer), Own(payload)
    PROVE  /\ payload.is_scoreable /\ report.score \in 0 .. 10
           /\ report.call_type = "sales" /\ ~ report.connection_lost
<1>1. /\ {"is_scoreable", "call_type", "connection_lost"} \subseteq DOMAIN payload
      /\ payload.is_scoreable => payload.call_type = "sales" /\ ~ payload.connection_lost
  BY DEF Scored
<1>2. CASE report = payload
  BY <1>2 DEF Own, Scored
<1>3. CASE report = Chained(payload) /\ report.score # Raises
  <2>1. payload.is_scoreable /\ report.score \in 0 .. 10
    BY <1>3, ScoredInChain DEF Standing
  <2>2. report.call_type = payload.call_type /\ report.connection_lost = payload.connection_lost
    BY <1>1, <1>3, ChainedKeeps
  <2>. QED
    BY <1>1, <2>1, <2>2
<1>. QED
  BY <1>2, <1>3 DEF Own

LEMMA ScoresFromJudgements == Standing /\ Judged => ScoreOnlyWhenJudged
<1>. SUFFICES ASSUME Standing, Judged, Reported, report.score # Null
              PROVE  /\ report.call_type = "sales" /\ ~report.connection_lost
                     /\ AnsweredLast(Judge)
                     /\ report.score \in 0..10
  BY DEF ScoreOnlyWhenJudged
<1>0. input.analyser \in {"v2", "v3"} /\ ~ Junk
  BY InputsAssumption DEF Standing, Junk
<1>1. work.qc \in QcAnswers \union {NoAnswerToQc}
  BY DEF Standing, Answered
<1>2. CASE input.analyser = "v2"
  <2>1. PICK answer \in ReportAnswers : Own(V2!Payload(work, answer))
    BY <1>0, <1>2 DEF Standing, MadeByV2
  <2>2. report.score \in 0 .. 10 /\ report.call_type = "sales" /\ ~ report.connection_lost
    BY <1>1, <2>1, ScoredV2, OwnScore
  <2>. QED
    BY <1>2, <2>2 DEF Judged
<1>3. CASE input.analyser = "v3"
  <2>1. Own(V3!Payload(work))
    BY <1>0, <1>3 DEF Standing, MadeByV3
  <2>2. /\ report.score \in 0 .. 10 /\ report.call_type = "sales" /\ ~ report.connection_lost
        /\ work.qc_ok
    BY <1>1, <2>1, ScoredV3, OwnScore
  <2>. QED
    BY <1>3, <2>2 DEF Judged
<1>. QED
  BY <1>0, <1>2, <1>3

\* A score is one of a sales call that was not cut off and whose qc stage ended in an
\* answer: no chain of retries and fallbacks makes one out of a failed stage.
THEOREM NoScoreUnjudged == Spec => []ScoreOnlyWhenJudged
BY StandingInit, StandingNext, JudgedInit, JudgedNext, ScoresFromJudgements, PTL DEF Spec
-----------------------------------------------------------------------------
(***************************************************************************)
(* A report is lost for a cause.                                           *)
(***************************************************************************)
ForCause ==
    /\ \E R : sent \in Seq(R)
    /\ LostOnlyForCause
    /\ input.analyser = "v3" /\ step = "made" /\ report.call_type # "junk" =>
         sent[Len(sent)].label[1] = "worker_analysis_manager_v3"

\* The request a step makes is the last of those that were sent.
LEMMA LastRequest ==
    ASSUME ForCause, NEW s, NEW reply, V3!AskFor(s, reply)
    PROVE  /\ step = s /\ input' = input
           /\ \E R : sent' \in Seq(R)
           /\ sent'[Len(sent')].reply = reply
           /\ sent'[Len(sent')].label = IF retry THEN <<V3!Label(s), "retry">> ELSE <<V3!Label(s)>>
<1>. DEFINE label == IF retry THEN <<V3!Label(s), "retry">> ELSE <<V3!Label(s)>>
<1>1. step = s /\ V3!Ask(V3!StageTag(s), label, reply)
  BY DEF V3!AskFor
<1>. HIDE DEF label
<1>2. \E request : /\ sent' = Append(sent, request)
                   /\ request.label = label /\ request.reply = reply
  BY <1>1 DEF V3!Ask
<1>3. input' = input
  BY <1>1 DEF V3!Ask
<1>4. PICK request : /\ sent' = Append(sent, request)
                     /\ request.label = label /\ request.reply = reply
  BY <1>2
<1>5. Appended(sent, sent', request) /\ \E R : sent' \in Seq(R)
  BY <1>4, Appending DEF ForCause
<1>6. sent'[Len(sent')] = request
  BY <1>5 DEF Appended
<1>. QED
  BY <1>1, <1>3, <1>4, <1>5, <1>6 DEF label

LEMMA ForCauseV3 ==
    ASSUME Standing, ForCause, input.analyser = "v3", V3!Next PROVE ForCause'
<1>0. Standing' /\ input' = input
  BY StandingV3
<1>1. \E R : sent' \in Seq(R)
  BY LastRequest DEF V3!Next, V3!Unreachable, V3!AskAgain, V3!Pass0,
         V3!Pass0Raises, V3!Pass0Unreadable, V3!Qc, V3!QcGivesUp, V3!Analysis,
         V3!FormatClient, V3!FormatClientGivesUp, V3!FormatManager, V3!FormatManagerGivesUp
<1>. DEFINE last == sent'[Len(sent')]
<1>2. ASSUME step' \notin {"lost", "made"} PROVE ForCause'
  BY <1>1, <1>2 DEF ForCause, LostOnlyForCause
<1>3. CASE \E s \in {"pass0", "qc", "analysis", "format_client", "format_manager"} :
             V3!Unreachable(s)
  <2>1. step' = "lost" /\ last.reply \in Unanswered
    BY <1>3, LastRequest DEF V3!Unreachable, V3!Lose, V3!Unanswered, Unanswered
  <2>. QED
    BY <1>1, <2>1 DEF ForCause, LostOnlyForCause
<1>4. CASE V3!FormatClientGivesUp
  <2>1. PICK reply \in V3!Unparsed : retry /\ V3!AskFor("format_client", reply) /\ V3!Lose(work)
    BY <1>4 DEF V3!FormatClientGivesUp
  <2>2. last.reply \in Unparsed
    BY <2>1, LastRequest DEF V3!Unparsed, Unparsed
  <2>3. last.label = <<"worker_analysis_format_v3", "retry">>
    BY <2>1, LastRequest DEF V3!Label
  <2>4. step' = "lost"
    BY <2>1 DEF V3!Lose
  <2>. QED
    BY <1>1, <2>2, <2>3, <2>4 DEF ForCause, LostOnlyForCause
<1>5. CASE V3!Pass0
  <2>1. step' = "made" => report'.call_type = "junk"
    <3>1. PICK pass0 : \/ V3!Made(work, [V3!JunkReport(pass0) EXCEPT !.version = "v3"])
                       \/ V3!GoOn("qc", [work EXCEPT !.pass0 = pass0])
      BY <1>5 DEF V3!Pass0
    <3>2. [V3!JunkReport(pass0) EXCEPT !.version = "v3"].call_type = "junk"
      BY DEF V3!JunkReport
    <3>. QED
      BY <3>1, <3>2 DEF V3!Made, V3!GoOn
  <2>2. step' # "lost"
    BY <1>5 DEF V3!Pass0, V3!Made, V3!GoOn
  <2>. QED
    BY <1>1, <2>1, <2>2 DEF ForCause, LostOnlyForCause
<1>6. CASE \/ \E s \in {"qc", "format_client", "format_manager"} : V3!AskAgain(s)
           \/ V3!Pass0Unreadable \/ V3!Qc \/ V3!QcGivesUp \/ V3!Analysis \/ V3!FormatClient
  <2>1. step' \notin {"lost", "made"}
    BY <1>6 DEF V3!AskAgain, V3!AskFor, V3!Pass0Unreadable, V3!Qc, V3!QcGivesUp, V3!Analysis,
                V3!FormatClient, V3!GoOn
  <2>. QED
    BY <1>2, <2>1
<1>7. CASE V3!FormatManager \/ V3!FormatManagerGivesUp
  <2>1. \E reply : V3!AskFor("format_manager", reply)
    BY <1>7 DEF V3!FormatManager, V3!FormatManagerGivesUp
  <2>2. last.label[1] = "worker_analysis_manager_v3"
    <3>1. last.label = IF retry THEN <<V3!Label("format_manager"), "retry">>
                       ELSE <<V3!Label("format_manager")>>
      BY <2>1, LastRequest
    <3>2. last.label[1] = V3!Label("format_manager")
      BY <3>1
    <3>. QED
      BY <3>2 DEF V3!Label
  <2>3. PICK left : V3!Make(left)
    BY <1>7 DEF V3!FormatManager, V3!FormatManagerGivesUp
  <2>4. /\ step' \in {"made", "lost"} /\ work' = left
        /\ step' = "lost" => V3!Payload(left).score = Raises
    BY <2>3 DEF V3!Make, V3!Made, V3!Lose, V3!Raises, Raises
  <2>5. step' = "lost" => NoNumber(ScoresOf(work'.qc))
    <3>0. work'.qc \in QcAnswers \union {NoAnswerToQc} /\ work'.qc = left.qc
      BY <1>0, <2>4 DEF Standing, Answered
    <3>1. left.qc \in QcAnswers \union {NoAnswerToQc}
      BY <3>0
    <3>2. Scored(V3!Payload(left), left.qc)
      BY <3>1, ScoredV3
    <3>3. V3!Payload(left).score = Raises => NoNumber(ScoresOf(left.qc))
      BY <3>2 DEF Scored, Raises, Null
    <3>. QED
      BY <2>4, <3>0, <3>3
  <2>6. step' = "lost" => Unscoreable'
    BY <2>5 DEF Unscoreable
  <2>. QED
    BY <1>1, <2>2, <2>4, <2>6 DEF ForCause, LostOnlyForCause
<1>8. CASE V3!Pass0Raises
  <2>1. PICK answer \in Classifications :
          /\ answer.type = V3!Unhashable /\ V3!AskFor("pass0", "object")
          /\ V3!Lose([work EXCEPT !.pass0 = answer])
    BY <1>8 DEF V3!Pass0Raises
  <2>2. last.label[1] = "worker_pass0_filter_v3"
    <3>1. last.label = IF retry THEN <<V3!Label("pass0"), "retry">> ELSE <<V3!Label("pass0")>>
      BY <2>1, LastRequest
    <3>2. last.label[1] = V3!Label("pass0")
      BY <3>1
    <3>. QED
      BY <3>2 DEF V3!Label
  <2>3. "pass0" \in DOMAIN work
    BY DEF Standing, Answered, NoWork
  <2>4. step' = "lost" /\ work'.pass0.type = Unhashable
    BY <2>1, <2>3 DEF V3!Lose, V3!Unhashable, Unhashable
  <2>. QED
    BY <1>1, <2>2, <2>4 DEF ForCause, LostOnlyForCause
<1>. QED
  BY <1>3, <1>4, <1>5, <1>6, <1>7, <1>8 DEF V3!Next

LEMMA ForCauseNext == Standing /\ ForCause /\ [Next]_vars => ForCause'
<1>. SUFFICES ASSUME Standing, ForCause, [Next]_vars PROVE ForCause'
  OBVIOUS
<1>1. CASE Start
  BY <1>1 DEF Start, ForCause, LostOnlyForCause
<1>2. CASE Analyse
  <2>1. CASE input.analyser = "v3" /\ V3!Next
    BY <2>1, ForCauseV3
  <2>2. CASE input.analyser = "v2" /\ V2!Next
    <3>1. input' = input /\ Len(sent) \in Nat
      BY <2>2, StandingV2 DEF ForCause
    <3>2. PICK stage, label, reply : Asked(stage, label, reply)
      BY <1>2, <3>1, AnalysesAsk
    <3>3. \E R : sent' \in Seq(R)
      BY <3>2, Appending DEF Asked, ForCause
    <3>. QED
      BY <2>2, <3>1, <3>3 DEF ForCause, LostOnlyForCause
  <2>. QED
    BY <1>2, <2>1, <2>2 DEF Analyse
<1>3. CASE Chain
  <2>1. /\ step = "made" /\ input.caller = "chain"
        /\ input' = input /\ work' = work /\ sent' = sent
        /\ step' = IF Chained(report).score = Raises THEN "lost" ELSE "done"
    BY <1>3 DEF Chain
  <2>2. ASSUME input.analyser = "v3", step' = "lost"
        PROVE  sent[Len(sent)].label[1] = "worker_analysis_manager_v3" /\ Unscoreable
    <3>1. Reported /\ MadeByV3 /\ Chained(report).score = Raises
      BY <2>1, <2>2 DEF Standing, Reported
    <3>2. ~ Junk
      BY <3>1 DEF Junk, Chained, Null, Raises
    <3>3. report = V3!Payload(work) /\ report.call_type # "junk"
      BY <2>1, <3>1, <3>2 DEF MadeByV3, Own
    <3>4. Scored(report, work.qc)
      BY <3>3, ScoredV3 DEF Standing, Answered
    <3>5. \/ NoNumber(ScoresOf(work.qc))
          \/ \E i \in DOMAIN input.previous : NoNumber(input.previous[i].qc)
      BY <3>1, <3>4, ScoredInChain DEF Standing, Raises, Null
    <3>. QED
      BY <2>1, <2>2, <3>3, <3>5 DEF ForCause, Unscoreable
  <2>3. Unscoreable' <=> Unscoreable
    BY <2>1 DEF Unscoreable
  <2>. QED
    BY <2>1, <2>2, <2>3 DEF ForCause, LostOnlyForCause
<1>4. CASE Settle \/ Score
  BY <1>4 DEF Settle, Score, ForCause, LostOnlyForCause
<1>5. CASE UNCHANGED vars
  BY <1>5 DEF ForCause, LostOnlyForCause, Unscoreable, vars, analysis
<1>. QED
  BY <1>1, <1>2, <1>3, <1>4, <1>5 DEF Next

\* The v3 report is lost to an answer that does not come or has no choice, to a type of the
\* wrong kind, to the client's part or to a count that is no number, and to nothing else that
\* is asked for.
THEOREM LostForCause == Spec => []LostOnlyForCause
<1>1. Init => ForCause
  <2>. SUFFICES ASSUME Init PROVE ForCause
    OBVIOUS
  <2>1. sent = <<>> /\ sent \in Seq({}) /\ step = "start"
    BY DEF Init
  <2>. QED
    BY <2>1 DEF ForCause, LostOnlyForCause
<1>2. ForCause => LostOnlyForCause
  BY DEF ForCause
<1>. QED
  BY <1>1, <1>2, StandingInit, StandingNext, ForCauseNext, PTL DEF Spec
-----------------------------------------------------------------------------
(***************************************************************************)
(* The search for a quote.                                                 *)
(***************************************************************************)
\* How much of a quote a stretch contains is a number, and bounded.
LEMMA RatioNumbers ==
    ASSUME NEW quote, quote.fidelity \in Nat, IsFiniteSet(quote.home), NEW stretch
    PROVE  PartialRatio(quote, stretch) \in 0 .. (quote.fidelity + Noise)
<1>1. CASE quote.home = {} \/ quote.home \intersect stretch = {}
  BY <1>1 DEF PartialRatio, Noise
<1>2. CASE ~ (quote.home = {} \/ quote.home \intersect stretch = {})
  <2>. DEFINE n == Cardinality(quote.home)
  <2>1. n \in Nat \ {0}
    BY <1>2, FS_CardinalityType, FS_EmptySet
  <2>. HIDE DEF n
  <2>2. quote.fidelity \div n \in 0 .. quote.fidelity
    BY <2>1
  <2>3. PartialRatio(quote, stretch) \in {quote.fidelity, quote.fidelity \div n}
    BY <1>2 DEF PartialRatio, n
  <2>. QED
    BY <2>2, <2>3 DEF Noise
<1>. QED
  BY <1>1, <1>2

\* The best of a pool is one of it, and none is better.
LEMMA BestIsBest ==
    ASSUME NEW quote, quote.fidelity \in Nat, IsFiniteSet(quote.home),
           NEW candidates, DOMAIN candidates \subseteq Nat \ {0},
           NEW pool \in SUBSET DOMAIN candidates
    PROVE  LET best == Best(quote, candidates, pool)
           IN  /\ pool = {} => best = 0
               /\ pool # {} =>
                    /\ best \in pool
                    /\ \A j \in pool : PartialRatio(quote, candidates[j])
                                         <= PartialRatio(quote, candidates[best])
<1>. DEFINE r(i) == PartialRatio(quote, candidates[i])
            top == quote.fidelity + Noise
            isBest(i) == \A j \in pool : r(j) < r(i) \/ (r(j) = r(i) /\ i <= j)
<1>1. \A i : r(i) \in Nat /\ r(i) <= top /\ top \in Nat
  BY RatioNumbers DEF Noise
<1>2. pool \subseteq Nat
  OBVIOUS
<1>3. Best(quote, candidates, pool) =
        IF pool = {} THEN 0 ELSE CHOOSE i \in pool : isBest(i)
  BY DEF Best
<1>. HIDE DEF r, top
<1>4. CASE pool # {}
  <2>. DEFINE gaps == {top - r(i) : i \in pool}
  <2>1. gaps \in SUBSET Nat /\ gaps # {}
    BY <1>1, <1>4
  <2>2. PICK g \in gaps : \A h \in gaps : g <= h
    <3>. HIDE DEF gaps
    <3>. QED
      BY <2>1, Smallest
  <2>3. PICK m \in pool : g = top - r(m)
    OBVIOUS
  <2>4. \A j \in pool : r(j) <= r(m)
    <3>. TAKE j \in pool
    <3>1. top - r(m) <= top - r(j)
      BY <2>2, <2>3
    <3>. QED
      BY <1>1, <3>1
  <2>. DEFINE equals == {i \in pool : r(i) = r(m)}
  <2>5. equals \in SUBSET Nat /\ equals # {}
    BY <1>2
  <2>6. PICK i \in equals : \A j \in equals : i <= j
    <3>. HIDE DEF equals
    <3>. QED
      BY <2>5, Smallest
  <2>7. i \in pool /\ isBest(i)
    <3>1. ASSUME NEW j \in pool PROVE r(j) < r(i) \/ (r(j) = r(i) /\ i <= j)
      <4>1. r(j) <= r(i) /\ r(i) = r(m)
        BY <2>4
      <4>2. r(j) = r(i) => i <= j
        BY <2>6, <4>1
      <4>. QED
        BY <1>1, <4>1, <4>2
    <3>. QED
      BY <3>1
  <2>. DEFINE best == CHOOSE b \in pool : isBest(b)
  <2>8. best \in pool /\ isBest(best)
    <3>. HIDE DEF isBest
    <3>. QED
      BY <2>7
  <2>. HIDE DEF best
  <2>9. \A j \in pool : r(j) <= r(best)
    BY <1>1, <2>8
  <2>. QED
    BY <1>3, <1>4, <2>8, <2>9 DEF best, r
<1>. QED
  BY <1>3, <1>4

\* A quote is found exactly if some candidate contains it well enough: that only the
\* candidates with a mark are looked at first decides nothing (find_quote_segment).
THEOREM CheapScanDecidesNothing ==
    ASSUME NEW quote, quote.fidelity \in Nat, IsFiniteSet(quote.home),
           NEW candidates, DOMAIN candidates \subseteq Nat \ {0}
    PROVE  Reaches(quote, candidates, Scan(quote, candidates)) <=>
             \E i \in DOMAIN candidates : PartialRatio(quote, candidates[i]) >= Bar(quote)
<1>. DEFINE r(i) == PartialRatio(quote, candidates[i])
            cheap == {i \in DOMAIN candidates :
                        quote.marks = {} \/ candidates[i] \intersect quote.marks # {}}
            first == Best(quote, candidates, cheap)
            full == Best(quote, candidates, DOMAIN candidates)
<1>1. /\ \A i : r(i) \in Nat
      /\ Bar(quote) \in Nat
  BY RatioNumbers DEF Noise, Bar, MatchThreshold
<1>2. cheap \in SUBSET DOMAIN candidates /\ (quote.marks = {} => cheap = DOMAIN candidates)
  OBVIOUS
<1>. HIDE DEF cheap
<1>3. /\ first = 0 \/ first \in DOMAIN candidates
      /\ full = 0 \/ full \in DOMAIN candidates
      /\ DOMAIN candidates # {} => /\ full \in DOMAIN candidates
                                   /\ \A j \in DOMAIN candidates : r(j) <= r(full)
  <2>1. DOMAIN candidates \in SUBSET DOMAIN candidates
    OBVIOUS
  <2>. QED
    BY <1>2, <2>1, BestIsBest
<1>4. quote.marks = {} => first = full
  BY <1>2
<1>5. Scan(quote, candidates) =
        IF Reaches(quote, candidates, first) \/ quote.marks = {} THEN first ELSE full
  BY DEF Scan, cheap
<1>6. \A i : Reaches(quote, candidates, i) <=> i # 0 /\ r(i) >= Bar(quote)
  BY DEF Reaches
<1>. HIDE DEF r, first, full
<1>7. ASSUME Reaches(quote, candidates, Scan(quote, candidates))
      PROVE  \E i \in DOMAIN candidates : r(i) >= Bar(quote)
  BY <1>3, <1>5, <1>6, <1>7
<1>8. ASSUME NEW i \in DOMAIN candidates, r(i) >= Bar(quote)
      PROVE  Reaches(quote, candidates, Scan(quote, candidates))
  <2>1. full \in DOMAIN candidates /\ r(i) <= r(full)
    BY <1>3
  <2>2. full # 0 /\ r(full) >= Bar(quote)
    BY <1>1, <1>8, <2>1
  <2>3. Reaches(quote, candidates, full)
    BY <1>6, <2>2
  <2>. QED
    BY <1>4, <1>5, <2>3
<1>. QED
  BY <1>7, <1>8 DEF r

\* What is picked of a sequence is a sequence of what stands at those positions.
LEMMA PickedIterates ==
    ASSUME NEW X, NEW seq \in Seq(X), NEW positions
    PROVE  \E upto :
             /\ Picked(seq, positions) = upto[Len(seq)]
             /\ upto[0] = <<>>
             /\ \A n \in 1 .. Len(seq) :
                  upto[n] = IF n \in positions THEN Append(upto[n - 1], seq[n]) ELSE upto[n - 1]
<1>. DEFINE Here(n, g) == IF n = 0 THEN <<>>
                          ELSE IF n \in positions THEN Append(g[n - 1], seq[n]) ELSE g[n - 1]
            Solved(m) == \E g : g = [n \in 0 .. m |-> Here(n, g)]
            Unsolved == {m \in Nat : ~ Solved(m)}
<1>1. Solved(0)
  <2>. DEFINE g == [n \in 0 .. 0 |-> <<>>]
  <2>1. g = [n \in 0 .. 0 |-> Here(n, g)]
    OBVIOUS
  <2>. QED
    BY <2>1
<1>2. ASSUME NEW m \in Nat, Solved(m) PROVE Solved(m + 1)
  <2>1. PICK g : g = [n \in 0 .. m |-> Here(n, g)]
    BY <1>2
  <2>. DEFINE h == [n \in 0 .. m + 1 |-> IF n \in 0 .. m THEN g[n] ELSE Here(n, g)]
  <2>2. \A n \in 0 .. m + 1 : h[n] = Here(n, g)
    BY <2>1
  <2>3. \A n \in 0 .. m + 1 : n # 0 => h[n - 1] = g[n - 1]
    <3>. TAKE n \in 0 .. m + 1
    <3>1. n # 0 => n - 1 \in 0 .. m /\ n - 1 \in 0 .. m + 1
      OBVIOUS
    <3>. QED
      BY <3>1
  <2>4. h = [n \in 0 .. m + 1 |-> h[n]]
    OBVIOUS
  <2>. HIDE DEF h
  <2>5. \A n \in 0 .. m + 1 : h[n] = Here(n, h)
    BY <2>2, <2>3
  <2>. HIDE DEF Here
  <2>6. h = [n \in 0 .. m + 1 |-> Here(n, h)]
    BY <2>4, <2>5
  <2>. QED
    BY <2>6
<1>. HIDE DEF Solved
<1>3. Unsolved = {}
  <2>. SUFFICES ASSUME Unsolved # {} PROVE FALSE
    OBVIOUS
  <2>1. PICK m \in Unsolved : \A k \in Unsolved : m <= k
    BY Smallest
  <2>2. m # 0 /\ m - 1 \in Nat /\ m - 1 \notin Unsolved
    BY <1>1, <2>1
  <2>. QED
    BY <1>2, <2>1, <2>2
<1>4. Len(seq) \in Nat
  OBVIOUS
<1>5. \E g : g = [n \in 0 .. Len(seq) |-> Here(n, g)]
  BY <1>3, <1>4 DEF Solved
<1>. DEFINE upto == CHOOSE g : g = [n \in 0 .. Len(seq) |-> Here(n, g)]
<1>6. upto = [n \in 0 .. Len(seq) |-> Here(n, upto)]
  BY <1>5
<1>7. Picked(seq, positions) = upto[Len(seq)]
  BY DEF Picked
<1>. HIDE DEF upto
<1>8. 0 \in 0 .. Len(seq) /\ \A n \in 1 .. Len(seq) : n \in 0 .. Len(seq) /\ n # 0
  BY <1>4
<1>9. upto[0] = <<>> /\ \A n \in 1 .. Len(seq) : upto[n] = Here(n, upto)
  BY <1>6, <1>8
<1>10. \A n \in 1 .. Len(seq) :
         upto[n] = IF n \in positions THEN Append(upto[n - 1], seq[n]) ELSE upto[n - 1]
  BY <1>8, <1>9
<1>. QED
  BY <1>7, <1>9, <1>10

LEMMA AppendedSet ==
    ASSUME NEW X, NEW s \in Seq(X), NEW e
    PROVE  Append(s, e) \in Seq(X \union {e}) /\ ToSet(Append(s, e)) = ToSet(s) \union {e}
<1>1. s \in Seq(X \union {e})
  OBVIOUS
<1>2. /\ Append(s, e) \in Seq(X \union {e})
      /\ Len(Append(s, e)) = Len(s) + 1
      /\ \A i \in 1 .. Len(s) : Append(s, e)[i] = s[i]
      /\ Append(s, e)[Len(s) + 1] = e
  BY <1>1
<1>3. DOMAIN s = 1 .. Len(s) /\ Len(s) \in Nat
  OBVIOUS
<1>4. DOMAIN Append(s, e) = 1 .. (Len(s) + 1)
  BY <1>2
<1>5. 1 .. (Len(s) + 1) = (1 .. Len(s)) \union {Len(s) + 1}
  BY <1>3
<1>. QED
  BY <1>2, <1>3, <1>4, <1>5 DEF ToSet

LEMMA PickedHas ==
    ASSUME NEW X, NEW seq \in Seq(X), NEW positions
    PROVE  /\ Picked(seq, positions) \in Seq(X)
           /\ ToSet(Picked(seq, positions)) = {seq[i] : i \in positions \intersect DOMAIN seq}
<1>1. PICK upto :
        /\ Picked(seq, positions) = upto[Len(seq)]
        /\ upto[0] = <<>>
        /\ \A n \in 1 .. Len(seq) :
             upto[n] = IF n \in positions THEN Append(upto[n - 1], seq[n]) ELSE upto[n - 1]
  BY PickedIterates
<1>. DEFINE Had(n) == {seq[i] : i \in positions \intersect (1 .. n)}
            Good(n) == upto[n] \in Seq(X) /\ ToSet(upto[n]) = Had(n)
            Bad == {n \in 0 .. Len(seq) : ~ Good(n)}
<1>2. Len(seq) \in Nat /\ DOMAIN seq = 1 .. Len(seq) /\ \A i \in 1 .. Len(seq) : seq[i] \in X
  OBVIOUS
<1>3. Good(0)
  <2>1. <<>> \in Seq(X) /\ ToSet(<<>>) = {}
    BY DEF ToSet
  <2>2. Had(0) = {}
    OBVIOUS
  <2>. QED
    BY <1>1, <2>1, <2>2
<1>4. ASSUME NEW n \in 1 .. Len(seq), Good(n - 1) PROVE Good(n)
  <2>1. 1 .. n = (1 .. n - 1) \union {n} /\ seq[n] \in X
    BY <1>2
  <2>2. CASE n \in positions
    <3>1. Had(n) = Had(n - 1) \union {seq[n]}
      BY <2>1, <2>2
    <3>. HIDE DEF Had
    <3>2. upto[n] = Append(upto[n - 1], seq[n]) /\ upto[n - 1] \in Seq(X)
      BY <1>1, <1>4, <2>2
    <3>3. X \union {seq[n]} = X
      BY <2>1
    <3>4. /\ Append(upto[n - 1], seq[n]) \in Seq(X \union {seq[n]})
          /\ ToSet(Append(upto[n - 1], seq[n])) = ToSet(upto[n - 1]) \union {seq[n]}
      BY <3>2, AppendedSet
    <3>. QED
      BY <1>4, <3>1, <3>2, <3>3, <3>4
  <2>3. CASE n \notin positions
    <3>1. Had(n) = Had(n - 1)
      BY <2>1, <2>3
    <3>. HIDE DEF Had
    <3>2. upto[n] = upto[n - 1]
      BY <1>1, <2>3
    <3>. QED
      BY <1>4, <3>1, <3>2
  <2>. QED
    BY <2>2, <2>3
<1>. HIDE DEF Good
<1>5. Bad = {}
  <2>. SUFFICES ASSUME Bad # {} PROVE FALSE
    OBVIOUS
  <2>1. PICK n \in Bad : \A k \in Bad : n <= k
    <3>1. Bad \in SUBSET Nat
      BY <1>2
    <3>. HIDE DEF Bad
    <3>. QED
      BY <3>1, Smallest
  <2>2. n # 0 /\ n \in 1 .. Len(seq) /\ n - 1 \in 0 .. Len(seq) /\ n - 1 \notin Bad
    BY <1>2, <1>3, <2>1
  <2>. QED
    BY <1>4, <2>1, <2>2
<1>6. Good(Len(seq))
  <2>1. Len(seq) \in 0 .. Len(seq)
    BY <1>2
  <2>. QED
    BY <1>5, <2>1
<1>. QED
  BY <1>1, <1>2, <1>6 DEF Good

\* Every candidate is a stretch of the call: a segment, or a run of one speaker.
LEMMA CandidatesListed ==
    ASSUME NEW S, NEW segments \in Seq(S)
    PROVE  /\ DOMAIN Candidates(segments) \subseteq Nat \ {0}
           /\ \A i \in DOMAIN Candidates(segments) : Candidates(segments)[i] # {}
<1>. DEFINE Stretch == (SUBSET Nat) \ {{}}
            N == Len(segments)
            alone == [i \in DOMAIN segments |-> {i}]
            places == [i \in DOMAIN segments |-> i]
            opens == {i \in DOMAIN segments : i = 1 \/ ~SameSpeaker(segments, i - 1, i)}
            starts == Picked(places, opens)
            run(i) == {j \in i..N : \A k \in i..(j - 1) : SameSpeaker(segments, k, k + 1)}
            runs == [r \in DOMAIN starts |-> run(starts[r])]
<1>1. N \in Nat /\ DOMAIN segments = 1 .. N
  OBVIOUS
<1>2. alone \in Seq(Stretch)
  <2>1. \A i \in 1 .. N : {i} \in Stretch
    BY <1>1
  <2>. QED
    BY <1>1, <2>1
<1>3. starts \in Seq(1 .. N)
  <2>1. places \in Seq(1 .. N)
    BY <1>1
  <2>. HIDE DEF places, opens
  <2>. QED
    BY <2>1, PickedHas
<1>. HIDE DEF starts
<1>4. \A i \in 1 .. N : run(i) \in Stretch
  <2>. TAKE i \in 1 .. N
  <2>1. i \in i..N /\ i..(i - 1) = {} /\ i..N \subseteq Nat
    BY <1>1
  <2>2. i \in run(i) /\ run(i) \subseteq Nat
    BY <2>1
  <2>. QED
    BY <2>2
<1>. HIDE DEF run, Stretch
<1>5. runs \in Seq(Stretch)
  <2>1. Len(starts) \in Nat /\ DOMAIN starts = 1 .. Len(starts)
        /\ \A r \in 1 .. Len(starts) : starts[r] \in 1 .. N
    BY <1>3
  <2>. QED
    BY <1>4, <2>1
<1>6. Candidates(segments) = alone \o runs
  BY DEF Candidates, Merged, starts, run
<1>. HIDE DEF alone, runs
<1>7. alone \o runs \in Seq(Stretch)
  BY <1>2, <1>5
<1>8. /\ DOMAIN (alone \o runs) \subseteq Nat \ {0}
      /\ \A i \in DOMAIN (alone \o runs) : (alone \o runs)[i] \in Stretch
  BY <1>7
<1>. QED
  BY <1>6, <1>8 DEF Stretch

\* A quote is found exactly if a stretch of the call contains it well enough.
IsPresent(quote, segments) ==
    /\ quote.size # "tiny"
    /\ \E stretch \in ToSet(Candidates(segments)) : PartialRatio(quote, stretch) >= Bar(quote)

LEMMA FoundIfPresent ==
    ASSUME NEW quote, quote.fidelity \in Nat, IsFiniteSet(quote.home),
           NEW S, NEW segments \in Seq(S)
    PROVE  FindQuote(quote, segments) # {} <=> IsPresent(quote, segments)
<1>. DEFINE candidates == Candidates(segments)
            found == Scan(quote, candidates)
            cheap == {i \in DOMAIN candidates :
                        quote.marks = {} \/ candidates[i] \intersect quote.marks # {}}
            first == Best(quote, candidates, cheap)
            full == Best(quote, candidates, DOMAIN candidates)
<1>1. /\ DOMAIN candidates \subseteq Nat \ {0}
      /\ \A i \in DOMAIN candidates : candidates[i] # {}
  BY CandidatesListed
<1>2. FindQuote(quote, segments) =
        IF quote.size = "tiny" \/ ~Reaches(quote, candidates, found) THEN {}
        ELSE candidates[found]
  BY DEF FindQuote
<1>3. found \in {first, full}
  BY DEF Scan
<1>. HIDE DEF candidates, found
<1>4. cheap \in SUBSET DOMAIN candidates /\ DOMAIN candidates \in SUBSET DOMAIN candidates
  OBVIOUS
<1>. HIDE DEF cheap
<1>5. first \in {0} \union DOMAIN candidates /\ full \in {0} \union DOMAIN candidates
  BY <1>1, <1>4, BestIsBest
<1>6. Reaches(quote, candidates, found) => candidates[found] # {}
  BY <1>1, <1>3, <1>5 DEF Reaches
<1>7. Reaches(quote, candidates, found) <=>
        \E i \in DOMAIN candidates : PartialRatio(quote, candidates[i]) >= Bar(quote)
  BY <1>1, CheapScanDecidesNothing DEF found
<1>8. (\E i \in DOMAIN candidates : PartialRatio(quote, candidates[i]) >= Bar(quote)) <=>
        (\E stretch \in ToSet(candidates) : PartialRatio(quote, stretch) >= Bar(quote))
  BY DEF ToSet
<1>. QED
  BY <1>2, <1>6, <1>7, <1>8 DEF IsPresent, candidates

\* CallReportV3 searches with its own copy of CallEvidence, and ManagerCriteria.
LEMMA SameSearch ==
    /\ \A seq, positions : V3!Picked(seq, positions) = Picked(seq, positions)
    /\ \A quote, segments : V3!FindQuote(quote, segments) = FindQuote(quote, segments)
<1>1. \A seq, positions : V3!Picked(seq, positions) = Picked(seq, positions)
  BY DEF V3!Picked, Picked
<1>2. /\ V3!Noise = Noise /\ V3!NoLabel = NoLabel /\ V3!MatchThreshold = MatchThreshold
      /\ \A S : V3!Cardinality(S) = Cardinality(S)
  BY DEF V3!Noise, Noise, V3!NoLabel, NoLabel, V3!MatchThreshold, MatchThreshold,
         V3!Cardinality, Cardinality
<1>3. \A quote, stretch : V3!PartialRatio(quote, stretch) = PartialRatio(quote, stretch)
  BY <1>2 DEF V3!PartialRatio, PartialRatio
<1>4. \A segments, i, j : V3!SameSpeaker(segments, i, j) <=> SameSpeaker(segments, i, j)
  BY <1>2 DEF V3!SameSpeaker, SameSpeaker
<1>5. \A segments : V3!Candidates(segments) = Candidates(segments)
  <2>1. \A segments : V3!Merged(segments) = Merged(segments)
    BY <1>1, <1>4 DEF V3!Merged, Merged
  <2>. QED
    BY <2>1 DEF V3!Candidates, Candidates
<1>6. \A quote, candidates, pool :
        V3!Best(quote, candidates, pool) = Best(quote, candidates, pool)
  BY DEF V3!Best, Best, V3!PartialRatio, PartialRatio, V3!Noise, Noise, V3!Cardinality,
         Cardinality
<1>7. \A quote, candidates, i :
        V3!Reaches(quote, candidates, i) <=> Reaches(quote, candidates, i)
  BY <1>2, <1>3 DEF V3!Reaches, Reaches, V3!Bar, Bar
<1>8. \A quote, candidates : V3!Scan(quote, candidates) = Scan(quote, candidates)
  BY <1>6, <1>7 DEF V3!Scan, Scan
<1>9. \A quote, segments : V3!FindQuote(quote, segments) = FindQuote(quote, segments)
  BY <1>5, <1>7, <1>8 DEF V3!FindQuote, FindQuote
<1>. QED
  BY <1>1, <1>9

\* The claims of a body are sequences of entries with a quote.
LEMMA ClaimsQuoted ==
    ASSUME NEW qc, Quotable(qc), NEW k \in DOMAIN qc, IsDict(qc[k])
    PROVE  \E X : /\ V3!Claims(qc[k]) \in Seq(X)
                  /\ \A i \in DOMAIN V3!Claims(qc[k]) : Quoted(V3!Claims(qc[k])[i])
<1>. DEFINE body == qc[k]
            given(entries) == V3!Picked(entries, {i \in DOMAIN entries : entries[i].quote.form # "na"})
            quotes == Field(body, "quotes", <<>>)
            single == <<body.single>>
            X == {entry \in ToSet(quotes) \union (IF "single" \in DOMAIN body THEN {body.single} ELSE {}) :
                    Quoted(entry)}
<1>1. /\ quotes \in Seq(ToSet(quotes)) /\ \A i \in DOMAIN quotes : Quoted(quotes[i])
      /\ "single" \in DOMAIN body => Quoted(body.single)
  BY DEF Quotable
<1>2. quotes \in Seq(X)
  <2>1. \A i \in DOMAIN quotes : quotes[i] \in X
    BY <1>1 DEF ToSet
  <2>2. DOMAIN quotes = 1 .. Len(quotes) /\ Len(quotes) \in Nat
        /\ quotes = [i \in 1 .. Len(quotes) |-> quotes[i]]
    BY <1>1
  <2>. HIDE DEF quotes, X
  <2>. QED
    BY <2>1, <2>2
<1>3. "single" \in DOMAIN body => single \in Seq(X)
  <2>1. "single" \in DOMAIN body => body.single \in X
    BY <1>1
  <2>. HIDE DEF X
  <2>. QED
    BY <2>1
<1>4. \A x \in X : Quoted(x)
  OBVIOUS
<1>. HIDE DEF X
<1>5. ASSUME NEW entries \in Seq(X) PROVE given(entries) \in Seq(X)
  BY PickedHas, SameSearch
<1>6. V3!Claims(body) \in {given(quotes), given(single)}
      /\ (V3!Claims(body) # given(quotes) => "single" \in DOMAIN body)
  <2>1. V3!Field(body, "quotes", <<>>) = quotes
    BY DEF V3!Field, Field
  <2>. QED
    BY <2>1 DEF V3!Claims
<1>. HIDE DEF given, quotes, single
<1>7. V3!Claims(body) \in Seq(X)
  BY <1>2, <1>3, <1>5, <1>6
<1>8. \A i \in DOMAIN V3!Claims(body) : V3!Claims(body)[i] \in X
  BY <1>7
<1>. QED
  BY <1>4, <1>7, <1>8

LEMMA KeptFromAnswers == Standing => KeptQuotesArePresent
<1>. SUFFICES ASSUME Standing, Written, NEW k \in DOMAIN report.qc,
                     "quotes" \in DOMAIN report.qc[k],
                     NEW c \in DOMAIN V3!Claims(work.qc.scores[k])
              PROVE  V3!Claims(work.qc.scores[k])[c] \in ToSet(report.qc[k].quotes) <=>
                       Present(V3!Claims(work.qc.scores[k])[c].quote)
  BY DEF KeptQuotesArePresent
<1>. DEFINE raw == V3!ScoresOf(work.qc)
            projected == V3!Projected(raw, V3!Segments)
            claims == V3!Claims(raw[k])
<1>1. report.qc = V3!Applicable(projected, work.pass0.type, V3!IsPrimary, work.pass0.lost)
  <2>1. V3!Payload(work).qc =
          V3!Applicable(projected, work.pass0.type, V3!IsPrimary, work.pass0.lost)
    BY DEF V3!Payload
  <2>2. "qc" \in DOMAIN V3!Payload(work) \ {"version", "score", "score_own"}
    BY DEF V3!Payload
  <2>. QED
    BY <2>1, <2>2, WrittenReport
<1>2. DOMAIN projected = DOMAIN raw
  BY DEF V3!Projected
<1>3. k \in DOMAIN raw /\ report.qc[k] \in {V3!Na, projected[k]}
  <2>. HIDE DEF projected
  <2>. QED
    BY <1>1, <1>2 DEF V3!Applicable, V3!ApplyNa
<1>4. report.qc[k] = projected[k]
  BY <1>3 DEF V3!Na
<1>5. work.qc.object /\ raw = work.qc.scores /\ Quotable(raw)
  <2>1. work.qc.object
    BY <1>3 DEF V3!ScoresOf, V3!NoFields
  <2>2. raw = work.qc.scores
    BY <2>1 DEF V3!ScoresOf
  <2>3. work.qc \in QcAnswers
    BY <2>1 DEF Standing, Answered, NoAnswerToQc
  <2>. QED
    BY <2>1, <2>2, <2>3, AnswersAssumption
<1>. HIDE DEF raw
<1>6. IsDict(raw[k])
  <2>. SUFFICES ASSUME ~ IsDict(raw[k]) PROVE FALSE
    OBVIOUS
  <2>1. projected[k] = raw[k]
    BY <1>3 DEF V3!Projected, V3!IsDict, IsDict
  <2>2. DOMAIN raw[k] = {"scalar"}
    BY <1>3, <1>5 DEF Quotable
  <2>. HIDE DEF projected
  <2>. QED
    BY <1>4, <2>1, <2>2
<1>7. projected[k].quotes = V3!Verified(claims, V3!Segments)
  BY <1>3, <1>6 DEF V3!Projected, V3!IsDict, IsDict, V3!QuoteKeys, V3!ScoreKeys
<1>. HIDE DEF projected
<1>8. PICK X : claims \in Seq(X) /\ \A i \in DOMAIN claims : Quoted(claims[i])
  BY <1>3, <1>5, <1>6, ClaimsQuoted
<1>. HIDE DEF claims
<1>. DEFINE found(i) == FindQuote(claims[i].quote, V3!Segments) # {}
            places == {i \in DOMAIN claims : found(i)}
<1>9. ToSet(report.qc[k].quotes) = {claims[i] : i \in places}
  <2>1. V3!Verified(claims, V3!Segments) = Picked(claims, places)
    BY SameSearch DEF V3!Verified
  <2>2. ToSet(Picked(claims, places)) = {claims[i] : i \in places \intersect DOMAIN claims}
    <3>. HIDE DEF places
    <3>. QED
      BY <1>8, PickedHas
  <2>. QED
    BY <1>4, <1>7, <2>1, <2>2
<1>10. V3!Segments \in Seq(Turns) \/ \E S : V3!Segments \in Seq(S)
  <2>1. input.transcript \in Seq(Turns)
    BY InputsAssumption DEF Standing
  <2>2. \E S : V3!Relabelled(input.transcript) \in Seq(S)
    <3>. DEFINE turned == V3!Relabelled(input.transcript)
                S == {turned[i] : i \in DOMAIN input.transcript}
    <3>1. DOMAIN input.transcript = 1 .. Len(input.transcript) /\ Len(input.transcript) \in Nat
      BY <2>1
    <3>2. turned = [i \in 1 .. Len(input.transcript) |-> turned[i]]
      BY <3>1 DEF V3!Relabelled
    <3>. HIDE DEF turned
    <3>3. turned \in Seq(S)
      BY <3>1, <3>2
    <3>. QED
      BY <3>3 DEF turned
  <2>. QED
    BY <2>1, <2>2 DEF V3!Segments
<1>11. PICK S : V3!Segments \in Seq(S)
  BY <1>10
<1>12. ASSUME NEW i \in DOMAIN claims PROVE found(i) <=> Present(claims[i].quote)
  <2>1. claims[i].quote.fidelity \in Nat /\ IsFiniteSet(claims[i].quote.home)
    BY <1>8 DEF Quoted
  <2>2. found(i) <=> IsPresent(claims[i].quote, V3!Segments)
    BY <1>11, <2>1, FoundIfPresent
  <2>. QED
    BY <2>2 DEF IsPresent, Present
<1>13. c \in DOMAIN claims /\ V3!Claims(work.qc.scores[k]) = claims
  BY <1>5 DEF claims
<1>. HIDE DEF found
<1>14. claims[c] \in {claims[i] : i \in places} <=> found(c)
  <2>1. ASSUME NEW i \in places, claims[i] = claims[c] PROVE found(c)
    <3>1. i \in DOMAIN claims /\ found(i)
      OBVIOUS
    <3>2. Present(claims[c].quote)
      BY <1>12, <2>1, <3>1
    <3>. QED
      BY <1>12, <1>13, <3>2
  <2>. QED
    BY <1>13, <2>1
<1>. QED
  BY <1>9, <1>12, <1>13, <1>14

\* A quote is kept exactly if the call contains it well enough, whatever the model
\* quotes, however it is segmented, and with labels swapped or not (qc.py).
THEOREM KeptQuotesStand == Spec => []KeptQuotesArePresent
BY AlwaysStanding, KeptFromAnswers, PTL
=============================================================================
