--------------------------- MODULE ReportAnalysis ---------------------------
(***************************************************************************)
(* One call put through an analyser by each of its callers: the task of    *)
(* the report flow (call_report.py analyse_candidate), the analysis of a   *)
(* call within a chain (analyser.py), and the evaluation runner            *)
(* (analysis_runner.py), which scores what came of it.                     *)
(***************************************************************************)
EXTENDS AnalysisRequests, EvalChecks

CONSTANTS Inputs, Classifications, QcAnswers, LabelFlags, ClientAnswers, ManagerAnswers,
          ReportAnswers, Schemas

VARIABLES
  result,   \* what the flow's task returns
  scores    \* the scores of the checks, once computed

vars == <<analysis, result, scores>>

\* What stands where the code reads a number is one, or Null, or Text; and no phrase
\* of an answer pretends to have been repaired.
Readable(qc) ==
  \A k \in DOMAIN qc : \A f \in DOMAIN qc[k] \intersect (ScoreKeys \union {"scalar"}) :
    qc[k][f] \in Nat \union {Null, Text}
\* A body is a number alone or has entries, each with a quote of so many segments.
Quoted(entry) == entry.quote.fidelity \in Nat /\ IsFiniteSet(entry.quote.home)
Quotable(qc) ==
  \A k \in DOMAIN qc :
    IF IsDict(qc[k])
    THEN LET entries == Field(qc[k], "quotes", <<>>)
         IN  /\ entries \in Seq(ToSet(entries)) /\ \A i \in DOMAIN entries : Quoted(entries[i])
             /\ "single" \in DOMAIN qc[k] => Quoted(qc[k].single)
    ELSE DOMAIN qc[k] = {"scalar"}
Phrases(items) ==
  \A i \in DOMAIN items : /\ DOMAIN items[i] = {"quote", "timecode", "claimed"}
                           /\ items[i].timecode \in Nat \union {NoTimecode}
                           /\ items[i].claimed = NoClaim

Turns ==
  [start : Nat, finish : Nat, speaker : {Manager, Client, NoLabel}, markers : Nat]

ASSUME InputsAssumption ==
  \A i \in Inputs : /\ i.analyser \in {"v2", "v3"} /\ i.caller \in {"flow", "chain", "eval"}
                    /\ i.transcript \in Seq(Turns)
                    /\ IsFiniteSet(DOMAIN i.previous)
                    /\ \A p \in DOMAIN i.previous : Readable(i.previous[p].qc)
ASSUME AnswersAssumption ==
  /\ \A c \in Classifications : c.lost \in BOOLEAN
  /\ \A q \in QcAnswers : /\ q.object \in BOOLEAN
                          /\ q.object => Readable(q.scores) /\ Quotable(q.scores)
  /\ \A c \in ClientAnswers : Phrases(c.items)
  /\ \A m \in ManagerAnswers : Phrases(m.good) /\ Phrases(m.bad)

V2 == INSTANCE CallReportV2
V3 == INSTANCE CallReportV3

NoResult == [ok |-> FALSE, stamps |-> <<>>, payload |-> NoReport]
NoScores == [quotes |-> -1]

Init ==
  /\ input \in Inputs
  /\ step = "start"
  /\ retry = FALSE
  /\ work = NoWork
  /\ report = NoReport
  /\ context = EmptyContext
  /\ buffer = NoBuffer
  /\ sent = <<>>
  /\ result = NoResult
  /\ scores = NoScores

\* The task collects stamps and binds the call; the others call the analyser bare.
Start ==
  /\ step = "start"
  /\ step' = "pass0"
  /\ IF input.caller = "flow"
     THEN /\ buffer' = Collecting
          /\ context' = Bound(context, [entity_type |-> "call", entity_id |-> input.call], Runtime)
     ELSE UNCHANGED <<buffer, context>>
  /\ UNCHANGED <<input, retry, work, report, sent, result, scores>>

Analyse ==
  /\ \/ input.analyser = "v2" /\ V2!Next
     \/ input.analyser = "v3" /\ V3!Next
  /\ UNCHANGED <<result, scores>>

-----------------------------------------------------------------------------
(* analyser.py: the tag of the version, and what a chain adds.             *)

InContext(previous) == previous.call_type # "junk" /\ ~previous.connection_lost
\* The qc of the earlier sales calls that count, and of this call under 0.
ChainQcs(payload) ==
  LET earlier == {i \in DOMAIN input.previous : /\ InContext(input.previous[i])
                                               /\ input.previous[i].call_type = "sales"}
  IN  [i \in earlier \union {0} |-> IF i = 0 THEN payload.qc ELSE input.previous[i].qc]

Chained(payload) ==
  LET metrics == ChainMetrics(ChainQcs(payload))
      cumulative == payload.is_scoreable /\ payload.call_type = "sales"
  IN  [f \in DOMAIN payload \union {"score_own"} |->
         CASE f = "version" -> [v2 |-> "v2-chain", v3 |-> "v3-chain"][input.analyser]
           [] f = "score_own" -> payload.score
           [] f = "score" -> IF cumulative THEN ChainScore(payload.qc, metrics) ELSE payload.score
           [] OTHER -> payload[f]]

\* analyse_call_in_chain.
Chain ==
  /\ input.caller = "chain"
  /\ step = "made"
  /\ step' = IF Chained(report).score = Raises THEN "lost" ELSE "done"
  /\ report' = IF Chained(report).score = Raises THEN NoReport ELSE Chained(report)
  /\ UNCHANGED <<input, retry, work, context, buffer, sent, result, scores>>

\* analyse_candidate: the stamps go with the report, a failure is data without any.
Settle ==
  /\ input.caller = "flow"
  /\ step \in {"made", "lost"}
  /\ step' = "done"
  /\ result' = IF step = "lost" THEN NoResult
               ELSE [ok |-> TRUE, stamps |-> buffer.stamps,
                     payload |-> [report EXCEPT !.version = input.analyser]]
  /\ context' = EmptyContext
  /\ buffer' = NoBuffer
  /\ UNCHANGED <<input, retry, work, report, sent, scores>>

-----------------------------------------------------------------------------
(* analysis_runner.py.                                                     *)

\* A junk report has no quotes, no phrases and no enumerated fields.
Checked(payload) ==
  IF payload.call_type # "junk" THEN payload
  ELSE [version |-> payload.version, qc |-> payload.qc, client |-> <<>>, good |-> <<>>,
        bad |-> <<>>, enums |-> <<>>, labels |-> [swapped |-> FALSE, source |-> "none"]]
Score ==
  /\ input.caller = "eval"
  /\ step = "made"
  /\ step' = "done"
  /\ scores' = Scores(Checked(report), input.transcript, Schemas)
  /\ UNCHANGED <<input, retry, work, report, context, buffer, sent, result>>

Next == Start \/ Analyse \/ Chain \/ Settle \/ Score
Spec == Init /\ [][Next]_vars

-----------------------------------------------------------------------------
Reported == report # NoReport /\ step \in {"made", "done"}
Written == Reported /\ input.analyser = "v3" /\ report.call_type # "junk"

\* The last request under a label had an answer that parses.
Judge == [v2 |-> "worker_analysis_qc_v2", v3 |-> "worker_analysis_qc_v3"][input.analyser]
AnsweredLast(label) ==
  \E i \in DOMAIN sent : /\ sent[i].label[1] = label /\ sent[i].reply = "object"
                         /\ \A j \in DOMAIN sent : j > i => sent[j].label[1] # label

(* A call is given a score only if it is a sales call, was not cut off, and *)
(* its qc stage ended in an answer that parses: no chain of retries and    *)
(* fallbacks makes a score out of a failed stage (core.py 309-311).        *)
ScoreOnlyWhenJudged ==
  Reported /\ report.score # Null =>
    /\ report.call_type = "sales" /\ ~report.connection_lost
    /\ AnsweredLast(Judge)
    /\ report.score \in 0..10

(* The v3 report is lost only when the last request had no answer or one    *)
(* without a choice, when the filter answered a type that is a list or an  *)
(* object (core.py 262), when the client's part did not parse twice, or    *)
(* when one of the counts the score is made of, for a chain also those of  *)
(* earlier calls, is no number.  An answer that does not parse, at any     *)
(* other stage or only once, is no reason to lose a call (core.py 257).    *)
NoNumber(qc) ==
  \/ /\ Advantages \in DOMAIN qc /\ IsDict(qc[Advantages])
     /\ Field(qc[Advantages], "count", 0) \in {Null, Text}
  \/ /\ AllHandled \in DOMAIN qc /\ IsDict(qc[AllHandled])
     /\ \E f \in {"total", "handled"} : Field(qc[AllHandled], f, 0) = Text
Unscoreable ==
  \/ NoNumber(ScoresOf(work.qc))
  \/ input.caller = "chain" /\ \E i \in DOMAIN input.previous : NoNumber(input.previous[i].qc)
LostOnlyForCause ==
  step = "lost" /\ input.analyser = "v3" =>
    LET last == sent[Len(sent)]
    IN  \/ last.reply \in Unanswered
        \/ last.label[1] = "worker_pass0_filter_v3" /\ work.pass0.type = Unhashable
        \/ last.label = <<"worker_analysis_format_v3", "retry">> /\ last.reply \in Unparsed
        \/ last.label[1] = "worker_analysis_manager_v3" /\ Unscoreable

(* The stamps of a task that succeeded are its answered requests, in order, *)
(* each with the call and the stage it was made for: what the journal says *)
(* of a call is what the proxy saw.                                        *)
StageOf == [worker_pass0_filter_v2 |-> "pass0", worker_analysis_qc_v2 |-> "qc",
            worker_analysis_main_v2 |-> "main", worker_pass0_filter_v3 |-> "pass0",
            worker_analysis_qc_v3 |-> "qc", worker_analysis_reason_v3 |-> "analysis",
            worker_analysis_format_v3 |-> "main", worker_analysis_manager_v3 |-> "main"]
StampsTellStages ==
  result.ok =>
    LET stamps == result.stamps
    IN  /\ \A i \in DOMAIN sent :
             sent[i].reply # "transport" <=> \E n \in DOMAIN stamps : stamps[n].request_id = i
        /\ \A n \in DOMAIN stamps :
             LET i == stamps[n].request_id
             IN  /\ i \in DOMAIN sent
                 /\ stamps[n].worker_label = sent[i].label
                 /\ stamps[n].stage = StageOf[sent[i].label[1]]
                 /\ stamps[n].entity_id = input.call
        /\ \A m, n \in DOMAIN stamps : m < n => stamps[m].request_id < stamps[n].request_id

(* Repairing timecodes cannot make a guess look right: the checks of a v3   *)
(* report find what they would have found in the answers themselves.       *)
RepairHidesNoGuess ==
  scores # NoScores /\ Written =>
    scores = Scores([report EXCEPT !.client = work.client.items, !.good = work.manager.good,
                                   !.bad = work.manager.bad], input.transcript, Schemas)

(* Who said what: the checks, which read the transcript as it was recorded, *)
(* see the roles the v3 analysis worked with after its own correction.     *)
EvalSeesTheSameRoles ==
  Written => \A i \in DOMAIN input.transcript :
               RoleSeen(report, input.transcript, i) = V3!Segments[i].speaker

(* The report reproaches what the score of the call charged for: a weighted *)
(* criterion listed as failed was counted and earned less than its full    *)
(* points, and one that does not apply is neither praised nor reproached   *)
(* (manager.py 142, 172-174).  There is exactly one exception: where the   *)
(* answer tells no number of objections, scoring leaves the techniques out *)
(* (scoring.py 89) and the verdict does not (manager.py 186-198).          *)
ScoreOfCall == IF "score_own" \in DOMAIN report THEN report.score_own ELSE report.score
Charged(qc, key) ==
  key \in Counted(qc, IsPrimary) /\ Points(qc, key) \in 0 .. Full(qc) - 1
UncountedObjections(qc) ==
  AllHandled \in DOMAIN qc =>
    IsDict(qc[AllHandled]) /\ Field(qc[AllHandled], "total", Null) = Null
WeaknessesCostPoints ==
  Written =>
    /\ ScoreOfCall # Null =>
         \A k \in report.failed \intersect DOMAIN QC_WEIGHTS :
           Charged(report.qc, k) <=> ~(k = Techniques /\ UncountedObjections(report.qc))
    /\ \A k \in report.passed \union report.failed : report.qc[k] # Na

(* A quote of the qc stage is kept exactly if some stretch of the call      *)
(* contains it well enough: the cheap scan over marked segments decides    *)
(* nothing.                                                                *)
Present(quote) ==
  /\ quote.size # "tiny"
  /\ \E stretch \in ToSet(Candidates(V3!Segments)) : PartialRatio(quote, stretch) >= Bar(quote)
KeptQuotesArePresent ==
  Written => \A k \in DOMAIN report.qc : "quotes" \in DOMAIN report.qc[k] =>
    LET claims == V3!Claims(work.qc.scores[k])
    IN  \A c \in DOMAIN claims :
          claims[c] \in ToSet(report.qc[k].quotes) <=> Present(claims[c].quote)

(* A statement of a comment in the code that it does not keep.              *)

(* core.py 306-308: an empty qc is not carried on as an ordinary result, as *)
(* its score would be the worst there is.                                  *)
EmptyQcIsNotScored == Reported /\ report.score # Null => DOMAIN report.qc # {}
=============================================================================
