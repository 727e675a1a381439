---------------------------- MODULE CallReportV3 ----------------------------
(***************************************************************************)
(* The v3 analysis of one call, src/ai/reports/call_v3/core.py: a chain of *)
(* requests to a model, each answered by anything or by nothing, with code *)
(* between them that decides what of the answers is kept.                  *)
(***************************************************************************)
EXTENDS AnalysisRequests

CONSTANTS
  Classifications,  \* answers of pass0: [type, lost]
  QcAnswers,        \* answers of the qc stage: [object, scores], scores a function if an object
  LabelFlags,       \* what the analysis says of the labels: "swapped", or "none" for any other
  ClientAnswers,    \* answers for the client's part: [items, enums]
  ManagerAnswers    \* answers for the manager's part: [good, bad]

-----------------------------------------------------------------------------
(* Requests.                                                               *)

(* _format_with_retry's default stage is "main"; qc passes its own.        *)
StageTag(s) ==
  CASE s \in {"pass0", "qc", "analysis"} -> s
    [] s \in {"format_client", "format_manager"} -> "main"

Label(s) ==
  CASE s = "pass0" -> "worker_pass0_filter_v3"
    [] s = "qc" -> "worker_analysis_qc_v3"
    [] s = "analysis" -> "worker_analysis_reason_v3"
    [] s = "format_client" -> "worker_analysis_format_v3"
    [] s = "format_manager" -> "worker_analysis_manager_v3"

AskFor(s, reply) ==
  step = s /\ Ask(StageTag(s), IF retry THEN <<Label(s), "retry">> ELSE <<Label(s)>>, reply)

\* sink: a stage whose answer the token limit ended is named in the report.
Noting(reply) ==
  [work EXCEPT !.truncated = @ \union (IF reply = "cut" THEN {<<step, retry>>} ELSE {})]

\* No answer, or none with a text: the exception leaves the analysis, at any stage.
Unreachable(s) == \E reply \in Unanswered : AskFor(s, reply) /\ Lose(work)

\* _format_with_retry: an answer that does not parse is asked for once more.
AskAgain(s) ==
  \E reply \in Unparsed :
    /\ ~retry
    /\ AskFor(s, reply)
    /\ retry' = TRUE
    /\ work' = Noting(reply)
    /\ UNCHANGED <<step, report>>

-----------------------------------------------------------------------------
(* analyze_call_transcript.                                                *)

Detected == DetectSwapped(input.transcript)
Segments == IF Detected = "swapped" THEN Relabelled(input.transcript) ELSE input.transcript

\* _run_pass0: a junk call is done, an unreadable answer is no reason to drop the call.
Pass0 ==
  \E answer \in Classifications :
    LET pass0 == Classified(answer)
    IN  /\ answer.type # Unhashable
        /\ AskFor("pass0", "object")
        /\ IF pass0.type = "junk"
           THEN Made(work, [JunkReport(pass0) EXCEPT !.version = "v3"])
           ELSE GoOn("qc", [work EXCEPT !.pass0 = pass0])
\* The test for the known types is outside the try: it may raise.
Pass0Raises ==
  \E answer \in Classifications :
    /\ answer.type = Unhashable
    /\ AskFor("pass0", "object")
    /\ Lose([work EXCEPT !.pass0 = answer])
Pass0Unreadable ==
  \E reply \in Unparsed :
    AskFor("pass0", reply) /\ GoOn("qc", [Noting(reply) EXCEPT !.pass0 = Unreadable])

\* _run_qc: the scores of an answer, whatever it answered them with.
Qc ==
  \E answer \in QcAnswers :
    /\ AskFor("qc", "object")
    /\ GoOn("analysis", [work EXCEPT !.qc = answer, !.qc_ok = TRUE])
QcGivesUp ==
  \E reply \in Unparsed :
    /\ retry
    /\ AskFor("qc", reply)
    /\ GoOn("analysis", [Noting(reply) EXCEPT !.qc = NoAnswerToQc, !.qc_ok = FALSE])

(* _run_analysis: free text, of which the code reads only the last label;   *)
(* where the token limit ends it, the label is missing.                    *)
Analysis ==
  \E flag \in LabelFlags, reply \in {"object", "cut"} :
    /\ reply = "cut" => flag = "none"
    /\ AskFor("analysis", reply)
    /\ GoOn("format_client", [Noting(reply) EXCEPT !.flag = flag])

FormatClient ==
  \E answer \in ClientAnswers :
    AskFor("format_client", "object") /\ GoOn("format_manager", [work EXCEPT !.client = answer])
\* The client's part is the report: without it there is none.
FormatClientGivesUp ==
  \E reply \in Unparsed : retry /\ AskFor("format_client", reply) /\ Lose(work)

-----------------------------------------------------------------------------
(* What is made of the answers once the last one is there.                 *)

AllRepaired(items) == [i \in DOMAIN items |-> Repaired(items[i], Segments)]

SpeakerLabels(flag) ==
  [present |-> Labelled(Segments),
   swapped |-> IF Detected = "unknown" THEN flag = "swapped" ELSE Detected = "swapped",
   source |-> IF Detected = "unknown" THEN "model" ELSE "detector",
   corrected |-> Detected = "swapped"]

\* Mutant: an unparseable qc answer is carried on as an ordinary empty one.
ScoreableEvenFailed(pass0, qcOk) == pass0.type = "sales" /\ ~pass0.lost
Scoreable(pass0, qcOk) == pass0.type = "sales" /\ ~pass0.lost /\ qcOk

Payload(left) ==
  LET projected == Projected(ScoresOf(left.qc), Segments)
      qc == Applicable(projected, left.pass0.type, IsPrimary, left.pass0.lost)
      scoreable == Scoreable(left.pass0, left.qc_ok)
  IN  [version |-> "v3", call_type |-> left.pass0.type, connection_lost |-> left.pass0.lost,
       is_scoreable |-> scoreable, qc_failed |-> ~left.qc_ok, qc |-> qc,
       passed |-> Listed(qc, "passed"), failed |-> Listed(qc, "failed"),
       score |-> IF scoreable THEN ManagerScore(qc, IsPrimary) ELSE Null,
       client |-> AllRepaired(left.client.items), enums |-> left.client.enums,
       good |-> AllRepaired(left.manager.good), bad |-> AllRepaired(left.manager.bad),
       filler_words |-> FillerWords(Segments, Detected # "unknown"),
       labels |-> SpeakerLabels(left.flag), quote_stats |-> Summary(qc),
       truncated |-> left.truncated]

\* The arithmetic of the score may still meet a value that is not a number.
Make(left) ==
  LET payload == Payload(left)
  IN  IF payload.score = Raises THEN Lose(left) ELSE Made(left, payload)

FormatManager ==
  \E answer \in ManagerAnswers :
    AskFor("format_manager", "object") /\ Make([work EXCEPT !.manager = answer])
\* Mutant: the exception of the second parse leaves the analysis here as well.
FormatManagerGivesUpLost ==
  \E reply \in Unparsed : retry /\ AskFor("format_manager", reply) /\ Lose(work)
FormatManagerGivesUp ==
  \E reply \in Unparsed :
    /\ retry
    /\ AskFor("format_manager", reply)
    /\ Make([Noting(reply) EXCEPT !.manager = NoManagerPart])

Next ==
  \/ \E s \in {"pass0", "qc", "analysis", "format_client", "format_manager"} : Unreachable(s)
  \/ \E s \in {"qc", "format_client", "format_manager"} : AskAgain(s)
  \/ Pass0 \/ Pass0Raises \/ Pass0Unreadable \/ Qc \/ QcGivesUp \/ Analysis
  \/ FormatClient \/ FormatClientGivesUp \/ FormatManager \/ FormatManagerGivesUp
=============================================================================
