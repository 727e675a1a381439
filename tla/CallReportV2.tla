---------------------------- MODULE CallReportV2 ----------------------------
(***************************************************************************)
(* The v2 analysis of one call, src/ai/reports/call_v2/core.py: the filter, *)
(* an agent for the qc scores and an agent for the report.  Unlike v3 it    *)
(* asks again only for an empty answer, which the agents' library does,    *)
(* forgives the filter everything but an answer or a type of the wrong     *)
(* kind, and checks nothing of what the agents answer.                     *)
(***************************************************************************)
EXTENDS AnalysisRequests

CONSTANTS
  Classifications,  \* answers of pass0: [type, lost]
  QcAnswers,        \* answers of the qc agent: [object, scores]
  ReportAnswers     \* answers of the report agent: [items, enums, good, bad]

Label(s) ==
  CASE s = "pass0" -> "worker_pass0_filter_v2"
    [] s = "qc" -> "worker_analysis_qc_v2"
    [] s = "main" -> "worker_analysis_main_v2"
AskFor(s, reply) == step = s /\ Ask(s, <<Label(s)>>, reply)

Segments == input.transcript

\* _run_pass0: also a request that fails makes a sales call of it.
Pass0 ==
  \E answer \in Classifications :
    LET pass0 == Classified(answer)
    IN  /\ answer.type # Unhashable
        /\ AskFor("pass0", "object")
        /\ IF pass0.type = "junk"
           THEN Made(work, JunkReport(pass0))
           ELSE GoOn("qc", [work EXCEPT !.pass0 = pass0])
Pass0Raises ==
  \E answer \in Classifications :
    /\ answer.type = Unhashable
    /\ AskFor("pass0", "object")
    /\ Lose([work EXCEPT !.pass0 = answer])
Pass0Unreadable ==
  \E reply \in Unanswered \union Unparsed :
    AskFor("pass0", reply) /\ GoOn("qc", [work EXCEPT !.pass0 = Unreadable])
Pass0NoObject == AskFor("pass0", "list") /\ Lose(work)

\* run_qc_pass and the report agent: an answer that is no JSON object raises.
AgentRaises(s) ==
  \E reply \in {"list"} \union Unanswered \union Unparsed : AskFor(s, reply) /\ Lose(work)
\* Agent(retries=2): an empty answer is asked for again, the third one raises.
AgentRetries == 2
HasMoreRetries(s) ==
  Cardinality({i \in DOMAIN sent : sent[i].label = <<Label(s)>>}) < AgentRetries
AgentAsksAgain(s) ==
  HasMoreRetries(s) /\ AskFor(s, "empty") /\ UNCHANGED <<step, retry, work, report>>
AgentGivesUp(s) == ~HasMoreRetries(s) /\ AskFor(s, "empty") /\ Lose(work)
Qc ==
  \E answer \in QcAnswers : AskFor("qc", "object") /\ GoOn("main", [work EXCEPT !.qc = answer])

-----------------------------------------------------------------------------
AllFixed(items) == [i \in DOMAIN items |-> Fixed(items[i], Segments)]

Payload(left, answer) ==
  LET qc == Applicable(ScoresOf(left.qc), left.pass0.type, IsPrimary, left.pass0.lost)
      scoreable == left.pass0.type = "sales" /\ ~left.pass0.lost
  IN  [version |-> "untagged", call_type |-> left.pass0.type,
       connection_lost |-> left.pass0.lost, is_scoreable |-> scoreable, qc |-> qc,
       score |-> IF scoreable THEN ManagerScore(qc, IsPrimary) ELSE Null,
       client |-> AllFixed(answer.items), enums |-> answer.enums,
       good |-> AllFixed(answer.good), bad |-> AllFixed(answer.bad),
       labels |-> [swapped |-> FALSE, source |-> "none"]]

\* Scores that are no object, or whose arithmetic raises, lose the report here.
Main ==
  \E answer \in ReportAnswers :
    LET payload == Payload(work, answer)
    IN  /\ AskFor("main", "object")
        /\ IF ~work.qc.object \/ payload.score = Raises THEN Lose(work)
           ELSE Made(work, payload)

Next ==
  \/ Pass0 \/ Pass0Raises \/ Pass0Unreadable \/ Pass0NoObject
  \/ \E s \in {"qc", "main"} : AgentRaises(s) \/ AgentAsksAgain(s) \/ AgentGivesUp(s)
  \/ Qc \/ Main
=============================================================================
