-------------------------- MODULE AnalysisRequests --------------------------
(***************************************************************************)
(* What the two analyses of a call, CallReportV2 and CallReportV3, share:  *)
(* the state of one analysis and a request to a model under the tracing of *)
(* LlmTracing.                                                             *)
(*                                                                         *)
(* A reply is "transport" when no answer came, "choiceless" when one came   *)
(* without a choice to read a text from, "empty" when the text is empty    *)
(* (asked again by v2's agents, elsewhere garbage), "garbage" when it does  *)
(* not parse, "cut" when it does not because the token limit ended it,     *)
(* "list" for JSON that is no object (v3 takes it for garbage), else        *)
(* "object", with what was answered chosen from a set of the constants.    *)
(***************************************************************************)
EXTENDS ManagerCriteria, LlmTracing

VARIABLES
  input,    \* the call: [analyser, caller, call, transcript, previous, proxy]
  step,     \* the request to make next, "made", "lost", or a step of the caller
  retry,    \* the next request asks the same once more
  work,     \* what the finished stages were answered
  report,   \* the payload, NoReport until it is made
  context,  \* the thread's LLMContext
  buffer,   \* the thread's stamps
  sent      \* the requests made so far, as the endpoint saw them

analysis == <<input, step, retry, work, report, context, buffer, sent>>

NoReport == [version |-> None]
IsPrimary == input.caller # "chain"
Runtime == [f \in RuntimeFields |-> IF input.caller = "eval" THEN None ELSE "prefect"]

KnownTypes == {"junk", "service", "sales"}
Unhashable == "list or object"  \* a type of which no membership in a set can be asked
Unreadable == [type |-> "sales", lost |-> FALSE]
NoAnswerToQc == [object |-> FALSE]
NoManagerPart == [good |-> <<>>, bad |-> <<>>]
\* A stage that is not finished has what the code falls back to in its place.
NoWork ==
  [pass0 |-> Unreadable, qc |-> NoAnswerToQc, qc_ok |-> FALSE, flag |-> "none",
   client |-> [items |-> <<>>, enums |-> <<>>], manager |-> NoManagerPart, truncated |-> {}]

\* An answer with an unknown type is read as sales, with the rest of it.
Classified(answer) ==
  IF answer.type \in KnownTypes THEN answer ELSE [answer EXCEPT !.type = "sales"]

JunkReport(pass0) ==
  [version |-> "untagged", call_type |-> "junk", connection_lost |-> pass0.lost,
   is_scoreable |-> FALSE, score |-> Null, qc |-> NoFields]

\* The scores of an answer that may hold anything, or nothing, in their place.
ScoresOf(answer) == IF answer.object THEN answer.scores ELSE NoFields

-----------------------------------------------------------------------------
Unparsed == {"garbage", "cut"}
Unanswered == {"transport", "choiceless"}
Direct == [base_url |-> "direct", api_key |-> "own key"]
Endpoint == Resolved(input.proxy, Direct)

(* The block that binds the stage is around the request and around the      *)
(* building of its metadata.  The proxy adds headers to its answers.       *)
Ask(stage, label, reply) ==
  LET bound == Bound(context, [stage |-> stage], Runtime)
      id == IF reply = "transport" THEN NoAnswer ELSE Len(sent) + 1
      headers == IF Endpoint = Direct THEN <<>> ELSE [session_id |-> id]
  IN  /\ buffer' = Traced(buffer, bound, [id |-> id, headers |-> headers], label)
      /\ sent' = Append(sent, [label |-> label, reply |-> reply,
                               endpoint |-> Endpoint,
                               extras |-> Extras(bound, label, "chat", input.proxy.enabled)])
      /\ UNCHANGED <<input, context>>

Made(left, payload) == step' = "made" /\ retry' = FALSE /\ work' = left /\ report' = payload
Lose(left) == step' = "lost" /\ retry' = FALSE /\ work' = left /\ UNCHANGED report
GoOn(s, left) == step' = s /\ retry' = FALSE /\ work' = left /\ UNCHANGED report
=============================================================================
