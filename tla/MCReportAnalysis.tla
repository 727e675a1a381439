-------------------------- MODULE MCReportAnalysis --------------------------
(* Instances of ReportAnalysis: four recordings, and answers that meet the  *)
(* branches of the analyses.                                               *)
EXTENDS ReportAnalysis, TLC

\* A call of five segments; the last two are one turn where speakers are labelled.
Turn(start, finish, speaker, markers) ==
  [start |-> start, finish |-> finish, speaker |-> speaker, markers |-> markers]
Right == <<Turn(0, 5, Manager, 1), Turn(5, 20, Manager, 2), Turn(20, 90, Client, 0),
           Turn(90, 120, Manager, 1), Turn(120, 150, Manager, 0)>>
Undecided == [i \in DOMAIN Right |-> [Right[i] EXCEPT !.markers = 0]]
Mono == [i \in DOMAIN Right |-> [Right[i] EXCEPT !.speaker = NoLabel]]

Quote(home, fidelity, size, words, marks) ==
  [home |-> home, fidelity |-> fidelity, size |-> size, words |-> words, marks |-> marks,
   whole |-> Cardinality(home) = 1, form |-> "words", locator |-> NoTimecode]
Exact == Quote({2}, 100, "long", 6, {2})
Spanning == Quote({4, 5}, 100, "long", 9, {4})
Unmarked == Quote({3}, 100, "long", 5, {5})     \* its long words occur elsewhere only
Loose == Quote({3}, 80, "long", 5, {3})
Short == Quote({3}, 90, "short", 2, {})
Tiny == Quote({2}, 100, "tiny", 1, {})
Invented == Quote({}, 0, "long", 7, {})
Absent == [Invented EXCEPT !.form = "na"]
Bare == [Invented EXCEPT !.form = "pointer"]
Glued == [Exact EXCEPT !.locator = 5]
Entry(quote, timecode) == [quote |-> quote, timecode |-> timecode]
PhraseAt(quote, timecode) == Entry(quote, timecode) @@ [claimed |-> NoClaim]

Scored(n) == [score |-> n]
Greeting == "contact_greeting_standard"
Tone == "general_polite_tone"

Praised ==
  (Advantages :> [count |-> 5, quotes |-> <<Entry(Exact, 5), Entry(Unmarked, NoTimecode)>>])
  @@ (AllHandled :> [total |-> 2, handled |-> 2, quotes |-> <<Entry(Invented, 20)>>])
  @@ (Techniques :> Scored(2))
  @@ (Greeting :> [score |-> 2, quotes |-> <<Entry(Spanning, 90), Entry(Absent, NoTimecode)>>])
  @@ (Tone :> Scalar(2))
Reproached ==
  (Advantages :> [count |-> 1, single |-> Entry(Loose, 20)])
  @@ (AllHandled :> [total |-> 0, handled |-> 0])
  @@ (Techniques :> Scored(0))
  @@ (Greeting :> [score |-> 1, single |-> Entry(Short, NoTimecode)])
  @@ ("closing_contacts_collected" :> Scored(1))
  @@ (Tone :> [score |-> 0, quotes |-> <<Entry(Tiny, NoTimecode)>>])
Textual == (AllHandled :> [total |-> Text, handled |-> 1])
Unhandled == (AllHandled :> [total |-> 0, handled |-> Text])
Uncounted == (AllHandled :> Scored(2)) @@ (Techniques :> Scored(0)) @@ (Advantages :> Scalar(Text))
Answer(qc) == [object |-> TRUE, scores |-> qc]

MCClassifications ==
  {[type |-> "junk", lost |-> FALSE], [type |-> "service", lost |-> FALSE],
   [type |-> "sales", lost |-> FALSE], [type |-> "meeting", lost |-> TRUE],
   [type |-> Unhashable, lost |-> FALSE]}
MCQcAnswers == {[object |-> FALSE], Answer(Praised), Answer(Reproached), Answer(Textual),
   Answer(Unhandled), Answer(Uncounted)}
MCLabelFlags == {"swapped", "none"}
MCClientAnswers ==
  {[items |-> <<PhraseAt(Exact, 5), PhraseAt(Loose, 400), PhraseAt(Glued, NoTimecode)>>,
    enums |-> <<[path |-> "type", tokens |-> <<"price">>]>>],
   [items |-> <<PhraseAt(Invented, 20), PhraseAt(Bare, NoTimecode), PhraseAt(Unmarked, 400)>>,
    enums |-> <<[path |-> "type", tokens |-> <<"price", "place">>],
                [path |-> "manager.style", tokens |-> <<"unknown">>]>>]}
MCManagerAnswers ==
  {[good |-> <<PhraseAt(Exact, 90)>>, bad |-> <<PhraseAt(Unmarked, NoTimecode)>>],
   [good |-> <<PhraseAt(Spanning, 5)>>, bad |-> <<>>]}
MCReportAnswers ==
  {c @@ m : c \in MCClientAnswers, m \in MCManagerAnswers}
MCSchemas ==
  [v2 |-> [type |-> {"price", "place"}],
   v3 |-> ("type" :> {"price", "place"}) @@ ("manager.style" :> {"warm", "dry"})]

Proxy == [enabled |-> TRUE, base_url |-> "proxy", api_key |-> "proxy key"]
NoProxy == [Proxy EXCEPT !.enabled = FALSE]
Previous ==
  <<[call_type |-> "sales", connection_lost |-> FALSE, qc |-> Praised],
    [call_type |-> "sales", connection_lost |-> TRUE, qc |-> Textual],
    [call_type |-> "junk", connection_lost |-> FALSE, qc |-> NoFields]>>

Input(analyser, caller, transcript) ==
  [analyser |-> analyser, caller |-> caller, transcript |-> transcript, call |-> "call",
   previous |-> IF caller = "chain" THEN Previous ELSE <<>>,
   proxy |-> IF caller = "eval" THEN NoProxy ELSE Proxy]
MCInputs ==
  {Input("v2", caller, Right) : caller \in {"flow", "chain", "eval"}}
  \union {Input("v3", "flow", Mono), Input("v3", "chain", Right),
          Input("v3", "eval", Relabelled(Right)), Input("v3", "eval", Undecided),
          [Input("v2", "flow", Right) EXCEPT !.proxy.api_key = None]}
=============================================================================
