----------------------------- MODULE EvalExport -----------------------------
(***************************************************************************)
(* The flow `eval-export-dataset` (pipelines/flows/eval_export.py): one    *)
(* query pairs the current reports of an analyser with the current         *)
(* transcripts of their calls; the result is written to object storage     *)
(* under a key that carries the second of the export.  Looking whether the *)
(* key exists and writing the object are two requests.                     *)
(***************************************************************************)
EXTENDS AnalysisTables

CONSTANTS
    Exporters,  \* slots for export runs
    Analysers,  \* the analyser_version parameter of the flow
    MaxExports, \* bound: exports that find something to export
    MaxSeconds  \* bound: the clock

VARIABLES
    calls, transcriptions, call_reports, \* read only
    datasets, \* the eval-datasets bucket: contents by key
    now,      \* UTC time in seconds, the resolution of a key
    epc,      \* per run: "idle", "check" or "upload"
    records,  \* per run: the lines of the dataset
    key,      \* per run: [analyser, stamp], the key it will write
    exports   \* history: export runs started

exportVars == <<datasets, now, epc, records, key, exports>>

NoKey == [analyser |-> "none", stamp |-> 0]

Init ==
    /\ datasets = [k \in {} |-> {}]
    /\ now = 0
    /\ epc = [e \in Exporters |-> "idle"]
    /\ records = [e \in Exporters |-> {}]
    /\ key = [e \in Exporters |-> NoKey]
    /\ exports = 0

\* The join.  Nothing in it says that the report was made from the transcript:
\* they are the current ones of the call.
Joined(a) ==
    LET Matches == {x \in calls \X transcriptions \X call_reports :
                       /\ x[2].call = x[3].call /\ x[2].current
                       /\ x[1].call = x[3].call
                       /\ x[3].current /\ x[3].analyser = a}
    IN  {[row |-> x[1].row, call |-> x[1].call,
          transcript |-> x[2].id, report |-> x[3].id] : x \in Matches}

\* The query of a run; one that finds nothing returns and changes nothing.
Query(e, a) ==
    /\ epc[e] = "idle"
    /\ exports < MaxExports
    /\ Joined(a) # {}
    /\ records' = [records EXCEPT ![e] = Joined(a)]
    /\ key' = [key EXCEPT ![e] = [analyser |-> a, stamp |-> 0]]
    /\ epc' = [epc EXCEPT ![e] = "check"]
    /\ exports' = exports + 1
    /\ UNCHANGED <<datasets, now>>

\* The stamp is taken, and the key looked up: an existing one ends the run.  (The
\* first form forgets to look.)
CheckNothing(e) ==
    /\ epc[e] = "check"
    /\ key' = [key EXCEPT ![e].stamp = now]
    /\ epc' = [epc EXCEPT ![e] = "upload"]
    /\ UNCHANGED <<datasets, now, records, exports>>
CheckKey(e) ==
    /\ epc[e] = "check"
    /\ key' = [key EXCEPT ![e].stamp = now]
    /\ epc' = [epc EXCEPT ![e] = IF key'[e] \in DOMAIN datasets THEN "idle"
                                                                ELSE "upload"]
    /\ UNCHANGED <<datasets, now, records, exports>>

\* put_object replaces whatever has the key.
UploadDataset(e) ==
    /\ epc[e] = "upload"
    /\ datasets' = [k \in DOMAIN datasets \cup {key[e]} |->
                       IF k = key[e] THEN records[e] ELSE datasets[k]]
    /\ epc' = [epc EXCEPT ![e] = "idle"]
    /\ UNCHANGED <<now, records, key, exports>>

\* A run may die; it has written nothing yet.
ExportDies(e) ==
    /\ epc[e] # "idle"
    /\ epc' = [epc EXCEPT ![e] = "idle"]
    /\ UNCHANGED <<datasets, now, records, key, exports>>

Tick ==
    /\ now < MaxSeconds
    /\ now' = now + 1
    /\ UNCHANGED <<datasets, epc, records, key, exports>>

Next ==
    \/ Tick
    \/ \E e \in Exporters :
          \/ \E a \in Analysers : Query(e, a)
          \/ CheckKey(e)
          \/ UploadDataset(e)
          \/ ExportDies(e)

-----------------------------------------------------------------------------
\* Exports that do not overlap never replace a dataset, however fast they follow
\* one another: an eval result stays next to the input it scored.
DatasetsImmutable ==
    [][\A k \in DOMAIN datasets :
          k \in DOMAIN datasets' /\ datasets'[k] = datasets[k]]_datasets

\* Every line of a published dataset pairs a report with the transcript that
\* report was made from, and no call has two lines.
PairsTruthful ==
    \A k \in DOMAIN datasets :
        /\ \A x \in datasets[k] :
              \E rep \in call_reports : /\ rep.id = x.report
                                        /\ rep.source = x.transcript
                                        /\ rep.analyser = k.analyser
        /\ \A x, y \in datasets[k] : x.call = y.call => x = y
=============================================================================
