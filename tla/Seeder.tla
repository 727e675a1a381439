------------------------------- MODULE Seeder -------------------------------
(***************************************************************************)
(* `make seed` (pipelines/seed_calls.py): audio files go to the raw-files  *)
(* bucket, and a row for each new call to analysis.calls.  It is meant to  *)
(* be run again and again: known calls are asked for once, before the      *)
(* uploads, and all new rows are inserted in one commit, after them.       *)
(***************************************************************************)
EXTENDS Integers, FiniteSets

CONSTANTS
    Seeders,   \* slots for seed runs
    Directory, \* the audio files: [path, call (the stem), suffix, mtime]
    MaxSeeds,  \* bound: seed runs
    MaxAborts  \* bound: seed runs that die

VARIABLES
    calls,  \* analysis.calls
    bucket, \* keys of the objects in raw-files
    spc,    \* per run: "idle", "upload" or "insert"
    known,  \* per run: call ids found recorded at its start
    files,  \* per run: files not uploaded yet
    rows,   \* per run: rows to insert at the end
    seeds,  \* history: seed runs started
    aborts  \* history: seed runs that died

seedVars == <<spc, known, files, rows, seeds, aborts>>
seederVars == <<calls, bucket, seedVars>>

\* audio_key: calls/<call_id>.<suffix>
AudioKey(f) == <<f.call, f.suffix>>

\* The row of a file.  Iceberg has no unique key, so a call may have several:
\* `row` tells the rows of different files and different seed runs apart.
RowOf(f, run) == [row |-> <<run, f.path>>, call |-> f.call, started |-> f.mtime,
                  audio |-> TRUE, key |-> AudioKey(f)]

Init ==
    /\ calls = {}
    /\ bucket = {}
    /\ spc = [s \in Seeders |-> "idle"]
    /\ known = [s \in Seeders |-> {}]
    /\ files = [s \in Seeders |-> {}]
    /\ rows = [s \in Seeders |-> {}]
    /\ seeds = 0
    /\ aborts = 0

\* existing_call_ids over the stems of the directory; asking for none of them
\* for contrast.
ExistingNothing(stems) == {}
Existing(stems) == {c \in stems : \E k \in calls : k.call = c}

Begin(s) ==
    /\ spc[s] = "idle"
    /\ Directory # {}
    /\ seeds < MaxSeeds
    /\ known' = [known EXCEPT ![s] = Existing({f.call : f \in Directory})]
    /\ files' = [files EXCEPT ![s] = Directory]
    /\ rows' = [rows EXCEPT ![s] = {}]
    /\ spc' = [spc EXCEPT ![s] = "upload"]
    /\ seeds' = seeds + 1
    /\ UNCHANGED <<calls, bucket, aborts>>

\* The next file in path order: its object is uploaded in any case, its row kept
\* for the end unless the call was known at the start.
Upload(s) ==
    /\ spc[s] = "upload"
    /\ \E f \in files[s] :
          /\ \A other \in files[s] : f.path <= other.path
          /\ bucket' = bucket \cup {AudioKey(f)}
          /\ files' = [files EXCEPT ![s] = @ \ {f}]
          /\ rows' = [rows EXCEPT ![s] = IF f.call \in known[s] THEN @
                                         ELSE @ \cup {RowOf(f, seeds)}]
    /\ spc' = [spc EXCEPT ![s] = IF files'[s] # {} THEN "upload"
                                 ELSE IF rows'[s] # {} THEN "insert" ELSE "idle"]
    /\ UNCHANGED <<calls, known, seeds, aborts>>

\* insert_calls_batch: one commit for all the new rows; before the uploads are
\* over for contrast.
InsertCallsFirst(s) ==
    /\ spc[s] \in {"upload", "insert"}
    /\ calls' = calls \cup {RowOf(f, seeds) : f \in
                               {g \in Directory : g.call \notin known[s]}}
    /\ spc' = [spc EXCEPT ![s] = "idle"]
    /\ rows' = [rows EXCEPT ![s] = {}]
    /\ UNCHANGED <<bucket, known, files, seeds, aborts>>
InsertCalls(s) ==
    /\ spc[s] = "insert"
    /\ calls' = calls \cup rows[s]
    /\ spc' = [spc EXCEPT ![s] = "idle"]
    /\ rows' = [rows EXCEPT ![s] = {}]
    /\ UNCHANGED <<bucket, known, files, seeds, aborts>>

\* An upload or the insert raises: the seed ends, its uploads stay.
Abort(s) ==
    /\ spc[s] # "idle"
    /\ aborts < MaxAborts
    /\ spc' = [spc EXCEPT ![s] = "idle"]
    /\ files' = [files EXCEPT ![s] = {}]
    /\ rows' = [rows EXCEPT ![s] = {}]
    /\ aborts' = aborts + 1
    /\ UNCHANGED <<calls, bucket, known, seeds>>

SeedStep(s) == Upload(s) \/ InsertCalls(s)

Next == \E s \in Seeders : Begin(s) \/ SeedStep(s) \/ Abort(s)

-----------------------------------------------------------------------------
\* Seeding the same directory again, after a finished run or one that died at any
\* point, records no call twice.
OneRowPerCall ==
    \A k, l \in calls : k.call = l.call => k = l

\* A call that the transcription flow can pick up has its audio in the bucket,
\* wherever the seed that brought it died.
RowHasAudio == \A k \in calls : k.key \in bucket
=============================================================================
