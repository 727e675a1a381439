----------------------------- MODULE Transcriber -----------------------------
(***************************************************************************)
(* transcribe_audio (ai/transcription/transcriber.py), run by several      *)
(* tasks at a time against one speech recognition service: the upload in   *)
(* one piece or in slices one after another, each requested again when it  *)
(* fails in passing, then the labels of the speakers and the polish.       *)
(***************************************************************************)
EXTENDS SpeechSegments, GigaamService

CONSTANTS
  Tasks,
  Attempts,     \* posts per upload: the retries of the client library and of the proxy
  MaxPosts,     \* requests of a task: uploads times attempts
  Recordings,   \* what tasks may have: [length, fits, channels], fits one upload or not
  Speech(_)     \* what may be said in a recording of a length

\* Request n of a task; there are enough for every upload of every recording.
ASSUME RequestsAssumption ==
  /\ Attempts \in Nat \ {0}
  /\ Requests = Tasks \X (1 .. MaxPosts)
ASSUME RecordingsAssumption ==
  \A recording \in Recordings :
    /\ recording \in [Tasks -> [length : Nat, fits : BOOLEAN, channels : Nat]]
    /\ \A t \in Tasks : Speech(recording[t].length) \subseteq Sayable(recording[t].length)

VARIABLES
  audio,    \* the recording of a task
  pc,       \* what a task does next
  posted,   \* requests a task has made
  tries,    \* those for the current upload
  uploads,  \* slices answered
  said,     \* what is said in the recording, chosen when it first matters
  segments  \* the timeline of the task

client == <<audio, pc, posted, tries, uploads, said, segments>>
vars == <<service, client>>

Init ==
  /\ ServiceInit
  /\ audio \in Recordings
  /\ pc = [t \in Tasks |-> "upload"]
  /\ posted = [t \in Tasks |-> 0]
  /\ tries = [t \in Tasks |-> 0]
  /\ uploads = [t \in Tasks |-> 0]
  /\ said = [t \in Tasks |-> <<>>]
  /\ segments = [t \in Tasks |-> {}]

Slices(t) ==
  IF audio[t].fits THEN <<[from |-> 0, to |-> audio[t].length]>> ELSE Split(audio[t].length)
Request(t) == <<t, posted[t]>>
Goto(t, there) == pc' = [pc EXCEPT ![t] = there]

\* An upload that failed in passing is posted again, or its task fails for good.
Retry(t) == Goto(t, IF tries'[t] < Attempts THEN "upload" ELSE "failed")

Post(t) ==
  /\ pc[t] = "upload"
  /\ <<t, posted[t] + 1>> \in Requests
  /\ Arrive(<<t, posted[t] + 1>>)
  /\ posted' = [posted EXCEPT ![t] = @ + 1]
  /\ tries' = [tries EXCEPT ![t] = @ + 1]
  /\ Goto(t, "wait")
  /\ UNCHANGED <<audio, uploads, said, segments>>

\* The service is down.
Refused(t) ==
  /\ pc[t] = "upload"
  /\ ~loaded
  /\ tries' = [tries EXCEPT ![t] = @ + 1]
  /\ Retry(t)
  /\ UNCHANGED <<audio, posted, uploads, said, segments, service>>

\* The segments of a slice; after the last one the timeline is stitched.
TakeSegments(t) ==
  /\ pc[t] = "wait"
  /\ answer[Request(t)] = "ok"
  /\ uploads' = [uploads EXCEPT ![t] = @ + 1]
  /\ tries' = [tries EXCEPT ![t] = 0]
  /\ IF uploads[t] + 1 < Len(Slices(t))
     THEN Goto(t, "upload") /\ UNCHANGED <<said, segments>>
     ELSE \E speech \in Speech(audio[t].length) :
            /\ said' = [said EXCEPT ![t] = speech]
            /\ segments' = [segments EXCEPT ![t] = Transcript(speech, Slices(t))]
            /\ Goto(t, "label")
  /\ UNCHANGED <<audio, posted, service>>

\* Unreadable audio: a 422 is not tried again.
TakeRejection(t) ==
  /\ pc[t] = "wait"
  /\ answer[Request(t)] = "audio"
  /\ Goto(t, "failed")
  /\ UNCHANGED <<audio, posted, tries, uploads, said, segments, service>>

\* A 503, a cut connection, or an answer not waited for any longer: in the last case
\* the handler goes on.
TakeFailure(t) ==
  /\ pc[t] = "wait"
  /\ \/ answer[Request(t)] \in {"transient", "unexpected"}
     \/ status[Request(t)] = "cut"
     \/ InFlight(Request(t))
  /\ tries' = tries
  /\ Retry(t)
  /\ UNCHANGED <<audio, posted, uploads, said, segments, service>>

\* A transcript without a line is an error.  Of two channels the louder labels a
\* segment; speakers are named only if both are heard, which takes two segments.
\* Naming them may fail softly, but an answer without choices is read outside the
\* try, and the task fails.
Label(t) ==
  /\ pc[t] = "label"
  /\ IF segments[t] = {}
     THEN Goto(t, "failed")
     ELSE \/ Goto(t, "polish")
          \/ audio[t].channels > 1 /\ Cardinality(segments[t]) > 1 /\ Goto(t, "failed")
  /\ UNCHANGED <<audio, posted, tries, uploads, said, segments, service>>

\* The same for the polish, whose text is kept or discarded by its length only.
Polish(t) ==
  /\ pc[t] = "polish"
  /\ Goto(t, "done") \/ Goto(t, "failed")
  /\ UNCHANGED <<audio, posted, tries, uploads, said, segments, service>>

Task(t) ==
  \/ Post(t)
  \/ Refused(t)
  \/ TakeSegments(t)
  \/ TakeRejection(t)
  \/ TakeFailure(t)
  \/ Label(t)
  \/ Polish(t)

\* What the service does of itself; requests arrive from the tasks only.
Serve ==
  /\ \/ Load
     \/ \E r \in Requests : Handle(r)
     \/ Crash
  /\ UNCHANGED client

Next == Serve \/ \E t \in Tasks : Task(t)

Spec == Init /\ [][Next]_vars
LiveSpec == Spec /\ ServiceFairness

-----------------------------------------------------------------------------
(* What stitching may cost at the boundary of two slices, at worst: words   *)
(* heard twice for half an overlap, words lost for the length of a segment *)
(* less half an overlap, and lines out of order by half an overlap.        *)
StitchedWithinBounds ==
  \A t \in Tasks : pc[t] = "label" =>
    StitchedWithin(said[t], segments[t], Len(Slices(t)) - 1)

(* "Forgiving enough that speech legitimately starting at the boundary     *)
(* isn't lost" (transcriber.py 200-201).                                   *)
SpeechIsKept ==
  \A t \in Tasks : pc[t] = "done" => Spoken(said[t]) \subseteq Written(segments[t])
=============================================================================
