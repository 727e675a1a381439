---------------------------- MODULE GigaamService ----------------------------
(***************************************************************************)
(* The speech recognition service (ai/infra/gigaam/app): one handler per   *)
(* request on an event loop, a temporary file each, and a gate that lets   *)
(* one inference at a time into a thread.  The inference cannot be          *)
(* cancelled, and a client that leaves does not stop its handler.  The     *)
(* container is restarted when its process dies, on the same file system.  *)
(***************************************************************************)
EXTENDS Integers, Sequences

CONSTANTS
  Requests,   \* every request that may ever arrive
  MaxCrashes  \* bound: deaths of the process

VARIABLES
  loaded,  \* Runtime.loaded: the model is in memory, the port is open
  status,  \* where the handler of a request is
  answer,  \* what a request was answered
  permits, \* the gate: value of the semaphore
  queue,   \* the gate: handlers that wait, in order of arrival
  files,   \* requests whose temporary file exists
  crashes

service == <<loaded, status, answer, permits, queue, files, crashes>>

\* 200, 422, 503 by the engine, 503 by the catch-all of the handler
Answers == {"ok", "audio", "transient", "unexpected"}

ServiceInit ==
  /\ loaded = FALSE
  /\ status = [r \in Requests |-> "none"]
  /\ answer = [r \in Requests |-> "none"]
  /\ permits = 1
  /\ queue = <<>>
  /\ files = {}
  /\ crashes = 0

\* The lifespan loads the model before the first request is accepted.
Load ==
  /\ ~loaded
  /\ loaded' = TRUE
  /\ UNCHANGED <<status, answer, permits, queue, files, crashes>>

\* The form is being received; other requests are served meanwhile.
Arrive(r) ==
  /\ loaded
  /\ status[r] = "none"
  /\ status' = [status EXCEPT ![r] = "reading"]
  /\ UNCHANGED <<loaded, answer, permits, queue, files, crashes>>

NoUpload(r) ==
  /\ status[r] = "reading"
  /\ status' = [status EXCEPT ![r] = "answered"]
  /\ answer' = [answer EXCEPT ![r] = "audio"]
  /\ UNCHANGED <<loaded, permits, queue, files, crashes>>

\* The path of the file is noted only after the data is in it: a write that fails,
\* on a full disk say, leaves the file behind.
WriteFails(r) ==
  /\ status[r] = "reading"
  /\ status' = [status EXCEPT ![r] = "answered"]
  /\ answer' = [answer EXCEPT ![r] = "unexpected"]
  /\ files' \in {files, files \union {r}}
  /\ UNCHANGED <<loaded, permits, queue, crashes>>

\* The file is written and the gate taken, or the handler queues up at it.
Write(r) ==
  /\ status[r] = "reading"
  /\ files' = files \union {r}
  /\ IF permits > 0
     THEN /\ status' = [status EXCEPT ![r] = "running"]
          /\ permits' = permits - 1
          /\ queue' = queue
     ELSE /\ status' = [status EXCEPT ![r] = "queued"]
          /\ queue' = Append(queue, r)
          /\ permits' = permits
  /\ UNCHANGED <<loaded, answer, crashes>>

\* A release hands the permit to the first in the queue.  One that adds a permit as
\* well, and one that a failed inference never reaches, for contrast.
HandOn(r) ==
  status' = IF queue = <<>>
            THEN [status EXCEPT ![r] = "answered"]
            ELSE [status EXCEPT ![r] = "answered", ![Head(queue)] = "running"]
ReleaseTwice(r, a) ==
  /\ HandOn(r)
  /\ queue' = IF queue = <<>> THEN queue ELSE Tail(queue)
  /\ permits' = permits + 1
ReleaseUnlessFailed(r, a) ==
  IF a = "ok"
  THEN /\ HandOn(r)
       /\ queue' = IF queue = <<>> THEN queue ELSE Tail(queue)
       /\ permits' = IF queue = <<>> THEN permits + 1 ELSE permits
  ELSE /\ status' = [status EXCEPT ![r] = "answered"]
       /\ UNCHANGED <<permits, queue>>
Release(r, a) ==
  /\ HandOn(r)
  /\ queue' = IF queue = <<>> THEN queue ELSE Tail(queue)
  /\ permits' = IF queue = <<>> THEN permits + 1 ELSE permits

\* The thread ends, with words or an error; from there to the answer nothing is
\* awaited: the gate is released, the words glued, the answer made, the file removed.
FinishKeepingFile(r, a) ==
  /\ status[r] = "running"
  /\ Release(r, a)
  /\ answer' = [answer EXCEPT ![r] = a]
  /\ files' = IF a = "ok" THEN files \ {r} ELSE files
  /\ UNCHANGED <<loaded, crashes>>
Finish(r, a) ==
  /\ status[r] = "running"
  /\ Release(r, a)
  /\ answer' = [answer EXCEPT ![r] = a]
  /\ files' = files \ {r}
  /\ UNCHANGED <<loaded, crashes>>

\* The process dies, of memory say: every connection is cut, files stay.
InFlight(r) == status[r] \in {"reading", "queued", "running"}
Crash ==
  /\ loaded
  /\ crashes < MaxCrashes
  /\ crashes' = crashes + 1
  /\ loaded' = FALSE
  /\ status' = [r \in Requests |-> IF InFlight(r) THEN "cut" ELSE status[r]]
  /\ permits' = 1
  /\ queue' = <<>>
  /\ UNCHANGED <<answer, files>>

Handle(r) ==
  \/ NoUpload(r)
  \/ WriteFails(r)
  \/ Write(r)
  \/ \E a \in Answers : Finish(r, a)

ServiceNext ==
  \/ Load
  \/ \E r \in Requests : Arrive(r) \/ Handle(r)
  \/ Crash

ServiceSpec == ServiceInit /\ [][ServiceNext]_service

\* A process that died is started again, an upload ends, an inference ends.
ServiceFairness == WF_service(Load) /\ \A r \in Requests : WF_service(Handle(r))

-----------------------------------------------------------------------------
ServiceTypeOK ==
  /\ loaded \in BOOLEAN
  /\ status \in [Requests -> {"none", "reading", "queued", "running", "answered", "cut"}]
  /\ answer \in [Requests -> Answers \union {"none"}]
  /\ permits \in Nat
  /\ queue \in Seq(Requests)
  /\ files \subseteq Requests
  /\ crashes \in Nat

(* "No two inferences at once on the machine, whoever knocks" (runtime.py   *)
(* 3-4): not with clients that left and came back, not after a crash.      *)
OneInference ==
  \A r, s \in Requests : status[r] = "running" /\ status[s] = "running" => r = s

(* The disk does not fill up: a temporary file belongs to a handler that    *)
(* waits or computes, or is left by one of two faults, a write that failed  *)
(* or a process that died; no inference, however it ended, leaves one.     *)
FilesAreAccountedFor ==
  \A r \in files :
    \/ status[r] \in {"queued", "running", "cut"}
    \/ status[r] = "answered" /\ answer[r] = "unexpected"

(* The gate does not drop (runtime.py 5-7): every request is answered in    *)
(* the end, or cut by a crash, also behind failures and orphans.           *)
EveryRequestIsAnswered ==
  \A r \in Requests : InFlight(r) ~> status[r] \in {"answered", "cut"}
=============================================================================
