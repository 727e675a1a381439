------------------------ MODULE GigaamServiceProofs ------------------------
(***************************************************************************)
(* The gate and the temporary files of GigaamService, for any set of       *)
(* requests and any number of crashes.                                     *)
(***************************************************************************)
EXTENDS GigaamService, TLAPS

(* The service keeps its types. *)
THEOREM ServiceTypeCorrect == ServiceSpec => []ServiceTypeOK
<1>1. ServiceInit => ServiceTypeOK
  <2> SUFFICES ASSUME ServiceInit PROVE ServiceTypeOK
    OBVIOUS
  <2>1. queue \in Seq(Requests) /\ permits \in Nat /\ crashes \in Nat
    BY DEF ServiceInit
  <2>2. loaded \in BOOLEAN /\ files \subseteq Requests
    BY DEF ServiceInit
  <2>3. answer \in [Requests -> Answers \union {"none"}]
    BY DEF ServiceInit
  <2>4. status \in [Requests -> {"none", "reading", "queued", "running", "answered", "cut"}]
    BY DEF ServiceInit
  <2>5. QED
    BY <2>1, <2>2, <2>3, <2>4 DEF ServiceTypeOK
<1>2. ServiceTypeOK /\ [ServiceNext]_service => ServiceTypeOK'
  <2> SUFFICES ASSUME ServiceTypeOK, [ServiceNext]_service PROVE ServiceTypeOK'
    OBVIOUS
  <2> USE DEF ServiceTypeOK, Answers
  <2>1. CASE Load
    BY <2>1 DEF Load
  <2>2. ASSUME NEW r \in Requests, Arrive(r) PROVE ServiceTypeOK'
    BY <2>2 DEF Arrive
  <2>3. ASSUME NEW r \in Requests, NoUpload(r) PROVE ServiceTypeOK'
    BY <2>3 DEF NoUpload
  <2>4. ASSUME NEW r \in Requests, WriteFails(r) PROVE ServiceTypeOK'
    BY <2>4 DEF WriteFails
  <2>5. ASSUME NEW r \in Requests, Write(r) PROVE ServiceTypeOK'
    <3>1. queue' \in Seq(Requests) /\ permits' \in Nat
      BY <2>5 DEF Write
    <3>2. status' \in [Requests -> {"none", "reading", "queued", "running", "answered", "cut"}]
      BY <2>5 DEF Write
    <3>3. QED
      BY <2>5, <3>1, <3>2 DEF Write
  <2>6. ASSUME NEW r \in Requests, NEW a \in Answers, Finish(r, a) PROVE ServiceTypeOK'
    <3>1. queue' \in Seq(Requests) /\ permits' \in Nat
      BY <2>6 DEF Finish, Release
    <3>2. status' \in [Requests -> {"none", "reading", "queued", "running", "answered", "cut"}]
      BY <2>6 DEF Finish, Release, HandOn
    <3>3. QED
      BY <2>6, <3>1, <3>2 DEF Finish
  <2>7. CASE Crash
    <3>1. queue' \in Seq(Requests) /\ permits' \in Nat /\ crashes' \in Nat
      BY <2>7 DEF Crash
    <3>2. status' \in [Requests -> {"none", "reading", "queued", "running", "answered", "cut"}]
      BY <2>7, Zenon DEF Crash, InFlight
    <3>3. QED
      BY <2>7, <3>1, <3>2 DEF Crash
  <2>8. CASE UNCHANGED service
    BY <2>8 DEF service
  <2> HIDE DEF ServiceTypeOK, Answers
  <2>9. QED
    BY <2>1, <2>2, <2>3, <2>4, <2>5, <2>6, <2>7, <2>8 DEF ServiceNext, Handle
<1>3. QED
  BY <1>1, <1>2, PTL DEF ServiceSpec

-----------------------------------------------------------------------------
\* The gate: a permit is free only if nobody runs and nobody waits, and whoever
\* waits does so once.
Waiting == {queue[i] : i \in 1 .. Len(queue)}
NoneTwice == \A i, j \in 1 .. Len(queue) : queue[i] = queue[j] => i = j
GateInv ==
  /\ permits \in {0, 1}
  /\ permits = 1 => queue = <<>> /\ \A r \in Requests : status[r] # "running"
  /\ \A i \in 1 .. Len(queue) : status[queue[i]] = "queued"
  /\ NoneTwice
  /\ OneInference

LEMMA GateInitially == ServiceInit => GateInv
  BY DEF ServiceInit, GateInv, NoneTwice, OneInference

\* Handlers that neither reach the gate nor leave it.
LEMMA GateAside ==
  ASSUME ServiceTypeOK, GateInv, NEW r \in Requests, NEW there \in {"reading", "answered"},
         status[r] \in {"none", "reading"},
         status' = [status EXCEPT ![r] = there], UNCHANGED <<permits, queue>>
  PROVE  GateInv'
  BY DEF ServiceTypeOK, GateInv, NoneTwice, OneInference

\* A handler at the gate goes through if it is open, and queues up if it is not.
LEMMA GateAtWrite ==
  ASSUME ServiceTypeOK, GateInv, NEW r \in Requests, Write(r)
  PROVE  GateInv'
<1> USE DEF ServiceTypeOK, GateInv
<1>1. CASE permits > 0
  <2>1. permits = 1 /\ queue = <<>> /\ permits' = 0 /\ queue' = <<>>
    BY <1>1 DEF Write
  <2>2. OneInference'
    BY <1>1, <2>1 DEF Write, OneInference
  <2>3. QED
    BY <2>1, <2>2 DEF NoneTwice
<1>2. CASE ~(permits > 0)
  <2>1. /\ permits = 0 /\ permits' = 0
        /\ queue' = Append(queue, r)
        /\ status' = [status EXCEPT ![r] = "queued"]
        /\ status[r] = "reading"
    BY <1>2 DEF Write
  <2>2. \A i \in 1 .. Len(queue) : queue[i] # r /\ queue[i] \in Requests
    BY <2>1
  <2>3. /\ Len(queue') = Len(queue) + 1
        /\ \A i \in 1 .. Len(queue) : queue'[i] = queue[i]
        /\ queue'[Len(queue) + 1] = r
    BY <2>1
  <2>4. NoneTwice'
    BY <2>2, <2>3 DEF NoneTwice
  <2>5. \A i \in 1 .. Len(queue') : status'[queue'[i]] = "queued"
    BY <2>1, <2>2, <2>3
  <2>6. OneInference'
    BY <2>1 DEF OneInference
  <2>7. QED
    BY <2>1, <2>4, <2>5, <2>6
<1>3. QED
  BY <1>1, <1>2

\* The one that leaves was the only one inside, and lets in the first in the queue.
LEMMA GateAtFinish ==
  ASSUME ServiceTypeOK, GateInv, NEW r \in Requests, NEW a, Finish(r, a)
  PROVE  GateInv'
<1> USE DEF ServiceTypeOK, GateInv
<1>1. permits = 0 /\ status[r] = "running" /\ \A s \in Requests : status[s] = "running" => s = r
  BY DEF Finish, OneInference
<1>2. CASE queue = <<>>
  <2>1. permits' = 1 /\ queue' = <<>> /\ status' = [status EXCEPT ![r] = "answered"]
    BY <1>1, <1>2 DEF Finish, Release, HandOn
  <2>2. \A s \in Requests : status'[s] # "running"
    BY <1>1, <2>1
  <2>3. QED
    BY <2>1, <2>2 DEF NoneTwice, OneInference
<1>3. CASE queue # <<>>
  <2>1. /\ permits' = 0 /\ queue' = Tail(queue)
        /\ status' = [status EXCEPT ![r] = "answered", ![Head(queue)] = "running"]
    BY <1>1, <1>3 DEF Finish, Release, HandOn
  <2>2. /\ Len(queue) \in Nat \ {0}
        /\ Head(queue) = queue[1] /\ Head(queue) \in Requests
        /\ Len(queue') = Len(queue) - 1
        /\ \A i \in 1 .. Len(queue') : queue'[i] = queue[i + 1] /\ queue'[i] \in Requests
    BY <1>3, <2>1
  <2>3. \A i \in 1 .. Len(queue') : queue'[i] # r /\ queue'[i] # Head(queue)
    BY <1>1, <2>2 DEF NoneTwice
  <2>4. \A i \in 1 .. Len(queue') : status'[queue'[i]] = "queued"
    BY <2>1, <2>2, <2>3
  <2>5. NoneTwice'
    BY <2>2 DEF NoneTwice
  <2>6. OneInference'
    BY <1>1, <2>1, <2>2 DEF OneInference
  <2>7. QED
    BY <2>1, <2>4, <2>5, <2>6
<1>4. QED
  BY <1>2, <1>3

LEMMA GateAtCrash ==
  ASSUME ServiceTypeOK, GateInv, Crash
  PROVE  GateInv'
  BY DEF ServiceTypeOK, GateInv, Crash, InFlight, NoneTwice, OneInference

LEMMA GateKept ==
  ASSUME ServiceTypeOK, GateInv, [ServiceNext]_service
  PROVE  GateInv'
<1>1. CASE Load
  BY <1>1 DEF Load, GateInv, NoneTwice, OneInference
<1>2. ASSUME NEW r \in Requests, Arrive(r) \/ NoUpload(r) \/ WriteFails(r) PROVE GateInv'
  BY <1>2, GateAside DEF Arrive, NoUpload, WriteFails
<1>3. ASSUME NEW r \in Requests, Write(r) PROVE GateInv'
  BY <1>3, GateAtWrite
<1>4. ASSUME NEW r \in Requests, NEW a \in Answers, Finish(r, a) PROVE GateInv'
  BY <1>4, GateAtFinish
<1>5. CASE Crash
  BY <1>5, GateAtCrash
<1>6. CASE UNCHANGED service
  BY <1>6 DEF service, GateInv, NoneTwice, OneInference
<1>7. QED
  BY <1>1, <1>2, <1>3, <1>4, <1>5, <1>6 DEF ServiceNext, Handle

(* No two inferences run at once, whoever asks, leaves, fails or crashes. *)
THEOREM GateHolds == ServiceSpec => []OneInference
<1>1. ServiceInit => GateInv
  BY GateInitially
<1>2. ServiceTypeOK /\ GateInv /\ [ServiceNext]_service => GateInv'
  BY GateKept
<1>3. GateInv => OneInference
  BY DEF GateInv
<1>4. QED
  BY <1>1, <1>2, <1>3, ServiceTypeCorrect, PTL DEF ServiceSpec

-----------------------------------------------------------------------------
LEMMA FilesKept ==
  ASSUME ServiceTypeOK, GateInv, FilesAreAccountedFor, [ServiceNext]_service
  PROVE  FilesAreAccountedFor'
<1> USE DEF ServiceTypeOK, FilesAreAccountedFor
<1>1. CASE Load
  BY <1>1 DEF Load
<1>2. ASSUME NEW r \in Requests, Arrive(r) PROVE FilesAreAccountedFor'
  BY <1>2 DEF Arrive
<1>3. ASSUME NEW r \in Requests, NoUpload(r) PROVE FilesAreAccountedFor'
  BY <1>3 DEF NoUpload
<1>4. ASSUME NEW r \in Requests, WriteFails(r) PROVE FilesAreAccountedFor'
  BY <1>4 DEF WriteFails
<1>5. ASSUME NEW r \in Requests, Write(r) PROVE FilesAreAccountedFor'
  BY <1>5 DEF Write
<1>6. ASSUME NEW r \in Requests, NEW a \in Answers, Finish(r, a) PROVE FilesAreAccountedFor'
  <2>1. queue # <<>> => Head(queue) \in Requests /\ status[Head(queue)] = "queued"
    <3>1. queue # <<>> => Head(queue) = queue[1] /\ Len(queue) >= 1 /\ Len(queue) \in Nat
      OBVIOUS
    <3>2. QED
      BY <3>1 DEF GateInv
  <2>2. files' = files \ {r} /\ answer' = [answer EXCEPT ![r] = a]
    BY <1>6 DEF Finish
  <2>3. \A f \in Requests \ {r} : 
          status'[f] = status[f] \/ (status'[f] = "running" /\ status[f] = "queued")
    BY <1>6, <2>1 DEF Finish, Release, HandOn
  <2>4. QED
    BY <2>2, <2>3
<1>7. CASE Crash
  BY <1>7 DEF Crash, InFlight
<1>8. CASE UNCHANGED service
  BY <1>8 DEF service
<1>9. QED
  BY <1>1, <1>2, <1>3, <1>4, <1>5, <1>6, <1>7, <1>8 DEF ServiceNext, Handle

(* Temporary files belong to handlers at work, or to a failed write or a crash. *)
THEOREM FilesStayAccountedFor == ServiceSpec => []FilesAreAccountedFor
<1>1. ServiceInit => GateInv /\ FilesAreAccountedFor
  BY GateInitially DEF ServiceInit, FilesAreAccountedFor
<1>2. ServiceTypeOK /\ GateInv /\ [ServiceNext]_service => GateInv'
  BY GateKept
<1>3. /\ ServiceTypeOK /\ GateInv /\ FilesAreAccountedFor /\ [ServiceNext]_service
      => FilesAreAccountedFor'
  BY FilesKept
<1>4. QED
  BY <1>1, <1>2, <1>3, ServiceTypeCorrect, PTL DEF ServiceSpec
=============================================================================
