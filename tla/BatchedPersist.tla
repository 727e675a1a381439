--------------------------- MODULE BatchedPersist ---------------------------
(***************************************************************************)
(* run_with_batched_persist (pipelines/flows/analysis/_orchestration.py):  *)
(* candidates are submitted in waves of Parallelism, their results are     *)
(* collected in submission order and written in chunks of BatchSize, the   *)
(* two sizes being independent.  The flow modules use the scheme with      *)
(* Parallelism 1, where a chunk is the whole buffer; this module is the    *)
(* general scheme.  A result is represented by its candidate's number.     *)
(***************************************************************************)
EXTENDS Integers, Sequences, FiniteSets

CONSTANTS
    N,           \* len(items)
    Parallelism, \* futures in flight at most
    BatchSize    \* results per persist_batch

ASSUME SizesAssumption ==
    N \in Nat /\ Parallelism \in Nat \ {0} /\ BatchSize \in Nat \ {0}

VARIABLES
    pc,        \* where the driver is
    start,     \* the loop's i: candidates in the waves before this one
    finished,  \* candidates whose task has ended
    lost,      \* those whose task died: f.result() will raise
    ok,        \* those whose result has a row to write
    buffer,    \* collected, not persisted
    delivered, \* persisted, in the order of the commits
    succeeded  \* sum of what persist_batch returned

vars == <<pc, start, finished, lost, ok, buffer, delivered, succeeded>>

\* items[i : i + parallelism] stops at the end of the list.
LowerOf(a, b) == IF a < b THEN a ELSE b
WaveEnd == LowerOf(start + Parallelism, N)
Wave == start + 1 .. WaveEnd

Init ==
    /\ pc = "submit"
    /\ start = 0
    /\ finished = {}
    /\ lost = {}
    /\ ok = {}
    /\ buffer = <<>>
    /\ delivered = <<>>
    /\ succeeded = 0

-----------------------------------------------------------------------------
SubmitWave ==
    /\ pc = "submit"
    /\ start < N
    /\ pc' = "wait"
    /\ UNCHANGED <<start, finished, lost, ok, buffer, delivered, succeeded>>

\* The tasks of a wave end in any order: with a result, good or bad, or by dying
\* in a way the task body does not turn into data.
Finish(i) ==
    /\ pc = "wait"
    /\ i \in Wave \ finished
    /\ finished' = finished \cup {i}
    /\ \/ ok' = ok \cup {i} /\ lost' = lost
       \/ ok' = ok          /\ lost' = lost
       \/ ok' = ok          /\ lost' = lost \cup {i}
    /\ UNCHANGED <<pc, start, buffer, delivered, succeeded>>

\* wait(futures) returns when the whole wave has ended.  The results go to the
\* buffer in submission order; the f.result() of a dead task ends the flow.
WaveResults == [j \in 1 .. WaveEnd - start |-> start + j]
Collect ==
    /\ pc = "wait"
    /\ Wave \subseteq finished
    /\ IF Wave \cap lost = {}
       THEN pc' = "flush" /\ buffer' = buffer \o WaveResults
       ELSE pc' = "raised" /\ buffer' = buffer
    /\ UNCHANGED <<start, finished, lost, ok, delivered, succeeded>>

\* How many rows persist_batch reports for a chunk; a wrong report for contrast.
WrittenWithFailures(chunk) == Len(chunk)
Written(chunk) == Cardinality({i \in DOMAIN chunk : chunk[i] \in ok})

\* persist_batch on the first n results.
PersistKeepingLast(n) ==
    LET chunk == SubSeq(buffer, 1, n)
    IN  /\ delivered' = delivered \o chunk
        /\ buffer' = SubSeq(buffer, n, Len(buffer))
        /\ succeeded' = succeeded + Written(chunk)
        /\ pc' = pc
Persist(n) ==
    LET chunk == SubSeq(buffer, 1, n)
    IN  /\ delivered' = delivered \o chunk
        /\ buffer' = SubSeq(buffer, n + 1, Len(buffer))
        /\ succeeded' = succeeded + Written(chunk)
        /\ pc' = pc

\* persist_batch raises, with its rows committed or not, and the flow ends.
PersistRaises(n) ==
    /\ delivered' \in {delivered, delivered \o SubSeq(buffer, 1, n)}
    /\ pc' = "raised"
    /\ UNCHANGED <<buffer, succeeded>>

\* while len(buffer) >= batch_size; a flush after every wave for contrast.
FlushEveryWave ==
    /\ pc = "flush"
    /\ Len(buffer) > 0
    /\ LET n == LowerOf(BatchSize, Len(buffer))
       IN  Persist(n) \/ PersistRaises(n)
    /\ UNCHANGED <<start, finished, lost, ok>>
FlushChunk ==
    /\ pc = "flush"
    /\ Len(buffer) >= BatchSize
    /\ Persist(BatchSize) \/ PersistRaises(BatchSize)
    /\ UNCHANGED <<start, finished, lost, ok>>

\* The loop goes on with the next wave.
FlushOverUnchecked ==
    /\ pc = "flush"
    /\ start' = start + Parallelism
    /\ pc' = "submit"
    /\ UNCHANGED <<finished, lost, ok, buffer, delivered, succeeded>>
FlushOver ==
    /\ pc = "flush"
    /\ Len(buffer) < BatchSize
    /\ start' = start + Parallelism
    /\ pc' = "submit"
    /\ UNCHANGED <<finished, lost, ok, buffer, delivered, succeeded>>

\* After the last wave what is left is one last, short, batch.
FlushTail ==
    /\ pc = "submit"
    /\ start >= N
    /\ buffer # <<>>
    /\ Persist(Len(buffer)) \/ PersistRaises(Len(buffer))
    /\ UNCHANGED <<start, finished, lost, ok>>

Return ==
    /\ pc = "submit"
    /\ start >= N
    /\ buffer = <<>>
    /\ pc' = "returned"
    /\ UNCHANGED <<start, finished, lost, ok, buffer, delivered, succeeded>>

Next ==
    \/ SubmitWave
    \/ \E i \in 1 .. N : Finish(i)
    \/ Collect
    \/ FlushChunk
    \/ FlushOver
    \/ FlushTail
    \/ Return

Spec == Init /\ [][Next]_vars

-----------------------------------------------------------------------------
\* The abstract promise: results arrive in candidate order, once each, and the
\* flow returns only when all have arrived.
Status == IF pc \in {"returned", "raised"} THEN pc ELSE "running"
Promise == INSTANCE OrderedDelivery WITH status <- Status
DeliversInOrder == Promise!Spec

TypeOK ==
    /\ pc \in {"submit", "wait", "flush", "returned", "raised"}
    /\ start \in Nat
    /\ finished \subseteq 1 .. N
    /\ lost \subseteq finished
    /\ ok \subseteq finished
    /\ buffer \in Seq(1 .. N)
    /\ delivered \in Seq(1 .. N)
    /\ succeeded \in Nat

\* Work paid for and not yet written is less than a batch and a wave together:
\* that is what a crash loses at most, and how long the buffer gets, whatever
\* the two sizes are relative to one another.
LossBounded ==
    \A i \in finished : i < Len(delivered) + BatchSize + Parallelism

\* A commit is short only when it is the last: no wave, however small, costs an
\* Iceberg commit of its own.
OnlyTheTailIsShort ==
    [][Len(delivered') - Len(delivered) \in {0, BatchSize}
         \/ (start >= N /\ Len(delivered') = N)]_vars

\* The count the flow logs as written is the number of results it wrote a row
\* for, over all of its batches.
ReportedIsWritten == pc = "returned" => succeeded = Cardinality(ok)
=============================================================================
