------------------------ MODULE BatchedPersistProofs ------------------------
(***************************************************************************)
(* BatchedPersist implements OrderedDelivery, and its loss is bounded, for *)
(* every number of candidates, wave size and batch size.                   *)
(***************************************************************************)
EXTENDS BatchedPersist, SequenceTheorems, FiniteSetTheorems, TLAPS

\* How many results have been collected from finished waves.
Collected == IF pc = "flush" THEN WaveEnd ELSE LowerOf(start, N)

\* `delivered` and `buffer` together are the results 1, 2, ... Collected.
InOrder ==
    /\ Len(delivered) <= N
    /\ \A i \in 1 .. Len(delivered) : delivered[i] = i
    /\ pc # "raised" =>
          /\ \A j \in 1 .. Len(buffer) : buffer[j] = Len(delivered) + j
          /\ Len(delivered) + Len(buffer) = Collected

\* The buffer shrinks below a batch before the next wave goes out.
BufferBounded ==
    /\ pc \in {"submit", "wait"} => Len(buffer) < BatchSize
    /\ pc = "flush" => Len(buffer) < BatchSize + Parallelism
    /\ pc \in {"wait", "flush"} => start < N
    /\ pc = "returned" => Len(buffer) = 0

\* No task has ended that has not been submitted.
FinishedWithinWaves ==
    /\ pc \in {"submit", "returned"} => finished \subseteq 1 .. LowerOf(start, N)
    /\ pc \in {"wait", "flush"} => finished \subseteq 1 .. WaveEnd
    /\ pc = "raised" => LossBounded

Inv == TypeOK /\ InOrder /\ BufferBounded /\ FinishedWithinWaves

-----------------------------------------------------------------------------
LEMMA WaveBounds ==
    ASSUME TypeOK, start < N
    PROVE  /\ WaveEnd \in Nat
           /\ start < WaveEnd /\ WaveEnd <= N /\ WaveEnd <= start + Parallelism
           /\ LowerOf(start + Parallelism, N) = WaveEnd
           /\ LowerOf(start, N) = start
BY SizesAssumption DEF TypeOK, WaveEnd, LowerOf

\* Handing over the first n buffered results keeps the order.
LEMMA ChunkInOrder ==
    ASSUME Inv, pc # "raised", NEW n \in 1 .. Len(buffer)
    PROVE  LET chunk == SubSeq(buffer, 1, n)
               rest == SubSeq(buffer, n + 1, Len(buffer))
           IN  /\ delivered \o chunk \in Seq(1 .. N)
               /\ Len(delivered \o chunk) = Len(delivered) + n
               /\ Len(delivered) + n <= N
               /\ \A i \in 1 .. Len(delivered) + n : (delivered \o chunk)[i] = i
               /\ rest \in Seq(1 .. N)
               /\ Len(rest) = Len(buffer) - n
               /\ \A j \in 1 .. Len(rest) : rest[j] = Len(delivered) + n + j
<1>. DEFINE chunk == SubSeq(buffer, 1, n)
            rest == SubSeq(buffer, n + 1, Len(buffer))
<1>1. /\ buffer \in Seq(1 .. N) /\ delivered \in Seq(1 .. N)
      /\ Len(buffer) \in Nat /\ Len(delivered) \in Nat
      /\ N \in Nat /\ n \in Nat /\ 1 <= n /\ n <= Len(buffer)
  BY SizesAssumption DEF Inv, TypeOK
<1>2. /\ \A i \in 1 .. Len(delivered) : delivered[i] = i
      /\ \A j \in 1 .. Len(buffer) : buffer[j] = Len(delivered) + j
      /\ Len(delivered) + Len(buffer) = Collected
  BY DEF Inv, InOrder
<1>3. Collected <= N
  BY <1>1, SizesAssumption DEF Collected, WaveEnd, LowerOf, Inv, TypeOK
<1>4. /\ chunk \in Seq(1 .. N) /\ Len(chunk) = n
      /\ \A j \in 1 .. n : chunk[j] = buffer[j]
  BY <1>1, SubSeqProperties
<1>5. /\ rest \in Seq(1 .. N) /\ Len(rest) = Len(buffer) - n
      /\ \A j \in 1 .. Len(buffer) - n : rest[j] = buffer[n + j]
  BY <1>1, SubSeqProperties
<1>. HIDE DEF chunk, rest
<1>6. /\ delivered \o chunk \in Seq(1 .. N)
      /\ Len(delivered \o chunk) = Len(delivered) + n
      /\ \A i \in 1 .. Len(delivered) + n :
            (delivered \o chunk)[i] = IF i <= Len(delivered) THEN delivered[i]
                                      ELSE chunk[i - Len(delivered)]
  BY <1>1, <1>4, ConcatProperties
<1>7. ASSUME NEW i \in 1 .. Len(delivered) + n
      PROVE  (delivered \o chunk)[i] = i
  <2>. i \in Nat /\ 1 <= i /\ i <= Len(delivered) + n
    BY <1>1
  <2>1. CASE i <= Len(delivered)
    BY <1>1, <1>2, <1>6, <2>1
  <2>2. CASE i > Len(delivered)
    <3>1. i - Len(delivered) \in 1 .. n /\ i - Len(delivered) \in 1 .. Len(buffer)
      BY <1>1, <2>2
    <3>2. chunk[i - Len(delivered)] = Len(delivered) + (i - Len(delivered))
      BY <1>2, <1>4, <3>1
    <3>. QED
      BY <1>1, <1>6, <2>2, <3>2
  <2>3. i <= Len(delivered) \/ i > Len(delivered)
    BY <1>1
  <2>. QED
    BY <2>1, <2>2, <2>3
<1>8. ASSUME NEW j \in 1 .. Len(buffer) - n
      PROVE  rest[j] = Len(delivered) + n + j
  <2>1. n + j \in 1 .. Len(buffer)
    BY <1>1
  <2>2. rest[j] = buffer[n + j]
    BY <1>5
  <2>. QED
    BY <1>1, <1>2, <2>1, <2>2
<1>9. Len(delivered) + n <= N
  BY <1>1, <1>2, <1>3 DEF Collected, WaveEnd, LowerOf, Inv, TypeOK
<1>. QED
  BY <1>5, <1>6, <1>7, <1>8, <1>9 DEF chunk, rest

LEMMA WrittenIsNatural ==
    ASSUME TypeOK, NEW n \in 1 .. Len(buffer)
    PROVE  Written(SubSeq(buffer, 1, n)) \in Nat
<1>. DEFINE chunk == SubSeq(buffer, 1, n)
<1>1. chunk \in Seq(1 .. N)
  <2>1. /\ buffer \in Seq(1 .. N) /\ Len(buffer) \in Nat /\ n \in Nat
        /\ \A i \in 1 .. n : i \in 1 .. Len(buffer)
    BY DEF TypeOK
  <2>2. \A i \in 1 .. n : buffer[i] \in 1 .. N
    BY <2>1, ElementOfSeq
  <2>. QED
    BY <2>1, <2>2, SubSeqProperties
<1>2. IsFiniteSet(DOMAIN chunk)
  BY <1>1, FS_Interval
<1>3. IsFiniteSet({i \in DOMAIN chunk : chunk[i] \in ok})
  BY <1>2, FS_Subset
<1>. QED
  BY <1>3, FS_CardinalityType DEF Written

\* The wave's results continue the buffer.
LEMMA WaveResultsInOrder ==
    ASSUME Inv, pc = "wait"
    PROVE  LET all == buffer \o WaveResults
           IN  /\ all \in Seq(1 .. N)
               /\ Len(delivered) + Len(all) = WaveEnd
               /\ \A j \in 1 .. Len(all) : all[j] = Len(delivered) + j
<1>1. /\ start \in Nat /\ start < N /\ N \in Nat /\ Parallelism \in Nat \ {0}
      /\ buffer \in Seq(1 .. N) /\ Len(buffer) \in Nat
      /\ Len(delivered) \in Nat
  BY SizesAssumption DEF Inv, TypeOK, BufferBounded
<1>2. /\ WaveEnd \in Nat /\ start < WaveEnd /\ WaveEnd <= N
      /\ LowerOf(start, N) = start
  BY <1>1, WaveBounds DEF Inv
<1>3. /\ Len(delivered) + Len(buffer) = start
      /\ \A j \in 1 .. Len(buffer) : buffer[j] = Len(delivered) + j
  BY <1>2 DEF Inv, InOrder, Collected
<1>4. PICK k \in Nat : /\ WaveEnd = start + k
                       /\ WaveResults = [j \in 1 .. k |-> start + j]
  <2>1. WaveEnd - start \in Nat /\ WaveEnd = start + (WaveEnd - start)
    BY <1>1, <1>2
  <2>. QED
    BY <2>1 DEF WaveResults
<1>5. \A j \in 1 .. k : start + j \in 1 .. N
  BY <1>1, <1>2, <1>4
<1>6. /\ WaveResults \in Seq(1 .. N) /\ Len(WaveResults) = k
      /\ \A j \in 1 .. k : WaveResults[j] = start + j
  BY <1>4, <1>5
<1>7. /\ buffer \o WaveResults \in Seq(1 .. N)
      /\ Len(buffer \o WaveResults) = Len(buffer) + k
      /\ \A j \in 1 .. Len(buffer) + k :
            (buffer \o WaveResults)[j] = IF j <= Len(buffer) THEN buffer[j]
                                         ELSE WaveResults[j - Len(buffer)]
  BY <1>1, <1>6, ConcatProperties
<1>8. ASSUME NEW j \in 1 .. Len(buffer) + k
      PROVE  (buffer \o WaveResults)[j] = Len(delivered) + j
  <2>. j \in Nat /\ 1 <= j /\ j <= Len(buffer) + k
    BY <1>1, <1>4
  <2>1. CASE j <= Len(buffer)
    BY <1>1, <1>3, <1>7, <2>1
  <2>2. CASE j > Len(buffer)
    <3>1. j - Len(buffer) \in 1 .. k
      BY <1>1, <1>4, <2>2
    <3>2. WaveResults[j - Len(buffer)] = start + (j - Len(buffer))
      BY <1>6, <3>1
    <3>3. (buffer \o WaveResults)[j] = WaveResults[j - Len(buffer)]
      BY <1>1, <1>7, <2>2
    <3>4. start + (j - Len(buffer)) = Len(delivered) + j
      BY <1>1, <1>3
    <3>. QED
      BY <3>2, <3>3, <3>4
  <2>3. j <= Len(buffer) \/ j > Len(buffer)
    BY <1>1
  <2>. QED
    BY <2>1, <2>2, <2>3
<1>9. Len(delivered) + (Len(buffer) + k) = WaveEnd
  <2>1. Len(delivered) + Len(buffer) = start
    BY <1>3
  <2>2. WaveEnd = start + k
    BY <1>4
  <2>3. Len(delivered) \in Nat /\ Len(buffer) \in Nat /\ k \in Nat
    BY <1>1
  <2>. QED
    BY <2>1, <2>2, <2>3
<1>. QED
  BY <1>7, <1>8, <1>9

-----------------------------------------------------------------------------
LEMMA InitInv == Init => Inv
BY SizesAssumption
   DEF Init, Inv, TypeOK, InOrder, Collected, LowerOf, BufferBounded,
       FinishedWithinWaves

LEMMA SubmitWaveInv == ASSUME Inv, SubmitWave PROVE Inv'
<1>1. TypeOK'
  BY DEF Inv, TypeOK, SubmitWave
<1>2. InOrder'
  BY DEF Inv, InOrder, SubmitWave, Collected
<1>3. BufferBounded'
  BY DEF Inv, BufferBounded, SubmitWave
<1>4. FinishedWithinWaves'
  <2>1. LowerOf(start, N) <= WaveEnd /\ LowerOf(start, N) \in Nat /\ WaveEnd \in Nat
    BY SizesAssumption DEF Inv, TypeOK, LowerOf, WaveEnd
  <2>2. finished \subseteq 1 .. LowerOf(start, N)
    BY DEF Inv, FinishedWithinWaves, SubmitWave
  <2>3. finished \subseteq 1 .. WaveEnd
    BY <2>1, <2>2
  <2>. QED
    BY <2>3 DEF FinishedWithinWaves, SubmitWave, WaveEnd
<1>. QED
  BY <1>1, <1>2, <1>3, <1>4 DEF Inv

LEMMA FinishInv == ASSUME Inv, NEW i \in 1 .. N, Finish(i) PROVE Inv'
<1>1. TypeOK'
  BY DEF Inv, TypeOK, Finish
<1>2. InOrder'
  BY DEF Inv, InOrder, Finish, Collected, WaveEnd
<1>3. BufferBounded'
  BY DEF Inv, BufferBounded, Finish
<1>4. FinishedWithinWaves'
  <2>1. i \in 1 .. WaveEnd
    BY SizesAssumption DEF Finish, Wave, WaveEnd, LowerOf, Inv, TypeOK
  <2>2. finished \subseteq 1 .. WaveEnd /\ WaveEnd' = WaveEnd /\ pc = "wait"
    BY DEF Inv, FinishedWithinWaves, Finish, WaveEnd
  <2>. QED
    BY <2>1, <2>2 DEF FinishedWithinWaves, Finish
<1>. QED
  BY <1>1, <1>2, <1>3, <1>4 DEF Inv

\* What has been collected and not delivered bounds what a failure loses.
LEMMA CollectInv == ASSUME Inv, Collect PROVE Inv'
<1>0. /\ pc = "wait" /\ start < N /\ Len(buffer) < BatchSize
      /\ finished \subseteq 1 .. WaveEnd
  BY DEF Collect, Inv, BufferBounded, FinishedWithinWaves
<1>1. /\ start \in Nat /\ N \in Nat /\ Parallelism \in Nat /\ BatchSize \in Nat
      /\ Len(delivered) \in Nat /\ Len(buffer) \in Nat /\ WaveEnd \in Nat
      /\ WaveEnd <= start + Parallelism /\ LowerOf(start, N) = start
  BY <1>0, WaveBounds, SizesAssumption DEF Inv, TypeOK
<1>2. Len(delivered) + Len(buffer) = start
  BY <1>0, <1>1 DEF Inv, InOrder, Collected
<1>3. CASE Wave \cap lost = {}
  <2>. DEFINE all == buffer \o WaveResults
  <2>1. /\ all \in Seq(1 .. N)
        /\ Len(delivered) + Len(all) = WaveEnd
        /\ \A j \in 1 .. Len(all) : all[j] = Len(delivered) + j
    BY <1>0, WaveResultsInOrder
  <2>2. pc' = "flush" /\ buffer' = all /\ WaveEnd' = WaveEnd
    BY <1>3 DEF Collect, WaveEnd
  <2>3. Len(all) \in Nat
    BY <2>1
  <2>. HIDE DEF all
  <2>4. TypeOK'
    BY <2>1, <2>2 DEF Collect, Inv, TypeOK
  <2>5. InOrder'
    BY <2>1, <2>2 DEF Collect, Inv, InOrder, Collected
  <2>6. BufferBounded'
    BY <1>0, <1>1, <1>2, <2>1, <2>2, <2>3 DEF Collect, BufferBounded
  <2>7. FinishedWithinWaves'
    BY <1>0, <2>2 DEF Collect, FinishedWithinWaves
  <2>. QED
    BY <2>4, <2>5, <2>6, <2>7 DEF Inv
<1>4. CASE Wave \cap lost # {}
  <2>1. pc' = "raised" /\ buffer' = buffer
    BY <1>4 DEF Collect
  <2>2. TypeOK'
    BY <2>1 DEF Collect, Inv, TypeOK
  <2>3. InOrder' /\ BufferBounded'
    BY <2>1 DEF Collect, Inv, InOrder, BufferBounded
  <2>4. LossBounded
    <3>. SUFFICES ASSUME NEW i \in finished
                  PROVE  i < Len(delivered) + BatchSize + Parallelism
      BY DEF LossBounded
    <3>1. i \in Nat /\ i <= WaveEnd
      BY <1>0, <1>1
    <3>. QED
      BY <1>0, <1>1, <1>2, <3>1
  <2>5. FinishedWithinWaves'
    BY <2>1, <2>4 DEF Collect, FinishedWithinWaves, LossBounded
  <2>. QED
    BY <2>2, <2>3, <2>5 DEF Inv
<1>. QED
  BY <1>3, <1>4

\* A chunk that persists moves from the front of the buffer to `delivered`.
LEMMA PersistInv ==
    ASSUME Inv, pc \in {"submit", "flush"}, NEW n \in 1 .. Len(buffer),
           Persist(n), UNCHANGED <<start, finished, lost, ok>>,
           pc = "submit" => start >= N
    PROVE  Inv'
<1>. DEFINE chunk == SubSeq(buffer, 1, n)
            rest == SubSeq(buffer, n + 1, Len(buffer))
<1>1. /\ delivered' = delivered \o chunk /\ buffer' = rest /\ pc' = pc
      /\ succeeded' = succeeded + Written(chunk)
  BY DEF Persist
<1>2. /\ delivered \o chunk \in Seq(1 .. N)
      /\ Len(delivered \o chunk) = Len(delivered) + n
      /\ Len(delivered) + n <= N
      /\ \A i \in 1 .. Len(delivered) + n : (delivered \o chunk)[i] = i
      /\ rest \in Seq(1 .. N)
      /\ Len(rest) = Len(buffer) - n
      /\ \A j \in 1 .. Len(rest) : rest[j] = Len(delivered) + n + j
  BY ChunkInOrder
<1>3. /\ Len(delivered) \in Nat /\ Len(buffer) \in Nat /\ BatchSize \in Nat
      /\ Parallelism \in Nat
  BY SizesAssumption DEF Inv, TypeOK
<1>4. Written(chunk) \in Nat
  BY WrittenIsNatural DEF Inv
<1>. HIDE DEF chunk, rest
<1>5. TypeOK'
  BY <1>1, <1>2, <1>4 DEF Inv, TypeOK
<1>6. InOrder'
  <2>1. Collected' = Collected
    BY <1>1 DEF Collected, WaveEnd
  <2>2. Len(delivered) + Len(buffer) = Collected
    BY DEF Inv, InOrder
  <2>3. Len(delivered') + Len(buffer') = Collected'
    BY <1>1, <1>2, <1>3, <2>1, <2>2
  <2>. QED
    BY <1>1, <1>2, <2>3 DEF InOrder
<1>7. BufferBounded'
  BY <1>1, <1>2, <1>3 DEF Inv, BufferBounded
<1>8. FinishedWithinWaves'
  BY <1>1 DEF Inv, FinishedWithinWaves, WaveEnd
<1>. QED
  BY <1>5, <1>6, <1>7, <1>8 DEF Inv

\* Everything that has finished lies within a batch and a wave of `delivered`.
LEMMA InvLossBounded == Inv => LossBounded
<1>. SUFFICES ASSUME Inv, NEW i \in finished
              PROVE  i < Len(delivered) + BatchSize + Parallelism
  BY DEF LossBounded
<1>1. /\ start \in Nat /\ N \in Nat /\ Parallelism \in Nat \ {0}
      /\ BatchSize \in Nat \ {0} /\ Len(delivered) \in Nat
      /\ Len(buffer) \in Nat /\ i \in Nat
  BY SizesAssumption DEF Inv, TypeOK
<1>2. CASE pc = "raised"
  BY <1>2 DEF Inv, FinishedWithinWaves, LossBounded
<1>3. CASE pc \in {"submit", "returned"}
  <2>1. i <= LowerOf(start, N) /\ Len(delivered) + Len(buffer) = LowerOf(start, N)
    BY <1>1, <1>3 DEF Inv, FinishedWithinWaves, InOrder, Collected, LowerOf
  <2>2. CASE pc = "submit"
    BY <1>1, <2>1, <2>2 DEF Inv, BufferBounded, LowerOf
  <2>3. CASE pc = "returned"
    BY <1>1, <2>1, <2>3 DEF Inv, BufferBounded, LowerOf
  <2>. QED
    BY <1>3, <2>2, <2>3
<1>4. CASE pc \in {"wait", "flush"}
  <2>1. start < N
    BY <1>4 DEF Inv, BufferBounded
  <2>2. /\ WaveEnd \in Nat /\ WaveEnd <= start + Parallelism
        /\ LowerOf(start, N) = start /\ i <= WaveEnd
    BY <1>1, <1>4, <2>1, WaveBounds DEF Inv, FinishedWithinWaves
  <2>3. CASE pc = "wait"
    BY <1>1, <2>2, <2>3 DEF Inv, InOrder, Collected, BufferBounded
  <2>4. CASE pc = "flush"
    BY <1>1, <2>2, <2>4 DEF Inv, InOrder, Collected, BufferBounded
  <2>. QED
    BY <1>4, <2>3, <2>4
<1>. QED
  BY <1>2, <1>3, <1>4 DEF Inv, TypeOK

LEMMA PersistRaisesInv ==
    ASSUME Inv, pc # "raised", NEW n \in 1 .. Len(buffer),
           PersistRaises(n), UNCHANGED <<start, finished, lost, ok>>
    PROVE  Inv'
<1>. DEFINE chunk == SubSeq(buffer, 1, n)
<1>1. /\ delivered' \in {delivered, delivered \o chunk} /\ buffer' = buffer
      /\ pc' = "raised" /\ succeeded' = succeeded
  BY DEF PersistRaises
<1>2. /\ delivered \o chunk \in Seq(1 .. N)
      /\ Len(delivered \o chunk) = Len(delivered) + n
      /\ Len(delivered) + n <= N
      /\ \A i \in 1 .. Len(delivered) + n : (delivered \o chunk)[i] = i
  BY ChunkInOrder
<1>. HIDE DEF chunk
<1>3. TypeOK'
  BY <1>1, <1>2 DEF Inv, TypeOK
<1>4. InOrder'
  BY <1>1, <1>2 DEF Inv, InOrder
<1>5. BufferBounded'
  BY <1>1 DEF BufferBounded
<1>6. FinishedWithinWaves'
  <2>1. Len(delivered') >= Len(delivered) /\ Len(delivered') \in Nat
    BY <1>1, <1>2 DEF Inv, TypeOK
  <2>2. \A i \in finished : i < Len(delivered') + BatchSize + Parallelism
    <3>. TAKE i \in finished
    <3>1. i < Len(delivered) + BatchSize + Parallelism /\ i \in Nat
      BY InvLossBounded DEF LossBounded, Inv, TypeOK
    <3>. QED
      BY <2>1, <3>1, SizesAssumption DEF Inv, TypeOK
  <2>. QED
    BY <1>1, <2>2 DEF FinishedWithinWaves, LossBounded
<1>. QED
  BY <1>3, <1>4, <1>5, <1>6 DEF Inv

LEMMA FlushChunkInv == ASSUME Inv, FlushChunk PROVE Inv'
<1>1. BatchSize \in 1 .. Len(buffer) /\ pc = "flush"
  BY SizesAssumption DEF FlushChunk, Inv, TypeOK
<1>2. CASE Persist(BatchSize)
  BY <1>1, <1>2, PersistInv DEF FlushChunk
<1>3. CASE PersistRaises(BatchSize)
  BY <1>1, <1>3, PersistRaisesInv DEF FlushChunk
<1>. QED
  BY <1>2, <1>3 DEF FlushChunk

LEMMA FlushTailInv == ASSUME Inv, FlushTail PROVE Inv'
<1>1. Len(buffer) \in 1 .. Len(buffer) /\ pc = "submit" /\ start >= N
  BY EmptySeq, SeqEqual DEF FlushTail, Inv, TypeOK
<1>2. CASE Persist(Len(buffer))
  BY <1>1, <1>2, PersistInv DEF FlushTail
<1>3. CASE PersistRaises(Len(buffer))
  BY <1>1, <1>3, PersistRaisesInv DEF FlushTail
<1>. QED
  BY <1>2, <1>3 DEF FlushTail

LEMMA FlushOverInv == ASSUME Inv, FlushOver PROVE Inv'
<1>0. pc = "flush" /\ start < N /\ Len(buffer) < BatchSize
  BY DEF FlushOver, Inv, BufferBounded
<1>1. TypeOK'
  BY SizesAssumption DEF Inv, TypeOK, FlushOver
<1>2. LowerOf(start', N) = WaveEnd
  BY <1>0, WaveBounds DEF FlushOver, Inv
<1>3. InOrder'
  BY <1>0, <1>2 DEF FlushOver, Inv, InOrder, Collected
<1>4. BufferBounded'
  BY <1>0 DEF FlushOver, Inv, BufferBounded
<1>5. FinishedWithinWaves'
  BY <1>0, <1>2 DEF FlushOver, Inv, FinishedWithinWaves
<1>. QED
  BY <1>1, <1>3, <1>4, <1>5 DEF Inv

LEMMA ReturnInv == ASSUME Inv, Return PROVE Inv'
<1>1. TypeOK'
  BY DEF Inv, TypeOK, Return
<1>2. InOrder'
  BY DEF Inv, InOrder, Return, Collected
<1>3. BufferBounded' /\ FinishedWithinWaves'
  BY DEF Inv, BufferBounded, FinishedWithinWaves, Return
<1>. QED
  BY <1>1, <1>2, <1>3 DEF Inv

\* Inv is inductive.
LEMMA NextInv == Inv /\ [Next]_vars => Inv'
<1>. SUFFICES ASSUME Inv, [Next]_vars PROVE Inv'
  OBVIOUS
<1>1. CASE Next
  BY <1>1, SubmitWaveInv, FinishInv, CollectInv, FlushChunkInv, FlushOverInv,
     FlushTailInv, ReturnInv DEF Next
<1>2. CASE UNCHANGED vars
  BY <1>2 DEF vars, Inv, TypeOK, InOrder, Collected, WaveEnd, BufferBounded,
              FinishedWithinWaves, LossBounded
<1>. QED
  BY <1>1, <1>2

\* No failure loses more than a batch and a wave of results
\* (run_with_batched_persist's two knobs), whatever their sizes.
THEOREM LossIsBounded == Spec => []LossBounded
BY InitInv, NextInv, InvLossBounded, PTL DEF Spec

-----------------------------------------------------------------------------
\* What one persist_batch of n results does to the number delivered.
LEMMA DeliveredGrowsBy ==
    ASSUME Inv, pc # "raised", NEW n \in 1 .. Len(buffer),
           Persist(n) \/ PersistRaises(n)
    PROVE  /\ Len(delivered') \in {Len(delivered), Len(delivered) + n}
           /\ Len(delivered') - Len(delivered) \in {0, n}
<1>1. Len(delivered \o SubSeq(buffer, 1, n)) = Len(delivered) + n
  BY ChunkInOrder
<1>2. delivered' \in {delivered, delivered \o SubSeq(buffer, 1, n)}
  BY DEF Persist, PersistRaises
<1>3. Len(delivered) \in Nat /\ n \in Nat
  BY DEF Inv, TypeOK
<1>. QED
  BY <1>1, <1>2, <1>3

LEMMA StepCommitsFullBatch ==
    ASSUME Inv, [Next]_vars
    PROVE  \/ Len(delivered') - Len(delivered) \in {0, BatchSize}
           \/ start >= N /\ Len(delivered') = N
<1>0. Len(delivered) \in Nat
  BY DEF Inv, TypeOK
<1>1. CASE FlushChunk
  <2>1. BatchSize \in 1 .. Len(buffer) /\ pc # "raised"
    BY <1>1, SizesAssumption DEF FlushChunk, Inv, TypeOK
  <2>. QED
    BY <1>1, <2>1, DeliveredGrowsBy DEF FlushChunk
<1>2. CASE FlushTail
  <2>1. Len(buffer) \in 1 .. Len(buffer) /\ pc = "submit" /\ start >= N
    BY <1>2, EmptySeq, SeqEqual DEF FlushTail, Inv, TypeOK
  <2>2. Len(delivered') \in {Len(delivered), Len(delivered) + Len(buffer)}
    BY <1>2, <2>1, DeliveredGrowsBy DEF FlushTail
  <2>3. Len(delivered) + Len(buffer) = N
    BY <2>1, SizesAssumption DEF Inv, InOrder, Collected, LowerOf, TypeOK
  <2>. QED
    BY <1>0, <2>1, <2>2, <2>3
<1>3. CASE UNCHANGED delivered
  BY <1>0, <1>3
<1>. QED
  BY <1>1, <1>2, <1>3
     DEF Next, SubmitWave, Finish, Collect, FlushOver, Return, vars

\* No commit but the last is short of a batch, whatever the size of a wave.
THEOREM CommitsAreFull == Spec => OnlyTheTailIsShort
BY InitInv, NextInv, StepCommitsFullBatch, PTL DEF Spec, OnlyTheTailIsShort

-----------------------------------------------------------------------------
\* A sequence that counts 1, 2, ... is the abstract prefix of its length.
LEMMA CountingIsPrefix ==
    ASSUME NEW s \in Seq(1 .. N), \A i \in 1 .. Len(s) : s[i] = i
    PROVE  s = Promise!Prefix(Len(s))
<1>1. s \in [1 .. Len(s) -> 1 .. N] /\ Len(s) \in Nat
  BY LenProperties
<1>. QED
  BY <1>1 DEF Promise!Prefix

\* Delivering a chunk is the abstract Deliver, raising is the abstract Raise.
LEMMA ChunkRefines ==
    ASSUME Inv, pc \notin {"raised", "returned"}, NEW n \in 1 .. Len(buffer),
           \/ Persist(n)
           \/ PersistRaises(n)
    PROVE  Promise!Next
<1>. DEFINE after == delivered \o SubSeq(buffer, 1, n)
<1>1. /\ after \in Seq(1 .. N)
      /\ Len(after) = Len(delivered) + n
      /\ Len(delivered) + n <= N
      /\ \A i \in 1 .. Len(after) : after[i] = i
  BY ChunkInOrder
<1>2. after = Promise!Prefix(Len(delivered) + n)
  BY <1>1, CountingIsPrefix
<1>3. delivered = Promise!Prefix(Len(delivered))
  BY CountingIsPrefix DEF Inv, InOrder, TypeOK
<1>4. /\ Len(delivered) \in Nat /\ n \in Nat /\ N \in Nat /\ n >= 1
      /\ Len(delivered) <= N
  BY SizesAssumption DEF Inv, TypeOK, InOrder
<1>5. Status = "running"
  BY DEF Status
<1>6. CASE Persist(n)
  <2>1. delivered' = after /\ Status' = "running"
    BY <1>6 DEF Persist, Status
  <2>2. Len(delivered) + n \in Len(delivered) + 1 .. N
    BY <1>1, <1>4
  <2>. QED
    BY <1>2, <1>5, <2>1, <2>2 DEF Promise!Next, Promise!Deliver
<1>7. CASE PersistRaises(n)
  <2>1. delivered' \in {delivered, after} /\ Status' = "raised"
    BY <1>7 DEF PersistRaises, Status
  <2>2. /\ Len(delivered) + n \in Len(delivered) .. N
        /\ Len(delivered) \in Len(delivered) .. N
    BY <1>1, <1>4
  <2>. QED
    BY <1>2, <1>3, <1>5, <2>1, <2>2 DEF Promise!Next, Promise!Raise
<1>. QED
  BY <1>6, <1>7

LEMMA StepRefines ==
    Inv /\ [Next]_vars => [Promise!Next]_<<delivered, Status>>
<1>. SUFFICES ASSUME Inv, [Next]_vars
              PROVE  Promise!Next \/ UNCHANGED <<delivered, Status>>
  OBVIOUS
<1>1. CASE SubmitWave \/ FlushOver \/ \E i \in 1 .. N : Finish(i)
  BY <1>1 DEF SubmitWave, FlushOver, Finish, Status
<1>2. CASE Collect
  <2>1. delivered' = delivered /\ Status = "running"
    BY <1>2 DEF Collect, Status
  <2>2. CASE pc' = "raised"
    <3>1. delivered = Promise!Prefix(Len(delivered)) /\ Status' = "raised"
      BY <2>2, CountingIsPrefix DEF Inv, InOrder, TypeOK, Status
    <3>2. Len(delivered) \in Len(delivered) .. N
      BY SizesAssumption DEF Inv, InOrder, TypeOK
    <3>. QED
      BY <2>1, <3>1, <3>2 DEF Promise!Next, Promise!Raise
  <2>3. CASE pc' # "raised"
    BY <1>2, <2>1, <2>3 DEF Collect, Status
  <2>. QED
    BY <2>2, <2>3
<1>3. CASE FlushChunk
  <2>1. BatchSize \in 1 .. Len(buffer) /\ pc \notin {"raised", "returned"}
    BY <1>3, SizesAssumption DEF FlushChunk, Inv, TypeOK
  <2>. QED
    BY <1>3, <2>1, ChunkRefines DEF FlushChunk
<1>4. CASE FlushTail
  <2>1. Len(buffer) \in 1 .. Len(buffer) /\ pc \notin {"raised", "returned"}
    BY <1>4, EmptySeq, SeqEqual DEF FlushTail, Inv, TypeOK
  <2>. QED
    BY <1>4, <2>1, ChunkRefines DEF FlushTail
<1>5. CASE Return
  <2>1. Len(delivered) = N
    BY <1>5, SizesAssumption
       DEF Return, Inv, TypeOK, InOrder, Collected, LowerOf
  <2>2. delivered = Promise!Prefix(N)
    BY <2>1, CountingIsPrefix DEF Inv, InOrder, TypeOK
  <2>3. Status = "running" /\ Status' = "returned" /\ delivered' = delivered
    BY <1>5 DEF Return, Status
  <2>. QED
    BY <2>2, <2>3 DEF Promise!Next, Promise!Return
<1>6. CASE UNCHANGED vars
  BY <1>6 DEF vars, Status
<1>. QED
  BY <1>1, <1>2, <1>3, <1>4, <1>5, <1>6 DEF Next

\* Whatever the wave and batch sizes, the results reach the tables in candidate
\* order, none twice and none skipped, and the flow returns only when all have.
THEOREM ImplementsPromise == Spec => DeliversInOrder
<1>1. Init => Promise!Init
  BY DEF Init, Promise!Init, Status
<1>2. Spec => [][Promise!Next]_<<delivered, Status>>
  BY InitInv, NextInv, StepRefines, PTL DEF Spec
<1>. QED
  BY <1>1, <1>2, PTL DEF Spec, DeliversInOrder, Promise!Spec

-----------------------------------------------------------------------------
\* What was reported so far is the number of results with a row among those
\* delivered; the loop is over when the flow returns.
CountInv ==
    /\ Inv
    /\ pc # "raised" => succeeded = Cardinality(ok \cap (1 .. Len(delivered)))
    /\ pc = "returned" => start >= N

\* A chunk of consecutive candidates reports as many rows as it has results with
\* one.
LEMMA WrittenCounts ==
    ASSUME NEW L \in Nat, NEW n \in Nat, NEW chunk \in Seq(1 .. N), Len(chunk) = n,
           \A j \in 1 .. n : chunk[j] = L + j
    PROVE  /\ IsFiniteSet(ok \cap (1 .. L)) /\ IsFiniteSet(ok \cap (1 .. L + n))
           /\ Cardinality(ok \cap (1 .. L + n))
                  = Cardinality(ok \cap (1 .. L)) + Written(chunk)
<1>. DEFINE before == ok \cap (1 .. L)
            new == ok \cap (L + 1 .. L + n)
            places == {j \in DOMAIN chunk : chunk[j] \in ok}
            place == [x \in new |-> x - L]
<1>1. IsFiniteSet(before)
  <2>1. IsFiniteSet(1 .. L)
    BY FS_Interval
  <2>. QED
    BY <2>1, FS_Subset
<1>2. IsFiniteSet(new)
  <2>1. IsFiniteSet(L + 1 .. L + n)
    BY FS_Interval
  <2>. QED
    BY <2>1, FS_Subset
<1>3. places = {j \in 1 .. n : L + j \in ok}
  OBVIOUS
<1>4. place \in Bijection(new, places)
  <2>1. \A x \in new : x - L \in places
    <3>. TAKE x \in new
    <3>1. x \in L + 1 .. L + n /\ x \in ok
      OBVIOUS
    <3>2. x - L \in 1 .. n /\ L + (x - L) = x
      BY <3>1
    <3>. QED
      BY <1>3, <3>1, <3>2
  <2>2. \A j \in places : L + j \in new /\ (L + j) - L = j
    <3>. TAKE j \in places
    <3>1. j \in 1 .. n /\ L + j \in ok
      BY <1>3
    <3>. QED
      BY <3>1
  <2>3. \A x, y \in new : x - L = y - L => x = y
    OBVIOUS
  <2>. HIDE DEF new, places
  <2>. QED
    BY <2>1, <2>2, <2>3 DEF Bijection, Injection, Surjection, IsInjective
<1>5. Cardinality(new) = Written(chunk)
  <2>. HIDE DEF place, new
  <2>1. Cardinality(places) = Cardinality(new)
    <3>. HIDE DEF places
    <3>1. ExistsBijection(new, places)
      BY <1>4 DEF ExistsBijection
    <3>. QED
      BY <1>2, <3>1, FS_Bijection
  <2>. QED
    BY <2>1 DEF Written
<1>6. ok \cap (1 .. L + n) = before \cup new /\ before \cap new = {}
  OBVIOUS
<1>. HIDE DEF before, new, places, place
<1>7. /\ IsFiniteSet(before \cup new)
      /\ Cardinality(before \cup new) = Cardinality(before) + Cardinality(new) - Cardinality({})
  BY <1>1, <1>2, <1>6, FS_Union
<1>8. /\ Cardinality({}) = 0
      /\ Cardinality(before) \in Nat /\ Cardinality(new) \in Nat
  BY <1>1, <1>2, FS_EmptySet, FS_CardinalityType
<1>9. Cardinality(ok \cap (1 .. L + n)) = Cardinality(before) + Written(chunk)
  <2>1. Cardinality(before \cup new) = Cardinality(before) + Cardinality(new)
    BY <1>7, <1>8
  <2>2. Cardinality(ok \cap (1 .. L + n)) = Cardinality(before \cup new)
    BY <1>6, Zenon
  <2>. QED
    BY <1>5, <2>1, <2>2
<1>. QED
  BY <1>1, <1>6, <1>7, <1>9 DEF before

LEMMA PersistCounts ==
    ASSUME CountInv, pc # "raised", NEW n \in 1 .. Len(buffer), Persist(n), ok' = ok
    PROVE  succeeded' = Cardinality(ok' \cap (1 .. Len(delivered')))
<1>. DEFINE chunk == SubSeq(buffer, 1, n)
<1>0. /\ buffer \in Seq(1 .. N) /\ delivered \in Seq(1 .. N)
      /\ Len(delivered) \in Nat /\ Len(buffer) \in Nat /\ n \in Nat
      /\ 1 <= n /\ n <= Len(buffer)
      /\ \A j \in 1 .. Len(buffer) : buffer[j] = Len(delivered) + j
  BY DEF CountInv, Inv, TypeOK, InOrder
<1>1. chunk \in Seq(1 .. N) /\ Len(chunk) = n /\ \A j \in 1 .. n : chunk[j] = buffer[j]
  <2>1. 1 \in Int /\ n \in Int /\ n - 1 + 1 = n /\ \A j \in 1 .. n : 1 + j - 1 = j
    BY <1>0
  <2>2. ASSUME NEW j \in 1 .. n PROVE buffer[j] \in 1 .. N
    <3>1. j \in 1 .. Len(buffer)
      BY <1>0
    <3>. QED
      BY <1>0, <3>1, ElementOfSeq
  <2>3. /\ chunk \in Seq(1 .. N)
        /\ Len(chunk) = IF 1 <= n THEN n - 1 + 1 ELSE 0
        /\ \A j \in 1 .. n - 1 + 1 : chunk[j] = buffer[1 + j - 1]
    BY <2>1, <2>2, SubSeqProperties
  <2>. HIDE DEF chunk
  <2>. QED
    BY <1>0, <2>1, <2>3
<1>2. \A j \in 1 .. n : chunk[j] = Len(delivered) + j
  BY <1>0, <1>1
<1>3. Len(delivered \o chunk) = Len(delivered) + n
  BY <1>0, <1>1, ConcatProperties
<1>4. succeeded' = succeeded + Written(chunk) /\ delivered' = delivered \o chunk
  BY DEF Persist
<1>. HIDE DEF chunk
<1>5. Cardinality(ok \cap (1 .. Len(delivered) + n))
          = Cardinality(ok \cap (1 .. Len(delivered))) + Written(chunk)
  BY <1>0, <1>1, <1>2, WrittenCounts
<1>. QED
  BY <1>3, <1>4, <1>5 DEF CountInv

LEMMA StepCounts ==
    ASSUME CountInv, [Next]_vars, Inv' PROVE CountInv'
<1>0. TypeOK /\ N \in Nat
  BY SizesAssumption DEF CountInv, Inv
<1>1. CASE \E i \in 1 .. N : Finish(i)
  <2>1. PICK i \in 1 .. N : Finish(i)
    BY <1>1
  <2>2. /\ pc = "wait" /\ i \in Wave /\ start < N
        /\ Len(delivered) + Len(buffer) = LowerOf(start, N)
    BY <2>1 DEF Finish, CountInv, Inv, InOrder, BufferBounded, Collected
  <2>3. i > Len(delivered)
    BY <1>0, <2>2, WaveBounds DEF Wave, TypeOK
  <2>4. ok' \cap (1 .. Len(delivered)) = ok \cap (1 .. Len(delivered))
    BY <1>0, <2>1, <2>3 DEF Finish, TypeOK
  <2>. QED
    BY <2>1, <2>2, <2>4 DEF Finish, CountInv
<1>2. CASE FlushChunk
  <2>1. BatchSize \in 1 .. Len(buffer)
    BY <1>0, <1>2, SizesAssumption DEF FlushChunk, TypeOK
  <2>. QED
    BY <1>2, <2>1, PersistCounts DEF FlushChunk, Persist, PersistRaises, CountInv
<1>3. CASE FlushTail
  <2>1. Len(buffer) \in 1 .. Len(buffer)
    BY <1>0, <1>3, EmptySeq DEF FlushTail, TypeOK
  <2>. QED
    BY <1>3, <2>1, PersistCounts DEF FlushTail, Persist, PersistRaises, CountInv
<1>4. CASE SubmitWave \/ Collect \/ FlushOver \/ Return \/ UNCHANGED vars
  BY <1>4 DEF SubmitWave, Collect, FlushOver, Return, vars, CountInv
<1>. QED
  BY <1>1, <1>2, <1>3, <1>4 DEF Next

\* The number of written results the driver returns is the number of results that
\* have a row, for all sizes.
THEOREM CountIsTrue == Spec => []ReportedIsWritten
<1>1. Init => CountInv
  <2>. SUFFICES ASSUME Init PROVE CountInv
    OBVIOUS
  <2>1. ok \cap (1 .. Len(delivered)) = {}
    BY DEF Init
  <2>. QED
    BY <2>1, InitInv, FS_EmptySet DEF Init, CountInv
<1>2. CountInv /\ [Next]_vars => CountInv'
  <2>1. CountInv /\ [Next]_vars => Inv'
    BY NextInv DEF CountInv
  <2>. QED
    BY <2>1, StepCounts
<1>3. CountInv => ReportedIsWritten
  <2>. SUFFICES ASSUME CountInv, pc = "returned" PROVE succeeded = Cardinality(ok)
    BY DEF ReportedIsWritten
  <2>1. Len(delivered) + Len(buffer) = LowerOf(start, N) /\ Len(buffer) = 0
    BY DEF CountInv, Inv, InOrder, BufferBounded, Collected
  <2>2. Len(delivered) = N
    BY <2>1, SizesAssumption DEF CountInv, Inv, TypeOK, LowerOf
  <2>3. ok \cap (1 .. N) = ok
    BY DEF CountInv, Inv, TypeOK
  <2>. QED
    BY <2>2, <2>3 DEF CountInv
<1>. QED
  BY <1>1, <1>2, <1>3, PTL DEF Spec
=============================================================================
