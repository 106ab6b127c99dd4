------------------------------ MODULE JobProofs ------------------------------
(***************************************************************************)
(* The safety properties of module Job, proved for every value of its      *)
(* constants.  JobInv is the inductive strengthening they share: it says   *)
(* where in the pipeline (queue, thread, processor, written results) each  *)
(* submitted payload is.                                                   *)
(***************************************************************************)
EXTENDS Job, SequenceTheorems, TLAPS

\* Number of payloads taken from the queue: the one being acknowledged is not
\* counted in acks yet.
Taken == IF thread = "continue" THEN acks + 1 ELSE acks

\* The queue holds the payloads submitted and not taken, in order, and the
\* thread's payload is the one taken last.
Pipeline ==
    /\ Taken <= submitted
    /\ Len(inputData) = submitted - Taken
    /\ \A i \in 1..Len(inputData) : inputData[i] = Taken + i
    /\ thread \in {"continue", "notify", "va", "vaAsleep"} => data = Taken /\ data # Empty

FlagAgrees == isJobEmpty <=> inputData = <<>>

\* The thread goes on from its first wait only for a payload or the stop.
Called == thread = "read" => isStopJobSignaled \/ inputData # <<>>

\* Without a result in m_isVARecived, the awaited payload is with the processor.
Awaited ==
    thread \in {"va", "vaAsleep"} /\ ~isVARecived => data \in processor

\* Alone, the job has exactly one of: payload outstanding, result unseen, neither.
Alone ==
    Undisturbed =>
        /\ thread \notin {"va", "vaAsleep"} => processor = {} /\ ~isVARecived
        /\ processor \subseteq {data}
        /\ processor # {} => ~isVARecived

\* Results written so far come from payloads before the one in hand.
Written ==
    Undisturbed =>
        /\ \A i, j \in 1..Len(written) : i < j => written[i] < written[j]
        /\ \A i \in 1..Len(written) : written[i] <= acks
        /\ thread = "notify" \/ processor # {} =>
              \A i \in 1..Len(written) : written[i] < acks

\* Whatever else is published, a payload's first result comes after its
\* acknowledgement and there is only one: it is unanswered as long as it is in hand
\* or with the processor.
Answerable(k) == \A i \in 1..Len(written) : written[i] # k

Once ==
    /\ \A d \in processor : d <= acks /\ Answerable(d)
    /\ thread = "notify" => data \notin processor /\ Answerable(data)
    /\ \A i \in 1..Len(written) : written[i] \in 1..acks \union {Foreign}
    /\ \A i, j \in 1..Len(written) : i # j /\ written[i] # Foreign => written[i] # written[j]

JobInv ==
    /\ JobTypeOK
    /\ Pipeline
    /\ FlagAgrees
    /\ Called
    /\ NoLostWakeup
    /\ DrainedAtExit
    /\ Awaited
    /\ Alone
    /\ Written
    /\ Once

-----------------------------------------------------------------------------
(***************************************************************************)
(* Facts about the two sequence operations of the module.                  *)
(***************************************************************************)

\* Append adds one element at the end and keeps the others.
LEMMA AppendFacts ==
    ASSUME NEW S, NEW s \in Seq(S), NEW e \in S
    PROVE  /\ Append(s, e) \in Seq(S)
           /\ Append(s, e) # <<>>
           /\ Len(Append(s, e)) = Len(s) + 1
           /\ \A i \in 1..Len(s) : Append(s, e)[i] = s[i]
           /\ Append(s, e)[Len(s) + 1] = e
OBVIOUS

\* Tail drops the first element and shifts the others.
LEMMA TailFacts ==
    ASSUME NEW S, NEW s \in Seq(S), s # <<>>
    PROVE  /\ Head(s) \in S /\ Head(s) = s[1]
           /\ Tail(s) \in Seq(S)
           /\ Len(s) > 0
           /\ Len(Tail(s)) = Len(s) - 1
           /\ \A i \in 1..Len(Tail(s)) : Tail(s)[i] = s[i + 1]
           /\ Tail(s) = <<>> <=> Len(s) = 1
<1>1. Len(s) \in Nat /\ Len(s) > 0
  BY EmptySeq, LenProperties
<1>2. Tail(s) \in Seq(S) /\ Len(Tail(s)) = Len(s) - 1
  BY HeadTailProperties
<1>3. \A i \in 1..Len(Tail(s)) : Tail(s)[i] = s[i + 1]
  BY HeadTailProperties
<1>4. Tail(s) = <<>> <=> Len(s) = 1
  BY <1>1, <1>2, EmptySeq
<1>5. Head(s) = s[1] /\ Head(s) \in S
  BY <1>1, ElementOfSeq, HeadTailProperties
<1> QED
  BY <1>1, <1>2, <1>3, <1>4, <1>5

-----------------------------------------------------------------------------
(***************************************************************************)
(* JobInv holds initially and every step preserves it.                     *)
(***************************************************************************)

\* The job starts with an empty queue and no thread.
LEMMA JobInitInv == JobInit => JobInv
<1> SUFFICES ASSUME JobInit PROVE JobInv
  OBVIOUS
<1> USE JobAssumption DEF JobInit
<1>1. JobTypeOK
  <2>1. inputData \in Seq(Data) /\ written \in Seq(Payload)
    BY EmptySeq
  <2>2. submitted \in 0..MaxData /\ foreign \in 0..MaxForeign /\ acks \in Nat
    OBVIOUS
  <2>3. data \in 0..MaxData /\ thread \in ControlPoint
    BY DEF ControlPoint, Empty
  <2>4. isJobEmpty \in BOOLEAN /\ isStopJobSignaled \in BOOLEAN /\ isVARecived \in BOOLEAN
    OBVIOUS
  <2> QED
    BY <2>1, <2>2, <2>3, <2>4 DEF JobTypeOK
<1>2. Pipeline /\ FlagAgrees /\ Called /\ Awaited
  BY EmptySeq DEF Pipeline, Taken, FlagAgrees, Called, Awaited
<1>3. NoLostWakeup /\ DrainedAtExit
  BY DEF NoLostWakeup, DrainedAtExit
<1>4. Alone /\ Written /\ Once
  BY EmptySeq DEF Alone, Written, Once, Answerable
<1> QED
  BY <1>1, <1>2, <1>3, <1>4 DEF JobInv

\* A step that moves no payload and neither sets nor clears a flag.
LEMMA ControlSteps ==
    ASSUME JobInv,
           Construct \/ Subscribe \/ Loop \/ Wait \/ NotifyEndOfJob
             \/ EndOfJobThrows \/ SpuriousWakeup
    PROVE  JobInv'
<1> USE JobAssumption DEF JobInv, Construct, Subscribe, Loop, Wait,
      NotifyEndOfJob, EndOfJobThrows, SpuriousWakeup, Goto, queueVars, outsideVars
<1>1. JobTypeOK'
  BY DEF JobTypeOK, ControlPoint
<1>2. Pipeline'
  BY DEF Pipeline, Taken
<1>3. FlagAgrees' /\ Called' /\ Awaited' /\ NoLostWakeup'
  BY DEF FlagAgrees, Called, Awaited, NoLostWakeup
<1>4. DrainedAtExit'
  BY EmptySeq DEF DrainedAtExit, FlagAgrees, Pipeline, Taken, JobTypeOK
<1>5. Alone'
  BY DEF Alone, NoLostWakeup
<1>6. Written'
  BY DEF Written, Alone
<1>7. Once'
  BY DEF Once, Answerable
<1> QED
  BY <1>1, <1>2, <1>3, <1>4, <1>5, <1>6, <1>7

\* process() queues the payload after those already there.
LEMMA ProcessStep ==
    ASSUME JobInv, submitted < MaxData, ~isStopJobSignaled, process(submitted + 1)
    PROVE  JobInv'
<1> USE JobAssumption DEF JobInv, process, NotifyJob, outsideVars
<1>1. inputData \in Seq(Data) /\ submitted + 1 \in Data
  BY DEF JobTypeOK, Data
<1>2. JobTypeOK'
  <2>1. inputData' \in Seq(Data)
    BY <1>1, AppendFacts
  <2>2. submitted' \in 0..MaxData
    BY DEF JobTypeOK
  <2>3. thread' \in ControlPoint
    BY DEF JobTypeOK, ControlPoint
  <2> QED
    BY <2>1, <2>2, <2>3 DEF JobTypeOK
<1>3. Len(inputData) \in Nat
  BY <1>1, LenProperties
<1>4. Pipeline'
  <2>1. /\ Len(inputData') = Len(inputData) + 1
        /\ \A i \in 1..Len(inputData) : inputData'[i] = inputData[i]
        /\ inputData'[Len(inputData) + 1] = submitted + 1
    BY <1>1, AppendFacts
  <2>2. Taken' = Taken /\ Taken \in Nat /\ submitted \in Nat
    BY DEF Taken, JobTypeOK
  <2>3. submitted = Taken + Len(inputData) /\ Taken <= submitted
    BY <1>3, <2>2 DEF Pipeline
  <2>4. \A i \in 1..Len(inputData') : inputData'[i] = Taken + i
    BY <1>3, <2>1, <2>2, <2>3 DEF Pipeline
  <2>5. Taken' <= submitted' /\ Len(inputData') = submitted' - Taken'
    BY <1>3, <2>1, <2>2, <2>3
  <2>6. thread' \in {"continue", "notify", "va", "vaAsleep"} => data' = Taken' /\ data' # Empty
    BY <2>2 DEF Pipeline
  <2> QED
    BY <2>2, <2>4, <2>5, <2>6 DEF Pipeline
<1>5. FlagAgrees' /\ Called'
  BY <1>1, AppendFacts DEF FlagAgrees, Called
<1>6. Awaited' /\ NoLostWakeup' /\ DrainedAtExit'
  BY DEF Awaited, NoLostWakeup, DrainedAtExit
<1>7. Alone' /\ Written' /\ Once'
  BY DEF Alone, Written, Once, Answerable
<1> QED
  BY <1>2, <1>4, <1>5, <1>6, <1>7

\* stopJob() sets the stop flag and wakes the thread.
LEMMA StopStep ==
    ASSUME JobInv, stopJob
    PROVE  JobInv'
<1> USE JobAssumption DEF JobInv, stopJob, NotifyJob, outsideVars
<1>1. JobTypeOK'
  BY DEF JobTypeOK, ControlPoint
<1>2. Pipeline' /\ FlagAgrees' /\ Called' /\ Awaited'
  BY DEF Pipeline, Taken, FlagAgrees, Called, Awaited
<1>3. NoLostWakeup' /\ DrainedAtExit'
  BY DEF NoLostWakeup, DrainedAtExit
<1>4. Alone' /\ Written' /\ Once'
  BY DEF Alone, Written, Once, Answerable
<1> QED
  BY <1>1, <1>2, <1>3, <1>4

\* readData() takes the payload after the ones taken before.
LEMMA ReadStep ==
    ASSUME JobInv, readData
    PROVE  JobInv'
<1> USE JobAssumption DEF JobInv, readData, Goto, outsideVars
<1>1. inputData \in Seq(Data)
  BY DEF JobTypeOK
<1>2. CASE inputData = <<>>
  <2>1. JobTypeOK'
    BY <1>2 DEF JobTypeOK, ControlPoint
  <2>2. Pipeline' /\ FlagAgrees' /\ Called'
    BY <1>2 DEF Pipeline, Taken, FlagAgrees, Called
  <2>3. Awaited' /\ NoLostWakeup' /\ DrainedAtExit'
    BY <1>2 DEF Awaited, NoLostWakeup, DrainedAtExit
  <2>4. Alone' /\ Written' /\ Once'
    BY <1>2 DEF Alone, Written, Once, Answerable
  <2> QED
    BY <2>1, <2>2, <2>3, <2>4
<1>3. CASE inputData # <<>>
  <2> USE <1>3
  <2>1. /\ Head(inputData) \in Data /\ Head(inputData) = inputData[1]
        /\ inputData' \in Seq(Data)
        /\ Len(inputData) > 0
        /\ Len(inputData') = Len(inputData) - 1
        /\ \A i \in 1..Len(inputData') : inputData'[i] = inputData[i + 1]
    BY <1>1, TailFacts
  <2>2. Len(inputData) \in Nat
    BY <1>1, LenProperties
  <2>3. thread' = "continue" /\ data' = inputData[1]
    BY <2>1
  <2>4. JobTypeOK'
    BY <2>1, <2>3 DEF JobTypeOK, ControlPoint, Data
  <2>5. Pipeline'
    <3>1. Taken' = Taken + 1 /\ Taken \in Nat /\ submitted \in Nat
      BY <2>3 DEF Taken, JobTypeOK
    <3>2. submitted = Taken + Len(inputData)
      BY <2>2, <3>1 DEF Pipeline
    <3>3. Taken' <= submitted' /\ Len(inputData') = submitted' - Taken'
      BY <2>1, <2>2, <3>1, <3>2
    <3>4. \A i \in 1..Len(inputData') : inputData'[i] = Taken' + i
      BY <2>1, <2>2, <3>1 DEF Pipeline
    <3>5. data' = Taken' /\ data' # Empty
      BY <2>1, <2>2, <2>3, <3>1 DEF Pipeline, Empty
    <3> QED
      BY <3>3, <3>4, <3>5 DEF Pipeline
  <2>6. FlagAgrees' /\ Called' /\ Awaited' /\ NoLostWakeup' /\ DrainedAtExit'
    BY <2>3 DEF FlagAgrees, Called, Awaited, NoLostWakeup, DrainedAtExit
  <2>7. Alone' /\ Written' /\ Once'
    BY <2>3 DEF Alone, Written, Once, Answerable
  <2> QED
    BY <2>4, <2>5, <2>6, <2>7
<1> QED
  BY <1>2, <1>3

\* The Continue for the payload in hand.
LEMMA AcknowledgeStep ==
    ASSUME JobInv, Acknowledge
    PROVE  JobInv'
<1> USE JobAssumption DEF JobInv, Acknowledge, Goto, queueVars
<1>1. JobTypeOK'
  BY DEF JobTypeOK, ControlPoint
<1>2. Pipeline' /\ FlagAgrees' /\ Called'
  BY DEF Pipeline, Taken, FlagAgrees, Called, JobTypeOK
<1>3. Awaited' /\ NoLostWakeup' /\ DrainedAtExit'
  BY DEF Awaited, NoLostWakeup, DrainedAtExit
<1>4. Alone'
  BY DEF Alone
<1>5. Written'
  <2>1. \A i \in 1..Len(written) : written[i] \in Nat
    BY ElementOfSeq DEF JobTypeOK, Payload
  <2> QED
    BY <2>1 DEF Written, JobTypeOK, Alone
<1>6. Once'
  <2>1. acks \in Nat /\ data = acks + 1 /\ Foreign \in Nat
    BY DEF Pipeline, Taken, JobTypeOK, Foreign
  <2>2. acks + 1 # Foreign
    BY DEF Pipeline, Taken, JobTypeOK, Foreign
  <2>3. Answerable(data)
    BY <2>1, <2>2 DEF Once, Answerable
  <2>4. data \notin processor
    BY <2>1 DEF Once
  <2>5. \A d \in processor : d <= acks + 1
    BY <2>1 DEF Once, JobTypeOK, Data
  <2>6. \A i \in 1..Len(written) : written[i] \in 1..(acks + 1) \union {Foreign}
    BY <2>1 DEF Once
  <2> QED
    BY <2>3, <2>4, <2>5, <2>6 DEF Once, Answerable
<1> QED
  BY <1>1, <1>2, <1>3, <1>4, <1>5, <1>6

\* The payload goes to the processor.
LEMMA NotifyStep ==
    ASSUME JobInv, NotifyInputData
    PROVE  JobInv'
<1> USE JobAssumption DEF JobInv, NotifyInputData, Goto, queueVars
<1>0. data \in Data
  BY DEF Pipeline, Taken, JobTypeOK, Data, Empty
<1>1. JobTypeOK'
  BY <1>0 DEF JobTypeOK, ControlPoint
<1>2. Pipeline' /\ FlagAgrees' /\ Called'
  BY DEF Pipeline, Taken, FlagAgrees, Called
<1>3. Awaited' /\ NoLostWakeup' /\ DrainedAtExit'
  BY DEF Awaited, NoLostWakeup, DrainedAtExit
<1>4. Alone' /\ Written'
  BY DEF Alone, Written
<1>5. Once'
  BY <1>0 DEF Once, Answerable, Pipeline, Taken, JobTypeOK, Data
<1> QED
  BY <1>1, <1>2, <1>3, <1>4, <1>5

\* A subscriber throws, before or after it took the payload.
LEMMA ThrowStep ==
    ASSUME JobInv, NotifyThrows
    PROVE  JobInv'
<1> USE JobAssumption DEF JobInv, NotifyThrows, Goto, queueVars
<1>0. data \in Data
  BY DEF Pipeline, Taken, JobTypeOK, Data, Empty
<1>1. JobTypeOK'
  BY <1>0 DEF JobTypeOK, ControlPoint
<1>2. Pipeline' /\ FlagAgrees' /\ Called'
  BY DEF Pipeline, Taken, FlagAgrees, Called
<1>3. Awaited' /\ NoLostWakeup' /\ DrainedAtExit'
  BY DEF Awaited, NoLostWakeup, DrainedAtExit
<1>4. Alone' /\ Written'
  BY DEF Alone, Written, Undisturbed
<1>5. Once'
  <2>1. data = acks /\ acks \in Nat
    BY DEF Pipeline, Taken, JobTypeOK
  <2>2. Answerable(data)
    BY DEF Once
  <2>3. \A d \in processor' : d <= acks /\ Answerable(d)
    BY <2>1, <2>2 DEF Once
  <2> QED
    BY <2>3 DEF Once, Answerable
<1> QED
  BY <1>1, <1>2, <1>3, <1>4, <1>5

\* The wait for the result.
LEMMA AwaitStep ==
    ASSUME JobInv, AwaitResult
    PROVE  JobInv'
<1> USE JobAssumption DEF JobInv, AwaitResult, Goto, queueVars, outsideVars
<1>1. JobTypeOK'
  BY DEF JobTypeOK, ControlPoint
<1>2. Pipeline' /\ FlagAgrees' /\ Called'
  BY DEF Pipeline, Taken, FlagAgrees, Called
<1>3. Awaited' /\ NoLostWakeup' /\ DrainedAtExit'
  BY DEF Awaited, NoLostWakeup, DrainedAtExit, JobTypeOK
<1>4. Alone' /\ Written' /\ Once'
  BY DEF Alone, Written, JobTypeOK, Once, Answerable
<1> QED
  BY <1>1, <1>2, <1>3, <1>4

\* A result reaches the callback: its own payload's, or another connection's.
LEMMA ResultSteps ==
    ASSUME JobInv, ProcessorStep
    PROVE  JobInv'
<1> USE JobAssumption DEF JobInv
<1>1. ASSUME NEW d \in processor, NEW r \in {d, Empty}, OwnResult(d, r)
      PROVE  JobInv'
  <2> USE <1>1 DEF OwnResult, ResultCallback, Subscribed, queueVars
  <2>1. d \in Data /\ r \in Payload /\ written \in Seq(Payload)
    BY DEF JobTypeOK, Data, Payload, Empty
  <2>2. /\ written' \in Seq(Payload)
        /\ r = Empty => written' = written
        /\ r = d => /\ Len(written') = Len(written) + 1
                    /\ \A i \in 1..Len(written) : written'[i] = written[i]
                    /\ written'[Len(written) + 1] = d
    BY <2>1, AppendFacts DEF Empty, Data
  <2>3. JobTypeOK'
    BY <2>2 DEF JobTypeOK, ControlPoint
  <2>4. Pipeline' /\ FlagAgrees' /\ Called'
    BY DEF Pipeline, Taken, FlagAgrees, Called
  <2>5. Awaited' /\ NoLostWakeup' /\ DrainedAtExit'
    BY DEF Awaited, NoLostWakeup, DrainedAtExit
  <2>6. Alone'
    BY DEF Alone
  <2>7. Written'
    <3> SUFFICES ASSUME Undisturbed PROVE Written'
      BY DEF Written
    <3>1. d = acks /\ processor' = {} /\ thread' # "notify"
      BY DEF Alone, Pipeline, Taken
    <3>2. CASE r = Empty
      BY <2>2, <3>1, <3>2 DEF Written
    <3>3. CASE r = d
      <4>1. Len(written) \in Nat /\ \A i \in 1..Len(written) : written[i] < d
        BY <2>1, <3>1, LenProperties DEF Written
      <4>2. \A i, j \in 1..Len(written') : i < j => written'[i] < written'[j]
        BY <2>2, <3>3, <4>1 DEF Written
      <4>3. \A i \in 1..Len(written') : written'[i] <= acks
        BY <2>2, <3>1, <3>3, <4>1 DEF Written, JobTypeOK
      <4> QED
        BY <3>1, <4>2, <4>3 DEF Written
    <3> QED
      BY <3>2, <3>3
  <2>8. Once'
    <3>1. CASE r = Empty
      BY <2>2, <3>1 DEF Once, Answerable
    <3>2. CASE r = d
      <4>1. Len(written) \in Nat /\ d \in 1..acks /\ Answerable(d)
        BY <2>1, LenProperties DEF Once, Data, JobTypeOK
      <4>2. \A i \in 1..Len(written') : written'[i] = IF i = Len(written) + 1 THEN d ELSE written[i]
        BY <2>2, <3>2, <4>1
      <4>3. \A i \in 1..Len(written') : i # Len(written) + 1 => i \in 1..Len(written)
        BY <2>2, <3>2, <4>1
      <4>4. \A e \in processor' : e <= acks /\ Answerable(e)'
        BY <4>2, <4>3 DEF Once, Answerable
      <4>5. thread' = "notify" => data \notin processor' /\ Answerable(data)'
        BY <4>2, <4>3 DEF Once, Answerable
      <4>6. \A i \in 1..Len(written') : written'[i] \in 1..acks \union {Foreign}
        BY <4>1, <4>2, <4>3 DEF Once
      <4>7. \A i, j \in 1..Len(written') : i # j /\ written'[i] # Foreign => written'[i] # written'[j]
        BY <4>1, <4>2, <4>3 DEF Once, Answerable
      <4> QED
        BY <4>4, <4>5, <4>6, <4>7 DEF Once
    <3> QED
      BY <3>1, <3>2
  <2> QED
    BY <2>3, <2>4, <2>5, <2>6, <2>7, <2>8
<1>2. ASSUME NEW r \in {Foreign, Empty}, ForeignResult(r)
      PROVE  JobInv'
  <2> USE <1>2 DEF ForeignResult, ResultCallback, Subscribed, queueVars
  <2>1. r \in Payload /\ written \in Seq(Payload)
    BY DEF JobTypeOK, Foreign, Payload, Empty
  <2>2. written' \in Seq(Payload)
    BY <2>1, AppendFacts
  <2>3. JobTypeOK'
    BY <2>2 DEF JobTypeOK, ControlPoint
  <2>4. Pipeline' /\ FlagAgrees' /\ Called'
    BY DEF Pipeline, Taken, FlagAgrees, Called
  <2>5. Awaited' /\ NoLostWakeup' /\ DrainedAtExit'
    BY DEF Awaited, NoLostWakeup, DrainedAtExit
  <2>6. ~Undisturbed
    BY DEF JobTypeOK, Undisturbed
  <2>7. Alone' /\ Written'
    BY <2>6 DEF Alone, Written
  <2>8. Once'
    <3>1. CASE r = Empty
      BY <3>1 DEF Once, Answerable
    <3>2. CASE r = Foreign
      <4>1. /\ Len(written) \in Nat /\ Foreign \notin Data
            /\ Len(written') = Len(written) + 1
            /\ \A i \in 1..Len(written) : written'[i] = written[i]
            /\ written'[Len(written) + 1] = Foreign
        BY <2>1, <3>2, AppendFacts, LenProperties DEF Foreign, Data, Empty
      <4>2. \A i \in 1..Len(written') :
               \/ written'[i] = Foreign
               \/ i \in 1..Len(written) /\ written'[i] = written[i]
        BY <4>1
      <4>3. \A d \in processor : d # Foreign
        BY <4>1 DEF JobTypeOK
      <4>4. thread' = "notify" => thread = "notify" /\ data # Foreign
        BY <4>1 DEF Pipeline, Taken, JobTypeOK, Foreign
      <4>5. \A d \in processor' : d <= acks' /\ Answerable(d)'
        <5> SUFFICES ASSUME NEW d \in processor PROVE d <= acks /\ Answerable(d)'
          OBVIOUS
        <5>1. d # Foreign /\ d <= acks /\ Answerable(d)
          BY <4>3 DEF Once
        <5>2. \A i \in 1..Len(written') : written'[i] # d
          BY <4>2, <5>1 DEF Answerable
        <5> QED
          BY <5>1, <5>2 DEF Answerable
      <4>6. thread' = "notify" => data' \notin processor' /\ Answerable(data)'
        BY <4>2, <4>4 DEF Once, Answerable
      <4>7. \A i \in 1..Len(written') : written'[i] \in 1..acks \union {Foreign}
        BY <4>2 DEF Once
      <4>8. \A i, j \in 1..Len(written') : i # j /\ written'[i] # Foreign => written'[i] # written'[j]
        <5> SUFFICES ASSUME NEW i \in 1..Len(written'), NEW j \in 1..Len(written'),
                            i # j, written'[i] # Foreign
                     PROVE  written'[i] # written'[j]
          OBVIOUS
        <5>1. i \in 1..Len(written) /\ written'[i] = written[i]
          BY <4>2
        <5>2. CASE written'[j] = Foreign
          BY <5>2
        <5>3. CASE j \in 1..Len(written) /\ written'[j] = written[j]
          BY <5>1, <5>3 DEF Once
        <5> QED
          BY <4>2, <5>2, <5>3
      <4> QED
        BY <4>5, <4>6, <4>7, <4>8 DEF Once
    <3> QED
      BY <3>1, <3>2
  <2> QED
    BY <2>3, <2>4, <2>5, <2>7, <2>8
<1> QED
  BY <1>1, <1>2 DEF ProcessorStep

\* Every step of the job preserves the invariant.
LEMMA JobStepInv == JobInv /\ [JobNext]_jobVars => JobInv'
<1> SUFFICES ASSUME JobInv, [JobNext]_jobVars PROVE JobInv'
  OBVIOUS
<1>1. CASE UNCHANGED jobVars
  BY <1>1 DEF jobVars, JobInv, JobTypeOK, Pipeline, Taken, FlagAgrees, Called, NoLostWakeup,
              DrainedAtExit, Awaited, Alone, Written, Once, Answerable
<1>2. CASE CallerStep
  BY <1>2, ProcessStep, StopStep DEF CallerStep
<1>3. CASE ProcessorStep
  BY <1>3, ResultSteps
<1>4. CASE ProcessingStep
  BY <1>4, ControlSteps, ReadStep, AcknowledgeStep, NotifyStep, ThrowStep, AwaitStep
     DEF ProcessingStep
<1>5. CASE Construct \/ EndOfJobThrows \/ SpuriousWakeup
  BY <1>5, ControlSteps
<1> QED
  BY <1>1, <1>2, <1>3, <1>4, <1>5 DEF JobNext

-----------------------------------------------------------------------------
(***************************************************************************)
(* The theorems.                                                           *)
(***************************************************************************)

\* The invariant holds in every reachable state.
THEOREM JobInvariant == JobSpec => []JobInv
  BY JobInitInv, JobStepInv, PTL DEF JobSpec

\* Every member of Job keeps its type, whatever the number of payloads and of
\* foreign results.
THEOREM JobTypes == JobSpec => []JobTypeOK
<1>1. JobInv => JobTypeOK
  BY DEF JobInv
<1> QED
  BY <1>1, JobInvariant, PTL

\* Job::Processing never sleeps through a payload, a stop or its own result.
THEOREM JobNoLostWakeup == JobSpec => []NoLostWakeup
<1>1. JobInv => NoLostWakeup
  BY DEF JobInv
<1> QED
  BY <1>1, JobInvariant, PTL

\* Job::Processing leaves its loop, on the unlocked condition, only when every
\* submitted payload has been read and acknowledged.
THEOREM JobDrained == JobSpec => []DrainedAtExit
<1>1. JobInv => DrainedAtExit
  BY DEF JobInv
<1> QED
  BY <1>1, JobInvariant, PTL

\* Alone on the observables, a job has at most one payload with the processor.
THEOREM JobOneInFlight == JobSpec => []OneInFlight
<1>1. JobInv => OneInFlight
  BY DEF JobInv, Alone, OneInFlight
<1> QED
  BY <1>1, JobInvariant, PTL

\* Alone on the observables, a job writes its results in submission order, and
\* none before the Continue of its payload.
THEOREM JobResultsInOrder == JobSpec => []ResultsInOrder
<1>1. JobInv => ResultsInOrder
  BY LenProperties DEF JobInv, JobTypeOK, Written, ResultsInOrder
<1> QED
  BY <1>1, JobInvariant, PTL

=============================================================================
