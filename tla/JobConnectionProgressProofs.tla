--------------------- MODULE JobConnectionProgressProofs ---------------------
(***************************************************************************)
(* Why the threads of a connection get on with their work, proved for      *)
(* every value of the constants of module JobConnection: they never all    *)
(* wait while something is owed to the peer, and each step they take       *)
(* leaves fewer to take.                                                   *)
(***************************************************************************)
EXTENDS JobConnectionProofs, FiniteSetTheorems

(***************************************************************************)
(* No deadlock.                                                            *)
(***************************************************************************)

\* A job whose thread is blocked has nothing in its queue, and everything that was
\* submitted is acknowledged.
LEMMA RestingJob ==
    ASSUME ConnInv, Live, Resting
    PROVE  /\ thread \in {"none", "asleep", "done"}
           /\ isStopJobSignaled => thread = "done"
           /\ acks = submitted
<1>1. thread \in {"none", "asleep", "done"}
  BY DEF Resting, ConnInv, JobInv, NoLostWakeup
<1>2. isStopJobSignaled => thread = "done"
  BY <1>1 DEF ConnInv, Started, JobInv, NoLostWakeup
<1>3. acks \in Nat /\ submitted \in Nat
  BY DEF ConnInv, TypeOK, JobTypeOK
<1>4. CASE thread = "done"
  BY <1>1, <1>2, <1>4 DEF ConnInv, JobInv, DrainedAtExit
<1>5. CASE thread = "asleep"
  <2>1. Len(inputData) = 0
    BY <1>5 DEF ConnInv, JobInv, NoLostWakeup
  <2>2. Len(inputData) = submitted - acks
    BY <1>5 DEF ConnInv, JobInv, Pipeline, Taken
  <2> QED
    BY <1>1, <1>2, <1>3, <1>5, <2>1, <2>2
<1>6. CASE thread = "none"
  <2>1. submitted <= accepted /\ accepted = 0
    BY <1>6 DEF ConnInv, Early, Feed
  <2>2. acks <= submitted
    BY <1>6 DEF ConnInv, JobInv, Pipeline, Taken
  <2> QED
    BY <1>1, <1>2, <1>3, <1>6, <2>1, <2>2
<1> QED
  BY <1>1, <1>2, <1>4, <1>5, <1>6

\* No thread of an open connection waits for the join or for a mutex, so that its io
\* thread is idle too.
LEMMA RestingThreads ==
    ASSUME ConnInv, Live, Resting
    PROVE  /\ input \in {"asleep", "done"} /\ output \in {"asleep", "done"}
           /\ io = "idle"
<1>1. input # "none" /\ output # "none"
  BY DEF Live, ConnInv, Started
<1>2. ~OutputLocked
  BY DEF Resting, OutputLocked
<1>3. input # "join"
  BY <1>2, RestingJob DEF Resting, Joinable, ConnInv, Control
<1> QED
  BY <1>1, <1>2, <1>3 DEF Resting, InputLocked

\* An input thread that waits for a message has handled every message.
LEMMA RestingInput ==
    ASSUME ConnInv, Live, input = "asleep"
    PROVE  submitted = accepted /\ endAt = NoEnd
<1>1. inputMessages = <<>> /\ Len(inputMessages) = 0
  BY DEF ConnInv, NoMissedMessage
<1>2. submitted = accepted
  <2>1. submitted \in Nat /\ accepted \in Nat /\ accepted <= MaxData /\ MaxData \in Nat
    BY Counters
  <2>2. submitted <= accepted
    BY DEF ConnInv, Feed
  <2>3. ~(submitted < accepted)
    <3>1. SUFFICES ASSUME submitted < accepted PROVE FALSE
      OBVIOUS
    <3>2. accepted \in Data
      BY <2>1, <3>1 DEF Data
    <3>3. \E i \in 1..Len(inputMessages) : inputMessages[i].payload = accepted
      BY <2>1, <3>1, <3>2 DEF ConnInv, Feed
    <3> QED
      BY <1>1, <3>3
  <2> QED
    BY <2>1, <2>2, <2>3
<1>3. endAt = NoEnd
  <2>1. ~isStopJobSignaled /\ fault # "null_job"
    BY DEF Live, ConnInv, Control
  <2> QED
    BY <1>1, <2>1 DEF ConnInv, Ends
<1> QED
  BY <1>2, <1>3

\* The four threads never wait for each other: when all are blocked, no message is
\* being handled, every Data up to the peer's End is acknowledged, and a result or
\* End is only kept back for want of a Continue.
THEOREM ConnRestingOwesNothing == Spec => []RestingOwesNothing
<1>1. ConnInv => RestingOwesNothing
  <2> SUFFICES ASSUME ConnInv, Live, Resting
               PROVE  /\ io = "idle"
                      /\ acks = IF endAt = NoEnd THEN accepted ELSE endAt
                      /\ isContinueMessageRecived /\ endsSent = 0 =>
                            outputMessages = <<>> /\ endAt = NoEnd
    BY DEF RestingOwesNothing
  <2>1. /\ input \in {"asleep", "done"} /\ output \in {"asleep", "done"}
        /\ io = "idle"
    BY RestingThreads
  <2>2. acks = submitted
    BY RestingJob
  <2>3. output = "done" => endsSent = 1
    BY DEF ConnInv, Control
  <2>4. CASE input = "asleep"
    <3>1. submitted = accepted /\ endAt = NoEnd
      BY <2>4, RestingInput
    <3>2. output = "asleep"
      BY <2>1, <2>4 DEF ConnInv, Control
    <3>3. isContinueMessageRecived => outputMessages = <<>>
      BY <3>2 DEF ConnInv, NoMissedMessage
    <3> QED
      BY <2>1, <2>2, <3>1, <3>3
  <2>5. CASE input = "done"
    <3>1. submitted = endAt
      BY <2>5 DEF ConnInv, Control, JobInv, DrainedAtExit, Ends
    <3>2. endAt # NoEnd
      BY <3>1, Counters DEF NoEnd
    <3>3. output = "asleep" => ~isContinueMessageRecived
      BY <2>5 DEF ConnInv, Control, NoMissedMessage
    <3> QED
      BY <2>1, <2>2, <2>3, <3>1, <3>2, <3>3
  <2> QED
    BY <2>1, <2>4, <2>5
<1> QED
  BY <1>1, ConnInvariant, PTL

-----------------------------------------------------------------------------
(***************************************************************************)
(* No thread spins.                                                        *)
(***************************************************************************)

\* The steps counted for the control points, as equations.
LEMMA StepCounts ==
    /\ JobSteps["none"] = 0 /\ JobSteps["subscribe"] = 5 /\ JobSteps["loop"] = 4
    /\ JobSteps["wait"] = 3 /\ JobSteps["read"] = 2 /\ JobSteps["asleep"] = 1
    /\ JobSteps["continue"] = 13 /\ JobSteps["notify"] = 12 /\ JobSteps["va"] = 6
    /\ JobSteps["vaAsleep"] = 5 /\ JobSteps["final"] = 1 /\ JobSteps["done"] = 0
    /\ JobSteps["uncaught"] = 0
    /\ InputSteps["none"] = 0 /\ InputSteps["loop"] = 3 /\ InputSteps["wait"] = 2
    /\ InputSteps["asleep"] = 1 /\ InputSteps["join"] = 4 /\ InputSteps["stopped"] = 3
    /\ InputSteps["done"] = 0
    /\ OutputSteps["none"] = 0 /\ OutputSteps["loop"] = 6 /\ OutputSteps["wait"] = 5
    /\ OutputSteps["asleep"] = 4 /\ OutputSteps["ending"] = 2 /\ OutputSteps["ended"] = 1
    /\ OutputSteps["done"] = 0
BY DEF JobSteps, InputSteps, OutputSteps

\* The processor holds finitely many payloads, one more or one less after a step.
LEMMA ProcessorSize ==
    ASSUME ConnInv
    PROVE  /\ Cardinality(processor) \in Nat
           /\ \A d : Cardinality(processor \union {d}) \in Nat
                     /\ Cardinality(processor \union {d}) <= Cardinality(processor) + 1
           /\ \A d \in processor : Cardinality(processor \ {d}) \in Nat
                     /\ Cardinality(processor \ {d}) = Cardinality(processor) - 1
<1>1. processor \in SUBSET (1..MaxData) /\ MaxData \in Nat
  BY JobAssumption DEF ConnInv, TypeOK, JobTypeOK, Data
<1>2. IsFiniteSet(1..MaxData)
  BY <1>1, FS_Interval
<1>3. IsFiniteSet(processor)
  BY <1>1, <1>2, FS_Subset
<1>4. Cardinality(processor) \in Nat
  BY <1>3, FS_CardinalityType
<1>5. ASSUME NEW d
      PROVE  /\ Cardinality(processor \union {d}) \in Nat
             /\ Cardinality(processor \union {d}) <= Cardinality(processor) + 1
  <2>1. Cardinality(processor \union {d})
          = IF d \in processor THEN Cardinality(processor) ELSE Cardinality(processor) + 1
    BY <1>3, FS_AddElement
  <2> QED
    BY <1>4, <2>1
<1>6. ASSUME NEW d \in processor
      PROVE  /\ Cardinality(processor \ {d}) \in Nat
             /\ Cardinality(processor \ {d}) = Cardinality(processor) - 1
  <2>1. IsFiniteSet(processor \ {d})
        /\ Cardinality(processor \ {d}) = Cardinality(processor) - 1
    BY <1>3, FS_RemoveElement
  <2> QED
    BY <2>1, FS_CardinalityType
<1> QED
  BY <1>4, <1>5, <1>6

\* Each part of the bound is a number.
LEMMA WorkTypes ==
    ASSUME ConnInv
    PROVE  /\ JobSteps[thread] \in Nat /\ Len(inputData) \in Nat /\ LastRound \in Nat
           /\ InputSteps[input] \in Nat /\ Len(inputMessages) \in Nat
           /\ OutputSteps[output] \in Nat /\ Len(outputMessages) \in Nat
           /\ Cardinality(processor) \in Nat
<1>1. JobSteps[thread] \in Nat
  BY StepCounts DEF ConnInv, TypeOK, JobTypeOK, ControlPoint
<1>2. InputSteps[input] \in Nat
  BY StepCounts DEF ConnInv, TypeOK, InputTypes
<1>3. OutputSteps[output] \in Nat
  BY StepCounts DEF ConnInv, TypeOK, OutputTypes
<1>4. Len(inputData) \in Nat
  BY LenProperties DEF ConnInv, TypeOK, JobTypeOK
<1>5. LastRound \in Nat
  BY DEF LastRound
<1> QED
  BY <1>1, <1>2, <1>3, <1>4, <1>5, Lengths, ProcessorSize

\* A wake-up adds at most one step of the output thread.
LEMMA WokenWork ==
    ASSUME ConnInv, output' = Woken(output)
    PROVE  OutputSteps[output'] \in Nat /\ OutputSteps[output'] <= OutputSteps[output] + 1
<1>1. OutputSteps[output] \in Nat
  BY WorkTypes
<1>2. CASE output = "asleep"
  BY <1>2, StepCounts DEF Woken
<1>3. CASE output # "asleep"
  BY <1>1, <1>3 DEF Woken
<1> QED
  BY <1>2, <1>3

\* A notification adds at most two steps of the job's thread.
LEMMA NotifiedWork ==
    ASSUME ConnInv, NotifyJob
    PROVE  JobSteps[thread'] \in Nat /\ JobSteps[thread'] <= JobSteps[thread] + 2
<1>1. JobSteps[thread] \in Nat
  BY WorkTypes
<1>2. CASE thread = "asleep"
  BY <1>2, StepCounts DEF NotifyJob
<1>3. CASE thread # "asleep"
  BY <1>1, <1>3 DEF NotifyJob
<1> QED
  BY <1>2, <1>3

\* Work passes from one part of the bound to another at a loss.
LEMMA Trade ==
    ASSUME NEW a \in Nat, NEW b \in Nat, NEW c \in Nat, NEW x \in Nat, NEW y \in Nat, NEW z \in Nat
    PROVE  /\ x < a /\ y = b /\ z = c => x + y + z < a + b + c
           /\ x = a /\ y < b /\ z = c => x + y + z < a + b + c
           /\ x = a /\ y = b /\ z < c => x + y + z < a + b + c
           /\ \A k \in Nat : x <= a + k /\ y + k < b /\ z = c => x + y + z < a + b + c
           /\ \A k \in Nat : x = a /\ y + k < b /\ z <= c + k => x + y + z < a + b + c
           /\ \A k \in Nat : x + k < a /\ y = b /\ z <= c + k => x + y + z < a + b + c
OBVIOUS

\* The parts of the bound are numbers, and a step that keeps what they count keeps them.
LEMMA Parts ==
    ASSUME ConnInv
    PROVE  /\ JobWork \in Nat /\ InputWork \in Nat /\ OutputWork \in Nat
           /\ UNCHANGED <<thread, isStopJobSignaled, inputData, processor>> => JobWork' = JobWork
           /\ UNCHANGED <<input, inputMessages>> => InputWork' = InputWork
           /\ UNCHANGED <<output, outputMessages>> => OutputWork' = OutputWork
<1>1. JobWork \in Nat
  BY WorkTypes DEF JobWork
<1>2. InputWork \in Nat /\ OutputWork \in Nat
  BY WorkTypes DEF InputWork, OutputWork
<1>3. UNCHANGED <<thread, isStopJobSignaled, inputData, processor>> => JobWork' = JobWork
  BY DEF JobWork, LastRound
<1>4. UNCHANGED <<input, inputMessages>> => InputWork' = InputWork
  BY DEF InputWork
<1>5. UNCHANGED <<output, outputMessages>> => OutputWork' = OutputWork
  BY DEF OutputWork
<1> QED
  BY <1>1, <1>2, <1>3, <1>4, <1>5

\* A message is taken from the input queue.
LEMMA PoppedWork ==
    ASSUME ConnInv, NEW type, Pop(type)
    PROVE  /\ InputSteps[input] = 2 /\ ~isStopJobSignaled
           /\ Len(inputMessages') \in Nat /\ Len(inputMessages) = Len(inputMessages') + 1
           /\ UNCHANGED <<output, outputMessages>>
<1>1. inputMessages \in Seq(Message) /\ inputMessages # <<>>
  BY DEF Pop, ConnInv, TypeOK, InputTypes, CachesAgree
<1>2. inputMessages' = Tail(inputMessages)
  BY DEF Pop
<1>3. Len(inputMessages') \in Nat /\ Len(inputMessages) = Len(inputMessages') + 1
  BY <1>1, <1>2, TailFacts, LenProperties
<1>4. input = "wait"
  BY DEF Pop
<1>5. InputSteps[input] = 2
  BY <1>4, StepCounts
<1>6. ~isStopJobSignaled
  BY <1>4 DEF ConnInv, Control
<1> QED
  BY <1>3, <1>5, <1>6 DEF Pop, outputVars, outputQueue

\* What a submitted payload adds to the job's part.
LEMMA SubmittedWork ==
    ASSUME JobSteps[thread] \in Nat, Cardinality(processor) \in Nat, Len(inputData) \in Nat,
           LastRound = 0, LastRound' = 0, LastRound' \in Nat, UNCHANGED processor,
           JobSteps[thread'] \in Nat, JobSteps[thread'] <= JobSteps[thread] + 2,
           Len(inputData') = Len(inputData) + 1
    PROVE  JobWork' \in Nat /\ JobWork' <= JobWork + 14
<1>1. JobWork' \in Nat
  BY SMTT(60) DEF JobWork, LastRound
<1>2. JobWork' <= JobWork + 14
  BY SMTT(60) DEF JobWork, LastRound
<1> QED
  BY <1>1, <1>2

\* What the stop adds to the job's part.
LEMMA StoppedWork ==
    ASSUME JobSteps[thread] \in Nat, Cardinality(processor) \in Nat, Len(inputData) \in Nat,
           LastRound = 0, LastRound' \in Nat, LastRound' <= 3, UNCHANGED <<processor, inputData>>,
           JobSteps[thread'] \in Nat, JobSteps[thread'] <= JobSteps[thread] + 2
    PROVE  JobWork' \in Nat /\ JobWork' <= JobWork + 5
<1>1. JobWork' \in Nat
  BY SMTT(60) DEF JobWork, LastRound
<1>2. JobWork' <= JobWork + 5
  BY SMTT(60) DEF JobWork, LastRound
<1> QED
  BY <1>1, <1>2

\* The input thread: a message it takes pays for what the job does with it.
LEMMA InputWorkStep ==
    ASSUME ConnInv, InputStep
    PROVE  Work' < Work
<1>0. /\ JobSteps[thread] \in Nat /\ Len(inputData) \in Nat /\ LastRound \in Nat
      /\ InputSteps[input] \in Nat /\ Len(inputMessages) \in Nat
      /\ OutputSteps[output] \in Nat /\ Len(outputMessages) \in Nat
      /\ Cardinality(processor) \in Nat
      /\ JobWork \in Nat /\ InputWork \in Nat /\ OutputWork \in Nat
      /\ 1 \in Nat /\ 5 \in Nat /\ 14 \in Nat
  BY WorkTypes, Parts
<1>1. CASE InputLoop \/ InputSleep \/ InputJoined
  <2>1. UNCHANGED <<thread, isStopJobSignaled, inputData, processor,
                    inputMessages, output, outputMessages>>
    BY <1>1 DEF InputLoop, InputSleep, InputJoined, inputQueue, outputVars, outputQueue, jobVars,
                queueVars, outsideVars
  <2>2. JobWork' = JobWork /\ OutputWork' = OutputWork
    BY <2>1, Parts
  <2>3. InputSteps[input'] \in Nat /\ InputSteps[input'] < InputSteps[input]
    BY <1>1, StepCounts DEF InputLoop, InputSleep, InputJoined
  <2>4. InputWork' \in Nat /\ InputWork' < InputWork
    BY <1>0, <2>1, <2>3 DEF InputWork
  <2> QED
    BY <1>0, <2>2, <2>4, Trade, Zenon DEF Work
<1>2. CASE InputExit
  <2>1. UNCHANGED <<thread, isStopJobSignaled, inputData, processor,
                    inputMessages, outputMessages>>
    BY <1>2 DEF InputExit, inputQueue, outputQueue, jobVars, queueVars, outsideVars
  <2>2. OutputSteps[output'] \in Nat /\ OutputSteps[output'] <= OutputSteps[output] + 1
    BY <1>2, WokenWork DEF InputExit
  <2>3. InputSteps[input] = 3 /\ InputSteps[input'] = 0
    BY <1>2, StepCounts DEF InputExit
  <2>4. JobWork' = JobWork
    BY <2>1, Parts
  <2>5. InputWork' \in Nat /\ InputWork' + 1 < InputWork
    BY <1>0, <2>1, <2>3 DEF InputWork
  <2>6. OutputWork' \in Nat /\ OutputWork' <= OutputWork + 1
    BY <1>0, <2>1, <2>2 DEF OutputWork
  <2> QED
    BY <1>0, <2>4, <2>5, <2>6, Trade, Zenon DEF Work
<1>3. CASE InputData
  <2>1. /\ InputSteps[input] = 2 /\ ~isStopJobSignaled
        /\ Len(inputMessages') \in Nat /\ Len(inputMessages) = Len(inputMessages') + 1
        /\ UNCHANGED <<output, outputMessages>>
    BY <1>3, PoppedWork DEF InputData
  <2>2. InputSteps[input'] = 3
    BY <1>3, StepCounts DEF InputData
  <2>3. UNCHANGED <<isStopJobSignaled, processor>>
    BY <1>3 DEF InputData, process, outsideVars
  <2>4. JobSteps[thread'] \in Nat /\ JobSteps[thread'] <= JobSteps[thread] + 2
    BY <1>3, NotifiedWork DEF InputData, process
  <2>5. Len(inputData') = Len(inputData) + 1
    BY <1>3 DEF InputData, process, ConnInv, TypeOK, JobTypeOK
  <2>6. LastRound = 0 /\ LastRound' = 0 /\ LastRound' \in Nat
    BY <2>1, <2>3 DEF LastRound
  <2>7. JobWork' \in Nat /\ JobWork' <= JobWork + 14
    BY <1>0, <2>3, <2>4, <2>5, <2>6, SubmittedWork
  <2>8. InputWork' \in Nat /\ InputWork' + 14 < InputWork
    BY <1>0, <2>1, <2>2 DEF InputWork
  <2>9. OutputWork' = OutputWork
    BY <2>1, Parts
  <2> QED
    BY <1>0, <2>7, <2>8, <2>9, Trade, Zenon DEF Work
<1>4. CASE InputEnd
  <2>1. /\ InputSteps[input] = 2 /\ ~isStopJobSignaled
        /\ Len(inputMessages') \in Nat /\ Len(inputMessages) = Len(inputMessages') + 1
        /\ UNCHANGED <<output, outputMessages>>
    BY <1>4, PoppedWork DEF InputEnd
  <2>2. InputSteps[input'] = 4
    BY <1>4, StepCounts DEF InputEnd
  <2>3. UNCHANGED <<inputData, processor>>
    BY <1>4 DEF InputEnd, stopJob, outsideVars
  <2>4. JobSteps[thread'] \in Nat /\ JobSteps[thread'] <= JobSteps[thread] + 2
    BY <1>4, NotifiedWork DEF InputEnd, stopJob
  <2>5. LastRound = 0 /\ LastRound' \in Nat /\ LastRound' <= 3
    BY <2>1 DEF LastRound
  <2>6. JobWork' \in Nat /\ JobWork' <= JobWork + 5
    BY <1>0, <2>3, <2>4, <2>5, StoppedWork
  <2>7. InputWork' \in Nat /\ InputWork' + 5 < InputWork
    BY <1>0, <2>1, <2>2 DEF InputWork
  <2>8. OutputWork' = OutputWork
    BY <2>1, Parts
  <2> QED
    BY <1>0, <2>6, <2>7, <2>8, Trade, Zenon DEF Work
<1>5. CASE InputWithoutJob
  <2>1. UNCHANGED <<input, thread, isStopJobSignaled, inputData, processor>>
    BY <1>5 DEF InputWithoutJob, jobVars, queueVars, outsideVars
  <2>2. /\ Len(inputMessages') \in Nat /\ Len(inputMessages) = Len(inputMessages') + 1
        /\ UNCHANGED <<output, outputMessages>>
    BY <1>5, PoppedWork DEF InputWithoutJob
  <2>3. JobWork' = JobWork /\ OutputWork' = OutputWork
    BY <2>1, <2>2, Parts
  <2>4. InputWork' \in Nat /\ InputWork' < InputWork
    BY <1>0, <2>1, <2>2 DEF InputWork
  <2> QED
    BY <1>0, <2>3, <2>4, Trade, Zenon DEF Work
<1> QED
  BY <1>1, <1>2, <1>3, <1>4, <1>5 DEF InputStep

\* The output thread: a result it takes pays for the loop's next round.
LEMMA OutputWorkStep ==
    ASSUME ConnInv, OutputStep
    PROVE  Work' < Work
<1>0. /\ OutputSteps[output] \in Nat /\ Len(outputMessages) \in Nat
      /\ JobWork \in Nat /\ InputWork \in Nat /\ OutputWork \in Nat
  BY WorkTypes, Parts
<1>1. JobWork' = JobWork /\ InputWork' = InputWork
  <2>1. UNCHANGED <<thread, isStopJobSignaled, inputData, processor, input, inputMessages>>
    BY DEF OutputStep, OutputLoop, OutputSleep, OutputData, OutputMustEnd, OutputEnd, OutputExit,
           jobVars, queueVars, outsideVars, inputVars, inputQueue
  <2> QED
    BY <2>1, Parts
<1>2. OutputWork' \in Nat /\ OutputWork' < OutputWork
  <2>1. CASE OutputData
    <3>1. outputMessages \in Seq(Payload) /\ outputMessages # <<>>
      BY <2>1 DEF OutputData, CanSend, ConnInv, TypeOK, OutputTypes, CachesAgree
    <3>2. outputMessages' = Tail(outputMessages)
      BY <2>1 DEF OutputData
    <3>3. Len(outputMessages') \in Nat /\ Len(outputMessages) = Len(outputMessages') + 1
      BY <3>1, <3>2, TailFacts, LenProperties
    <3>4. output = "wait" /\ output' \in {"ending", "loop"}
      BY <2>1 DEF OutputData
    <3>5. OutputSteps[output] = 5 /\ OutputSteps[output'] \in Nat /\ OutputSteps[output'] <= 6
      BY <3>4, StepCounts
    <3> QED
      BY <3>3, <3>5 DEF OutputWork
  <2>2. CASE OutputLoop \/ OutputSleep \/ OutputMustEnd \/ OutputEnd \/ OutputExit
    <3>1. UNCHANGED outputMessages
      BY <2>2 DEF OutputLoop, OutputSleep, OutputMustEnd, OutputEnd, OutputExit, outputQueue
    <3>2. OutputSteps[output'] \in Nat /\ OutputSteps[output'] < OutputSteps[output]
      BY <2>2, StepCounts DEF OutputLoop, OutputSleep, OutputMustEnd, OutputEnd, OutputExit
    <3> QED
      BY <1>0, <3>1, <3>2 DEF OutputWork
  <2> QED
    BY <2>1, <2>2 DEF OutputStep
<1> QED
  BY <1>0, <1>1, <1>2, Trade, Zenon DEF Work

\* A step of the job's thread that moves no payload.
LEMMA ThreadWork ==
    ASSUME JobSteps[thread] \in Nat, Cardinality(processor) \in Nat, Len(inputData) \in Nat,
           LastRound \in Nat, LastRound' = LastRound, UNCHANGED <<processor, inputData>>,
           JobSteps[thread'] \in Nat, JobSteps[thread'] < JobSteps[thread]
    PROVE  JobWork' \in Nat /\ JobWork' < JobWork
<1>1. JobWork' \in Nat
  BY SMTT(60) DEF JobWork, LastRound
<1>2. JobWork' < JobWork
  BY SMTT(60) DEF JobWork, LastRound
<1> QED
  BY <1>1, <1>2

\* The job's thread finds its queue empty after the stop.
LEMMA LastReadWork ==
    ASSUME Cardinality(processor) \in Nat, Len(inputData) \in Nat,
           LastRound = 3, LastRound' = 0, LastRound' \in Nat, UNCHANGED <<processor, inputData>>,
           JobSteps[thread] = 2, JobSteps[thread'] = 4
    PROVE  JobWork' \in Nat /\ JobWork' < JobWork
<1>1. JobWork' \in Nat
  BY SMTT(60) DEF JobWork, LastRound
<1>2. JobWork' < JobWork
  BY SMTT(60) DEF JobWork, LastRound
<1> QED
  BY <1>1, <1>2

\* The job's thread takes a payload from its queue.
LEMMA ReadWork ==
    ASSUME Cardinality(processor) \in Nat, LastRound = 0, LastRound' = 0, LastRound' \in Nat,
           UNCHANGED processor, JobSteps[thread] = 2, JobSteps[thread'] = 13,
           Len(inputData) \in Nat, Len(inputData') \in Nat,
           Len(inputData) = Len(inputData') + 1
    PROVE  JobWork' \in Nat /\ JobWork' < JobWork
<1>1. JobWork' \in Nat
  BY SMTT(60) DEF JobWork, LastRound
<1>2. JobWork' < JobWork
  BY SMTT(60) DEF JobWork, LastRound
<1> QED
  BY <1>1, <1>2

\* The job's thread hands a payload to the processor.
LEMMA NotifyWork ==
    ASSUME Cardinality(processor) \in Nat, LastRound = 0, LastRound' = 0, LastRound' \in Nat,
           UNCHANGED inputData, JobSteps[thread] = 12,
           JobSteps[thread'] \in Nat, JobSteps[thread'] <= 6, Len(inputData) \in Nat,
           Cardinality(processor') \in Nat,
           Cardinality(processor') <= Cardinality(processor) + 1
    PROVE  JobWork' \in Nat /\ JobWork' < JobWork
<1>1. JobWork' \in Nat
  BY SMTT(60) DEF JobWork, LastRound
<1>2. JobWork' < JobWork
  BY SMTT(60) DEF JobWork, LastRound
<1> QED
  BY <1>1, <1>2

\* The job's thread: the loop is only entered again for a payload, or once more after
\* the stop, because the cached flag it tests agrees with the queue.
LEMMA JobWorkStep ==
    ASSUME ConnInv, JobStep \/ JobThrows
    PROVE  Work' < Work
<1>0. /\ JobSteps[thread] \in Nat /\ Len(inputData) \in Nat /\ LastRound \in Nat
      /\ Cardinality(processor) \in Nat
      /\ JobWork \in Nat /\ InputWork \in Nat /\ OutputWork \in Nat
  BY WorkTypes, Parts
<1>1. InputWork' = InputWork /\ OutputWork' = OutputWork
  <2>1. UNCHANGED <<input, inputMessages, output, outputMessages>>
    BY DEF JobStep, JobThrows, connVars, inputVars, inputQueue, outputVars, outputQueue
  <2> QED
    BY <2>1, Parts
<1>2. LastRound' \in Nat
  BY DEF LastRound
<1> SUFFICES JobWork' \in Nat /\ JobWork' < JobWork
  BY <1>0, <1>1, Trade, Zenon DEF Work
<1>3. CASE Subscribe \/ Loop \/ Wait \/ Acknowledge \/ AwaitResult \/ NotifyEndOfJob
             \/ EndOfJobThrows
  <2>1. UNCHANGED <<processor, inputData, isStopJobSignaled>>
    BY <1>3 DEF Subscribe, Loop, Wait, Acknowledge, AwaitResult, NotifyEndOfJob, EndOfJobThrows,
                queueVars, outsideVars
  <2>2. CASE Loop
    <3>1. LastRound' = LastRound
      BY <2>1, <2>2 DEF Loop, Goto, LastRound, ConnInv, JobInv, FlagAgrees
    <3>2. JobSteps[thread'] \in Nat /\ JobSteps[thread'] < JobSteps[thread]
      BY <2>2, StepCounts DEF Loop, Goto
    <3> QED
      BY <1>0, <2>1, <3>1, <3>2, ThreadWork
  <2>3. CASE Wait
    <3>1. LastRound' = LastRound
      BY <2>1, <2>3 DEF Wait, Goto, LastRound
    <3>2. JobSteps[thread'] \in Nat /\ JobSteps[thread'] < JobSteps[thread]
      BY <2>3, StepCounts DEF Wait, Goto
    <3> QED
      BY <1>0, <2>1, <3>1, <3>2, ThreadWork
  <2>4. CASE Subscribe \/ Acknowledge \/ AwaitResult \/ NotifyEndOfJob \/ EndOfJobThrows
    <3>1. LastRound' = LastRound
      BY <2>4 DEF Subscribe, Acknowledge, AwaitResult, NotifyEndOfJob, EndOfJobThrows, Goto,
                  LastRound
    <3>2. JobSteps[thread'] \in Nat /\ JobSteps[thread'] < JobSteps[thread]
      BY <2>4, StepCounts DEF Subscribe, Acknowledge, AwaitResult, NotifyEndOfJob, EndOfJobThrows,
                  Goto
    <3> QED
      BY <1>0, <2>1, <3>1, <3>2, ThreadWork
  <2> QED
    BY <1>3, <2>2, <2>3, <2>4
<1>4. CASE readData
  <2>1. thread = "read" /\ UNCHANGED <<processor, isStopJobSignaled>>
    BY <1>4 DEF readData, Goto, outsideVars
  <2>2. CASE inputData = <<>>
    <3>1. thread' = "loop" /\ UNCHANGED inputData
      BY <1>4, <2>2 DEF readData, Goto
    <3>2. LastRound = 3 /\ LastRound' = 0
      BY <2>1, <2>2, <3>1 DEF LastRound, ConnInv, JobInv, Called
    <3>3. JobSteps[thread] = 2 /\ JobSteps[thread'] = 4
      BY <2>1, <3>1, StepCounts
    <3> QED
      BY <1>0, <1>2, <2>1, <3>1, <3>2, <3>3, LastReadWork
  <2>3. CASE inputData # <<>>
    <3>1. thread' = "continue" /\ inputData' = Tail(inputData)
      BY <1>4, <2>3 DEF readData, Goto
    <3>2. LastRound = 0 /\ LastRound' = 0
      BY <2>3, <3>1 DEF LastRound
    <3>3. JobSteps[thread] = 2 /\ JobSteps[thread'] = 13
      BY <2>1, <3>1, StepCounts
    <3>4. inputData \in Seq(Data)
      BY DEF ConnInv, TypeOK, JobTypeOK
    <3>5. Len(inputData') \in Nat /\ Len(inputData) = Len(inputData') + 1
      BY <2>3, <3>1, <3>4, TailFacts, LenProperties
    <3> QED
      BY <1>0, <1>2, <2>1, <3>2, <3>3, <3>5, ReadWork
  <2> QED
    BY <2>2, <2>3
<1>5. CASE NotifyInputData \/ NotifyThrows
  <2>1. /\ thread = "notify" /\ thread' \in {"va", "loop"}
        /\ processor' = processor \/ processor' = processor \union {data}
        /\ UNCHANGED inputData
    BY <1>5 DEF NotifyInputData, NotifyThrows, Goto, queueVars
  <2>2. LastRound = 0 /\ LastRound' = 0
    BY <2>1 DEF LastRound
  <2>3. JobSteps[thread] = 12 /\ JobSteps[thread'] \in Nat /\ JobSteps[thread'] <= 6
    BY <2>1, StepCounts
  <2>4. /\ Cardinality(processor') \in Nat
        /\ Cardinality(processor') <= Cardinality(processor) + 1
    <3>1. CASE processor' = processor
      BY <1>0, <3>1
    <3>2. CASE processor' = processor \union {data}
      BY <3>2, ProcessorSize
    <3> QED
      BY <2>1, <3>1, <3>2
  <2> QED
    BY <1>0, <1>2, <2>1, <2>2, <2>3, <2>4, NotifyWork
<1>6. \/ Subscribe \/ Loop \/ Wait \/ Acknowledge \/ AwaitResult \/ NotifyEndOfJob
      \/ EndOfJobThrows \/ readData \/ NotifyInputData \/ NotifyThrows
  BY DEF JobStep, JobThrows, ProcessingStep
<1> QED
  BY <1>3, <1>4, <1>5, <1>6

\* An answer the processor gives pays for waking the job's thread and for sending it.
LEMMA AnsweredWork ==
    ASSUME JobSteps[thread] \in Nat, Cardinality(processor) \in Nat, Len(inputData) \in Nat,
           LastRound \in Nat, LastRound' = LastRound, UNCHANGED inputData,
           JobSteps[thread'] \in Nat, JobSteps[thread'] <= JobSteps[thread] + 1,
           Cardinality(processor') \in Nat,
           Cardinality(processor) = Cardinality(processor') + 1
    PROVE  JobWork' \in Nat /\ JobWork' + 3 < JobWork
<1>1. ASSUME NEW a \in Nat, NEW b \in Nat, NEW c \in Nat, NEW x \in Nat, NEW y \in Nat,
             NEW z \in Nat, x <= a + 1, y = z + 1
      PROVE  /\ x + b + 12 * c + 5 * z \in Nat
             /\ x + b + 12 * c + 5 * z + 3 < a + b + 12 * c + 5 * y
  BY <1>1
<1>2. JobWork' = JobSteps[thread'] + LastRound + 12 * Len(inputData) + 5 * Cardinality(processor')
  BY Zenon DEF JobWork
<1> QED
  BY <1>1, <1>2 DEF JobWork

\* The processor's answer to a payload.
LEMMA ResultWorkStep ==
    ASSUME ConnInv, ResultStep
    PROVE  Work' < Work
<1>0. /\ JobSteps[thread] \in Nat /\ Len(inputData) \in Nat /\ LastRound \in Nat
      /\ OutputSteps[output] \in Nat /\ Len(outputMessages) \in Nat
      /\ Cardinality(processor) \in Nat
      /\ JobWork \in Nat /\ InputWork \in Nat /\ OutputWork \in Nat /\ 3 \in Nat
  BY WorkTypes, Parts
<1>1. PICK d \in processor : \E s \in {d, Empty} : OnOwnResult(d, s)
  BY DEF ResultStep
<1>2. PICK r \in {d, Empty} : OnOwnResult(d, r)
  BY <1>1
<1>3. OnResult(r) /\ ResultCallback(r) /\ processor' = processor \ {d} /\ UNCHANGED queueVars
  BY <1>2 DEF OnOwnResult, OwnResult
<1>4. InputWork' = InputWork
  <2>1. UNCHANGED <<input, inputMessages>>
    BY <1>3 DEF OnResult, inputVars, inputQueue
  <2> QED
    BY <2>1, Parts
<1>5. OutputWork' \in Nat /\ OutputWork' <= OutputWork + 3
  <2>1. CASE r = Empty
    <3>1. OutputWork' = OutputWork
      BY <1>3, <2>1, Parts DEF OnResult, SendData, outputQueue
    <3> QED
      BY <1>0, <3>1
  <2>2. CASE r # Empty
    <3>1. output' = Woken(output) /\ outputMessages' = Append(outputMessages, r)
      BY <1>3, <2>2 DEF OnResult, SendData
    <3>2. OutputSteps[output'] \in Nat /\ OutputSteps[output'] <= OutputSteps[output] + 1
      BY <3>1, WokenWork
    <3>3. outputMessages \in Seq(Payload)
      BY DEF ConnInv, TypeOK, OutputTypes
    <3>4. Len(outputMessages') = Len(outputMessages) + 1
      BY <3>1, <3>3
    <3> QED
      BY <1>0, <3>2, <3>4 DEF OutputWork
  <2> QED
    BY <2>1, <2>2
<1>6. JobWork' \in Nat /\ JobWork' + 3 < JobWork
  <2>1. thread' = thread \/ (thread = "vaAsleep" /\ thread' = "va")
    BY <1>3 DEF ResultCallback
  <2>2. UNCHANGED <<inputData, isStopJobSignaled>>
    BY <1>3 DEF queueVars
  <2>3. LastRound' = LastRound
    BY <2>1, <2>2 DEF LastRound
  <2>4. JobSteps[thread'] \in Nat /\ JobSteps[thread'] <= JobSteps[thread] + 1
    <3>1. CASE thread' = thread
      BY <1>0, <3>1
    <3>2. CASE thread = "vaAsleep" /\ thread' = "va"
      BY <3>2, StepCounts
    <3> QED
      BY <2>1, <3>1, <3>2
  <2>5. /\ Cardinality(processor') \in Nat
        /\ Cardinality(processor) = Cardinality(processor') + 1
    BY <1>3, ProcessorSize
  <2> QED
    BY <1>0, <2>2, <2>3, <2>4, <2>5, AnsweredWork
<1> QED
  BY <1>0, <1>4, <1>5, <1>6, Trade, Zenon DEF Work

\* The bound is a number, so that it cannot decrease forever.
LEMMA WorkIsNatural ==
    ASSUME ConnInv
    PROVE  Work \in Nat
BY Parts DEF Work

\* No thread spins: whatever the unlocked loop conditions and the cached flags say,
\* each step a thread or the processor takes leaves fewer to take, until a message,
\* a result not asked for or a spurious wakeup brings new work.
THEOREM ConnWorkRunsOut == Spec => WorkRunsOut
<1>1. ASSUME ConnInv, [Next]_vars
      PROVE  [InputStep \/ OutputStep \/ JobStep \/ JobThrows \/ ResultStep => Work' < Work]_vars
  BY <1>1, InputWorkStep, OutputWorkStep, JobWorkStep, ResultWorkStep
<1> QED
  BY <1>1, ConnInvariant, PTL DEF Spec, WorkRunsOut
=============================================================================
