------------------------- MODULE JobConnectionProofs -------------------------
(***************************************************************************)
(* The safety properties of module JobConnection, proved for every value   *)
(* of its constants.                                                       *)
(***************************************************************************)
EXTENDS JobConnection, JobProofs

(***************************************************************************)
(* The inductive invariant.                                                *)
(***************************************************************************)

\* What the control points of the input and the output thread say of the flags
\* and of the job's thread.
Control ==
    /\ conn = "absent" => input = "none" /\ output = "none"
    /\ input \in {"none", "loop", "wait", "asleep"} => ~isStopJobSignaled
    /\ input = "join" => isStopJobSignaled
    /\ input \in {"stopped", "done"} => thread = "done"
    /\ isJobStoped <=> input \in {"stopped", "done"}
    /\ output \in {"ending", "ended", "done"} => isJobStoped
    /\ endsSent = IF output \in {"ended", "done"} THEN 1 ELSE 0
    /\ conn \in {"open", "closing"} /\ output # "done" => processing
    /\ thread = "uncaught" => fault = "uncaught"

\* An open connection has its threads, and a stopped job was started.
Started ==
    /\ conn # "absent" => input # "none" /\ output # "none"
    /\ isStopJobSignaled => thread # "none"

CachesAgree ==
    /\ isInputQueueEmpty <=> inputMessages = <<>>
    /\ isOutputQueueEmpty <=> outputMessages = <<>>

IsData(i) == inputMessages[i].type = "Data"

\* The input queue holds exactly the accepted and not submitted payloads, in order.
Feed ==
    /\ submitted <= accepted
    /\ io = "Data" => accepted < MaxData
    /\ \A i \in 1..Len(inputMessages) : IsData(i) =>
          submitted < inputMessages[i].payload /\ inputMessages[i].payload <= accepted
    /\ \A i, j \in 1..Len(inputMessages) : i < j /\ IsData(i) /\ IsData(j) =>
          inputMessages[i].payload < inputMessages[j].payload
    /\ \A k \in Data : submitted < k /\ k <= accepted =>
          \E i \in 1..Len(inputMessages) : IsData(i) /\ inputMessages[i].payload = k

\* Data behind an End came after the first End; until the job is stopped the
\* first End is still in the queue, and then it was reached exactly at endAt.
Ends ==
    /\ endAt # NoEnd => endAt <= accepted
    /\ endAt = NoEnd => \A i \in 1..Len(inputMessages) : IsData(i)
    /\ \A i, j \in 1..Len(inputMessages) : i < j /\ ~IsData(i) /\ IsData(j) =>
          endAt < inputMessages[j].payload
    /\ endAt # NoEnd /\ ~isStopJobSignaled /\ fault # "null_job" =>
          /\ submitted <= endAt
          /\ \E i \in 1..Len(inputMessages) :
                /\ ~IsData(i)
                /\ \A j \in 1..(i - 1) : IsData(j) => inputMessages[j].payload <= endAt
    /\ isStopJobSignaled => submitted = endAt

\* What was written is what was sent followed by what is still queued.
Wire ==
    /\ Len(written) = Len(sent) + Len(outputMessages)
    /\ \A i \in 1..Len(sent) : written[i] = sent[i]
    /\ \A i \in 1..Len(outputMessages) : written[Len(sent) + i] = outputMessages[i]

\* End is decided on an empty queue whose mutex is held until the thread leaves;
\* undisturbed, nothing is written after that either.
NothingLeft ==
    /\ OutputLocked => outputMessages = <<>>
    /\ Undisturbed /\ output = "done" => outputMessages = <<>>

\* Before the state leaves socket_opened nothing was accepted, and before the
\* first Continue nothing is with the processor or written.
Early ==
    /\ conn = "absent" => state = "socket_opened"
    /\ thread = "none" => state = "socket_opened" /\ io # "starting"
    /\ state = "socket_opened" => accepted = 0 /\ io # "Data"
    /\ acks = 0 => processor = {}
    /\ acks = 0 /\ MaxForeign = 0 => written = <<>>

\* The unused Continue counts.
Credit == Len(sent) + (IF isContinueMessageRecived THEN 1 ELSE 0) <= continues + 1

ConnInv ==
    /\ TypeOK
    /\ JobInv
    /\ Control
    /\ Started
    /\ CachesAgree
    /\ Feed
    /\ Ends
    /\ Wire
    /\ NothingLeft
    /\ Early
    /\ Credit
    /\ NoMissedMessage
    /\ QuietCloseIsSafe

-----------------------------------------------------------------------------
(***************************************************************************)
(* What the types say of the counters and of the sequences' lengths.       *)
(***************************************************************************)
\* The counters are numbers below their bounds.
LEMMA Counters ==
    ASSUME ConnInv
    PROVE  /\ MaxData \in Nat /\ submitted \in Nat /\ submitted <= MaxData
           /\ accepted \in Nat /\ accepted <= MaxData
           /\ endAt \in Nat /\ endAt <= NoEnd
           /\ continues \in Nat
<1>1. MaxData \in Nat /\ NoEnd = MaxData + 1
  BY JobAssumption DEF NoEnd
<1>2. submitted \in 0..MaxData
  BY DEF ConnInv, TypeOK, JobTypeOK
<1>3. accepted \in 0..MaxData /\ endAt \in 0..NoEnd /\ continues \in Nat
  BY DEF ConnInv, TypeOK, HistoryTypes
<1> QED
  BY <1>1, <1>2, <1>3

\* The sequences have lengths.
LEMMA Lengths ==
    ASSUME ConnInv
    PROVE  /\ Len(inputMessages) \in Nat /\ Len(outputMessages) \in Nat
           /\ Len(sent) \in Nat /\ Len(written) \in Nat
BY LenProperties DEF ConnInv, TypeOK, JobTypeOK, InputTypes, OutputTypes, HistoryTypes

-----------------------------------------------------------------------------
(***************************************************************************)
(* Every step of a connection is a step of its job or leaves the job alone.*)
(***************************************************************************)

\* The payload at the front of the input queue is the next one to submit.
LEMMA FrontIsNext ==
    ASSUME ConnInv, Pop("Data")
    PROVE  /\ Head(inputMessages).payload = submitted + 1
           /\ submitted < MaxData
<1>1. inputMessages \in Seq(Message) /\ inputMessages # <<>>
  BY DEF ConnInv, TypeOK, InputTypes, CachesAgree, Pop
<1>2. /\ Len(inputMessages) \in Nat /\ Len(inputMessages) > 0
      /\ Head(inputMessages) = inputMessages[1]
  BY <1>1, TailFacts, LenProperties
<1>3. IsData(1)
  BY <1>2 DEF Pop, IsData
<1>4. submitted \in Nat /\ accepted \in 0..MaxData /\ MaxData \in Nat
  BY Counters
<1>5. inputMessages[1] \in Message
  BY <1>1, <1>2, ElementOfSeq
<1>6. inputMessages[1].payload \in Data
  BY <1>3, <1>5 DEF Message, IsData
<1>7. submitted < inputMessages[1].payload /\ inputMessages[1].payload <= accepted
  BY <1>2, <1>3 DEF ConnInv, Feed
<1>8. submitted + 1 \in Data /\ submitted + 1 <= accepted
  BY <1>4, <1>6, <1>7 DEF Data
<1>9. PICK i \in 1..Len(inputMessages) :
         IsData(i) /\ inputMessages[i].payload = submitted + 1
  BY <1>4, <1>8 DEF ConnInv, Feed
<1>10. i = 1
  <2>1. 1 \in 1..Len(inputMessages)
    BY <1>2
  <2>2. 1 < i => inputMessages[1].payload < submitted + 1
    BY <1>3, <1>9, <2>1 DEF ConnInv, Feed
  <2>3. ~(1 < i)
    BY <1>4, <1>6, <1>7, <2>2 DEF Data
  <2> QED
    BY <1>2, <2>3
<1> QED
  BY <1>2, <1>4, <1>8, <1>9, <1>10 DEF Data

\* Steps of the io thread: only Start reaches the job.
LEMMA IoRefines ==
    ASSUME ConnInv, IoStep
    PROVE  [JobNext]_jobVars
<1>1. ASSUME NEW id \in {"", "job"}, OnStart(id)
      PROVE  JobNext
  BY <1>1 DEF OnStart, JobNext, Construct
<1>2. CASE OnOpen \/ SendReady \/ HandleMessage \/ HandleContinueMessage \/ OnClose \/ DestroyJob
  BY <1>2 DEF OnOpen, SendReady, HandleMessage, HandleContinueMessage, OnClose, DestroyJob
<1>3. ASSUME NEW type \in {"Start", "Data", "End", "Malformed"}, OnRefused(type) \/ OnQueued(type)
      PROVE  UNCHANGED jobVars
  BY <1>3 DEF OnRefused, OnQueued
<1> QED
  BY <1>1, <1>2, <1>3 DEF IoStep

\* Steps of the input thread: Data is submitted and End stops the job.
LEMMA InputRefines ==
    ASSUME ConnInv, InputStep
    PROVE  [JobNext]_jobVars
<1>1. CASE InputData
  <2>1. ~isStopJobSignaled
    BY <1>1 DEF InputData, Pop, ConnInv, Control
  <2>2. submitted < MaxData /\ process(submitted + 1)
    BY <1>1, FrontIsNext DEF InputData
  <2>3. thread # "uncaught"
    BY <1>1 DEF InputData, Pop, Live, ConnInv, Control
  <2> QED
    BY <2>1, <2>2, <2>3 DEF JobNext, CallerStep
<1>2. CASE InputEnd
  BY <1>2 DEF InputEnd, Pop, Live, ConnInv, Control, JobNext, CallerStep
<1>3. CASE InputLoop \/ InputSleep \/ InputWithoutJob \/ InputJoined \/ InputExit
  BY <1>3 DEF InputLoop, InputSleep, InputWithoutJob, InputJoined, InputExit
<1> QED
  BY <1>1, <1>2, <1>3 DEF InputStep

\* Every step of the specification.
LEMMA Refines ==
    ASSUME ConnInv, [Next]_vars
    PROVE  [JobNext]_jobVars
<1>1. CASE OutputStep
  BY <1>1 DEF OutputStep, OutputLoop, OutputSleep, OutputData, OutputMustEnd, OutputEnd,
              OutputExit
<1>2. CASE JobStep \/ JobThrows
  BY <1>2 DEF JobStep, JobThrows, Live, ConnInv, Control, JobNext
<1>3. CASE ResultStep
  BY <1>3 DEF ResultStep, OnOwnResult, OnResult, Live, ConnInv, Control, JobNext,
              ProcessorStep
<1>4. ASSUME NEW r \in {Foreign, Empty}, OnForeignResult(r)
      PROVE  JobNext
  BY <1>4 DEF OnForeignResult, OnResult, Live, ConnInv, Control, JobNext, ProcessorStep
<1>5. CASE Spurious
  BY <1>5 DEF Spurious, SpuriousWakeup, Goto, JobNext
<1>6. CASE UseAfterDestroy \/ UNCHANGED vars
  BY <1>6 DEF UseAfterDestroy, vars
<1> QED
  BY <1>1, <1>2, <1>3, <1>4, <1>5, <1>6, IoRefines, InputRefines DEF Next

-----------------------------------------------------------------------------
(***************************************************************************)
(* Which steps change which part of the state.                             *)
(***************************************************************************)

\* The input queue and its thread.
LEMMA InputFrame ==
    ASSUME Next
    PROVE  UNCHANGED inputVars \/ OnOpen \/ HandleMessage \/ InputStep \/ Spurious
<1>1. CASE IoStep
  BY <1>1 DEF IoStep, OnRefused, OnStart, SendReady, OnQueued, HandleContinueMessage, OnClose,
              DestroyJob
<1>2. CASE OutputStep
  BY <1>2 DEF OutputStep, OutputLoop, OutputSleep, OutputData, OutputMustEnd, OutputEnd,
              OutputExit
<1>3. CASE JobStep \/ JobThrows \/ UseAfterDestroy
  BY <1>3 DEF JobStep, JobThrows, UseAfterDestroy, connVars
<1>4. CASE ResultStep
  BY <1>4 DEF ResultStep, OnOwnResult, OnResult
<1>5. ASSUME NEW r \in {Foreign, Empty}, OnForeignResult(r)
      PROVE  UNCHANGED inputVars
  BY <1>5 DEF OnForeignResult, OnResult
<1> QED
  BY <1>1, <1>2, <1>3, <1>4, <1>5 DEF Next

\* The output queue, its flags and its thread.
LEMMA OutputFrame ==
    ASSUME Next
    PROVE  \/ UNCHANGED outputVars
           \/ OnOpen \/ HandleContinueMessage \/ InputJoined \/ InputExit \/ OutputStep
           \/ ResultStep \/ (\E r \in {Foreign, Empty} : OnForeignResult(r))
           \/ Spurious
<1>1. CASE IoStep
  BY <1>1 DEF IoStep, OnRefused, OnStart, SendReady, OnQueued, HandleMessage, OnClose,
              DestroyJob
<1>2. CASE InputStep
  BY <1>2 DEF InputStep, InputLoop, InputSleep, InputData, InputEnd, InputWithoutJob, Pop
<1>3. CASE JobStep \/ JobThrows \/ UseAfterDestroy
  BY <1>3 DEF JobStep, JobThrows, UseAfterDestroy, connVars
<1> QED
  BY <1>1, <1>2, <1>3 DEF Next

\* The histories of the client and of the wire, and of the io thread.
LEMMA HistoryFrame ==
    ASSUME Next
    PROVE  /\ UNCHANGED <<accepted, endAt>> \/ HandleMessage
           /\ UNCHANGED continues \/ HandleContinueMessage
           /\ UNCHANGED sent \/ OutputData
           /\ UNCHANGED endsSent \/ OutputEnd
<1> USE DEF client, wire
<1>1. CASE IoStep
  BY <1>1 DEF IoStep, OnOpen, OnRefused, OnStart, SendReady, OnQueued, HandleMessage,
              HandleContinueMessage, OnClose, DestroyJob
<1>2. CASE InputStep
  BY <1>2 DEF InputStep, InputLoop, InputSleep, InputData, InputEnd, InputWithoutJob, Pop,
              InputJoined, InputExit, otherVars
<1>3. CASE OutputStep
  BY <1>3 DEF OutputStep, OutputLoop, OutputSleep, OutputData, OutputMustEnd, OutputEnd,
              OutputExit, otherVars
<1>4. CASE JobStep \/ JobThrows \/ UseAfterDestroy \/ Spurious
  BY <1>4 DEF JobStep, JobThrows, UseAfterDestroy, Spurious, connVars, otherVars
<1>5. CASE ResultStep
  BY <1>5 DEF ResultStep, OnOwnResult, OnResult, otherVars
<1>6. ASSUME NEW r \in {Foreign, Empty}, OnForeignResult(r)
      PROVE  UNCHANGED <<client, wire>>
  BY <1>6 DEF OnForeignResult, OnResult, otherVars
<1> QED
  BY <1>1, <1>2, <1>3, <1>4, <1>5, <1>6 DEF Next

\* The stop flag and the number of payloads submitted.
LEMMA SubmitFrame ==
    ASSUME Next
    PROVE  UNCHANGED <<submitted, isStopJobSignaled>> \/ InputData \/ InputEnd
<1> USE DEF queueVars, jobVars
<1>1. CASE IoStep
  BY <1>1 DEF IoStep, OnOpen, OnRefused, OnStart, Construct, SendReady, OnQueued, HandleMessage,
              HandleContinueMessage, OnClose, DestroyJob
<1>2. CASE InputStep
  BY <1>2 DEF InputStep, InputLoop, InputSleep, InputWithoutJob, InputJoined, InputExit
<1>3. CASE OutputStep
  BY <1>3 DEF OutputStep, OutputLoop, OutputSleep, OutputData, OutputMustEnd, OutputEnd,
              OutputExit
<1>4. CASE JobStep
  BY <1>4 DEF JobStep, ProcessingStep, Subscribe, Loop, Wait, readData, Acknowledge,
              NotifyInputData, NotifyThrows, AwaitResult, NotifyEndOfJob
<1>5. CASE JobThrows \/ UseAfterDestroy \/ Spurious
  BY <1>5 DEF JobThrows, EndOfJobThrows, UseAfterDestroy, Spurious, SpuriousWakeup
<1>6. CASE ResultStep
  BY <1>6 DEF ResultStep, OnOwnResult, OwnResult
<1>7. ASSUME NEW r \in {Foreign, Empty}, OnForeignResult(r)
      PROVE  UNCHANGED <<submitted, isStopJobSignaled>>
  BY <1>7 DEF OnForeignResult, ForeignResult
<1> QED
  BY <1>1, <1>2, <1>3, <1>4, <1>5, <1>6, <1>7 DEF Next

-----------------------------------------------------------------------------
(***************************************************************************)
(* Types.                                                                  *)
(***************************************************************************)

\* What HandleMessage appends.
LEMMA Pushed ==
    ASSUME ConnInv, HandleMessage
    PROVE  \E msg \in Message :
              /\ inputMessages' = Append(inputMessages, msg)
              /\ IF io = "Data"
                 THEN /\ msg.type = "Data" /\ msg.payload = accepted + 1
                      /\ accepted' = accepted + 1 /\ endAt' = endAt
                      /\ accepted < MaxData
                 ELSE /\ msg.type = "End"
                      /\ accepted' = accepted
                      /\ endAt' = IF endAt = NoEnd THEN accepted ELSE endAt
<1>1. CASE io = "Data"
  <2>1. accepted < MaxData
    BY <1>1 DEF ConnInv, Feed
  <2>2. [type |-> "Data", payload |-> accepted + 1] \in Message
    BY <2>1, Counters DEF Message, Data
  <2> QED
    BY <1>1, <2>1, <2>2 DEF HandleMessage
<1>2. CASE io # "Data"
  <2>1. EndMessage \in Message /\ EndMessage.type = "End"
    BY DEF EndMessage, Message
  <2> QED
    BY <1>2, <2>1 DEF HandleMessage
<1> QED
  BY <1>1, <1>2

\* The input queue keeps its type.
LEMMA InputTypesStep ==
    ASSUME ConnInv, Next
    PROVE  InputTypes'
<1>0. InputTypes
  BY DEF ConnInv, TypeOK
<1>1. CASE UNCHANGED inputVars
  BY <1>0, <1>1 DEF InputTypes, inputVars, inputQueue
<1>2. CASE OnOpen \/ Spurious
  BY <1>0, <1>2 DEF InputTypes, OnOpen, Spurious, inputQueue
<1>3. CASE HandleMessage
  <2>1. inputMessages' \in Seq(Message)
    BY <1>0, <1>3, Pushed, AppendFacts DEF InputTypes
  <2> QED
    BY <1>0, <1>3, <2>1 DEF InputTypes, HandleMessage, Woken
<1>4. ASSUME NEW type, Pop(type)
      PROVE  inputMessages' \in Seq(Message) /\ isInputQueueEmpty' \in BOOLEAN
  BY <1>0, <1>4, TailFacts DEF InputTypes, Pop, ConnInv, CachesAgree
<1>5. CASE InputStep
  BY <1>0, <1>4, <1>5 DEF InputTypes, InputStep, InputLoop, InputSleep, InputData, InputEnd,
       InputWithoutJob, InputJoined, InputExit, inputQueue
<1> QED
  BY <1>1, <1>2, <1>3, <1>5, InputFrame

\* What a result, the job's own or a foreign one, does to the connection.
LEMMA ResultCases ==
    ASSUME ConnInv, ResultStep \/ (\E r \in {Foreign, Empty} : OnForeignResult(r))
    PROVE  \E r \in Payload : OnResult(r) /\ ResultCallback(r)
<1>0. MaxData \in Nat /\ processor \subseteq Data
  BY JobAssumption DEF ConnInv, TypeOK, JobTypeOK
<1>1. ASSUME NEW d \in processor, NEW r \in {d, Empty}, OnOwnResult(d, r)
      PROVE  \E s \in Payload : OnResult(s) /\ ResultCallback(s)
  <2>1. r \in Payload
    BY <1>0 DEF Payload, Data, Empty
  <2> QED
    BY <1>1, <2>1 DEF OnOwnResult, OwnResult
<1>2. ASSUME NEW r \in {Foreign, Empty}, OnForeignResult(r)
      PROVE  \E s \in Payload : OnResult(s) /\ ResultCallback(s)
  <2>1. r \in Payload
    BY <1>0 DEF Payload, Foreign, Empty
  <2> QED
    BY <1>2, <2>1 DEF OnForeignResult, ForeignResult
<1> QED
  BY <1>1, <1>2 DEF ResultStep

\* The output queue keeps its type.
LEMMA OutputTypesStep ==
    ASSUME ConnInv, Next
    PROVE  OutputTypes'
<1>0. OutputTypes
  BY DEF ConnInv, TypeOK
<1>1. CASE UNCHANGED outputVars
  BY <1>0, <1>1 DEF OutputTypes, outputVars, outputQueue, flags
<1>2. CASE OnOpen \/ HandleContinueMessage \/ InputJoined \/ InputExit \/ Spurious
  BY <1>0, <1>2 DEF OutputTypes, OnOpen, HandleContinueMessage, InputJoined, InputExit, Spurious,
                    outputQueue, flags, Woken
<1>3. CASE OutputData
  <2>1. outputMessages' \in Seq(Payload)
    BY <1>0, <1>3, TailFacts DEF OutputTypes, OutputData, CanSend, ConnInv, CachesAgree
  <2> QED
    BY <1>0, <1>3, <2>1 DEF OutputTypes, OutputData
<1>4. CASE OutputStep /\ ~OutputData
  BY <1>0, <1>4 DEF OutputTypes, OutputStep, OutputLoop, OutputSleep, OutputMustEnd, OutputEnd,
                    OutputExit, outputQueue, flags
<1>5. CASE ResultStep \/ (\E r \in {Foreign, Empty} : OnForeignResult(r))
  <2>1. PICK r \in Payload : OnResult(r)
    BY <1>5, ResultCases
  <2>2. outputMessages' \in Seq(Payload)
    BY <1>0, <2>1, AppendFacts DEF OutputTypes, OnResult, SendData, outputQueue
  <2> QED
    BY <1>0, <2>1, <2>2 DEF OutputTypes, OnResult, SendData, Woken, outputQueue, flags
<1> QED
  BY <1>1, <1>2, <1>3, <1>4, <1>5, OutputFrame

\* States and control points keep their types.
LEMMA OtherTypesStep ==
    ASSUME ConnInv, Next
    PROVE  OtherTypes'
<1>0. OtherTypes
  BY DEF ConnInv, TypeOK
<1> USE <1>0 DEF OtherTypes, info
<1>1. CASE IoStep
  BY <1>1 DEF IoStep, OnOpen, OnRefused, OnStart, SendReady, OnQueued, HandleMessage,
              HandleContinueMessage, OnClose, DestroyJob, ConnectionState
<1>2. CASE InputStep
  BY <1>2 DEF InputStep, InputLoop, InputSleep, InputData, InputEnd, InputWithoutJob, Pop,
              InputJoined, InputExit, otherVars
<1>3. CASE OutputStep
  BY <1>3 DEF OutputStep, OutputLoop, OutputSleep, OutputData, OutputMustEnd, OutputEnd,
              OutputExit, otherVars, ConnectionState
<1>4. CASE JobStep \/ JobThrows \/ UseAfterDestroy \/ Spurious
  BY <1>4 DEF JobStep, JobThrows, UseAfterDestroy, Spurious, connVars, otherVars
<1>5. CASE ResultStep \/ (\E r \in {Foreign, Empty} : OnForeignResult(r))
  BY <1>5, ResultCases DEF OnResult, otherVars
<1> QED
  BY <1>1, <1>2, <1>3, <1>4, <1>5 DEF Next

\* The histories keep their types.
LEMMA HistoryTypesStep ==
    ASSUME ConnInv, Next
    PROVE  HistoryTypes'
<1>0. HistoryTypes
  BY DEF ConnInv, TypeOK
<1>1. accepted' \in 0..MaxData /\ endAt' \in 0..NoEnd
  <2>1. CASE UNCHANGED <<accepted, endAt>>
    BY <1>0, <2>1 DEF HistoryTypes
  <2>2. CASE HandleMessage
    BY <1>0, <2>2, Pushed, Counters, JobAssumption DEF HistoryTypes, NoEnd
  <2> QED
    BY <2>1, <2>2, HistoryFrame
<1>2. continues' \in Nat
  <2>1. continues \in Nat
    BY <1>0 DEF HistoryTypes
  <2>2. CASE HandleContinueMessage
    <3>1. continues' = continues + 1
      BY <2>2, Zenon DEF HandleContinueMessage
    <3> QED
      BY <2>1, <3>1
  <2> QED
    BY <2>1, <2>2, HistoryFrame
<1>3. endsSent' \in Nat
  BY <1>0, HistoryFrame DEF HistoryTypes, OutputEnd
<1>4. sent' \in Seq(Payload)
  <2>1. CASE OutputData
    <3>1. Head(outputMessages) \in Payload
      BY <2>1, TailFacts DEF OutputData, CanSend, ConnInv, CachesAgree, TypeOK, OutputTypes
    <3> QED
      BY <1>0, <2>1, <3>1, AppendFacts DEF HistoryTypes, OutputData
  <2> QED
    BY <1>0, <2>1, HistoryFrame DEF HistoryTypes
<1> QED
  BY <1>1, <1>2, <1>3, <1>4 DEF HistoryTypes

\* Both emptiness flags are set with every push and every pop.
LEMMA CachesAgreeStep ==
    ASSUME ConnInv, Next
    PROVE  CachesAgree'
<1>0. CachesAgree
  BY DEF ConnInv
<1>1. isInputQueueEmpty' <=> inputMessages' = <<>>
  <2>1. CASE UNCHANGED inputVars
    BY <1>0, <2>1 DEF CachesAgree, inputVars, inputQueue
  <2>2. CASE OnOpen \/ Spurious
    BY <1>0, <2>2 DEF CachesAgree, OnOpen, Spurious, inputQueue
  <2>3. CASE HandleMessage
    BY <2>3, Pushed, AppendFacts DEF ConnInv, TypeOK, InputTypes, HandleMessage
  <2>4. ASSUME NEW type, Pop(type)
        PROVE  isInputQueueEmpty' <=> inputMessages' = <<>>
    BY <2>4, Zenon DEF Pop
  <2>5. CASE InputLoop \/ InputSleep \/ InputJoined \/ InputExit
    BY <1>0, <2>5 DEF CachesAgree, InputLoop, InputSleep, InputJoined, InputExit, inputQueue
  <2> QED
    BY <2>1, <2>2, <2>3, <2>4, <2>5, InputFrame, Zenon
       DEF InputStep, InputData, InputEnd, InputWithoutJob
<1>2. isOutputQueueEmpty' <=> outputMessages' = <<>>
  <2>1. CASE UNCHANGED outputVars
    BY <1>0, <2>1 DEF CachesAgree, outputVars, outputQueue
  <2>2. CASE OnOpen \/ HandleContinueMessage \/ InputJoined \/ InputExit \/ Spurious
    BY <1>0, <2>2 DEF CachesAgree, OnOpen, HandleContinueMessage, InputJoined, InputExit,
                      Spurious, outputQueue
  <2>3. CASE OutputStep
    <3>1. CASE OutputData
      BY <3>1, Zenon DEF OutputData
    <3>2. CASE ~OutputData
      BY <1>0, <2>3, <3>2 DEF CachesAgree, OutputStep, OutputLoop, OutputSleep, OutputMustEnd,
                              OutputEnd, OutputExit, outputQueue
    <3> QED
      BY <3>1, <3>2
  <2>4. CASE ResultStep \/ (\E r \in {Foreign, Empty} : OnForeignResult(r))
    <3>1. PICK r \in Payload : OnResult(r)
      BY <2>4, ResultCases
    <3> QED
      BY <1>0, <3>1, AppendFacts DEF CachesAgree, OnResult, SendData, outputQueue, ConnInv,
           TypeOK, OutputTypes
  <2> QED
    BY <2>1, <2>2, <2>3, <2>4, OutputFrame
<1> QED
  BY <1>1, <1>2 DEF CachesAgree

-----------------------------------------------------------------------------
(***************************************************************************)
(* Control points.                                                         *)
(***************************************************************************)

\* The job's thread, once done, stays done, and only JobThrows kills it.
LEMMA ThreadFrame ==
    ASSUME ConnInv, Next
    PROVE  /\ thread = "done" => thread' = "done"
           /\ thread # "none" => thread' # "none"
           /\ thread' = "uncaught" => thread = "uncaught" \/ JobThrows
<1> USE DEF jobVars, NotifyJob, Goto
<1>1. CASE IoStep
  BY <1>1 DEF IoStep, OnOpen, OnRefused, OnStart, Construct, SendReady, OnQueued, HandleMessage,
              HandleContinueMessage, OnClose, DestroyJob
<1>2. CASE InputStep
  BY <1>2 DEF InputStep, InputLoop, InputSleep, InputData, InputEnd, InputWithoutJob,
              InputJoined, InputExit, process, stopJob
<1>3. CASE OutputStep
  BY <1>3 DEF OutputStep, OutputLoop, OutputSleep, OutputData, OutputMustEnd, OutputEnd,
              OutputExit
<1>4. CASE JobStep
  BY <1>4 DEF JobStep, ProcessingStep, Subscribe, Loop, Wait, readData, Acknowledge,
              NotifyInputData, NotifyThrows, AwaitResult, NotifyEndOfJob
<1>5. CASE JobThrows \/ UseAfterDestroy \/ Spurious
  BY <1>5 DEF JobThrows, EndOfJobThrows, UseAfterDestroy, Spurious, SpuriousWakeup
<1>6. CASE ResultStep \/ (\E r \in {Foreign, Empty} : OnForeignResult(r))
  BY <1>6, ResultCases DEF ResultCallback
<1> QED
  BY <1>1, <1>2, <1>3, <1>4, <1>5, <1>6 DEF Next

\* Threads that were started stay started.
LEMMA StartedStep ==
    ASSUME ConnInv, Next
    PROVE  Started'
<1>0. Started
  BY DEF ConnInv
<1>1. isStopJobSignaled' => thread' # "none"
  <2>1. CASE UNCHANGED isStopJobSignaled
    BY <1>0, <2>1, ThreadFrame DEF Started
  <2>2. CASE InputData \/ InputEnd
    BY <2>2, ThreadFrame DEF InputData, InputEnd, process, stopJob
  <2> QED
    BY <2>1, <2>2, SubmitFrame
<1>2. conn' # "absent" => conn # "absent" \/ OnOpen
  <2>1. CASE IoStep
    BY <2>1 DEF IoStep, OnRefused, OnStart, OnMessage, Live, SendReady, OnQueued, HandleMessage,
                HandleContinueMessage, OnClose, DestroyJob
  <2>2. CASE InputStep
    BY <2>2 DEF InputStep, InputLoop, InputSleep, InputData, InputEnd, InputWithoutJob, Pop, Live,
                InputJoined, InputExit
  <2>3. CASE OutputStep
    BY <2>3 DEF OutputStep, OutputLoop, OutputSleep, OutputData, OutputMustEnd, OutputEnd,
                OutputExit, Live
  <2>4. CASE JobStep \/ JobThrows \/ UseAfterDestroy
    BY <2>4 DEF JobStep, JobThrows, UseAfterDestroy, Live
  <2>5. CASE Spurious
    BY <2>5 DEF Spurious, otherVars
  <2>6. CASE ResultStep \/ (\E r \in {Foreign, Empty} : OnForeignResult(r))
    BY <2>6, ResultCases DEF OnResult, Live
  <2> QED
    BY <2>1, <2>2, <2>3, <2>4, <2>5, <2>6 DEF Next
<1>3. input # "none" \/ OnOpen => input' # "none"
  BY InputFrame DEF inputVars, OnOpen, HandleMessage, Woken, InputStep, InputLoop, InputSleep,
     InputData, InputEnd, InputWithoutJob, Pop, InputJoined, InputExit, Spurious
<1>4. output # "none" \/ OnOpen => output' # "none"
  <2>1. CASE UNCHANGED outputVars \/ OnOpen \/ HandleContinueMessage \/ InputJoined \/ InputExit
             \/ OutputStep \/ Spurious
    BY <2>1 DEF outputVars, OnOpen, HandleContinueMessage, Woken, InputJoined, InputExit, OutputStep,
                OutputLoop, OutputSleep, OutputData, OutputMustEnd, OutputEnd, OutputExit, Spurious
  <2>2. CASE ResultStep \/ (\E r \in {Foreign, Empty} : OnForeignResult(r))
    <3>1. PICK r \in Payload : OnResult(r)
      BY <2>2, ResultCases
    <3>2. ~OnOpen
      BY <3>1 DEF OnResult, OnOpen, Live
    <3>3. CASE r = Empty
      BY <3>1, <3>2, <3>3 DEF OnResult, SendData
    <3>4. CASE r # Empty
      BY <3>1, <3>2, <3>4 DEF OnResult, SendData, Woken
    <3> QED
      BY <3>3, <3>4
  <2> QED
    BY <2>1, <2>2, OutputFrame
<1> QED
  BY <1>0, <1>1, <1>2, <1>3, <1>4 DEF Started

\* A fault is final.
LEMMA FaultFrame ==
    ASSUME ConnInv, Next
    PROVE  fault # "none" => fault' = fault
<1> USE DEF Live
<1>1. CASE IoStep
  BY <1>1 DEF IoStep, OnOpen, OnRefused, OnStart, OnMessage, SendReady, OnQueued, HandleMessage,
              HandleContinueMessage, OnClose, DestroyJob
<1>2. CASE InputStep
  BY <1>2 DEF InputStep, InputLoop, InputSleep, InputData, InputEnd, InputWithoutJob, Pop,
              InputJoined, InputExit
<1>3. CASE OutputStep
  BY <1>3 DEF OutputStep, OutputLoop, OutputSleep, OutputData, OutputMustEnd, OutputEnd,
              OutputExit
<1>4. CASE JobStep \/ JobThrows \/ UseAfterDestroy \/ Spurious
  BY <1>4 DEF JobStep, JobThrows, UseAfterDestroy, Spurious
<1>5. CASE ResultStep \/ (\E r \in {Foreign, Empty} : OnForeignResult(r))
  BY <1>5, ResultCases DEF OnResult
<1> QED
  BY <1>1, <1>2, <1>3, <1>4, <1>5 DEF Next

\* The control points and the flags move together.
LEMMA ControlStep ==
    ASSUME ConnInv, Next
    PROVE  Control'
<1>0. Control
  BY DEF ConnInv
<1>1. thread' = "uncaught" => fault' = "uncaught"
  BY <1>0, ThreadFrame, FaultFrame DEF Control, JobThrows
<1> USE <1>0, <1>1, ThreadFrame DEF Control, Live, inputVars, outputVars, otherVars, flags, info,
        client, wire, jobVars
<1>2. CASE IoStep
  <2>1. CASE OnOpen \/ SendReady \/ OnClose \/ DestroyJob
    BY <2>1 DEF OnOpen, SendReady, OnClose, DestroyJob
  <2>2. CASE HandleMessage \/ HandleContinueMessage
    BY <2>2 DEF HandleMessage, HandleContinueMessage, OutputLocked, InputLocked, Woken, OnMessage
  <2>3. ASSUME NEW id, OnStart(id)
        PROVE  Control'
    BY <2>3 DEF OnStart, Construct, queueVars, OnMessage
  <2>4. ASSUME NEW type, OnRefused(type) \/ OnQueued(type)
        PROVE  Control'
    BY <2>4 DEF OnRefused, OnQueued, OnMessage
  <2> QED
    BY <1>2, <2>1, <2>2, <2>3, <2>4 DEF IoStep
<1>3. CASE InputStep
  <2>1. CASE InputLoop \/ InputSleep
    BY <2>1 DEF InputLoop, InputSleep
  <2>2. CASE InputJoined \/ InputExit
    BY <2>2 DEF InputJoined, InputExit, Joinable, OutputLocked, Woken
  <2>3. CASE InputData
    BY <2>3 DEF InputData, Pop, process
  <2>4. CASE InputEnd
    BY <2>4 DEF InputEnd, Pop, stopJob
  <2>5. CASE InputWithoutJob
    BY <2>5 DEF InputWithoutJob, Pop
  <2> QED
    BY <1>3, <2>1, <2>2, <2>3, <2>4, <2>5 DEF InputStep
<1>4. CASE OutputStep
  <2>1. CASE OutputLoop \/ OutputSleep \/ OutputMustEnd
    BY <2>1 DEF OutputLoop, OutputSleep, OutputMustEnd, CanEnd
  <2>2. CASE OutputData
    BY <2>2 DEF OutputData
  <2>3. CASE OutputEnd \/ OutputExit
    BY <2>3 DEF OutputEnd, OutputExit
  <2> QED
    BY <1>4, <2>1, <2>2, <2>3 DEF OutputStep
<1>5. CASE JobStep \/ JobThrows
  <2>1. UNCHANGED <<connVars, isStopJobSignaled>> \/ (JobThrows /\ UNCHANGED isStopJobSignaled)
    BY <1>5, SubmitFrame DEF JobStep, JobThrows, connVars, ProcessingStep, EndOfJobThrows,
       Subscribe, Loop, Wait, readData, Acknowledge, NotifyInputData, NotifyThrows, AwaitResult,
       NotifyEndOfJob, queueVars
  <2> QED
    BY <2>1 DEF JobThrows, connVars
<1>6. CASE ResultStep \/ (\E r \in {Foreign, Empty} : OnForeignResult(r))
  <2>1. PICK r \in Payload : OnResult(r) /\ ResultCallback(r)
    BY <1>6, ResultCases
  <2>2. UNCHANGED isStopJobSignaled
    BY <1>6 DEF ResultStep, OnOwnResult, OwnResult, OnForeignResult, ForeignResult, queueVars
  <2> QED
    BY <2>1, <2>2 DEF OnResult, SendData, OutputLocked, Woken
<1>7. CASE Spurious
  BY <1>7 DEF Spurious, SpuriousWakeup, queueVars
<1>8. CASE UseAfterDestroy
  BY <1>8 DEF UseAfterDestroy
<1> QED
  BY <1>2, <1>3, <1>4, <1>5, <1>6, <1>7, <1>8 DEF Next

-----------------------------------------------------------------------------
(***************************************************************************)
(* The input queue.                                                        *)
(***************************************************************************)

\* The Data payloads of the input queue are numbers.
LEMMA Elements ==
    ASSUME ConnInv, NEW i \in 1..Len(inputMessages)
    PROVE  /\ inputMessages[i] \in Message
           /\ IsData(i) => inputMessages[i].payload \in Data
<1>1. inputMessages[i] \in Message
  BY ElementOfSeq DEF ConnInv, TypeOK, InputTypes
<1> QED
  BY <1>1 DEF Message, IsData

\* What popping a message leaves of the input queue.
LEMMA Popped ==
    ASSUME ConnInv, NEW type, Pop(type)
    PROVE  /\ Len(inputMessages) \in Nat /\ Len(inputMessages) > 0
           /\ inputMessages[1].type = type
           /\ Len(inputMessages') = Len(inputMessages) - 1
           /\ \A i \in 1..Len(inputMessages') : inputMessages'[i] = inputMessages[i + 1]
           /\ accepted' = accepted /\ endAt' = endAt
<1>1. inputMessages \in Seq(Message) /\ inputMessages # <<>>
  BY DEF ConnInv, TypeOK, InputTypes, CachesAgree, Pop
<1>2. inputMessages' = Tail(inputMessages) /\ Head(inputMessages).type = type
  BY DEF Pop
<1>3. accepted' = accepted /\ endAt' = endAt
  BY DEF Pop, client
<1> QED
  BY <1>1, <1>2, <1>3, TailFacts, LenProperties

\* The steps that change what Feed and Ends speak of.
LEMMA FeedFrame ==
    ASSUME ConnInv, Next
    PROVE  \/ UNCHANGED <<inputMessages, submitted, accepted, endAt, isStopJobSignaled>>
           \/ (HandleMessage /\ UNCHANGED <<submitted, isStopJobSignaled>>)
           \/ InputData \/ InputEnd
           \/ (InputWithoutJob /\ UNCHANGED <<submitted, isStopJobSignaled>>)
<1>1. CASE InputStep /\ ~InputData /\ ~InputEnd /\ ~InputWithoutJob
  BY <1>1, SubmitFrame DEF InputStep, InputLoop, InputSleep, InputJoined, InputExit, inputQueue,
                           otherVars, client
<1>2. CASE OnOpen \/ Spurious
  BY <1>2, SubmitFrame, HistoryFrame DEF OnOpen, Spurious, InputData, InputEnd, Pop, inputQueue,
                                         otherVars, client
<1>3. CASE UNCHANGED inputVars
  <2>1. ~HandleMessage /\ ~InputData /\ ~InputEnd
    <3>1. ASSUME HandleMessage PROVE FALSE
      BY <1>3, <3>1, Pushed, AppendFacts DEF ConnInv, TypeOK, InputTypes, inputVars, inputQueue
    <3>2. ASSUME InputData \/ InputEnd PROVE FALSE
      BY <1>3, <3>2 DEF InputData, InputEnd, Pop, inputVars
    <3> QED
      BY <3>1, <3>2
  <2> QED
    BY <1>3, <2>1, SubmitFrame, HistoryFrame DEF inputVars, inputQueue
<1>4. CASE HandleMessage
  BY <1>4, SubmitFrame
<1>5. CASE InputWithoutJob
  BY <1>5 DEF InputWithoutJob, jobVars
<1> QED
  BY <1>1, <1>2, <1>3, <1>4, <1>5, InputFrame

\* A Data message is queued only below the bound, and not before Ready.
LEMMA QueuedFrame ==
    ASSUME ConnInv, Next, io' = "Data"
    PROVE  accepted' = accepted /\ accepted < MaxData /\ state # "socket_opened"
<1>1. ~HandleMessage
  BY DEF HandleMessage
<1>2. CASE UNCHANGED io
  BY <1>1, <1>2, HistoryFrame DEF ConnInv, Feed, Early
<1>3. CASE OnQueued("Data")
  <2>1. accepted' = accepted
    BY <1>1, HistoryFrame
  <2>2. accepted < MaxData
    BY <1>3 DEF OnQueued
  <2>3. ~(Rank[state] <= Rank["socket_opened"])
    BY <1>3, Zenon DEF OnQueued, OnMessage, Refused
  <2>4. state # "socket_opened"
    BY <2>3 DEF Rank
  <2> QED
    BY <2>1, <2>2, <2>4
<1>4. UNCHANGED io \/ OnQueued("Data")
  <2>1. CASE IoStep
    BY <1>1, <2>1 DEF IoStep, OnOpen, OnRefused, OnStart, SendReady, OnQueued,
                      HandleContinueMessage, OnClose, DestroyJob
  <2>2. CASE InputStep
    BY <2>2 DEF InputStep, InputLoop, InputSleep, InputData, InputEnd, InputWithoutJob, Pop,
                InputJoined, InputExit, otherVars
  <2>3. CASE OutputStep
    BY <2>3 DEF OutputStep, OutputLoop, OutputSleep, OutputData, OutputMustEnd, OutputEnd,
                OutputExit, otherVars
  <2>4. CASE JobStep \/ JobThrows \/ UseAfterDestroy \/ Spurious
    BY <2>4 DEF JobStep, JobThrows, UseAfterDestroy, Spurious, connVars, otherVars
  <2>5. CASE ResultStep \/ (\E r \in {Foreign, Empty} : OnForeignResult(r))
    BY <2>5, ResultCases DEF OnResult, otherVars
  <2> QED
    BY <2>1, <2>2, <2>3, <2>4, <2>5 DEF Next
<1> QED
  BY <1>2, <1>3, <1>4

\* A push adds the next payload at the end, a pop submits the one at the front.
LEMMA FeedStep ==
    ASSUME ConnInv, Next
    PROVE  Feed'
<1>0. Feed
  BY DEF ConnInv
<1>1. io' = "Data" => accepted' < MaxData
  BY QueuedFrame
<1>2. CASE UNCHANGED <<inputMessages, submitted, accepted, endAt, isStopJobSignaled>>
  BY <1>0, <1>1, <1>2 DEF Feed, IsData
<1>3. CASE HandleMessage /\ UNCHANGED <<submitted, isStopJobSignaled>>
  <2>1. PICK msg \in Message :
              /\ inputMessages' = Append(inputMessages, msg)
              /\ IF io = "Data"
                 THEN /\ msg.type = "Data" /\ msg.payload = accepted + 1
                      /\ accepted' = accepted + 1
                      /\ accepted < MaxData
                 ELSE /\ msg.type = "End"
                      /\ accepted' = accepted
    BY <1>3, Pushed
  <2> DEFINE n == Len(inputMessages)
  <2>2. /\ n \in Nat /\ Len(inputMessages') = n + 1
        /\ \A i \in 1..n : inputMessages'[i] = inputMessages[i]
        /\ inputMessages'[n + 1] = msg
    BY <2>1, AppendFacts, Lengths DEF ConnInv, TypeOK, InputTypes
  <2>3. \A i \in 1..n : IsData(i) => inputMessages[i].payload \in Nat
                                     /\ inputMessages[i].payload <= accepted
    BY <1>0, Elements DEF Feed, Data
  <2> HIDE DEF n
  <2>4. submitted' <= accepted'
    BY <1>0, <1>3, <2>1, Counters DEF Feed
  <2>5. \A i \in 1..(n + 1) : inputMessages'[i].type = "Data" =>
            submitted' < inputMessages'[i].payload /\ inputMessages'[i].payload <= accepted'
    <3>1. ASSUME NEW i \in 1..n, inputMessages'[i].type = "Data"
          PROVE  submitted' < inputMessages'[i].payload /\ inputMessages'[i].payload <= accepted'
      BY <1>0, <1>3, <2>1, <2>2, <2>3, <3>1, Counters DEF Feed, IsData, n
    <3>2. msg.type = "Data" => submitted' < msg.payload /\ msg.payload <= accepted'
      BY <1>0, <1>3, <2>1, Counters DEF Feed
    <3> QED
      BY <2>2, <3>1, <3>2
  <2>6. \A i, j \in 1..(n + 1) :
            i < j /\ inputMessages'[i].type = "Data" /\ inputMessages'[j].type = "Data" =>
              inputMessages'[i].payload < inputMessages'[j].payload
    <3>1. ASSUME NEW i \in 1..(n + 1), NEW j \in 1..(n + 1), i < j,
                 inputMessages'[i].type = "Data", inputMessages'[j].type = "Data"
          PROVE  inputMessages'[i].payload < inputMessages'[j].payload
      <4>1. i \in 1..n
        BY <2>2, <3>1
      <4>2. CASE j \in 1..n
        BY <1>0, <2>2, <3>1, <4>1, <4>2 DEF Feed, IsData, n
      <4>3. CASE j = n + 1
        BY <2>1, <2>2, <2>3, <3>1, <4>1, <4>3, Counters DEF IsData
      <4> QED
        BY <2>2, <4>2, <4>3
    <3> QED
      BY <3>1
  <2>7. ASSUME NEW k \in Data, submitted' < k, k <= accepted'
        PROVE  \E i \in 1..(n + 1) : inputMessages'[i].type = "Data"
                                     /\ inputMessages'[i].payload = k
    <3>1. CASE k <= accepted
      <4>1. PICK i \in 1..n : IsData(i) /\ inputMessages[i].payload = k
        BY <1>0, <1>3, <2>7, <3>1 DEF Feed, n
      <4> QED
        BY <2>2, <4>1 DEF IsData
    <3>2. CASE ~(k <= accepted)
      <4>1. msg.type = "Data" /\ msg.payload = k
        BY <2>1, <2>7, <3>2, Counters DEF Data
      <4> QED
        BY <2>2, <4>1
    <3> QED
      BY <3>1, <3>2
  <2> QED
    BY <1>1, <2>2, <2>4, <2>5, <2>6, <2>7 DEF Feed, IsData
<1>4. ASSUME NEW type, Pop(type), submitted' \in Nat,
             \/ type = "End" /\ submitted' = submitted
             \/ type = "Data" /\ submitted' = submitted + 1
      PROVE  Feed'
  <2> DEFINE n == Len(inputMessages)
  <2>1. /\ n \in Nat /\ n > 0 /\ inputMessages[1].type = type
        /\ Len(inputMessages') = n - 1
        /\ \A i \in 1..(n - 1) : inputMessages'[i] = inputMessages[i + 1]
        /\ accepted' = accepted
    BY <1>4, Popped
  <2>2. \A i \in 1..(n - 1) : i + 1 \in 1..n /\ 1 < i + 1
    BY <2>1
  <2>3. type = "Data" => inputMessages[1].payload = submitted + 1 /\ submitted < MaxData
    BY <1>4, FrontIsNext, <2>1, TailFacts DEF ConnInv, TypeOK, InputTypes, CachesAgree, Pop
  <2>4. \A i \in 1..n : IsData(i) => inputMessages[i].payload \in Nat
    BY Elements DEF Data
  <2> HIDE DEF n
  <2>5. submitted' <= accepted'
    <3>1. type = "Data" => submitted + 1 <= accepted
      BY <1>0, <2>1, <2>3 DEF Feed, IsData, n
    <3> QED
      BY <1>0, <1>4, <2>1, <3>1 DEF Feed
  <2>6. ASSUME NEW i \in 1..(n - 1), inputMessages'[i].type = "Data"
        PROVE  submitted' < inputMessages'[i].payload /\ inputMessages'[i].payload <= accepted'
    <3>1. IsData(i + 1) /\ inputMessages'[i].payload = inputMessages[i + 1].payload
      BY <2>1, <2>6 DEF IsData
    <3>2. submitted < inputMessages[i + 1].payload /\ inputMessages[i + 1].payload <= accepted
      BY <1>0, <2>2, <3>1 DEF Feed, n
    <3>3. type = "Data" => submitted + 1 < inputMessages[i + 1].payload
      <4>1. 1 \in 1..n
        BY <2>1
      <4> QED
        BY <1>0, <2>1, <2>2, <2>3, <3>1, <4>1 DEF Feed, IsData, n
    <3> QED
      BY <1>4, <2>1, <3>1, <3>2, <3>3
  <2>7. ASSUME NEW i \in 1..(n - 1), NEW j \in 1..(n - 1), i < j,
               inputMessages'[i].type = "Data", inputMessages'[j].type = "Data"
        PROVE  inputMessages'[i].payload < inputMessages'[j].payload
    <3>1. i + 1 \in 1..n /\ j + 1 \in 1..n /\ i + 1 < j + 1
      BY <2>1, <2>2, <2>7
    <3>2. IsData(i + 1) /\ IsData(j + 1)
      BY <2>1, <2>7 DEF IsData
    <3>3. inputMessages[i + 1].payload < inputMessages[j + 1].payload
      BY <1>0, <3>1, <3>2 DEF Feed, n
    <3> QED
      BY <2>1, <3>3
  <2>8. ASSUME NEW k \in Data, submitted' < k, k <= accepted'
        PROVE  \E i \in 1..(n - 1) : inputMessages'[i].type = "Data"
                                     /\ inputMessages'[i].payload = k
    <3>1. submitted < k
      BY <1>4, <2>8, Counters DEF Data
    <3>2. PICK i \in 1..n : IsData(i) /\ inputMessages[i].payload = k
      BY <1>0, <2>1, <2>8, <3>1 DEF Feed, n
    <3>3. i # 1
      BY <1>4, <2>1, <2>3, <2>8, <3>2, Counters DEF IsData, Data
    <3>4. i - 1 \in 1..(n - 1) /\ (i - 1) + 1 = i
      BY <2>1, <3>3
    <3> QED
      BY <2>1, <3>2, <3>4 DEF IsData
  <2> QED
    BY <1>1, <2>1, <2>5, <2>6, <2>7, <2>8 DEF Feed, IsData
<1>5. CASE InputData
  <2>1. submitted' = submitted + 1 /\ submitted' \in Nat
    BY <1>5, Counters DEF InputData, process
  <2> QED
    BY <1>4, <1>5, <2>1 DEF InputData
<1>6. CASE InputEnd
  <2>1. submitted' = submitted /\ submitted' \in Nat
    BY <1>6, Counters DEF InputEnd, stopJob
  <2> QED
    BY <1>4, <1>6, <2>1 DEF InputEnd
<1>7. CASE InputWithoutJob /\ UNCHANGED <<submitted, isStopJobSignaled>>
  <2>1. PICK type \in {"Data", "End"} : Pop(type)
    BY <1>7 DEF InputWithoutJob
  <2>2. type # "Data"
    <3>1. accepted = 0
      BY <1>7 DEF InputWithoutJob, ConnInv, Early
    <3>2. type = "Data" => IsData(1) /\ 1 \in 1..Len(inputMessages)
      BY <2>1, Popped DEF IsData
    <3> QED
      BY <1>0, <3>1, <3>2, Counters, Elements DEF Feed, Data
  <2> QED
    BY <1>4, <1>7, <2>1, <2>2, Counters
<1> QED
  BY <1>2, <1>3, <1>5, <1>6, <1>7, FeedFrame

\* The End at the front is the first one and is reached with endAt payloads submitted.
LEMMA EndReached ==
    ASSUME ConnInv, Pop("End"), ~isStopJobSignaled
    PROVE  submitted = endAt
<1>1. Ends /\ Feed /\ fault = "none"
  BY DEF ConnInv, Pop, Live
<1>2. 1 \in 1..Len(inputMessages) /\ ~IsData(1)
  BY Popped DEF IsData
<1>3. endAt # NoEnd
  BY <1>1, <1>2 DEF Ends
<1>4. submitted <= endAt /\ endAt <= accepted
  BY <1>1, <1>3 DEF Ends
<1>5. ASSUME submitted < endAt
      PROVE  FALSE
  <2>1. submitted + 1 \in Data /\ submitted < submitted + 1 /\ submitted + 1 <= accepted
    BY <1>4, <1>5, Counters DEF Data
  <2>2. PICK j \in 1..Len(inputMessages) :
           IsData(j) /\ inputMessages[j].payload = submitted + 1
    BY <1>1, <2>1 DEF Feed
  <2>3. 1 < j
    BY <1>2, <2>2, Lengths
  <2>4. endAt < inputMessages[j].payload
    BY <1>1, <1>2, <2>2, <2>3 DEF Ends
  <2> QED
    BY <1>4, <1>5, <2>2, <2>4, Counters
<1> QED
  BY <1>4, <1>5, Counters

\* A push of the first End records where it stands; submitting data does not pass it.
LEMMA EndsStep ==
    ASSUME ConnInv, Next
    PROVE  Ends'
<1>0. Ends /\ (fault' # "null_job" => fault # "null_job")
  BY FaultFrame DEF ConnInv
<1>2. CASE UNCHANGED <<inputMessages, submitted, accepted, endAt, isStopJobSignaled>>
  BY <1>0, <1>2 DEF Ends, IsData
<1>3. CASE HandleMessage /\ UNCHANGED <<submitted, isStopJobSignaled>>
  <2>1. PICK msg \in Message :
              /\ inputMessages' = Append(inputMessages, msg)
              /\ IF io = "Data"
                 THEN /\ msg.type = "Data" /\ msg.payload = accepted + 1
                      /\ accepted' = accepted + 1 /\ endAt' = endAt
                      /\ accepted < MaxData
                 ELSE /\ msg.type = "End"
                      /\ accepted' = accepted
                      /\ endAt' = IF endAt = NoEnd THEN accepted ELSE endAt
    BY <1>3, Pushed
  <2> DEFINE n == Len(inputMessages)
  <2>2. /\ n \in Nat /\ Len(inputMessages') = n + 1
        /\ \A i \in 1..n : inputMessages'[i] = inputMessages[i]
        /\ inputMessages'[n + 1] = msg
    BY <2>1, AppendFacts, Lengths DEF ConnInv, TypeOK, InputTypes
  <2>3. \A i \in 1..n : IsData(i) => inputMessages[i].payload \in Nat
                                     /\ inputMessages[i].payload <= accepted
    BY Elements DEF ConnInv, Feed, Data
  <2>4. NoEnd = MaxData + 1 /\ submitted <= accepted
    BY DEF NoEnd, ConnInv, Feed
  <2> HIDE DEF n
  <2>5. endAt' # NoEnd => endAt' <= accepted'
    BY <1>0, <2>1, <2>4, Counters DEF Ends
  <2>6. endAt' = NoEnd => endAt = NoEnd /\ msg.type = "Data"
    BY <2>1, <2>4, Counters
  <2>7. endAt' = NoEnd => \A i \in 1..(n + 1) : inputMessages'[i].type = "Data"
    BY <1>0, <2>2, <2>6 DEF Ends, IsData, n
  <2>8. ASSUME NEW i \in 1..(n + 1), NEW j \in 1..(n + 1), i < j,
               inputMessages'[i].type # "Data", inputMessages'[j].type = "Data"
        PROVE  endAt' < inputMessages'[j].payload
    <3>1. i \in 1..n /\ ~IsData(i)
      BY <2>2, <2>8 DEF IsData
    <3>2. endAt # NoEnd /\ endAt' = endAt
      BY <1>0, <2>1, <3>1 DEF Ends, n
    <3>3. CASE j \in 1..n
      BY <1>0, <2>2, <2>8, <3>1, <3>2, <3>3 DEF Ends, IsData, n
    <3>4. CASE j = n + 1
      BY <1>0, <2>1, <2>2, <2>8, <3>2, <3>4, Counters DEF Ends
    <3> QED
      BY <2>2, <3>3, <3>4
  <2>9. ASSUME endAt' # NoEnd, ~isStopJobSignaled', fault' # "null_job"
        PROVE  /\ submitted' <= endAt'
               /\ \E i \in 1..(n + 1) :
                    /\ inputMessages'[i].type # "Data"
                    /\ \A j \in 1..(i - 1) : inputMessages'[j].type = "Data" =>
                                                inputMessages'[j].payload <= endAt'
    <3>1. CASE endAt # NoEnd
      <4>1. endAt' = endAt
        BY <2>1, <3>1
      <4>2. PICK i \in 1..n : ~IsData(i) /\ \A j \in 1..(i - 1) : IsData(j) =>
                                                inputMessages[j].payload <= endAt
        BY <1>0, <1>3, <2>9, <3>1 DEF Ends, n
      <4>3. \A j \in 1..(i - 1) : j \in 1..n
        BY <2>2
      <4>4. submitted' <= endAt'
        BY <1>0, <1>3, <2>9, <3>1, <4>1 DEF Ends
      <4> QED
        BY <2>2, <4>1, <4>2, <4>3, <4>4 DEF IsData
    <3>2. CASE endAt = NoEnd
      <4>1. msg.type # "Data" /\ endAt' = accepted
        BY <2>1, <2>9, <3>2
      <4>2. submitted' <= endAt'
        BY <1>3, <2>4, <4>1
      <4>3. n + 1 \in 1..(n + 1) /\ (n + 1) - 1 = n
        BY <2>2
      <4>4. \A j \in 1..n : inputMessages'[j].type = "Data" => inputMessages'[j].payload <= endAt'
        BY <2>2, <2>3, <4>1 DEF IsData
      <4> QED
        BY <2>2, <4>1, <4>2, <4>3, <4>4
    <3> QED
      BY <3>1, <3>2
  <2>10. isStopJobSignaled' => submitted' = endAt'
    BY <1>0, <1>3, <2>1, <2>4, Counters DEF Ends
  <2> QED
    BY <2>2, <2>5, <2>7, <2>8, <2>9, <2>10 DEF Ends, IsData
<1>4. ASSUME NEW type, Pop(type)
      PROVE  /\ endAt' # NoEnd => endAt' <= accepted'
             /\ endAt' = NoEnd => \A i \in 1..Len(inputMessages') : IsData(i)'
             /\ \A i, j \in 1..Len(inputMessages') : i < j /\ ~IsData(i)' /\ IsData(j)' =>
                   endAt' < inputMessages'[j].payload
  <2> DEFINE n == Len(inputMessages)
  <2>1. /\ n \in Nat /\ n > 0
        /\ Len(inputMessages') = n - 1
        /\ \A i \in 1..(n - 1) : inputMessages'[i] = inputMessages[i + 1]
        /\ accepted' = accepted /\ endAt' = endAt
    BY <1>4, Popped
  <2>2. \A i \in 1..(n - 1) : i + 1 \in 1..n
    BY <2>1
  <2> HIDE DEF n
  <2>3. endAt' = NoEnd => \A i \in 1..(n - 1) : inputMessages'[i].type = "Data"
    BY <1>0, <2>1, <2>2 DEF Ends, IsData, n
  <2>4. ASSUME NEW i \in 1..(n - 1), NEW j \in 1..(n - 1), i < j,
               inputMessages'[i].type # "Data", inputMessages'[j].type = "Data"
        PROVE  endAt' < inputMessages'[j].payload
    BY <1>0, <2>1, <2>2, <2>4 DEF Ends, IsData, n
  <2>5. endAt' # NoEnd => endAt' <= accepted'
    BY <1>0, <2>1 DEF Ends
  <2> QED
    BY <2>1, <2>3, <2>4, <2>5 DEF IsData
<1>5. CASE InputData
  <2>1. Pop("Data") /\ submitted' = submitted + 1 /\ ~isStopJobSignaled /\ fault = "none"
    BY <1>5 DEF InputData, process, ConnInv, Control, Pop, Live
  <2>2. UNCHANGED isStopJobSignaled
    BY <1>5 DEF InputData, process
  <2>3. /\ Len(inputMessages) \in Nat /\ Len(inputMessages) > 0
        /\ IsData(1) /\ 1 \in 1..Len(inputMessages)
        /\ inputMessages[1].payload = submitted + 1
        /\ Len(inputMessages') = Len(inputMessages) - 1
        /\ \A i \in 1..Len(inputMessages') : inputMessages'[i] = inputMessages[i + 1]
        /\ endAt' = endAt
    BY <2>1, Popped, FrontIsNext, TailFacts
       DEF ConnInv, TypeOK, InputTypes, CachesAgree, Pop, IsData
  <2>4. ASSUME endAt' # NoEnd
        PROVE  /\ submitted' <= endAt'
               /\ \E i \in 1..Len(inputMessages') :
                    /\ ~IsData(i)'
                    /\ \A j \in 1..(i - 1) : IsData(j)' => inputMessages'[j].payload <= endAt'
    <3>1. PICK i \in 1..Len(inputMessages) : ~IsData(i) /\ \A j \in 1..(i - 1) : IsData(j) =>
                                                inputMessages[j].payload <= endAt
      BY <1>0, <2>1, <2>3, <2>4 DEF Ends
    <3>2. i # 1 /\ i - 1 \in 1..Len(inputMessages') /\ (i - 1) + 1 = i /\ 1 \in 1..(i - 1)
      BY <2>3, <3>1
    <3>3. submitted' <= endAt'
      BY <2>1, <2>3, <3>1, <3>2
    <3>4. ~IsData(i - 1)'
      BY <2>3, <3>1, <3>2 DEF IsData
    <3>5. ASSUME NEW j \in 1..((i - 1) - 1), IsData(j)'
          PROVE  inputMessages'[j].payload <= endAt'
      <4>1. j + 1 \in 1..(i - 1) /\ j \in 1..Len(inputMessages')
        BY <2>3, <3>2
      <4>2. IsData(j + 1)
        BY <2>3, <3>5, <4>1 DEF IsData
      <4> QED
        BY <2>3, <3>1, <4>1, <4>2
    <3> QED
      BY <3>2, <3>3, <3>4, <3>5
  <2> QED
    BY <1>4, <2>1, <2>2, <2>4 DEF Ends
<1>6. CASE InputEnd
  <2>1. Pop("End") /\ submitted' = submitted /\ isStopJobSignaled' = TRUE /\ ~isStopJobSignaled
    BY <1>6 DEF InputEnd, stopJob, ConnInv, Control, Pop
  <2>2. submitted' = endAt'
    BY <2>1, EndReached, Popped
  <2> QED
    BY <1>4, <2>1, <2>2 DEF Ends
<1>7. CASE InputWithoutJob /\ UNCHANGED <<submitted, isStopJobSignaled>>
  <2>1. PICK type \in {"Data", "End"} : Pop(type)
    BY <1>7 DEF InputWithoutJob
  <2>2. fault' = "null_job" /\ ~isStopJobSignaled
    BY <1>7, <2>1 DEF InputWithoutJob, ConnInv, Control, Pop
  <2> QED
    BY <1>4, <1>7, <2>1, <2>2 DEF Ends
<1> QED
  BY <1>2, <1>3, <1>5, <1>6, <1>7, FeedFrame

-----------------------------------------------------------------------------
(***************************************************************************)
(* The output queue.                                                       *)
(***************************************************************************)

\* Only results are written, and only the payload in hand is delivered.
LEMMA WrittenFrame ==
    ASSUME ConnInv, Next
    PROVE  \/ ResultStep \/ (\E r \in {Foreign, Empty} : OnForeignResult(r))
           \/ /\ UNCHANGED written
              /\ \/ UNCHANGED <<processor, acks>>
                 \/ acks' = acks + 1 /\ UNCHANGED processor
                 \/ acks' = acks /\ thread = "notify"
<1> USE DEF jobVars, outsideVars
<1>1. CASE IoStep
  BY <1>1 DEF IoStep, OnOpen, OnRefused, OnStart, Construct, SendReady, OnQueued, HandleMessage,
              HandleContinueMessage, OnClose, DestroyJob
<1>2. CASE InputStep
  BY <1>2 DEF InputStep, InputLoop, InputSleep, InputData, InputEnd, InputWithoutJob,
              InputJoined, InputExit, process, stopJob
<1>3. CASE OutputStep
  BY <1>3 DEF OutputStep, OutputLoop, OutputSleep, OutputData, OutputMustEnd, OutputEnd,
              OutputExit
<1>4. CASE JobStep
  BY <1>4 DEF JobStep, ProcessingStep, Subscribe, Loop, Wait, readData, Acknowledge, Goto,
              NotifyInputData, NotifyThrows, AwaitResult, NotifyEndOfJob
<1>5. CASE JobThrows \/ UseAfterDestroy \/ Spurious
  BY <1>5 DEF JobThrows, EndOfJobThrows, UseAfterDestroy, Spurious, SpuriousWakeup
<1> QED
  BY <1>1, <1>2, <1>3, <1>4, <1>5 DEF Next

\* What is written is queued, and what is sent was queued.
LEMMA WireFrame ==
    ASSUME ConnInv, Next
    PROVE  \/ ResultStep \/ (\E r \in {Foreign, Empty} : OnForeignResult(r))
           \/ (OutputData /\ UNCHANGED written)
           \/ UNCHANGED <<written, sent, outputMessages>>
<1>1. CASE UNCHANGED outputVars
  BY <1>1, WrittenFrame, HistoryFrame DEF outputVars, outputQueue
<1>2. CASE OnOpen \/ HandleContinueMessage \/ InputJoined \/ InputExit \/ Spurious
  BY <1>2, WrittenFrame, HistoryFrame DEF OnOpen, HandleContinueMessage, InputJoined, InputExit,
                                          Spurious, outputQueue
<1>3. CASE OutputStep
  BY <1>3, WrittenFrame, HistoryFrame DEF OutputStep, OutputLoop, OutputSleep, OutputMustEnd,
                                          OutputEnd, OutputExit, outputQueue
<1> QED
  BY <1>1, <1>2, <1>3, OutputFrame

\* A result is written and queued together; a sent one moves from queue to wire.
LEMMA WireStep ==
    ASSUME ConnInv, Next
    PROVE  Wire'
<1>0. /\ Wire
      /\ outputMessages \in Seq(Payload) /\ sent \in Seq(Payload) /\ written \in Seq(Payload)
      /\ Len(outputMessages) \in Nat /\ Len(sent) \in Nat /\ Len(written) \in Nat
  BY Lengths DEF ConnInv, TypeOK, OutputTypes, HistoryTypes, JobTypeOK
<1>1. CASE UNCHANGED <<written, sent, outputMessages>>
  BY <1>0, <1>1 DEF Wire
<1>2. CASE ResultStep \/ (\E r \in {Foreign, Empty} : OnForeignResult(r))
  <2>1. PICK r \in Payload : OnResult(r) /\ ResultCallback(r)
    BY <1>2, ResultCases
  <2>2. sent' = sent
    BY <2>1 DEF OnResult, otherVars, wire
  <2>3. CASE r = Empty
    BY <1>0, <2>1, <2>2, <2>3 DEF Wire, OnResult, SendData, ResultCallback, outputQueue
  <2>4. CASE r # Empty
    <3>1. written' = Append(written, r) /\ outputMessages' = Append(outputMessages, r)
      BY <2>1, <2>4 DEF OnResult, SendData, ResultCallback
    <3> DEFINE s == Len(sent)  m == Len(outputMessages)
    <3>2. /\ Len(written') = s + m + 1 /\ Len(outputMessages') = m + 1
          /\ \A i \in 1..(s + m) : written'[i] = written[i]
          /\ written'[s + m + 1] = r
          /\ \A i \in 1..m : outputMessages'[i] = outputMessages[i]
          /\ outputMessages'[m + 1] = r
      <4>1. r \in Payload
        OBVIOUS
      <4>2. /\ Len(written') = Len(written) + 1
            /\ \A i \in 1..Len(written) : written'[i] = written[i]
            /\ written'[Len(written) + 1] = r
        BY <1>0, <3>1, <4>1, AppendFacts
      <4>3. /\ Len(outputMessages') = m + 1
            /\ \A i \in 1..m : outputMessages'[i] = outputMessages[i]
            /\ outputMessages'[m + 1] = r
        BY <1>0, <3>1, <4>1, AppendFacts
      <4> QED
        BY <1>0, <4>2, <4>3 DEF Wire
    <3>3. \A i \in 1..s : i \in 1..(s + m)
      BY <1>0
    <3>4. \A i \in 1..m : s + i \in 1..(s + m)
      BY <1>0
    <3>5. \A i \in 1..s : written'[i] = sent[i]
      BY <1>0, <3>2, <3>3 DEF Wire
    <3>6. ASSUME NEW i \in 1..(m + 1)
          PROVE  written'[s + i] = outputMessages'[i]
      <4>1. CASE i \in 1..m
        BY <1>0, <3>2, <3>4, <4>1 DEF Wire
      <4>2. CASE i = m + 1
        BY <1>0, <3>2, <4>2
      <4> QED
        BY <1>0, <4>1, <4>2
    <3> QED
      BY <1>0, <2>2, <3>2, <3>5, <3>6 DEF Wire
  <2> QED
    BY <2>3, <2>4
<1>3. CASE OutputData /\ UNCHANGED written
  <2> DEFINE s == Len(sent)  m == Len(outputMessages)
  <2>1. /\ sent' = Append(sent, Head(outputMessages))
        /\ outputMessages' = Tail(outputMessages) /\ outputMessages # <<>>
    BY <1>3 DEF OutputData, CanSend, ConnInv, CachesAgree
  <2>2. /\ Head(outputMessages) = outputMessages[1] /\ Head(outputMessages) \in Payload
        /\ m > 0 /\ Len(outputMessages') = m - 1
        /\ \A i \in 1..(m - 1) : outputMessages'[i] = outputMessages[i + 1]
    BY <1>0, <2>1, TailFacts
  <2>3. /\ Len(sent') = s + 1
        /\ \A i \in 1..s : sent'[i] = sent[i]
        /\ sent'[s + 1] = outputMessages[1]
    BY <1>0, <2>1, <2>2, AppendFacts
  <2>4. ASSUME NEW i \in 1..(s + 1)
        PROVE  written[i] = sent'[i]
    <3>1. 1 \in 1..m
      BY <1>0, <2>2
    <3>2. CASE i \in 1..s
      BY <1>0, <2>3, <3>2 DEF Wire
    <3>3. CASE i = s + 1
      BY <1>0, <2>3, <3>1, <3>3 DEF Wire
    <3> QED
      BY <1>0, <3>2, <3>3
  <2>5. ASSUME NEW i \in 1..(m - 1)
        PROVE  written[(s + 1) + i] = outputMessages'[i]
    <3>1. i + 1 \in 1..m /\ s + (i + 1) = (s + 1) + i
      BY <1>0, <2>2
    <3> QED
      BY <1>0, <2>2, <3>1 DEF Wire
  <2>6. Len(written) = (s + 1) + (m - 1)
    BY <1>0, <2>2 DEF Wire
  <2> QED
    BY <1>0, <1>3, <2>2, <2>3, <2>4, <2>5, <2>6 DEF Wire
<1> QED
  BY <1>1, <1>2, <1>3, WireFrame

\* Undisturbed and stopped, the job receives no more results.
LEMMA NoMoreResults ==
    ASSUME ConnInv, Undisturbed, thread = "done",
           ResultStep \/ (\E r \in {Foreign, Empty} : OnForeignResult(r))
    PROVE  FALSE
<1>1. processor = {} /\ foreign = 0 /\ MaxForeign = 0
  BY DEF ConnInv, TypeOK, JobTypeOK, JobInv, Alone, Undisturbed
<1> QED
  BY <1>1 DEF ResultStep, OnForeignResult, ForeignResult

\* The decision to end is taken on an empty queue that then stays empty.
LEMMA NothingLeftStep ==
    ASSUME ConnInv, Next
    PROVE  NothingLeft'
<1> SUFFICES ASSUME output' \in {"ending", "ended"} \/ (Undisturbed /\ output' = "done")
             PROVE  outputMessages' = <<>>
  BY DEF NothingLeft, OutputLocked, Undisturbed
<1> USE DEF OutputLocked
<1>0. /\ NothingLeft /\ CachesAgree
      /\ output \in {"ending", "ended", "done"} => thread = "done"
  BY DEF ConnInv, Control
<1>1. CASE UNCHANGED outputVars
  BY <1>0, <1>1 DEF NothingLeft, outputVars, outputQueue
<1>2. CASE OnOpen \/ HandleContinueMessage \/ InputJoined \/ InputExit \/ Spurious
  BY <1>0, <1>2 DEF NothingLeft, OnOpen, HandleContinueMessage, InputJoined, InputExit, Spurious,
                    outputQueue, Woken
<1>3. CASE OutputData
  <2>1. isOutputQueueEmpty'
    BY <1>3 DEF OutputData
  <2> QED
    BY <2>1, CachesAgreeStep DEF CachesAgree
<1>4. CASE OutputLoop \/ OutputSleep \/ OutputMustEnd \/ OutputEnd \/ OutputExit
  <2>1. CASE OutputLoop
    <3>1. output' = "done" => conn \in {"open", "closing"} /\ output = "loop" /\ ~processing
      BY <2>1 DEF OutputLoop, Live
    <3>2. output' # "done"
      BY <3>1 DEF ConnInv, Control
    <3> QED
      BY <2>1, <3>2 DEF OutputLoop
  <2>2. CASE OutputSleep \/ OutputMustEnd \/ OutputEnd \/ OutputExit
    BY <1>0, <2>2 DEF NothingLeft, CachesAgree, OutputSleep, OutputMustEnd, OutputEnd, OutputExit,
                      outputQueue, CanEnd
  <2> QED
    BY <1>4, <2>1, <2>2
<1>5. CASE ResultStep \/ (\E r \in {Foreign, Empty} : OnForeignResult(r))
  <2>1. PICK r \in Payload : OnResult(r)
    BY <1>5, ResultCases
  <2>2. CASE r = Empty
    BY <1>0, <2>1, <2>2 DEF OnResult, SendData, NothingLeft, outputQueue
  <2>3. CASE r # Empty
    <3>1. output' = "done" /\ output = "done" /\ Undisturbed
      BY <2>1, <2>3 DEF OnResult, SendData, Woken
    <3> QED
      BY <1>0, <1>5, <3>1, NoMoreResults
  <2> QED
    BY <2>2, <2>3
<1> QED
  BY <1>1, <1>2, <1>3, <1>4, <1>5, OutputFrame DEF OutputStep

-----------------------------------------------------------------------------
(***************************************************************************)
(* The remaining conjuncts.                                                *)
(***************************************************************************)

\* What changes the state: OnOpen, Ready and the end of the output thread.
LEMMA StateFrame ==
    ASSUME ConnInv, Next
    PROVE  /\ conn' = "absent" => conn = "absent"
           /\ \/ state' = state
              \/ OnOpen
              \/ conn \in {"open", "closing"} /\ state' # "socket_opened" /\ thread # "none"
           /\ io' = "starting" => io = "starting" \/ thread' # "none"
<1> USE DEF otherVars, info
<1>1. CASE IoStep
  <2>1. CASE SendReady
    BY <2>1 DEF SendReady, Live, ConnInv, Early
  <2>2. CASE ~SendReady
    BY <1>1, <2>2 DEF IoStep, OnOpen, OnRefused, OnStart, Construct, OnQueued, HandleMessage,
                      HandleContinueMessage, OnClose, DestroyJob
  <2> QED
    BY <2>1, <2>2
<1>2. CASE InputStep
  BY <1>2 DEF InputStep, InputLoop, InputSleep, InputData, InputEnd, InputWithoutJob, Pop,
              InputJoined, InputExit
<1>3. CASE OutputStep
  <2>1. CASE OutputExit
    BY <2>1 DEF OutputExit, Live, ConnInv, Control
  <2>2. CASE ~OutputExit
    BY <1>3, <2>2 DEF OutputStep, OutputLoop, OutputSleep, OutputData, OutputMustEnd, OutputEnd
  <2> QED
    BY <2>1, <2>2
<1>4. CASE JobStep \/ JobThrows \/ UseAfterDestroy \/ Spurious
  BY <1>4 DEF JobStep, JobThrows, UseAfterDestroy, Spurious, connVars
<1>5. CASE ResultStep \/ (\E r \in {Foreign, Empty} : OnForeignResult(r))
  BY <1>5, ResultCases DEF OnResult
<1> QED
  BY <1>1, <1>2, <1>3, <1>4, <1>5 DEF Next

\* Nothing is accepted, delivered or written too early.
LEMMA EarlyStep ==
    ASSUME ConnInv, Next
    PROVE  Early'
<1>0. Early
  BY DEF ConnInv
<1>1. state' = "socket_opened" => state = "socket_opened"
  BY <1>0, StateFrame DEF OnOpen, Early
<1>2. conn' = "absent" => state' = "socket_opened"
  BY <1>0, StateFrame DEF Early, OnOpen
<1>3. thread' = "none" => state' = "socket_opened" /\ io' # "starting"
  BY <1>0, StateFrame, ThreadFrame DEF Early, OnOpen
<1>4. state' = "socket_opened" => io' # "Data"
  BY <1>1, QueuedFrame
<1>5. state' = "socket_opened" => accepted' = 0
  <2>1. CASE HandleMessage
    BY <1>0, <1>1, <2>1, Pushed DEF Early
  <2>2. CASE ~HandleMessage
    BY <1>0, <1>1, <2>2, HistoryFrame DEF Early
  <2> QED
    BY <2>1, <2>2
<1>6. acks \in Nat /\ (thread = "notify" => acks # 0)
  BY DEF ConnInv, TypeOK, JobTypeOK, JobInv, Pipeline, Taken, Empty
<1>7. CASE ResultStep \/ (\E r \in {Foreign, Empty} : OnForeignResult(r))
  <2>1. ASSUME NEW d \in processor, NEW r \in {d, Empty}, OnOwnResult(d, r)
        PROVE  acks' = acks /\ acks # 0
    BY <1>0, <2>1 DEF OnOwnResult, OwnResult, Early
  <2>2. ASSUME NEW r \in {Foreign, Empty}, OnForeignResult(r)
        PROVE  acks' = acks /\ processor' = processor /\ MaxForeign # 0
    BY <2>2 DEF OnForeignResult, ForeignResult, ConnInv, TypeOK, JobTypeOK
  <2>3. (acks' = 0 => processor' = {}) /\ (acks' = 0 /\ MaxForeign = 0 => written' = <<>>)
    BY <1>0, <1>7, <2>1, <2>2 DEF ResultStep, Early
  <2> QED
    BY <1>2, <1>3, <1>4, <1>5, <2>3 DEF Early
<1>8. CASE ~(ResultStep \/ (\E r \in {Foreign, Empty} : OnForeignResult(r)))
  <2>1. (acks' = 0 => processor' = {}) /\ (acks' = 0 /\ MaxForeign = 0 => written' = <<>>)
    BY <1>0, <1>6, <1>8, WrittenFrame DEF Early
  <2> QED
    BY <1>2, <1>3, <1>4, <1>5, <2>1 DEF Early
<1> QED
  BY <1>7, <1>8

\* Each Data sent uses up a Continue.
LEMMA CreditStep ==
    ASSUME ConnInv, Next
    PROVE  Credit'
<1>0. Credit /\ continues \in Nat /\ Len(sent) \in Nat /\ sent \in Seq(Payload)
  BY Counters, Lengths DEF ConnInv, TypeOK, HistoryTypes
<1>1. CASE OutputData
  <2>1. Head(outputMessages) \in Payload
    BY <1>1, TailFacts DEF OutputData, CanSend, ConnInv, CachesAgree, TypeOK, OutputTypes
  <2>2. Len(sent') = Len(sent) + 1
    BY <1>0, <1>1, <2>1, AppendFacts DEF OutputData
  <2> QED
    BY <1>0, <1>1, <2>2 DEF Credit, OutputData, CanSend, client
<1>2. CASE HandleContinueMessage
  <2>1. continues' = continues + 1 /\ sent' = sent /\ isContinueMessageRecived'
    BY <1>2, Zenon DEF HandleContinueMessage, wire
  <2> QED
    BY <1>0, <2>1 DEF Credit
<1>3. CASE ~OutputData /\ ~HandleContinueMessage
  <2>1. UNCHANGED <<sent, continues>>
    BY <1>3, HistoryFrame
  <2>2. UNCHANGED isContinueMessageRecived
    <3>1. CASE UNCHANGED outputVars
      BY <3>1 DEF outputVars, flags
    <3>2. CASE OnOpen \/ InputJoined \/ InputExit \/ Spurious
      BY <3>2 DEF OnOpen, InputJoined, InputExit, Spurious, flags
    <3>3. CASE OutputStep
      BY <1>3, <3>3 DEF OutputStep, OutputLoop, OutputSleep, OutputMustEnd, OutputEnd, OutputExit,
                        flags
    <3>4. CASE ResultStep \/ (\E r \in {Foreign, Empty} : OnForeignResult(r))
      BY <3>4, ResultCases DEF OnResult, flags
    <3> QED
      BY <1>3, <3>1, <3>2, <3>3, <3>4, OutputFrame
  <2> QED
    BY <1>0, <2>1, <2>2 DEF Credit
<1> QED
  BY <1>1, <1>2, <1>3

\* A thread that is asleep is woken by whatever it waits for.
LEMMA NoMissedMessageStep ==
    ASSUME ConnInv, Next
    PROVE  NoMissedMessage'
<1>0. NoMissedMessage /\ CachesAgree
  BY DEF ConnInv
<1>1. input' = "wait" /\ ~isInputQueueEmpty' => inputMessages' # <<>>
  BY CachesAgreeStep DEF CachesAgree
<1>2. output' = "wait" /\ CanSend' => outputMessages' # <<>>
  BY CachesAgreeStep DEF CachesAgree, CanSend
<1>3. input' = "asleep" => inputMessages' = <<>>
  <2>1. CASE UNCHANGED inputVars
    BY <1>0, <2>1 DEF NoMissedMessage, inputVars, inputQueue
  <2>2. CASE OnOpen \/ HandleMessage \/ Spurious
    BY <1>0, <2>2 DEF NoMissedMessage, OnOpen, HandleMessage, Woken, Spurious, inputQueue
  <2>3. CASE InputStep
    BY <1>0, <2>3 DEF CachesAgree, InputStep, InputLoop, InputSleep, InputData, InputEnd,
                      InputWithoutJob, Pop, InputJoined, InputExit, inputQueue
  <2> QED
    BY <2>1, <2>2, <2>3, InputFrame
<1>4. output' = "asleep" =>
          /\ ~(isContinueMessageRecived' /\ outputMessages' # <<>>)
          /\ isJobStoped' /\ outputMessages' = <<>> => input' = "stopped"
  <2>1. CASE InputStep
    <3>1. CASE InputJoined \/ InputExit
      BY <1>0, <3>1 DEF NoMissedMessage, InputJoined, InputExit, Woken, outputQueue, flags
    <3>2. CASE InputLoop \/ InputSleep \/ InputData \/ InputEnd \/ InputWithoutJob
      BY <1>0, <3>2 DEF NoMissedMessage, InputLoop, InputSleep, InputData, InputEnd,
                        InputWithoutJob, Pop, outputVars, outputQueue, flags
    <3> QED
      BY <2>1, <3>1, <3>2 DEF InputStep
  <2>2. CASE OnOpen \/ HandleContinueMessage \/ HandleMessage \/ Spurious
    BY <1>0, <2>2 DEF NoMissedMessage, OnOpen, HandleContinueMessage, HandleMessage, Spurious,
                      Woken, inputVars, outputVars, outputQueue, flags
  <2>3. CASE OutputStep
    BY <1>0, <2>3 DEF NoMissedMessage, CachesAgree, OutputStep, OutputLoop, OutputSleep,
                      OutputData, OutputMustEnd, OutputEnd, OutputExit, CanSend, CanEnd,
                      inputVars, outputQueue, flags
  <2>4. CASE ResultStep \/ (\E r \in {Foreign, Empty} : OnForeignResult(r))
    <3>1. PICK r \in Payload : OnResult(r)
      BY <2>4, ResultCases
    <3> QED
      BY <1>0, <3>1 DEF NoMissedMessage, OnResult, SendData, Woken, inputVars, outputQueue, flags
  <2>5. CASE UNCHANGED inputVars /\ UNCHANGED outputVars
    BY <1>0, <2>5 DEF NoMissedMessage, inputVars, outputVars, outputQueue, flags
  <2> QED
    BY <2>1, <2>2, <2>3, <2>4, <2>5, InputFrame, OutputFrame DEF InputStep
<1> QED
  BY <1>1, <1>2, <1>3, <1>4 DEF NoMissedMessage

\* With both threads gone and the job joined, nothing is touched after its destruction.
LEMMA QuietCloseStep ==
    ASSUME ConnInv, Next
    PROVE  QuietCloseIsSafe'
<1> SUFFICES ASSUME Undisturbed, conn' \in {"destroying", "destroyed"},
                    input' = "done", output' = "done"
             PROVE  fault' = "none"
  BY DEF QuietCloseIsSafe, Undisturbed
<1>0. QuietCloseIsSafe /\ Control /\ (thread = "done" => processor = {})
  BY DEF ConnInv, JobInv, Alone
<1>1. CASE OnClose \/ DestroyJob
  BY <1>0, <1>1 DEF OnClose, DestroyJob, Live, Joined, Joinable, Control, inputVars
<1>2. CASE UseAfterDestroy
  <2>1. input = "done" /\ output = "done" /\ thread = "done" /\ foreign \in 0..MaxForeign
    BY <1>0, <1>2 DEF UseAfterDestroy, inputVars, outputVars, Control, ConnInv, TypeOK, JobTypeOK
  <2> QED
    BY <1>0, <1>2, <2>1 DEF UseAfterDestroy, TouchesConnection, Undisturbed
<1>3. CASE Spurious
  BY <1>3 DEF Spurious, otherVars
<1>4. CASE OnOpen
  BY <1>4 DEF OnOpen
<1>5. conn' \in {"open", "closing"} \/ OnClose \/ DestroyJob \/ UseAfterDestroy \/ Spurious \/ OnOpen
  <2> USE DEF Live
  <2>1. CASE IoStep
    BY <2>1 DEF IoStep, OnRefused, OnStart, OnMessage, SendReady, OnQueued, HandleMessage,
                HandleContinueMessage
  <2>2. CASE InputStep
    BY <2>2 DEF InputStep, InputLoop, InputSleep, InputData, InputEnd, InputWithoutJob, Pop,
                InputJoined, InputExit, otherVars
  <2>3. CASE OutputStep
    BY <2>3 DEF OutputStep, OutputLoop, OutputSleep, OutputData, OutputMustEnd, OutputEnd,
                OutputExit, otherVars
  <2>4. CASE JobStep \/ JobThrows
    BY <2>4 DEF JobStep, JobThrows, connVars, otherVars
  <2>5. CASE ResultStep \/ (\E r \in {Foreign, Empty} : OnForeignResult(r))
    BY <2>5, ResultCases DEF OnResult, otherVars
  <2> QED
    BY <2>1, <2>2, <2>3, <2>4, <2>5 DEF Next
<1> QED
  BY <1>1, <1>2, <1>3, <1>4, <1>5

-----------------------------------------------------------------------------
(***************************************************************************)
(* The invariant is inductive.                                             *)
(***************************************************************************)
\* The invariant holds initially.
LEMMA ConnInit == Init => ConnInv
<1> SUFFICES ASSUME Init PROVE ConnInv
  OBVIOUS
<1>0. JobInv /\ JobTypeOK
  BY JobInitInv DEF Init, JobInv
<1>1. MaxData \in Nat /\ NoEnd = MaxData + 1 /\ NoEnd \in 0..NoEnd /\ 0 \in 0..MaxData
  BY JobAssumption DEF NoEnd
<1>2. inputMessages \in Seq(Message) /\ outputMessages \in Seq(Payload) /\ sent \in Seq(Payload)
      /\ Len(inputMessages) = 0 /\ Len(outputMessages) = 0 /\ Len(sent) = 0 /\ Len(written) = 0
  BY EmptySeq DEF Init, JobInit
<1>3. TypeOK
  BY <1>0, <1>1, <1>2 DEF Init, TypeOK, InputTypes, OutputTypes, OtherTypes, HistoryTypes,
                          ConnectionState
<1>4. Control /\ Started /\ CachesAgree /\ NothingLeft /\ NoMissedMessage /\ QuietCloseIsSafe
  BY DEF Init, JobInit, Control, Started, CachesAgree, NothingLeft, OutputLocked, NoMissedMessage,
         QuietCloseIsSafe
<1>5. \A i \in 1..Len(inputMessages) : FALSE
  BY <1>2
<1>6. Feed
  <2>1. submitted = 0 /\ accepted = 0 /\ io # "Data"
    BY DEF Init, JobInit
  <2> QED
    BY <1>1, <1>5, <2>1 DEF Feed, Data
<1>7. Ends
  BY <1>1, <1>5 DEF Init, JobInit, Ends
<1>8. Wire
  BY <1>2 DEF Wire
<1>9. Early /\ Credit
  <2>1. /\ continues = 0 /\ accepted = 0 /\ state = "socket_opened" /\ io = "idle"
        /\ processor = {} /\ written = <<>>
    BY DEF Init, JobInit
  <2> QED
    BY <1>2, <2>1 DEF Early, Credit
<1> QED
  BY <1>0, <1>3, <1>4, <1>6, <1>7, <1>8, <1>9 DEF ConnInv

\* A stuttering step keeps it.
LEMMA ConnStutter == ConnInv /\ UNCHANGED vars => ConnInv'
<1> SUFFICES ASSUME ConnInv, UNCHANGED vars PROVE ConnInv'
  OBVIOUS
<1> USE DEF ConnInv, vars, connVars, inputVars, outputVars, otherVars, inputQueue, outputQueue,
            flags, info, client, wire
<1>1. JobInv'
  <2>1. JobInv /\ UNCHANGED jobVars
    OBVIOUS
  <2> QED
    BY <2>1, JobStepInv
<1>2. TypeOK'
  <2>1. JobTypeOK'
    BY <1>1 DEF JobInv
  <2>2. InputTypes' /\ OutputTypes'
    BY DEF TypeOK, InputTypes, OutputTypes
  <2>3. OtherTypes' /\ HistoryTypes'
    BY DEF TypeOK, OtherTypes, HistoryTypes
  <2> QED
    BY <2>1, <2>2, <2>3 DEF TypeOK
<1>3. Control' /\ Started' /\ CachesAgree' /\ NothingLeft' /\ Early' /\ Credit'
  BY DEF Control, Started, CachesAgree, NothingLeft, OutputLocked, Early, Credit, jobVars
<1>4. Feed' /\ Ends'
  BY DEF Feed, Ends, IsData, jobVars
<1>5. Wire'
  BY DEF Wire, jobVars
<1>6. NoMissedMessage' /\ QuietCloseIsSafe'
  BY DEF NoMissedMessage, CanSend, QuietCloseIsSafe
<1> QED
  BY <1>1, <1>2, <1>3, <1>4, <1>5, <1>6

\* Every step keeps it.
LEMMA ConnStepInv == ConnInv /\ [Next]_vars => ConnInv'
<1> SUFFICES ASSUME ConnInv, [Next]_vars PROVE ConnInv'
  OBVIOUS
<1>1. CASE UNCHANGED vars
  BY <1>1, ConnStutter
<1>2. CASE Next
  <2>1. JobInv' /\ JobTypeOK'
    BY Refines, JobStepInv DEF ConnInv, JobInv
  <2>2. TypeOK'
    BY <1>2, <2>1, InputTypesStep, OutputTypesStep, OtherTypesStep, HistoryTypesStep DEF TypeOK
  <2>3. Control' /\ Started' /\ CachesAgree' /\ NoMissedMessage' /\ QuietCloseIsSafe'
    BY <1>2, ControlStep, StartedStep, CachesAgreeStep, NoMissedMessageStep, QuietCloseStep
  <2>4. Feed' /\ Ends'
    BY <1>2, FeedStep, EndsStep
  <2>5. Wire' /\ NothingLeft' /\ Early' /\ Credit'
    BY <1>2, WireStep, NothingLeftStep, EarlyStep, CreditStep
  <2> QED
    BY <2>1, <2>2, <2>3, <2>4, <2>5 DEF ConnInv
<1> QED
  BY <1>1, <1>2

\* ConnInv holds of every reachable state of a connection, whatever the peer,
\* the processor and the other connections do.
THEOREM ConnInvariant == Spec => []ConnInv
<1> QED
  BY ConnInit, ConnStepInv, PTL DEF Spec

-----------------------------------------------------------------------------
(***************************************************************************)
(* The properties of module JobConnection.                                 *)
(***************************************************************************)

\* Every variable of the connection and of its job keeps its type.
THEOREM ConnTypes == Spec => []TypeOK
<1>1. ConnInv => TypeOK
  BY DEF ConnInv
<1> QED
  BY <1>1, ConnInvariant, PTL

\* The input and the output thread never sleep on a message they could handle
\* (the conditions JobConnection::Input and Output wait for, and the cached
\* emptiness flags they read).
THEOREM ConnNoMissedMessage == Spec => []NoMissedMessage
<1>1. ConnInv => NoMissedMessage
  BY DEF ConnInv
<1> QED
  BY <1>1, ConnInvariant, PTL

\* Undisturbed, End is sent only when every payload that preceded the peer's End
\* was acknowledged, nothing is with the processor and every result was sent.
THEOREM ConnEndIsComplete == Spec => []EndIsComplete
<1>1. ConnInv => EndIsComplete
  <2> SUFFICES ASSUME ConnInv, Undisturbed, endsSent > 0
               PROVE  /\ acks = endAt /\ submitted = endAt
                      /\ processor = {} /\ sent = written
    BY DEF EndIsComplete
  <2>1. output \in {"ended", "done"}
    BY DEF ConnInv, Control
  <2>2. thread = "done"
    BY <2>1 DEF ConnInv, Control
  <2>3. isStopJobSignaled /\ acks = submitted
    BY <2>2 DEF ConnInv, JobInv, DrainedAtExit
  <2>4. submitted = endAt /\ processor = {}
    BY <2>2, <2>3 DEF ConnInv, Ends, JobInv, Alone
  <2>5. outputMessages = <<>>
    BY <2>1 DEF ConnInv, NothingLeft, OutputLocked
  <2>6. Len(written) = Len(sent) /\ \A i \in 1..Len(sent) : written[i] = sent[i]
    BY <2>5, Lengths DEF ConnInv, Wire
  <2>7. sent = written
    BY <2>6, SeqEqual DEF ConnInv, TypeOK, HistoryTypes, JobTypeOK
  <2> QED
    BY <2>3, <2>4, <2>7
<1> QED
  BY <1>1, ConnInvariant, PTL

\* No Continue and no Data precede Ready unless another connection's result arrives.
THEOREM ConnReadyFirst == Spec => []ReadyFirst
<1>1. ConnInv => ReadyFirst
  <2> SUFFICES ASSUME ConnInv, MaxForeign = 0, state = "socket_opened"
               PROVE  acks = 0 /\ sent = <<>>
    BY DEF ReadyFirst
  <2>1. submitted = 0
    BY Counters DEF ConnInv, Early, Feed
  <2>2. acks = 0
    BY <2>1 DEF ConnInv, TypeOK, JobTypeOK, JobInv, Pipeline, Taken
  <2>3. Len(written) = 0
    BY <2>2, EmptySeq DEF ConnInv, Early
  <2>4. Len(sent) = 0
    BY <2>3, Lengths DEF ConnInv, Wire
  <2> QED
    BY <2>2, <2>4, EmptySeq DEF ConnInv, TypeOK, HistoryTypes
<1> QED
  BY <1>1, ConnInvariant, PTL

\* Data goes out on an unused Continue only (m_isContinueMessageRecived).
THEOREM ConnFlowControl == Spec => []FlowControl
<1>1. ConnInv => FlowControl
  BY Counters, Lengths DEF ConnInv, Credit, FlowControl
<1> QED
  BY <1>1, ConnInvariant, PTL

\* Undisturbed, a connection closed after both its threads left dies without a
\* fault (~JobConnection, ~Job).
THEOREM ConnQuietClose == Spec => []QuietCloseIsSafe
<1>1. ConnInv => QuietCloseIsSafe
  BY DEF ConnInv
<1> QED
  BY <1>1, ConnInvariant, PTL

\* End is the last message that leaves the connection.
THEOREM ConnEndIsLast == Spec => EndIsLast
<1>1. ConnInv /\ [Next]_vars => [endsSent > 0 => UNCHANGED <<acks, sent, endsSent>>]_vars
  <2> SUFFICES ASSUME ConnInv, Next, endsSent > 0
               PROVE  UNCHANGED <<acks, sent, endsSent>>
    OBVIOUS
  <2>1. output \in {"ended", "done"} /\ thread = "done"
    BY DEF ConnInv, Control
  <2>2. ~OutputData /\ ~OutputEnd
    BY <2>1 DEF OutputData, OutputEnd
  <2>3. acks' = acks
    <3>1. CASE JobStep
      BY <2>1, <3>1 DEF JobStep, ProcessingStep, Subscribe, Loop, Wait, readData, Acknowledge,
                        NotifyInputData, NotifyThrows, AwaitResult, NotifyEndOfJob, Goto
    <3>2. [JobNext]_jobVars
      BY Refines
    <3> QED
      BY <2>1, <3>2 DEF JobNext, Construct, CallerStep, process, stopJob, ProcessingStep,
         Subscribe, Loop, Wait, readData, Acknowledge, NotifyInputData, NotifyThrows, AwaitResult,
         NotifyEndOfJob, Goto, EndOfJobThrows, SpuriousWakeup, ProcessorStep, OwnResult,
         ForeignResult, outsideVars, jobVars
  <2> QED
    BY <2>2, <2>3, HistoryFrame
<1> QED
  BY <1>1, ConnInvariant, PTL DEF Spec, EndIsLast

\* A connection uses its job as module Job assumes: the job inside JobConnection,
\* driven by its messages, implements JobSpec.
THEOREM ConnImplementsJob == Spec => JobSpec
<1>1. Init => JobInit
  BY DEF Init
<1>2. ConnInv /\ [Next]_vars => [JobNext]_jobVars
  BY Refines
<1> QED
  BY <1>1, <1>2, ConnInvariant, PTL DEF Spec, JobSpec

-----------------------------------------------------------------------------
(***************************************************************************)
(* A connection keeps the promise of OspreySession.                        *)
(***************************************************************************)
shared == <<accepted, endAt, continues, acks, outputMessages, sent, endsSent>>

\* The steps the peer cannot tell from nothing.
LEMMA Hidden ==
    ASSUME ConnInv, Next
    PROVE  \/ UNCHANGED shared
           \/ HandleMessage \/ HandleContinueMessage \/ OutputData \/ OutputEnd
           \/ (JobStep /\ Acknowledge)
           \/ ResultStep \/ (\E r \in {Foreign, Empty} : OnForeignResult(r))
<1> USE DEF shared, jobVars, outsideVars, queueVars, outputVars, outputQueue, client, wire
<1>1. CASE IoStep
  BY <1>1 DEF IoStep, OnOpen, OnRefused, OnStart, Construct, SendReady, OnQueued, OnClose,
              DestroyJob
<1>2. CASE InputStep
  BY <1>2 DEF InputStep, InputLoop, InputSleep, InputData, InputEnd, InputWithoutJob, Pop,
              InputJoined, InputExit, process, stopJob, otherVars
<1>3. CASE OutputStep
  BY <1>3 DEF OutputStep, OutputLoop, OutputSleep, OutputMustEnd, OutputExit, otherVars
<1>4. CASE JobStep
  <2>1. UNCHANGED acks \/ Acknowledge
    BY <1>4 DEF JobStep, ProcessingStep, Subscribe, Loop, Wait, readData, NotifyInputData,
                NotifyThrows, AwaitResult, NotifyEndOfJob
  <2> QED
    BY <1>4, <2>1 DEF JobStep, connVars, otherVars
<1>5. CASE JobThrows \/ UseAfterDestroy
  BY <1>5 DEF JobThrows, EndOfJobThrows, UseAfterDestroy
<1>6. CASE Spurious
  BY <1>6 DEF Spurious, SpuriousWakeup, otherVars
<1> QED
  BY <1>1, <1>2, <1>3, <1>4, <1>5, <1>6 DEF Next

\* While End has not been sent, nothing has been ended.
LEMMA NotEnded ==
    ASSUME ConnInv, output \notin {"ended", "done"}
    PROVE  endsSent = 0
BY DEF ConnInv, Control

\* Messages of the peer are taken as the session takes them; an End after the first is not
\* noticed.
LEMMA PeerSteps ==
    ASSUME ConnInv, HandleMessage \/ HandleContinueMessage
    PROVE  [Session!Next]_(Session!session)
<1>1. CASE HandleMessage
  <2>1. UNCHANGED <<continues, acks, outputMessages, sent, endsSent>>
    BY <1>1 DEF HandleMessage, jobVars, outputVars, outputQueue, wire
  <2>2. CASE io = "Data"
    BY <1>1, <2>1, <2>2 DEF HandleMessage, Session!Next, Session!AcceptData
  <2>3. CASE io # "Data" /\ endAt = NoEnd
    BY <1>1, <2>1, <2>3 DEF HandleMessage, Session!Next, Session!AcceptEnd
  <2>4. CASE io # "Data" /\ endAt # NoEnd
    BY <1>1, <2>1, <2>4 DEF HandleMessage, Session!session
  <2> QED
    BY <2>2, <2>3, <2>4
<1>2. CASE HandleContinueMessage
  <2>1. UNCHANGED <<accepted, endAt, acks, outputMessages, sent, endsSent>>
    BY <1>2 DEF HandleContinueMessage, jobVars, outputQueue, wire
  <2>2. continues' = continues + 1
    BY <1>2, Zenon DEF HandleContinueMessage
  <2> QED
    BY <2>1, <2>2 DEF Session!Next, Session!AcceptContinue
<1> QED
  BY <1>1, <1>2

\* A Continue is owed to the peer when the job takes a payload.
LEMMA AcknowledgePromised ==
    ASSUME ConnInv, JobStep, Acknowledge
    PROVE  [Session!Next]_(Session!session)
<1>1. UNCHANGED <<accepted, endAt, continues, outputMessages, sent, endsSent>> /\ acks' = acks + 1
  BY DEF JobStep, Acknowledge, connVars, outputVars, outputQueue, otherVars, client, wire
<1>2. thread = "continue" /\ acks \in Nat
  BY DEF Acknowledge, Goto, ConnInv, TypeOK, JobTypeOK
<1>3. acks + 1 <= submitted /\ submitted <= accepted
  BY <1>2 DEF ConnInv, JobInv, Pipeline, Taken, Feed
<1>4. acks < accepted
  BY <1>2, <1>3, Counters
<1>5. endAt # NoEnd => submitted <= endAt
  <2>1. fault = "none"
    BY DEF JobStep, Live
  <2> QED
    BY <2>1, Counters DEF ConnInv, Ends
<1>6. endAt = NoEnd \/ acks < endAt
  BY <1>2, <1>3, <1>5, Counters
<1>7. endsSent = 0
  <2>1. output \notin {"ended", "done"}
    BY <1>2 DEF ConnInv, Control
  <2> QED
    BY <2>1, NotEnded
<1> QED
  BY <1>1, <1>4, <1>6, <1>7 DEF Session!Next, Session!AcknowledgeData

\* No result of this payload is on its way or was sent.
LEMMA NotYetSent ==
    ASSUME ConnInv, NEW d, Answerable(d)
    PROVE  /\ \A i \in 1..Len(sent) : sent[i] # d
           /\ \A i \in 1..Len(outputMessages) : outputMessages[i] # d
<1>1. \A i \in 1..Len(sent) : i \in 1..Len(written) /\ written[i] = sent[i]
  BY Lengths DEF ConnInv, Wire
<1>2. \A i \in 1..Len(outputMessages) : /\ Len(sent) + i \in 1..Len(written)
                                        /\ written[Len(sent) + i] = outputMessages[i]
  BY Lengths DEF ConnInv, Wire
<1> QED
  BY <1>1, <1>2 DEF Answerable

\* Undisturbed, a result comes from the payload acknowledged last and follows all
\* others.
LEMMA AloneInOrder ==
    ASSUME ConnInv, Undisturbed, NEW d \in processor
    PROVE  /\ endsSent = 0
           /\ \A i \in 1..Len(sent) : sent[i] < d
           /\ \A i \in 1..Len(outputMessages) : outputMessages[i] < d
<1>1. thread \in {"va", "vaAsleep"} /\ d = acks
  BY DEF ConnInv, JobInv, Alone, Pipeline, Taken
<1>2. endsSent = 0
  <2>1. output \notin {"ended", "done"}
    BY <1>1 DEF ConnInv, Control
  <2> QED
    BY <2>1, NotEnded
<1>3. \A i \in 1..Len(written) : written[i] < d
  BY <1>1 DEF ConnInv, JobInv, Written
<1>4. \A i \in 1..Len(sent) : i \in 1..Len(written) /\ written[i] = sent[i]
  BY Lengths DEF ConnInv, Wire
<1>5. \A i \in 1..Len(outputMessages) : /\ Len(sent) + i \in 1..Len(written)
                                        /\ written[Len(sent) + i] = outputMessages[i]
  BY Lengths DEF ConnInv, Wire
<1> QED
  BY <1>2, <1>3, <1>4, <1>5

\* The first answer to a payload is a result of this session, after its Continue;
\* whatever else is published is one of others.
LEMMA ResultPromised ==
    ASSUME ConnInv, ResultStep \/ (\E r \in {Foreign, Empty} : OnForeignResult(r))
    PROVE  [Session!Next]_(Session!session)
<1>1. ASSUME NEW d \in processor, NEW r \in {d, Empty}, OnOwnResult(d, r)
      PROVE  [Session!Next]_(Session!session)
  <2>1. UNCHANGED <<accepted, endAt, continues, acks, sent, endsSent>>
    BY <1>1 DEF OnOwnResult, OnResult, OwnResult, otherVars, client, wire
  <2>2. CASE r = Empty
    BY <1>1, <2>1, <2>2 DEF OnOwnResult, OnResult, SendData, outputQueue, Session!session
  <2>3. CASE r # Empty
    <3>1. outputMessages' = Append(outputMessages, d)
      BY <1>1, <2>3 DEF OnOwnResult, OnResult, SendData
    <3>2. d \in Data /\ acks \in Nat /\ d <= acks /\ Answerable(d)
      BY DEF ConnInv, JobInv, Once, TypeOK, JobTypeOK
    <3>3. Session!Produce(d)
      BY <2>1, <3>1, <3>2, NotYetSent, AloneInOrder DEF Session!Produce
    <3>4. d \in 1..acks
      BY <3>2 DEF Data
    <3> QED
      BY <3>3, <3>4 DEF Session!Next
  <2> QED
    BY <2>2, <2>3
<1>2. ASSUME NEW r \in {Foreign, Empty}, OnForeignResult(r)
      PROVE  [Session!Next]_(Session!session)
  <2>1. UNCHANGED <<accepted, endAt, continues, acks, sent, endsSent>>
    BY <1>2 DEF OnForeignResult, OnResult, ForeignResult, otherVars, client, wire
  <2>2. CASE r = Empty
    BY <1>2, <2>1, <2>2 DEF OnForeignResult, OnResult, SendData, outputQueue, Session!session
  <2>3. CASE r # Empty
    <3>1. outputMessages' = Append(outputMessages, Foreign)
      BY <1>2, <2>3 DEF OnForeignResult, OnResult, SendData
    <3>2. ~Undisturbed
      BY <1>2 DEF OnForeignResult, ForeignResult, Undisturbed, ConnInv, TypeOK, JobTypeOK
    <3> QED
      BY <2>1, <3>1, <3>2 DEF Session!Next, Session!ProduceForOthers
  <2> QED
    BY <2>2, <2>3
<1> QED
  BY <1>1, <1>2 DEF ResultStep

\* Results go out on credit, and End when nothing is owed.
LEMMA OutputPromised ==
    ASSUME ConnInv, OutputData \/ OutputEnd
    PROVE  [Session!Next]_(Session!session)
<1>1. CASE OutputData
  <2>1. /\ UNCHANGED <<accepted, endAt, continues, acks, endsSent>>
        /\ outputMessages' = Tail(outputMessages)
        /\ sent' = Append(sent, Head(outputMessages))
    BY <1>1 DEF OutputData, jobVars, client
  <2>2. outputMessages # <<>> /\ endsSent = 0
    BY <1>1, NotEnded DEF OutputData, CanSend, ConnInv, CachesAgree
  <2>3. Len(sent) <= continues
    BY <1>1, Counters, Lengths DEF OutputData, CanSend, ConnInv, Credit
  <2> QED
    BY <2>1, <2>2, <2>3 DEF Session!Next, Session!SendResult
<1>2. CASE OutputEnd
  <2>1. UNCHANGED <<accepted, endAt, continues, acks, outputMessages, sent>>
    BY <1>2 DEF OutputEnd, jobVars, outputQueue, client
  <2>2. output = "ending" /\ endsSent = 0 /\ endsSent' = 1
    BY <1>2, NotEnded DEF OutputEnd
  <2>3. outputMessages = <<>> /\ thread = "done"
    BY <2>2 DEF ConnInv, NothingLeft, OutputLocked, Control
  <2>4. isStopJobSignaled /\ acks = submitted /\ submitted = endAt
    BY <2>3 DEF ConnInv, JobInv, DrainedAtExit, Ends
  <2>5. endAt # NoEnd
    BY <2>4, Counters DEF NoEnd
  <2> QED
    BY <2>1, <2>2, <2>3, <2>4, <2>5 DEF Session!Next, Session!SendEnd
<1> QED
  BY <1>1, <1>2

\* What the peer sees of a connection is a session: acknowledgements, results and
\* End as OspreySession promises them, whatever other connections and late answers
\* put in between.
THEOREM ConnImplementsSession == Spec => SessionSpec
<1>1. Init => Session!Init
  BY DEF Init, JobInit, Session!Init
<1>2. ConnInv /\ [Next]_vars => [Session!Next]_(Session!session)
  <2> SUFFICES ASSUME ConnInv, [Next]_vars PROVE [Session!Next]_(Session!session)
    OBVIOUS
  <2>1. CASE UNCHANGED vars
    BY <2>1 DEF vars, jobVars, connVars, outputVars, outputQueue, otherVars, client, wire,
                Session!session
  <2>2. CASE UNCHANGED shared
    BY <2>2 DEF shared, Session!session
  <2> QED
    BY <2>1, <2>2, Hidden, PeerSteps, AcknowledgePromised, ResultPromised, OutputPromised
<1> QED
  BY <1>1, <1>2, ConnInvariant, PTL DEF Spec, SessionSpec, Session!Spec
=============================================================================
