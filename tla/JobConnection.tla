--------------------------- MODULE JobConnection ---------------------------
(***************************************************************************)
(* ProcessingUnit::JobConnection, src/job_connection.cpp: one websocket    *)
(* connection with its job.  Four threads work on it:                      *)
(*                                                                         *)
(*   io      the websocket server's thread, which runs OnOpen, OnMessage   *)
(*           and OnClose (JobConnectionManager) one at a time;             *)
(*   input   JobConnection::Input, which feeds the job and, on End, stops  *)
(*           and joins it with the input queue's mutex held;               *)
(*   output  JobConnection::Output, which sends one result per Continue    *)
(*           and End when the job has stopped and no result is left;       *)
(*   thread  Job::Processing (module Job).                                 *)
(*                                                                         *)
(* A mutex is held exactly between two control points of its holder, so    *)
(* InputLocked and OutputLocked say it all and no lock variable is needed. *)
(* A fault (null m_Job, std::terminate, a step on a destroyed object) ends *)
(* the process: it is recorded in "fault" and nothing happens afterwards.  *)
(***************************************************************************)
EXTENDS Job, FiniteSets

CONSTANTS
    MaxQueue,   \* bound: an End message arrives only below this input queue length
    MaxSurplus  \* bound: Continue messages beyond one per Data message sent

ASSUME ConnectionAssumption == MaxQueue \in Nat /\ MaxSurplus \in Nat

VARIABLES
    conn,                    \* the entry of m_Jobs: "absent", "open", ...
    state,                   \* m_Info.state
    jobId,                   \* m_Info.jobId
    inputMessages,           \* m_InputMessages
    isInputQueueEmpty,       \* m_isInputQueueEmpty
    outputMessages,          \* m_OutputMessages
    isOutputQueueEmpty,      \* m_isOutputQueueEmpty
    isContinueMessageRecived,\* m_isContinueMessageRecived
    isJobStoped,             \* m_isJobStoped
    processing,              \* m_Processing
    input, output, io,       \* control points of the three threads
    fault,                   \* how the process died, or "none"
    accepted,                \* history: Data messages pushed
    endAt,                   \* history: value of accepted at the first End pushed
    continues,               \* history: Continue messages handled
    sent,                    \* history: payloads of the Data messages sent
    endsSent                 \* history: number of End messages sent

inputQueue == <<inputMessages, isInputQueueEmpty>>
outputQueue == <<outputMessages, isOutputQueueEmpty>>
flags == <<isContinueMessageRecived, isJobStoped>>
info == <<state, jobId, processing>>
client == <<accepted, endAt, continues>>
wire == <<sent, endsSent>>
inputVars == <<inputQueue, input>>
outputVars == <<outputQueue, flags, output>>
otherVars == <<info, conn, fault, client, wire, io>>
connVars == <<inputVars, outputVars, otherVars>>
vars == <<jobVars, connVars>>

ConnectionState == {"socket_opened", "job_started", "job_started_end_received",
                    "job_work_finished", "job_ended", "error"}

\* The position of a state in the enumeration, for the comparisons of OnMessage.
Rank == [socket_opened |-> 0, job_started |-> 1, job_started_end_received |-> 2,
         job_work_finished |-> 3, job_ended |-> 4, error |-> 5]

Message == [type : {"Data"}, payload : Data] \union [type : {"End"}, payload : {Empty}]
\* Mutant of EndMessage: HandleEndMessage queues a message of the wrong type.
EndAsData == [type |-> "Data", payload |-> Empty]
EndMessage == [type |-> "End", payload |-> Empty]
NoEnd == MaxData + 1

Live == conn \in {"open", "closing"} /\ fault = "none"
InputLocked == input \in {"join", "stopped"}
OutputLocked == output \in {"ending", "ended"}
\* Mutant of Woken: the notification is forgotten.
NotWoken(pc) == pc
\* notify_one on the condition variable that a thread at this control point waits on.
Woken(pc) == IF pc = "asleep" THEN "wait" ELSE pc

Init ==
    /\ JobInit
    /\ conn = "absent" /\ fault = "none"
    /\ state = "socket_opened" /\ jobId = "" /\ processing = FALSE
    /\ inputMessages = <<>> /\ isInputQueueEmpty = TRUE
    /\ outputMessages = <<>> /\ isOutputQueueEmpty = TRUE
    /\ isContinueMessageRecived = TRUE /\ isJobStoped = FALSE
    /\ input = "none" /\ output = "none" /\ io = "idle"
    /\ accepted = 0 /\ endAt = NoEnd /\ continues = 0
    /\ sent = <<>> /\ endsSent = 0

(***************************************************************************)
(* The io thread.                                                          *)
(***************************************************************************)

\* JobConnectionManager::OnOpen and JobConnection::Init.
OnOpen ==
    /\ conn = "absent"
    /\ conn' = "open" /\ state' = "socket_opened" /\ processing' = TRUE
    /\ input' = "loop" /\ output' = "loop"
    /\ UNCHANGED <<jobVars, inputQueue, outputQueue, flags, jobId, fault, client, wire, io>>

\* Mutant of Refused: Data is not checked against the state.
RefusedUnlessData(type) ==
    \/ state = "error"
    \/ type = "Malformed"
    \/ type = "Start" /\ state # "socket_opened"
    \/ type = "End" /\ Rank[state] > Rank["job_ended"]

\* The messages OnMessage answers with an exception: chk_throw, and what
\* MessageReader cannot parse.
Refused(type) ==
    \/ state = "error"
    \/ type = "Malformed"
    \/ type = "Start" /\ state # "socket_opened"
    \/ type = "Data" /\ (Rank[state] <= Rank["socket_opened"] \/ jobId = "")
    \/ type = "End" /\ Rank[state] > Rank["job_ended"]

OnMessage(type) == Live /\ io = "idle" /\ ~Refused(type)

\* VmsAgent's on_message catches the exception and posts a close frame whose
\* completion handler calls OnClose; until then messages are still handled.
OnRefused(type) ==
    /\ Live /\ io = "idle" /\ Refused(type)
    /\ conn' = "closing"
    /\ UNCHANGED <<jobVars, inputVars, outputVars, info, fault, client, wire, io>>

\* HandleStartMessage; an empty job id is accepted.  The job's thread runs, and
\* can be reached by results, before the state changes and Ready is sent.
OnStart(id) ==
    /\ OnMessage("Start")
    /\ Construct
    /\ jobId' = id /\ io' = "starting"
    /\ UNCHANGED <<inputVars, outputVars, state, processing, conn, fault, client, wire>>

SendReady ==
    /\ Live /\ io = "starting"
    /\ state' = "job_started" /\ io' = "idle"
    /\ UNCHANGED <<jobVars, inputVars, outputVars, jobId, processing, conn, fault, client, wire>>

\* Data and End go through HandleMessage, which takes the input queue's mutex.
OnQueued(type) ==
    /\ OnMessage(type)
    /\ \/ type = "Data" /\ accepted < MaxData
       \/ type = "End" /\ Len(inputMessages) < MaxQueue
    /\ io' = type
    /\ UNCHANGED <<jobVars, inputVars, outputVars, info, conn, fault, client, wire>>

HandleMessage ==
    /\ Live /\ io \in {"Data", "End"} /\ ~InputLocked
    /\ io' = "idle"
    /\ isInputQueueEmpty' = FALSE
    /\ input' = Woken(input)
    /\ IF io = "Data"
       THEN /\ accepted' = accepted + 1
            /\ inputMessages' = Append(inputMessages, [type |-> "Data", payload |-> accepted + 1])
            /\ UNCHANGED endAt
       ELSE /\ endAt' = IF endAt = NoEnd THEN accepted ELSE endAt
            /\ inputMessages' = Append(inputMessages, EndMessage)
            /\ UNCHANGED accepted
    /\ UNCHANGED <<jobVars, outputVars, info, conn, fault, continues, wire>>

HandleContinueMessage ==
    /\ OnMessage("Continue") /\ ~OutputLocked
    /\ continues < Len(sent) + MaxSurplus
    /\ continues' = continues + 1
    /\ isContinueMessageRecived' = TRUE
    /\ output' = Woken(output)
    /\ UNCHANGED <<jobVars, inputVars, outputQueue, isJobStoped, info, conn, fault,
                   accepted, endAt, wire, io>>

\* JobConnectionManager::OnClose erases the entry, after the peer closed, a
\* connection error or a refused message: ~JobConnection and the destruction
\* of every member declared after m_Job.
OnClose ==
    /\ Live /\ io = "idle"
    /\ conn' = "destroying" /\ processing' = FALSE
    /\ UNCHANGED <<jobVars, inputVars, outputVars, state, jobId, fault, client, wire, io>>

\* The input thread has returned from m_ProcessThread.join().
Joined == Joinable /\ input \in {"stopped", "done"}

\* ~Job unsubscribes; then m_ProcessThread is destroyed, which calls
\* std::terminate unless the thread was joined.
DestroyJob ==
    /\ conn = "destroying" /\ fault = "none"
    /\ IF thread = "none" \/ Joined
       THEN conn' = "destroyed" /\ UNCHANGED fault
       ELSE fault' = "terminate" /\ UNCHANGED conn
    /\ UNCHANGED <<jobVars, inputVars, outputVars, info, client, wire, io>>

(***************************************************************************)
(* The input thread.                                                       *)
(***************************************************************************)
InputLoop ==
    /\ Live /\ input = "loop"
    /\ input' = IF processing THEN "wait" ELSE "done"
    /\ UNCHANGED <<jobVars, inputQueue, outputVars, otherVars>>

InputSleep ==
    /\ Live /\ input = "wait" /\ isInputQueueEmpty
    /\ input' = "asleep"
    /\ UNCHANGED <<jobVars, inputQueue, outputVars, otherVars>>

\* The wait succeeds and the front message, of this type, is popped.
Pop(type) ==
    /\ Live /\ input = "wait" /\ ~isInputQueueEmpty
    /\ Head(inputMessages).type = type
    /\ inputMessages' = Tail(inputMessages)
    /\ isInputQueueEmpty' = (inputMessages' = <<>>)
    /\ UNCHANGED <<outputVars, info, conn, client, wire, io>>

\* ProcessData: the payload goes to the job before the mutex is released.
InputData ==
    /\ Pop("Data")
    /\ process(Head(inputMessages).payload)
    /\ input' = "loop"
    /\ UNCHANGED fault

\* stopJob: from here to the end of the join the mutex stays locked.
InputEnd ==
    /\ Pop("End")
    /\ stopJob
    /\ input' = "join"
    /\ UNCHANGED fault

\* Before Start m_Job is null; only End gets here, OnMessage refuses Data.
InputWithoutJob ==
    /\ \E type \in {"Data", "End"} : Pop(type)
    /\ thread = "none"
    /\ fault' = "null_job"
    /\ UNCHANGED <<jobVars, input>>

\* Mutant of InputJoined: stopJob does not join the thread.
InputNotJoined ==
    /\ Live /\ input = "join" /\ ~OutputLocked
    /\ isJobStoped' = TRUE
    /\ input' = "stopped"
    /\ UNCHANGED <<jobVars, inputQueue, outputQueue, isContinueMessageRecived, output,
                   otherVars>>

\* join() returns; m_isJobStoped is set under the output queue's mutex.
InputJoined ==
    /\ Live /\ input = "join" /\ Joinable /\ ~OutputLocked
    /\ isJobStoped' = TRUE
    /\ input' = "stopped"
    /\ UNCHANGED <<jobVars, inputQueue, outputQueue, isContinueMessageRecived, output,
                   otherVars>>

\* Mutant of InputExit: no notification of the output thread.
InputExitQuietly ==
    /\ Live /\ input = "stopped"
    /\ input' = "done"
    /\ UNCHANGED <<jobVars, inputQueue, outputVars, otherVars>>

\* Mutant of InputExit: the break is missing.
InputGoesOn ==
    /\ Live /\ input = "stopped"
    /\ input' = "loop"
    /\ output' = Woken(output)
    /\ UNCHANGED <<jobVars, inputQueue, outputQueue, flags, otherVars>>

\* notify_one on the output queue, unlock of the input queue, break.
InputExit ==
    /\ Live /\ input = "stopped"
    /\ input' = "done"
    /\ output' = Woken(output)
    /\ UNCHANGED <<jobVars, inputQueue, outputQueue, flags, otherVars>>

(***************************************************************************)
(* The output thread.                                                      *)
(***************************************************************************)
CanSend == isContinueMessageRecived /\ ~isOutputQueueEmpty
\* Mutant of CanEnd: results still in the queue are forgotten.
EndAtOnce == isJobStoped
CanEnd == isJobStoped /\ isOutputQueueEmpty

OutputLoop ==
    /\ Live /\ output = "loop"
    /\ output' = IF processing THEN "wait" ELSE "done"
    /\ UNCHANGED <<jobVars, inputVars, outputQueue, flags, otherVars>>

OutputSleep ==
    /\ Live /\ output = "wait" /\ ~CanSend /\ ~CanEnd
    /\ output' = "asleep"
    /\ UNCHANGED <<jobVars, inputVars, outputQueue, flags, otherVars>>

\* Mutant of OutputData: the Continue is not used up.
OutputDataFreely ==
    /\ Live /\ output = "wait" /\ CanSend
    /\ sent' = Append(sent, Head(outputMessages))
    /\ outputMessages' = Tail(outputMessages)
    /\ isOutputQueueEmpty' = (outputMessages' = <<>>)
    /\ output' = IF isJobStoped /\ isOutputQueueEmpty' THEN "ending" ELSE "loop"
    /\ UNCHANGED <<jobVars, inputVars, flags, info, conn, fault, client, endsSent, io>>

\* One Data message is sent and the Continue is used up; if that was the last
\* result of a stopped job, End follows under the same lock.
OutputData ==
    /\ Live /\ output = "wait" /\ CanSend
    /\ sent' = Append(sent, Head(outputMessages))
    /\ outputMessages' = Tail(outputMessages)
    /\ isOutputQueueEmpty' = (outputMessages' = <<>>)
    /\ isContinueMessageRecived' = FALSE
    /\ output' = IF isJobStoped /\ isOutputQueueEmpty' THEN "ending" ELSE "loop"
    /\ UNCHANGED <<jobVars, inputVars, isJobStoped, info, conn, fault, client, endsSent, io>>

OutputMustEnd ==
    /\ Live /\ output = "wait" /\ ~CanSend /\ CanEnd
    /\ output' = "ending"
    /\ UNCHANGED <<jobVars, inputVars, outputQueue, flags, otherVars>>

OutputEnd ==
    /\ Live /\ output = "ending"
    /\ endsSent' = endsSent + 1
    /\ output' = "ended"
    /\ UNCHANGED <<jobVars, inputVars, outputQueue, flags, info, conn, fault, client, sent, io>>

\* Mutant of OutputExit: the thread does not leave its loop.
OutputGoesOn ==
    /\ Live /\ output = "ended"
    /\ state' = "job_ended"
    /\ output' = "loop"
    /\ UNCHANGED <<jobVars, inputVars, outputQueue, flags, jobId, processing, conn, fault,
                   client, wire, io>>

\* SetState, m_Processing = false, unlock, break.
OutputExit ==
    /\ Live /\ output = "ended"
    /\ state' = "job_ended" /\ processing' = FALSE
    /\ output' = "done"
    /\ UNCHANGED <<jobVars, inputVars, outputQueue, flags, jobId, conn, fault, client, wire, io>>

(***************************************************************************)
(* The job's thread and its callback, with what they do to the connection. *)
(***************************************************************************)
JobStep ==
    /\ Live
    /\ ProcessingStep
    /\ UNCHANGED connVars

JobThrows ==
    /\ Live
    /\ EndOfJobThrows
    /\ fault' = "uncaught"
    /\ UNCHANGED <<inputVars, outputVars, info, conn, client, wire, io>>

\* Mutant of SendData: the output thread is not notified.
SendDataQuietly(r) ==
    IF r = Empty
    THEN UNCHANGED <<outputQueue, output>>
    ELSE /\ ~OutputLocked
         /\ outputMessages' = Append(outputMessages, r)
         /\ isOutputQueueEmpty' = FALSE
         /\ UNCHANGED output

\* JobConnection::SendData, called by the result callback for a non-empty result.
SendData(r) ==
    IF r = Empty
    THEN UNCHANGED <<outputQueue, output>>
    ELSE /\ ~OutputLocked
         /\ outputMessages' = Append(outputMessages, r)
         /\ isOutputQueueEmpty' = FALSE
         /\ output' = Woken(output)

OnResult(r) ==
    /\ Live
    /\ SendData(r)
    /\ UNCHANGED <<inputVars, flags, otherVars>>

OnOwnResult(d, r) == OnResult(r) /\ OwnResult(d, r)
OnForeignResult(r) == OnResult(r) /\ ForeignResult(r)

(***************************************************************************)
(* What the condition variables and the lifetime allow at any time.        *)
(***************************************************************************)
Spurious ==
    /\ fault = "none"
    /\ \/ input = "asleep" /\ input' = "wait" /\ UNCHANGED <<jobVars, output>>
       \/ output = "asleep" /\ output' = "wait" /\ UNCHANGED <<jobVars, input>>
       \/ SpuriousWakeup /\ UNCHANGED <<input, output>>
    /\ UNCHANGED <<inputQueue, outputQueue, flags, otherVars>>

\* A thread that still has a step to take on the connection, or sleeps on one of
\* its condition variables while they are destroyed, or a result that would be
\* written to it, once its members are gone.
TouchesConnection ==
    \/ conn = "destroying" /\ "asleep" \in {input, output}
    \/ input \in {"loop", "wait", "stopped"}
    \/ input = "join" /\ Joinable
    \/ output \in {"loop", "wait", "ending", "ended"}
    \/ conn = "destroying" /\ Subscribed /\ (processor # {} \/ foreign < MaxForeign)

UseAfterDestroy ==
    /\ conn \in {"destroying", "destroyed"} /\ fault = "none"
    /\ TouchesConnection
    /\ fault' = "use_after_destroy"
    /\ UNCHANGED <<jobVars, inputVars, outputVars, info, conn, client, wire, io>>

(***************************************************************************)
(* The specification.                                                      *)
(***************************************************************************)
IoStep ==
    \/ OnOpen
    \/ \E type \in {"Start", "Data", "End", "Malformed"} : OnRefused(type)
    \/ \E id \in {"", "job"} : OnStart(id)
    \/ SendReady
    \/ \E type \in {"Data", "End"} : OnQueued(type)
    \/ HandleMessage
    \/ HandleContinueMessage
    \/ OnClose
    \/ DestroyJob

InputStep ==
    \/ InputLoop \/ InputSleep \/ InputData \/ InputEnd \/ InputWithoutJob
    \/ InputJoined \/ InputExit

OutputStep ==
    \/ OutputLoop \/ OutputSleep \/ OutputData \/ OutputMustEnd \/ OutputEnd \/ OutputExit

ResultStep == \E d \in processor : \E r \in {d, Empty} : OnOwnResult(d, r)

Next ==
    \/ IoStep
    \/ InputStep
    \/ OutputStep
    \/ JobStep \/ JobThrows
    \/ ResultStep
    \/ \E r \in {Foreign, Empty} : OnForeignResult(r)
    \/ Spurious
    \/ UseAfterDestroy

Spec == Init /\ [][Next]_vars

\* Threads are scheduled, the processor answers what it was given, and the peer
\* answers each Data message with a Continue; that it ends or closes is not assumed.
Fairness ==
    /\ WF_vars(InputStep) /\ WF_vars(OutputStep) /\ WF_vars(JobStep)
    /\ WF_vars(ResultStep) /\ WF_vars(SendReady) /\ WF_vars(HandleMessage)
    /\ WF_vars(HandleContinueMessage /\ ~isContinueMessageRecived)

FairSpec == Spec /\ Fairness

(***************************************************************************)
(* Properties.                                                             *)
(***************************************************************************)
InputTypes ==
    /\ inputMessages \in Seq(Message) /\ isInputQueueEmpty \in BOOLEAN
    /\ input \in {"none", "loop", "wait", "asleep", "join", "stopped", "done"}

OutputTypes ==
    /\ outputMessages \in Seq(Payload) /\ isOutputQueueEmpty \in BOOLEAN
    /\ isContinueMessageRecived \in BOOLEAN /\ isJobStoped \in BOOLEAN
    /\ output \in {"none", "loop", "wait", "asleep", "ending", "ended", "done"}

OtherTypes ==
    /\ conn \in {"absent", "open", "closing", "destroying", "destroyed"}
    /\ fault \in {"none", "null_job", "terminate", "uncaught", "use_after_destroy"}
    /\ state \in ConnectionState /\ jobId \in {"", "job"} /\ processing \in BOOLEAN
    /\ io \in {"idle", "starting", "Data", "End"}

HistoryTypes ==
    /\ accepted \in 0..MaxData /\ endAt \in 0..NoEnd /\ continues \in Nat
    /\ sent \in Seq(Payload) /\ endsSent \in Nat

TypeOK == JobTypeOK /\ InputTypes /\ OutputTypes /\ OtherTypes /\ HistoryTypes

\* Neither thread sleeps on a message it could handle, and neither takes the
\* front of an empty queue: the cached emptiness flags never lag the queues.
NoMissedMessage ==
    /\ input = "asleep" => inputMessages = <<>>
    /\ input = "wait" /\ ~isInputQueueEmpty => inputMessages # <<>>
    /\ output = "asleep" =>
          /\ ~(isContinueMessageRecived /\ outputMessages # <<>>)
          /\ isJobStoped /\ outputMessages = <<>> => input = "stopped"
    /\ output = "wait" /\ CanSend => outputMessages # <<>>

\* When End goes out, every Data message that preceded the peer's End has been
\* acknowledged with a Continue, nothing is left with the processor, and every
\* result has been sent, in the order it was written.
EndIsComplete ==
    Undisturbed /\ endsSent > 0 =>
        /\ acks = endAt /\ submitted = endAt
        /\ processor = {}
        /\ sent = written

\* No Continue and no Data precede Ready, which is sent as the state leaves
\* socket_opened - as long as no other connection's result arrives.  (End may:
\* an End that came before Start can be answered while Start is being handled.)
ReadyFirst ==
    MaxForeign = 0 /\ state = "socket_opened" => acks = 0 /\ sent = <<>>

\* A Data message is sent only on an unused Continue of the peer, the first
\* one being implied by m_isContinueMessageRecived's initial value.
FlowControl == Len(sent) <= continues + 1

\* A connection closed after its input and output threads have left is
\* destroyed without a fault: the join precedes End on every path.
QuietCloseIsSafe ==
    Undisturbed /\ conn \in {"destroying", "destroyed"}
        /\ input = "done" /\ output = "done" => fault = "none"

\* End is the last message of the session: no Continue and no Data follow it,
\* foreign results included.
EndIsLast == [][endsSent > 0 => UNCHANGED <<acks, sent, endsSent>>]_vars

\* A connection keeps what module OspreySession promises the peer, the stronger
\* promise when it is undisturbed; the results not sent yet are those in
\* m_OutputMessages.
Session == INSTANCE OspreySession
             WITH outbox <- outputMessages, Alone <- Undisturbed, Stranger <- Foreign
SessionSpec == Session!Spec

\* Every thread is blocked, and the processor has answered what it was given.
Resting ==
    /\ io = "idle" \/ (io # "starting" /\ InputLocked)
    /\ input \in {"none", "asleep", "done"} \/ (input = "join" /\ (~Joinable \/ OutputLocked))
    /\ output \in {"none", "asleep", "done"}
    /\ thread \in {"none", "asleep", "vaAsleep", "done"}
    /\ processor = {}

\* The four threads never wait for each other: when all are blocked, no message is
\* being handled, every Data up to the peer's End is acknowledged, and a result or
\* End is only kept back for want of a Continue.
RestingOwesNothing ==
    Live /\ Resting =>
        /\ io = "idle"
        /\ acks = IF endAt = NoEnd THEN accepted ELSE endAt
        /\ isContinueMessageRecived /\ endsSent = 0 => outputMessages = <<>> /\ endAt = NoEnd

\* An upper bound for the steps the threads and the processor can still take: those
\* from each control point to where the thread blocks (a stopped job with nothing left
\* goes through its loop once more), and those each message, payload and result needs.
JobSteps == [none |-> 0, subscribe |-> 5, loop |-> 4, wait |-> 3, read |-> 2, asleep |-> 1,
             continue |-> 13, notify |-> 12, va |-> 6, vaAsleep |-> 5, final |-> 1,
             done |-> 0, uncaught |-> 0]
InputSteps == [none |-> 0, loop |-> 3, wait |-> 2, asleep |-> 1, join |-> 4, stopped |-> 3,
               done |-> 0]
OutputSteps == [none |-> 0, loop |-> 6, wait |-> 5, asleep |-> 4, ending |-> 2, ended |-> 1,
                done |-> 0]
LastRound ==
    IF isStopJobSignaled /\ inputData = <<>> /\ thread \in {"wait", "read"} THEN 3 ELSE 0

JobWork ==
    JobSteps[thread] + LastRound + 12 * Len(inputData) + 5 * Cardinality(processor)
InputWork == InputSteps[input] + 16 * Len(inputMessages)
OutputWork == OutputSteps[output] + 2 * Len(outputMessages)
Work == JobWork + InputWork + OutputWork

\* No thread spins: whatever the unlocked loop conditions and the cached flags say,
\* each step a thread or the processor takes leaves fewer to take, until a message,
\* a result not asked for or a spurious wakeup brings new work.
WorkRunsOut ==
    [][InputStep \/ OutputStep \/ JobStep \/ JobThrows \/ ResultStep => Work' < Work]_vars

\* An accepted End is answered with End, whatever arrives after it, as long as
\* the connection stays up.
EndAnswered == endAt # NoEnd ~> endsSent > 0 \/ ~Live

\* Each Data message accepted before End is acknowledged with a Continue.
DataAcknowledged ==
    \A k \in Data : accepted >= k /\ k <= endAt ~> acks >= k \/ ~Live

\* The io thread, which serves every connection, is never stuck for good on the
\* input queue's mutex held across the join.
IoReleased == io # "idle" ~> io = "idle" \/ ~Live

(***************************************************************************)
(* What the documentation says and the code does not keep.                 *)
(***************************************************************************)

\* "we simply made sure nothing crashes when wrong data is given"
\* (osprey_ws_protocol.hpp:24): an End before Start does not dereference m_Job.
WrongDataNeverCrashes == fault # "null_job"

\* "Do not stop the server since we want to run as a real server now"
\* (vms_agent.cpp:137): a connection closed with its job running leaves the
\* process alive.
ServerSurvivesClose == fault # "terminate"

\* "Continue ... this tells the processor it's ok to send end or more data"
\* (osprey_ws_protocol.hpp:19): End waits for the Continue of the last Data.
EndOnlyAfterContinue == endsSent > 0 => continues >= Len(sent)
=============================================================================
